--------------------------- MODULE MCCatalogVersions ---------------------------
(***************************************************************************)
(* Five sources for one writer: two copies of one file and two of another, *)
(* of which each DOI names one of either, and a richer file with the       *)
(* second DOI.                                                             *)
(***************************************************************************)
EXTENDS SourceCatalog

LOCAL Record(sha, doi, fields) ==
  [sha |-> sha, doi |-> doi, fields |-> fields, blank |-> {}]

MCIncoming ==
  <<{Record(1, 1, {})}, {Record(1, 2, {})}, {Record(2, 1, {})}, {Record(2, 2, {})},
    {Record(3, 2, {"abstract"})}>>
===============================================================================
