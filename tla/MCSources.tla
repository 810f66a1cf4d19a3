------------------------------- MODULE MCSources -------------------------------
(* Values of the constants of SourceCatalog and of SourceBody for TLC: the *)
(* catalogue with three sources that may share a digest or a DOI, get      *)
(* richer, and change either; and two calls for the body of one file.       *)
(* The two parts never touch each other's state: a behaviour is one of     *)
(* either.                                                                 *)
EXTENDS SourceCatalog, SourceBody, TLC

CONSTANTS w1, w2, c1, c2

VARIABLE part   \* which of the two this behaviour is of

LOCAL Record(sha, doi, fields) ==
  [sha |-> sha, doi |-> doi, fields |-> fields, blank |-> {}]
LOCAL BlankRecord(sha, doi, keys) == [sha |-> sha, doi |-> doi, fields |-> {}, blank |-> keys]

MCIncoming ==
     1 :> {Record(1, Nil, {"abstract", "authors"}), BlankRecord(Nil, 2, {"authors"})}
  @@ 2 :> {Record(1, 1, {}), Record(2, 1, {"abstract"}), Record(Nil, 2, {})}
  @@ 3 :> {Record(2, 1, {}), Record(Nil, 2, {"authors"})}

Alike == Permutations(Writer) \cup Permutations(Call)

(* A file that is replaced by one of its size, which then grows.           *)
MCSize == <<<<1, 1, 2>>>>

LOCAL Text(length, measured, scientific) ==
  [length |-> length, measured |-> measured, scientific |-> scientific]
LOCAL Line(kind, text, level) == [kind |-> kind, text |-> text, level |-> level, page |-> 0]

MCAbout ==
     "plain" :> Text(50, FALSE, FALSE)   @@ "measured" :> Text(50, TRUE, FALSE)
  @@ "scientific" :> Text(50, FALSE, TRUE) @@ "both" :> Text(50, TRUE, TRUE)
  @@ "title" :> Text(5, FALSE, FALSE)    @@ "method" :> Text(15, FALSE, FALSE)

(* Headings that skip a level, a text that is repeated and one in a page   *)
(* header, a table that nearly ties with a text, and nothing to read.      *)
MCDocument == {
  <<Line("title", "title", 1), Line("text", "method", 3), Line("text", "plain", 0),
    Line("title", "scientific", 2), Line("table", "measured", 0)>>,
  <<Line("text", "measured", 0), Line("header", "both", 0), Line("text", "measured", 0),
    Line("text", "", 1), Line("text", "scientific", 0), Line("text", "plain", 0)>>,
  <<Line("text", "scientific", 0), Line("text", "title", 1), Line("table", "plain", 0)>>,
  <<Line("image", "", 0)>>}

SourcesInit == part \in {"catalog", "body"} /\ Init /\ BodyInit
CatalogStep == part = "catalog" /\ Next /\ UNCHANGED <<part, bodyVars>>
BodyStep == part = "body" /\ BodyNext /\ UNCHANGED <<part, vars>>

(* Directories that a sweep does not recognise fill the derived data to    *)
(* its target, and no source begins any more until somebody removes them.  *)
Stuffed ==
  /\ part = "body" /\ \A c \in Call : call[c].at = "idle"
  /\ ~BodyAllowed /\ \A id \in DOMAIN disk : ~disk[id].manifest
  /\ UNCHANGED <<part, vars, bodyVars>>

SourcesNext == CatalogStep \/ BodyStep \/ Stuffed
SourcesSpec == SourcesInit /\ [][SourcesNext]_<<part, vars, bodyVars>>
===============================================================================
