---------------------------- MODULE MCMetadataCursor ----------------------------
(* Values of the constants of MetadataCursor for TLC: two versions in each *)
(* format, of one size as JSONL and of two sizes as CSV, where the second  *)
(* has a line that cannot be parsed.                                       *)
EXTENDS MetadataCursor, TLC

CONSTANTS w1, w2

MCManifest ==
     "jsonl" :> <<<<"record", "blank", "record">>, <<"record", "record", "record">>>>
  @@ "csv" :> <<<<"header", "record", "record">>, <<"header", "record", "bad", "record">>>>

MCMtime == <<1, 2>>
===============================================================================
