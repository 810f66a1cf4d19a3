----------------------------- MODULE MCServerImport -----------------------------
(* Five bundles.  The first has two relationships whose endpoints run      *)
(* together alike, a + bc and ab + c, one that is deleted with the reverse *)
(* of another, b + ca by bc + a, and one that meets nobody.  The second    *)
(* has a relationship under the same id as two of these, and a chunk with  *)
(* the basename of the first's.  Of the third one text is another's once   *)
(* cleaned.  Of the fourth one text is another's once cleaned and that is  *)
(* cleaned further, and one has no vector.  The fifth lacks the chunk of   *)
(* an entity.  None of the last three is admitted to the database.         *)
EXTENDS DeploymentImport
MCItem == {"k", "k2", "k3", "k4", "ea", "ra", "rb", "rc", "rd", "re"}
MCName == {"a", "b", "c", "ab", "bc", "ca"}
MCText == {"k", "k~", "k~~", "k3", "k3~", "ea", "ra", "rb", "rc", "rd", "rd~", "re"}
MCItemsIn == <<<< <<"k">>, <<"ea">>, <<"rb", "rc", "ra", "re">> >>,
               << <<"k3">>, <<>>, <<"rd">> >>,
               << <<"k3", "k2">>, <<>>, <<>> >>,
               << <<"k", "k3", "k4">>, <<>>, <<>> >>,
               << <<"k3">>, <<"ea">>, <<>> >>>>
MCSourceOf ==
  [i \in MCItem |-> CASE i \in {"k2", "k4"} -> i [] i \in {"k3", "rd"} -> "k3"
                      [] OTHER -> "k"]
MCNames == [i \in MCItem |-> CASE i = "ea" -> {"a"} [] i = "ra" -> {"a", "bc"}
                                [] i = "rb" -> {"b", "ca"} [] i \in {"rc", "rd"} -> {"ab", "c"}
                                [] i = "re" -> {"a", "c"} [] OTHER -> {}]
MCCleanName == [n \in MCName |-> n]
MCRaw == [i \in MCItem |-> CASE i = "k" -> "k~~" [] i = "k2" -> "k3~" [] i = "k4" -> "k~"
                              [] i = "rd" -> "rd~" [] OTHER -> i]
MCClean == [i \in MCItem |-> CASE i = "k" -> "k~" [] i = "k4" -> "k" [] i = "k2" -> "k3" [] OTHER -> i]
MCVectors == <<{"k~~", "ea", "ra", "rb", "rc", "re"}, {"k3", "rd~"}, {"k3", "k3~"},
               {"k~~", "k~"}, {"k3"}>>
MCCanon == [p \in Pairs |-> CASE p \in {{"a", "bc"}, {"ab", "c"}} -> "abc"
                              [] p = {"b", "ca"} -> "bca" [] OTHER -> "ac"]
MCBack == [p \in Pairs |-> CASE p = {"a", "bc"} -> "bca" [] p = {"a", "c"} -> "ca"
                             [] p \in {{"ab", "c"}, {"b", "ca"}} -> "cab" [] OTHER -> Null]
MCBookOf == [i \in MCItem |-> "A"]
MCCatalogued == <<{"A"}, {"A"}, {}, {}, {}>>
MCMapped == <<{"k"}, {"k3"}, {}, {}, {}>>
MCBasenameOf == [i \in MCItem |-> "n"]
=============================================================================
