---------------------------- MODULE MCFactExtraction ----------------------------
(***************************************************************************)
(* Bounds for TLC: two workers, two contents, two batches, one code of     *)
(* each kind.  Attempts are bounded by the program itself: three is the    *)
(* default of FactExtractionPolicy.                                        *)
(***************************************************************************)
EXTENDS FactExtraction

CONSTANTS w1, w2, c1, c2

(* Both workers run one policy.                                            *)
SameLimit == [w \in Worker |-> 3]

(* A checkpoint left in its first wait by another store.                   *)
Waiting == [content |-> c1, status |-> "retry_wait", attempts |-> 1,
            batch |-> Nil, code |-> "extraction.provider_unavailable"]
HandedOver == {Waiting}
===============================================================================
