----------------------------- MODULE MCBoxScan -----------------------------
(* Instances of BoxScan for TLC. *)
EXTENDS BoxScan, TLC

OffConfig == [k \in Key |-> "off"]

Symmetric == Permutations(Thread) \cup Permutations(Code)
=============================================================================
