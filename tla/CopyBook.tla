------------------------------ MODULE CopyBook ------------------------------
(***************************************************************************)
(* What the paper copy promises of its seats: a fill of the leader is      *)
(* settled once, copied or passed over, and only a mirror of the leader's  *)
(* positions or a reset changes a seat besides.  Whatever feeds the book,  *)
(* buffers its fills, restarts it or fails to save it, is left out.        *)
(***************************************************************************)
EXTENDS Naturals

CONSTANTS
    Seat,
    Fill,
    Meant       \* Meant[b]: the fills of the leader that seat b follows

VARIABLES
    held,       \* held[b][f]: how often f went into the position of b
    done,       \* done[b]: fills settled for b since its reset
    lent,       \* lent[b]: fills the last mirror brought into b
    forgotten   \* fills the book no longer knows it has settled

vars == <<held, done, lent, forgotten>>

None == [f \in Fill |-> 0]

Init ==
    /\ held = [b \in Seat |-> None]
    /\ done = [b \in Seat |-> {}]
    /\ lent = [b \in Seat |-> {}]
    /\ forgotten = {}

\* Fills that are still to be settled for b, or are forgotten.
Open(b) == {f \in Meant[b] : f \notin done[b] \/ f \in forgotten}

OnceMore(n) == IF n < 2 THEN n + 1 ELSE 2

\* Some seats settle a slice each, of one fill or more; those of `takers` copy it.
Settle ==
    /\ UNCHANGED lent
    /\ forgotten \subseteq forgotten'
    /\ forgotten' \subseteq Fill
    /\ \E slices \in [Seat -> SUBSET Fill] :
        /\ \A b \in Seat : slices[b] \subseteq Open(b)
        /\ done' = [b \in Seat |-> done[b] \cup slices[b]]
        /\ \E takers \in SUBSET Seat :
            held' = [b \in Seat |-> [f \in Fill |->
                IF b \in takers /\ f \in slices[b] THEN OnceMore(held[b][f]) ELSE held[b][f]]]

\* The leader's positions replace those of a seat.
Mirror(b) ==
    \E fills \in SUBSET Meant[b] :
        /\ held' = [held EXCEPT ![b] = [f \in Fill |-> IF f \in fills THEN 1 ELSE 0]]
        /\ lent' = [lent EXCEPT ![b] = fills]
        /\ UNCHANGED <<done, forgotten>>

\* A reset of some seats; one of all seats starts a new book.
Empty(which) ==
    /\ held' = [b \in Seat |-> IF b \in which THEN None ELSE held[b]]
    /\ done' = [b \in Seat |-> IF b \in which THEN {} ELSE done[b]]
    /\ lent' = [b \in Seat |-> IF b \in which THEN {} ELSE lent[b]]
    /\ \/ forgotten' = forgotten
       \/ which = Seat /\ forgotten' = {}

Next ==
    \/ Settle
    \/ \E b \in Seat : Mirror(b)
    \/ \E which \in SUBSET Seat : Empty(which)

Spec == Init /\ [][Next]_vars
=============================================================================
