------------------------------ MODULE RestCall ------------------------------
(***************************************************************************)
(* What one call of BinanceClient.request promises its caller about the    *)
(* exchange, without attempts, backoff, timestamps or signatures: what an  *)
(* answer says about how often the exchange has executed the request.      *)
(***************************************************************************)
EXTENDS Naturals

CONSTANT Limit      \* the most often a request may be sent

VARIABLES
    executed,       \* how often the exchange executed the request
    lossy,          \* an attempt ended without a usable answer
    outcome         \* "none" before the first call, "running", "ok", "error"

rest == <<executed, lossy, outcome>>

Init ==
    /\ executed = 0
    /\ lossy = FALSE
    /\ outcome = "none"

Begin ==
    /\ outcome # "running"
    /\ outcome' = "running"
    /\ executed' = 0
    /\ lossy' = FALSE

\* The exchange executes the request.  It meets the request again only after
\* an attempt whose answer was of no use.
Execute ==
    /\ outcome = "running"
    /\ executed < Limit
    /\ executed > 0 => lossy
    /\ executed' = executed + 1
    /\ lossy' \in {lossy, TRUE}
    /\ UNCHANGED outcome

Lose ==
    /\ outcome = "running"
    /\ lossy' = TRUE
    /\ UNCHANGED <<executed, outcome>>

\* A success is real.
Succeed ==
    /\ outcome = "running"
    /\ executed > 0
    /\ outcome' = "ok"
    /\ UNCHANGED <<executed, lossy>>

\* A failure hides an execution only when an answer was lost on the way.
Fail ==
    /\ outcome = "running"
    /\ executed > 0 => lossy
    /\ outcome' = "error"
    /\ UNCHANGED <<executed, lossy>>

Next == Begin \/ Execute \/ Lose \/ Succeed \/ Fail

Spec == Init /\ [][Next]_rest
=============================================================================
