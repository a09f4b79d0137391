-------------------------- MODULE SignalLifecycle --------------------------
(***************************************************************************)
(* What the ingest path promises about the life of a signal, without the   *)
(* exchange, the reconcile pass or the order of calls: signals execute one *)
(* at a time, a signal that traded is never touched again, and one that is *)
(* pending at the exchange is only ever resolved.                          *)
(*                                                                         *)
(* Three things weaken the promise.  A process that dies leaves its signal *)
(* `received`.  A pass that works from a list it has read earlier may      *)
(* still resolve a leg whose OCO peer has just cancelled it.  And the log  *)
(* forgets signals while none executes, traded and pending ones included:  *)
(* what was forgotten is new again.                                        *)
(***************************************************************************)
CONSTANTS Signal, NoSignal

VARIABLES
    status,     \* status[s]: what the log says of signal s
    running     \* the signal that executes, or NoSignal

lifecycle == <<status, running>>

Init ==
    /\ status = [s \in Signal |-> "absent"]
    /\ running = NoSignal

\* A signal is new, or a retry of one that failed or was cancelled.
Accept(s) ==
    /\ running = NoSignal
    /\ status[s] \in {"absent", "error", "cancelled"}
    /\ status' = [status EXCEPT ![s] = "received"]
    /\ running' = s

\* The running signal ends.
Finish(outcome) ==
    /\ running # NoSignal
    /\ status[running] = "received"
    /\ status' = [status EXCEPT ![running] = outcome]
    /\ running' = NoSignal

\* A pending signal is resolved, whatever else runs.
Resolve(s, outcome) ==
    /\ status[s] \in {"submitted", "cancelled"}
    /\ status' = [status EXCEPT ![s] = outcome]
    /\ UNCHANGED running

Forget(old) ==
    /\ running = NoSignal
    /\ status' = [s \in Signal |-> IF s \in old THEN "absent" ELSE status[s]]
    /\ UNCHANGED running

Die ==
    /\ running' = NoSignal
    /\ UNCHANGED status

Next ==
    \/ \E s \in Signal : Accept(s)
    \/ \E outcome \in {"traded", "submitted", "error"} : Finish(outcome)
    \/ \E s \in Signal, outcome \in {"traded", "error", "cancelled"} :
        Resolve(s, outcome)
    \/ \E old \in SUBSET Signal : Forget(old)
    \/ Die

Spec == Init /\ [][Next]_lifecycle
=============================================================================
