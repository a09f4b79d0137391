---------------------------- MODULE SignalClaims ----------------------------
(***************************************************************************)
(* What the documentation and the docstrings of the repository say of the  *)
(* signal path and SignalExecution does not do.                            *)
(***************************************************************************)
EXTENDS SignalExecution

\* router.py:171, guards.py:4: a source+api_signal_id is not processed twice
\* and a retry never orders twice.  A cancel that comes too late answers like
\* a cancel that worked, so the retry of a cancelled row can open next to a
\* filled entry of the same signal.
NoDoubleOpen ==
    \A s \in Signal : \A o, p \in Order :
        /\ own[o] = s /\ lot[o] > 0
        /\ own[p] = s /\ lot[p] > 0
        => o = p
=============================================================================
