-------------------------- MODULE MCBinanceClient --------------------------
(* Instances of BinanceClient for TLC. *)
EXTENDS ClientClaims

\* BACKOFF_BASE_SEC * 2 ** attempt
DoublingBackoff == [n \in 0 .. MaxRetries |-> 2 ^ n]
=============================================================================
