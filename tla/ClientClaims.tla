---------------------------- MODULE ClientClaims ----------------------------
(***************************************************************************)
(* What the documentation of the repository says of the access to the      *)
(* exchange and BinanceClient does not do.                                 *)
(***************************************************************************)
EXTENDS BinanceClient

\* BINANCE.md:8: positionSide is used when the account is dual-side.  One
\* failed probe is cached as one-way for the life of the process.
HedgeAware == pc = "send" /\ Kind = "order" => (hedge = "dual") = DualSide
=============================================================================
