-------------------------- MODULE MCSignalExecution --------------------------
(* Instances of SignalExecution for TLC. *)
EXTENDS SignalClaims, TLC

CONSTANTS a, b, c, o1, o2, o3

\* Two legs of an OCO pair: a may enter at market through a gap, b may not.
PairKind == a :> "STOP_LIMIT" @@ b :> "STOP_LIMIT"
PairSide == a :> "LONG" @@ b :> "SHORT"
PairAction == a :> "open" @@ b :> "open"
PairPeer == a :> b @@ b :> a
PairBatch == {<<a, b>>}

\* One desk: a limit entry, a market entry that adds to the position and a
\* close, all on one side.
DeskKind == a :> "LIMIT" @@ b :> "MARKET" @@ c :> "MARKET"
DeskSide == a :> "LONG" @@ b :> "LONG" @@ c :> "LONG"
DeskAction == a :> "open" @@ b :> "rolling" @@ c :> "close"
DeskPeer == a :> NoSignal @@ b :> NoSignal @@ c :> NoSignal
DeskBatch == {<<a>>, <<b>>, <<c>>}

LoneSide == a :> "LONG"
LoneAction == a :> "open"
LonePeer == a :> NoSignal
Lone == {<<a>>}
StopKind == a :> "STOP_LIMIT"

\* Two pending entries of different kinds, the one the other's peer, and a
\* rolling one.
PendingKind == a :> "STOP_LIMIT" @@ b :> "LIMIT" @@ c :> "STOP_LIMIT"
PendingSide == a :> "LONG" @@ b :> "SHORT" @@ c :> "LONG"
PendingAction == a :> "open" @@ b :> "open" @@ c :> "rolling"
PendingPeer == a :> b @@ b :> a @@ c :> NoSignal
PendingBatch == {<<a, b, c>>}
=============================================================================
