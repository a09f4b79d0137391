--------------------------- MODULE ExposureProofs ---------------------------
(***************************************************************************)
(* No order of SignalExecution is ever forgotten without a named cause.    *)
(***************************************************************************)
EXTENDS SignalExecutionProofs

\* The handler is about to protect o, or to give it up.
Busy(o) ==
    /\ pc \in {"check", "sl", "tp", "sweep", "eclose"}
    /\ att.ord = o

Caused(o) == why[o] # "none"

\* Stronger than ExposureHasCause for a working order: a close that holds the
\* lot of an order in its hands does not answer for the order itself.
Watched ==
    /\ \A o \in Order : live[o] => Tracked(o) \/ Busy(o) \/ Caused(o)
    /\ \A o \in Order : Naked(o) => Tracked(o) \/ Held(o) \/ Caused(o)
    /\ InProtect /\ att.sig # cur => ord[att.sig] = att.ord

EInv == IInv /\ Watched

LEMMA BlameCauses ==
    ASSUME TypeOK, NEW orders \in SUBSET Order, NEW cause \in Cause \ {"none"},
           Blame(orders, cause)
    PROVE  /\ \A o \in Order : Caused(o) => Caused(o)'
           /\ \A o \in orders : Caused(o)'
BY DEF TypeOK, Blame, Caused

LEMMA BlameBothCauses ==
    ASSUME TypeOK, NEW orders \in SUBSET Order, NEW cause \in Cause \ {"none"},
           NEW others \in SUBSET Order, NEW otherwise \in Cause \ {"none"},
           BlameBoth(orders, cause, others, otherwise)
    PROVE  /\ \A o \in Order : Caused(o) => Caused(o)'
           /\ \A o \in orders \cup others : Caused(o)'
BY DEF TypeOK, BlameBoth, Caused

\* What is exposed is in the market.
LEMMA ExposedInMarket ==
    ASSUME NEW o, sl[o] \in Nat, lot[o] \in Nat, live[o] \/ Naked(o)
    PROVE  InMarket(o)
BY DEF Naked, InMarket

\* The rows and the account are as before, and the handler holds no less.
LEMMA SameWatch ==
    ASSUME Watched, UNCHANGED <<exchange, row, ord, why>>,
           \A o \in Order : Busy(o) => Busy(o)',
           \A o \in Order : Held(o) => Held(o)',
           InProtect' /\ (att.sig)' # cur' => ord[(att.sig)'] = (att.ord)'
    PROVE  Watched'
BY DEF Watched, Tracked, Pending, Submitted, Caused, Naked, exchange

LEMMA InitWatched == Init => Watched
BY DEF Init, ExchangeInit, Watched, Naked, InProtect

LEMMA GuardWatched == EInv /\ Guard => Watched'
<1> SUFFICES ASSUME EInv, Guard PROVE Watched'
  OBVIOUS
<1> USE DEF EInv, IInv, TypeOK
<1>1. CASE GuardAccepts
  <2>1. Head(batch) \in Signal
    BY <1>1, HeadTailProperties DEF GuardAccepts
  <2> QED
    BY <1>1, <2>1 DEF GuardAccepts, Retryable, Watched, Tracked, Pending, Submitted, Busy, Held, Caused, Naked,
                      InProtect, exchange, focus
<1>2. CASE GuardSkips
  BY <1>2, SameWatch DEF GuardSkips, Busy, Held, InProtect, database, focus
<1>3. CASE BatchDone
  BY <1>3, SameWatch DEF BatchDone, Busy, Held, InProtect, database, focus
<1> QED
  BY <1>1, <1>2, <1>3 DEF Guard

\* The order of a cancelled row has a cause if it is not gone.
LEMMA CancelEntryOrderCauses ==
    ASSUME EInv, NEW s \in Signal, Resolvable(s), ord[s] \in Order, CancelEntryOrder(s)
    PROVE  /\ \A o \in Order : Caused(o) => Caused(o)'
           /\ \A o \in Order : live'[o] => live[o]
           /\ \A o \in Order : Naked(o)' => Naked(o)
           /\ \A o \in Order : Tracked(o) /\ (live'[o] \/ Naked(o)')
                               => Tracked(o)' \/ Caused(o)'
<1> DEFINE left == {o \in Order : o = ord[s] /\ InMarket(o)'}
<1>1. TypeOK /\ row' = [row EXCEPT ![s] = "cancelled"] /\ ord' = ord
      /\ Blame(left, "cancelled_row") /\ left \in SUBSET Order
  BY DEF EInv, IInv, CancelEntryOrder
<1>2. /\ \A o \in Order : Caused(o) => Caused(o)'
      /\ \A o \in left : Caused(o)'
  <2> HIDE DEF left
  <2> QED
    BY <1>1, BlameCauses DEF Cause
<1>3. /\ \A o \in Order : live'[o] => live[o]
      /\ lot' = lot /\ sl' = sl
  BY <1>1 DEF CancelEntryOrder, TakeOff, exchange, TypeOK, ExchangeTypeOK
<1>4. ASSUME NEW o \in Order, Tracked(o), live'[o] \/ Naked(o)'
      PROVE  Tracked(o)' \/ Caused(o)'
  <2>1. CASE o = ord[s]
    <3>1. lot'[o] \in Nat /\ sl'[o] \in Nat
      BY <1>1, <1>3, ExchangeAssumption DEF TypeOK, ExchangeTypeOK, Qty
    <3>2. InMarket(o)'
      BY <1>4, <3>1 DEF InMarket, Naked
    <3> QED
      BY <1>2, <2>1, <3>2
  <2>2. CASE o # ord[s]
    BY <1>1, <1>4, <2>2 DEF Tracked, Pending, Submitted, TypeOK
  <2> QED
    BY <2>1, <2>2
<1> QED
  BY <1>2, <1>3, <1>4 DEF Naked

LEMMA ScanWatched == EInv /\ Scan => Watched'
<1> SUFFICES ASSUME EInv, Scan PROVE Watched'
  OBVIOUS
<1> USE DEF EInv, IInv, TypeOK
<1>1. ASSUME NEW s \in Signal, ScanKeep(s) PROVE Watched'
  BY <1>1, SameWatch
     DEF ScanKeep, NextRow, Busy, Held, InProtect, database, request, focus
<1>2. ASSUME NEW s \in Signal, ScanFilled(s) PROVE Watched'
  BY <1>2, SameWatch
     DEF ScanFilled, NextRow, Busy, Held, InProtect, database, request, bounds
<1>3. ASSUME NEW s \in Signal, ScanBreaks(s) PROVE Watched'
  <2>1. UNCHANGED <<exchange, ord, why, focus>> /\ pc = "scan" /\ pc' \in {"idle", "guard"}
    BY <1>3 DEF ScanBreaks, NextRow
  <2>2. \A o \in Order : Tracked(o) => Tracked(o)'
    <3>1. CASE cur = NoSignal
      BY <1>3, <3>1 DEF ScanBreaks, Tracked, Pending, Submitted
    <3>2. CASE cur # NoSignal
      BY <1>3, <3>2 DEF ScanBreaks, Tracked, Pending, Submitted, Runs
    <3> QED
      BY <3>1, <3>2
  <2> QED
    BY <2>1, <2>2 DEF Watched, Busy, Held, Caused, Naked, InProtect, exchange, focus
<1>4. ASSUME NEW s \in Signal, ScanGone(s) PROVE Watched'
  <2> DEFINE left == {o \in Order : o = ord[s] /\ InMarket(o)}
  <2>1. /\ UNCHANGED <<exchange, ord, pc, focus>> /\ pc = "scan"
        /\ row' = [row EXCEPT ![s] = "cancelled"]
        /\ Blame(left, "cancelled_row") /\ left \in SUBSET Order
    BY <1>4 DEF ScanGone, NextRow
  <2>2. /\ \A o \in Order : Caused(o) => Caused(o)'
        /\ \A o \in left : Caused(o)'
    <3> HIDE DEF left
    <3> QED
      BY <2>1, BlameCauses DEF Cause
  <2>3. \A o \in Order : Tracked(o) => Tracked(o)' \/ o = ord[s]
    BY <2>1 DEF Tracked, Pending, Submitted
  <2>4. \A o \in Order : live[o] \/ Naked(o) => InMarket(o)
    BY ExposedInMarket, ExchangeAssumption DEF ExchangeTypeOK, Qty
  <2> QED
    BY <2>1, <2>2, <2>3, <2>4
       DEF Watched, Busy, Held, Naked, InProtect, exchange, focus
<1>5. ASSUME NEW s \in Signal, ScanExpired(s) PROVE Watched'
  BY <1>5, SameWatch
     DEF ScanExpired, NextRow, Busy, Held, InProtect, database, request, bounds
<1>6. CASE CancelExpired
  <2>1. /\ pc = "ttl" /\ pc' = "scan" /\ CancelEntryOrder(att.sig)
        /\ att.sig \in Signal /\ Resolvable(att.sig) /\ ord[att.sig] \in Order
    BY <1>6 DEF CancelExpired, Passes
  <2> QED
    BY <2>1, CancelEntryOrderCauses DEF Watched, Busy, Held, InProtect
<1>7. CASE CancelPeer
  <2> DEFINE peer == RecordedPeer(att.sig)
  <2>0. pc = "peer" /\ pc' = "scan"
    BY <1>7 DEF CancelPeer
  <2>1. CASE peer \in Submitted /\ CancelEntryOrder(peer)
    <3>1. peer \in Signal /\ Resolvable(peer) /\ ord[peer] \in Order
      BY <2>1 DEF Submitted, Resolvable, SubmittedHasOrder
    <3> QED
      BY <2>0, <2>1, <3>1, CancelEntryOrderCauses DEF Watched, Busy, Held, InProtect
  <2>2. CASE UNCHANGED <<exchange, database, bounds, why>>
    BY <2>0, <2>2, SameWatch DEF Busy, Held, InProtect, database
  <2> QED
    BY <1>7, <2>1, <2>2 DEF CancelPeer
<1>8. CASE ScanDone
  BY <1>8, SameWatch DEF ScanDone, Busy, Held, InProtect, database, focus
<1> QED
  BY <1>1, <1>2, <1>3, <1>4, <1>5, <1>6, <1>7, <1>8 DEF Scan

\* A POST leaves the older orders alone, but for those it lost.
LEMMA PostKeeps ==
    ASSUME NEW s \in Signal, NEW o \in Order, NEW unknown \in Unanswered,
           NEW q \in Qty, Post(s, o, unknown, q)
    PROVE  /\ unknown \in SUBSET Order
           /\ \A p \in Order \ (unknown \cup {o}) :
                (live'[p] => live[p]) /\ (Naked(p)' => Naked(p))
<1>1. Book(s, unknown \cup {o}, q, q < Full) /\ unknown \in SUBSET Order
  BY DEF Post, Unanswered, Fresh
<1> QED
  BY <1>1 DEF Book, Naked

\* After an answer the rows that were pending still are.
LEMMA AnswerTracks ==
    ASSUME IInv, cur # NoSignal, NEW status, Answer(status),
           \A s \in Signal \ {cur} : ord'[s] = ord[s]
    PROVE  pc' = "guard" /\ \A o \in Order : Tracked(o) => Tracked(o)'
BY DEF IInv, TypeOK, Runs, Answer, Tracked, Pending, Submitted

LEMMA OpenWatched == EInv /\ Open => Watched'
<1> SUFFICES ASSUME EInv, Open PROVE Watched'
  OBVIOUS
<1>0. /\ IInv /\ TypeOK /\ Watched /\ cur \in Signal /\ cur # NoSignal
      /\ ord \in [Signal -> Order \cup {NoOrder}]
      /\ Full \in Qty /\ 0 \in Qty /\ row[cur] = "received"
  BY ExchangeAssumption
     DEF EInv, IInv, TypeOK, Open, Runs, OpenRefused, OpenMarket, OpenLimit,
         OpenStop, OpenLost, CheckLimit, Qty
<1>1. CASE OpenRefused
  <2>1. pc' = "guard" /\ \A o \in Order : Tracked(o) => Tracked(o)'
    BY <1>0, <1>1, AnswerTracks DEF OpenRefused
  <2> QED
    BY <1>0, <1>1, <2>1
       DEF OpenRefused, Watched, Busy, Held, Caused, Naked, InProtect, exchange, focus
<1>2. ASSUME NEW o \in Order, NEW unknown \in Unanswered, NEW q \in Qty,
             Post(cur, o, unknown, q), Blame(unknown, "no_reply"), pc = "open",
             pc' \in {"sl", "check"}, att' = [sig |-> cur, ord |-> o, qty |-> q],
             UNCHANGED <<database, request>>
      PROVE  Watched'
  <2>0. /\ unknown \in SUBSET Order
        /\ \A p \in Order \ (unknown \cup {o}) :
                (live'[p] => live[p]) /\ (Naked(p)' => Naked(p))
    BY <1>0, <1>2, PostKeeps
  <2>1. /\ \A p \in Order : Caused(p) => Caused(p)'
        /\ \A p \in unknown : Caused(p)'
    BY <1>0, <1>2, <2>0, BlameCauses DEF Cause
  <2>2. Busy(o)' /\ Held(o)' /\ (att.sig)' = cur'
    BY <1>2 DEF Busy, Held, request
  <2>3. \A p \in Order : ~Busy(p) /\ ~Held(p) /\ (Tracked(p) => Tracked(p)')
    BY <1>2 DEF Busy, Held, Tracked, Pending, Submitted, database
  <2> QED
    BY <1>0, <2>0, <2>1, <2>2, <2>3 DEF Watched
<1>3. CASE OpenMarket
  BY <1>0, <1>2, <1>3 DEF OpenMarket, Attach
<1>4. CASE OpenLimit
  BY <1>0, <1>2, <1>4 DEF OpenLimit
<1>5. CASE OpenStop
  <2> PICK o \in Order, unknown \in Unanswered, q \in Qty :
        /\ pc = "open"
        /\ Post(cur, o, unknown, q)
        /\ \/ /\ q > 0
              /\ Attach(cur, o, q)
              /\ Blame(unknown, "no_reply")
           \/ /\ q = 0
              /\ ord' = [ord EXCEPT ![cur] = o]
              /\ Answer("submitted")
              /\ BlameBoth(unknown, "no_reply", Unlisted(o), "never_listed")
              /\ UNCHANGED focus
    BY <1>5 DEF OpenStop, Submit
  <2>1. CASE Attach(cur, o, q) /\ Blame(unknown, "no_reply")
    BY <1>2, <2>1 DEF Attach
  <2>2. CASE /\ ord' = [ord EXCEPT ![cur] = o]
             /\ Answer("submitted")
             /\ BlameBoth(unknown, "no_reply", Unlisted(o), "never_listed")
    <3>1. /\ unknown \in SUBSET Order /\ Unlisted(o) \in SUBSET Order
          /\ \A p \in Order \ (unknown \cup {o}) :
                (live'[p] => live[p]) /\ (Naked(p)' => Naked(p))
      BY <1>0, PostKeeps DEF Unlisted
    <3>2. /\ \A p \in Order : Caused(p) => Caused(p)'
          /\ \A p \in unknown \cup Unlisted(o) : Caused(p)'
      BY <1>0, <2>2, <3>1, BlameBothCauses DEF Cause
    <3>3. pc' = "guard" /\ \A p \in Order : Tracked(p) => Tracked(p)'
      BY <1>0, <2>2, AnswerTracks
    <3>4. Tracked(o)' \/ o \in Unlisted(o)
      BY <1>0, <2>2 DEF Answer, Tracked, Pending, Submitted, Unlisted, TypeOK
    <3>5. \A p \in Order : ~Busy(p) /\ ~Held(p)
      BY DEF Busy, Held
    <3> QED
      BY <1>0, <3>1, <3>2, <3>3, <3>4, <3>5 DEF Watched, InProtect
  <2> QED
    BY <2>1, <2>2
<1>6. CASE OpenLost
  <2> PICK o \in Fresh, q \in Qty :
        /\ pc = "open" /\ Book(cur, {o}, q, q < Full)
        /\ Blame({o}, "no_reply") /\ Answer("error") /\ UNCHANGED ord
    BY <1>6 DEF OpenLost
  <2>1. /\ \A p \in Order : Caused(p) => Caused(p)'
        /\ \A p \in {o} : Caused(p)'
    BY <1>0, BlameCauses DEF Fresh, Cause
  <2>2. \A p \in Order \ {o} : (live'[p] => live[p]) /\ (Naked(p)' => Naked(p))
    BY DEF Book, Naked
  <2>3. pc' = "guard" /\ \A p \in Order : Tracked(p) => Tracked(p)'
    BY <1>0, AnswerTracks
  <2>4. \A p \in Order : ~Busy(p) /\ ~Held(p)
    BY DEF Busy, Held
  <2> QED
    BY <1>0, <2>1, <2>2, <2>3, <2>4 DEF Watched, InProtect
<1>7. CASE CheckLimit
  <2>0. pc = "check" /\ UNCHANGED exchange /\ att.ord \in Order /\ NoSignal \notin Signal
    BY <1>0, <1>7, ExchangeAssumption DEF CheckLimit, IInv, Passes
  <2>1. CASE Attach(cur, att.ord, filled[att.ord]) /\ NoBlame
    BY <1>0, <2>0, <2>1, SameWatch
       DEF Attach, NoBlame, Busy, Held, InProtect, database, request
  <2>2. CASE /\ ord' = [ord EXCEPT ![cur] = att.ord]
             /\ Answer("submitted")
             /\ Blame(Unlisted(att.ord), "never_listed")
    <3>1. pc' = "guard" /\ \A p \in Order : Tracked(p) => Tracked(p)'
      BY <1>0, <2>2, AnswerTracks
    <3>2. \A p \in Order : Busy(p) \/ Held(p) => Tracked(p)' \/ p \in Unlisted(att.ord)
      <4>1. ord'[cur] = att.ord /\ row'[cur] = "submitted"
        BY <1>0, <2>2 DEF Answer, TypeOK
      <4> QED
        BY <1>0, <2>0, <4>1 DEF Tracked, Pending, Submitted, Unlisted, Busy, Held
    <3>3. /\ \A p \in Order : Caused(p) => Caused(p)'
          /\ \A p \in Unlisted(att.ord) : Caused(p)'
      BY <1>0, <2>0, <2>2, BlameCauses DEF Unlisted, Cause
    <3> QED
      BY <1>0, <2>0, <2>2, <3>1, <3>2, <3>3
         DEF Watched, Naked, InProtect, exchange
  <2>3. CASE Answer("error") /\ Blame({att.ord}, "not_recorded") /\ UNCHANGED ord
    <3>1. pc' = "guard" /\ \A p \in Order : Tracked(p) => Tracked(p)'
      BY <1>0, <2>3, AnswerTracks
    <3>2. /\ \A p \in Order : Caused(p) => Caused(p)'
          /\ \A p \in {att.ord} : Caused(p)'
      BY <1>0, <2>0, <2>3, BlameCauses DEF Cause
    <3>3. \A p \in Order : Busy(p) \/ Held(p) => p \in {att.ord}
      BY <2>0 DEF Busy, Held
    <3> QED
      BY <1>0, <2>0, <3>1, <3>2, <3>3 DEF Watched, Naked, InProtect, exchange
  <2> QED
    BY <1>7, <2>1, <2>2, <2>3 DEF CheckLimit, Submit
<1> QED
  BY <1>1, <1>3, <1>4, <1>5, <1>6, <1>7 DEF Open

\* When an order is settled, only its own row stops being pending.
LEMMA SettleTracks ==
    ASSUME EInv, InProtect, NEW status, Settle(status),
           \A s \in Signal \ {att.sig} : ord'[s] = ord[s]
    PROVE  /\ pc' \in {"guard", "peer", "scan"}
           /\ \A o \in Order : Tracked(o) => Tracked(o)' \/ o = att.ord
<1>1. CASE att.sig = cur
  <2>1. cur # NoSignal /\ Answer(status)
    BY <1>1, ExchangeAssumption DEF Settle, EInv, IInv, Passes
  <2> QED
    BY <1>1, <2>1, AnswerTracks DEF EInv
<1>2. CASE att.sig # cur
  <2>1. /\ row' = [row EXCEPT ![att.sig] = status]
        /\ pc' \in {"peer", "scan"} /\ ord[att.sig] = att.ord
    BY <1>2 DEF Settle, EInv, Watched
  <2> QED
    BY <2>1 DEF Tracked, Pending, Submitted, EInv, IInv, TypeOK
<1> QED
  BY <1>1, <1>2

LEMMA ProtectWatched == EInv /\ Protect => Watched'
<1> SUFFICES ASSUME EInv, Protect PROVE Watched'
  OBVIOUS
<1>0. /\ IInv /\ TypeOK /\ Watched /\ InProtect /\ att \in Focus
      /\ att.ord \in Order /\ att.sig \in Signal /\ att.qty \in Qty
      /\ ord \in [Signal -> Order \cup {NoOrder}]
  BY DEF EInv, IInv, TypeOK, Passes, InProtect, Protect, Focus, PlaceStopLoss,
         TakeProfitFails, Protected, AbortSweep, EmergencyClose
<1>h. \A o \in Order : Busy(o) \/ Held(o) => o = att.ord
  BY <1>0 DEF InProtect, Busy, Held
<1>1. CASE PlaceStopLoss
  <2>1. /\ pc' \in {"tp", "sweep"} /\ UNCHANGED <<live, lot, database, request, focus, why>>
        /\ \A o \in Order \ {att.ord} : sl'[o] = sl[o]
    BY <1>0, <1>1 DEF PlaceStopLoss, AddStop, exchange, TypeOK, ExchangeTypeOK
  <2>2. \A o \in Order : o = att.ord => Busy(o)' /\ Held(o)'
    BY <1>0, <2>1 DEF Busy, Held, focus
  <2> QED
    BY <1>0, <1>h, <2>1, <2>2
       DEF Watched, Tracked, Pending, Submitted, Caused, Naked, InProtect, database, request, focus
<1>2. CASE TakeProfitFails
  BY <1>0, <1>2, SameWatch
     DEF TakeProfitFails, Watched, Busy, Held, InProtect, database, request, focus
<1>3. CASE Protected
  <2> DEFINE rest == {o \in Order : o = att.ord /\ Exposed(o)}
  <2>1. /\ UNCHANGED exchange /\ Settle("traded") /\ Blame(rest, "partial_fill")
        /\ \A s \in Signal \ {att.sig} : ord'[s] = ord[s]
    BY <1>0, <1>3 DEF Protected
  <2>2. /\ pc' \in {"guard", "peer", "scan"}
        /\ \A o \in Order : Tracked(o) => Tracked(o)' \/ o = att.ord
    BY <1>0, <2>1, SettleTracks
  <2>3. /\ \A o \in Order : Caused(o) => Caused(o)'
        /\ \A o \in rest : Caused(o)'
    <3>1. rest \in SUBSET Order
      OBVIOUS
    <3> HIDE DEF rest
    <3> QED
      BY <1>0, <2>1, <3>1, BlameCauses DEF Cause
  <2> QED
    BY <1>0, <1>h, <2>1, <2>2, <2>3
       DEF Watched, Exposed, Naked, InProtect, exchange
<1>4. CASE AbortSweep
  <2> DEFINE bare == {o \in Order : o # att.ord /\ Naked(o)' /\ ~Naked(o)}
  <2>1. /\ pc' = "eclose" /\ UNCHANGED <<database, request, focus>>
        /\ Blame(bare, "swept") /\ \A o \in Order : live'[o] => live[o]
    BY <1>4 DEF AbortSweep, CancelAllOrders, SweepOrders
  <2>2. /\ \A o \in Order : Caused(o) => Caused(o)'
        /\ \A o \in bare : Caused(o)'
    <3>1. bare \in SUBSET Order
      OBVIOUS
    <3> HIDE DEF bare
    <3> QED
      BY <1>0, <2>1, <3>1, BlameCauses DEF Cause
  <2>3. \A o \in Order : o = att.ord => Busy(o)' /\ Held(o)'
    BY <1>0, <2>1 DEF Busy, Held, focus
  <2>4. \A o \in Order : Tracked(o) => Tracked(o)'
    BY <2>1 DEF Tracked, Pending, Submitted, database
  <2>5. InProtect' /\ (att.sig)' # cur' => ord'[(att.sig)'] = (att.ord)'
    BY <1>0, <2>1 DEF Watched, database, request, focus
  <2> QED
    BY <1>0, <1>h, <2>1, <2>2, <2>3, <2>4, <2>5 DEF Watched
<1>5. CASE EmergencyClose
  <2> DEFINE rest == {o \in Order : o = att.ord /\ InMarket(o)'}
             cut == [NoLots EXCEPT ![att.ord] = att.qty]
  <2>1. /\ Reduce(cut) \/ UNCHANGED exchange
        /\ Settle("error") /\ UNCHANGED ord
        /\ \E cause \in Cause \ {"none"} : Blame(rest, cause)
    BY <1>5 DEF EmergencyClose, Cause
  <2>2. /\ pc' \in {"guard", "peer", "scan"}
        /\ \A o \in Order : Tracked(o) => Tracked(o)' \/ o = att.ord
    BY <1>0, <2>1, SettleTracks
  <2>3. /\ \A o \in Order : Caused(o) => Caused(o)'
        /\ \A o \in rest : Caused(o)'
    <3>1. rest \in SUBSET Order
      OBVIOUS
    <3> HIDE DEF rest
    <3> QED
      BY <1>0, <2>1, <3>1, BlameCauses
  <2>4. /\ live' = live
        /\ \A o \in Order \ {att.ord} : lot'[o] = lot[o] /\ sl'[o] = sl[o]
    <3>1. lot \in [Order -> Nat]
      BY <1>0, ExchangeAssumption DEF TypeOK, ExchangeTypeOK, Qty
    <3>2. CASE Reduce(cut)
      <4>1. \A o \in Order \ {att.ord} : cut[o] = 0
        BY DEF NoLots
      <4>2. \A q \in Nat : Minus(q, 0) = q
        BY DEF Minus
      <4> HIDE DEF cut
      <4> QED
        BY <3>1, <3>2, <4>1, <4>2 DEF Reduce
    <3>3. CASE UNCHANGED exchange
      BY <3>3 DEF exchange
    <3> QED
      BY <2>1, <3>2, <3>3
  <2>5. \A o \in Order : live'[o] \/ Naked(o)' => InMarket(o)'
    <3>1. IInv'
      BY <1>0, ProtectIInv
    <3>2. lot' \in [Order -> Nat] /\ sl' \in [Order -> Nat]
      BY <3>1, ExchangeAssumption DEF IInv, TypeOK, ExchangeTypeOK, Qty
    <3> QED
      BY <1>0, <3>2 DEF InMarket, Naked
  <2>6. \A o \in Order : o = att.ord /\ (live'[o] \/ Naked(o)') => Caused(o)'
    BY <2>3, <2>5
  <2>7. \A o \in Order : o # att.ord =>
            (live'[o] => live[o]) /\ (Naked(o)' => Naked(o))
    BY <2>4 DEF Naked
  <2> HIDE DEF rest, cut
  <2> QED
    BY <1>0, <1>h, <2>2, <2>3, <2>6, <2>7 DEF Watched, InProtect
<1> QED
  BY <1>1, <1>2, <1>3, <1>4, <1>5 DEF Protect

LEMMA CloseWatched == EInv /\ Close => Watched'
<1> SUFFICES ASSUME EInv, Close PROVE Watched'
  OBVIOUS
<1>0. /\ IInv /\ TypeOK /\ Watched /\ cur # NoSignal
      /\ pc \in {"position", "fsweep", "csweep", "mclose"}
  BY DEF EInv, IInv, Runs, Close, CloseRefused, ReadFlat, CloseAlreadyFlat,
         ReadPosition, CloseSweep, CloseMarket
<1>h. \A o \in Order : ~Busy(o)
  BY <1>0 DEF Busy
<1>1. CASE CloseRefused
  <2>1. pc' = "guard" /\ \A o \in Order : Tracked(o) => Tracked(o)'
    BY <1>0, <1>1, AnswerTracks DEF CloseRefused
  <2> QED
    BY <1>0, <1>1, <2>1
       DEF CloseRefused, Watched, Busy, Held, Caused, Naked, InProtect, exchange, focus
<1>2. CASE CloseAlreadyFlat
  <2> DEFINE bare == {o \in Order : Naked(o)' /\ ~Naked(o)}
  <2>1. /\ pc = "fsweep" /\ Blame(bare, "swept")
        /\ \A o \in Order : live'[o] => live[o]
    BY <1>2 DEF CloseAlreadyFlat, CancelAllOrders, SweepOrders
  <2>2. pc' = "guard" /\ \A o \in Order : Tracked(o) => Tracked(o)'
    BY <1>0, <1>2, AnswerTracks DEF CloseAlreadyFlat
  <2>3. /\ \A o \in Order : Caused(o) => Caused(o)'
        /\ \A o \in bare : Caused(o)'
    <3>1. bare \in SUBSET Order
      OBVIOUS
    <3> HIDE DEF bare
    <3> QED
      BY <1>0, <2>1, <3>1, BlameCauses DEF Cause
  <2>4. \A o \in Order : ~Held(o)
    BY <2>1 DEF Held
  <2> QED
    BY <1>0, <1>h, <2>1, <2>2, <2>3, <2>4 DEF Watched, InProtect
<1>3. CASE ReadPosition
  <2>1. pc = "position" /\ pc' = "csweep"
    BY <1>3 DEF ReadPosition
  <2> QED
    BY <1>0, <1>3, <2>1, SameWatch DEF ReadPosition, Busy, Held, InProtect, database
<1>4. CASE CloseSweep
  <2> DEFINE bare == {o \in Order : snap[o] = 0 /\ Naked(o)' /\ ~Naked(o)}
  <2>1. /\ pc = "csweep" /\ pc' = "mclose" /\ UNCHANGED <<database, request, focus>>
        /\ Blame(bare, "swept") /\ \A o \in Order : live'[o] => live[o]
    BY <1>4 DEF CloseSweep, CancelAllOrders, SweepOrders
  <2>2. /\ \A o \in Order : Caused(o) => Caused(o)'
        /\ \A o \in bare : Caused(o)'
    <3>1. bare \in SUBSET Order
      OBVIOUS
    <3> HIDE DEF bare
    <3> QED
      BY <1>0, <2>1, <3>1, BlameCauses DEF Cause
  <2>3. \A o \in Order : (Held(o) => Held(o)') /\ (snap[o] # 0 => Held(o)')
    BY <1>0, <2>1 DEF Held, focus, TypeOK, Qty
  <2>4. \A o \in Order : Tracked(o) => Tracked(o)'
    BY <2>1 DEF Tracked, Pending, Submitted, database
  <2> QED
    BY <1>0, <1>h, <2>1, <2>2, <2>3, <2>4 DEF Watched, InProtect
<1>5. CASE CloseMarket
  <2> DEFINE bare == {o \in Order : snap[o] > 0 /\ Naked(o)'}
  <2>1. /\ pc = "mclose" /\ UNCHANGED ord
        /\ Reduce(snap) \/ UNCHANGED exchange
        /\ \E cause \in Cause \ {"none"} : Blame(bare, cause)
        /\ \E status \in {"traded", "error"} : Answer(status)
    BY <1>5 DEF CloseMarket, Cause
  <2>2. /\ \A o \in Order : Caused(o) => Caused(o)'
        /\ \A o \in bare : Caused(o)'
    <3>1. bare \in SUBSET Order
      OBVIOUS
    <3> HIDE DEF bare
    <3> QED
      BY <1>0, <2>1, <3>1, BlameCauses
  <2>3. pc' = "guard" /\ \A o \in Order : Tracked(o) => Tracked(o)'
    BY <1>0, <2>1, AnswerTracks
  <2>4. live' = live /\ \A o \in Order : Naked(o)' => Naked(o)
    BY <1>0, <2>1 DEF Reduce, Naked, Minus, exchange, TypeOK, ExchangeTypeOK, Qty
  <2>5. \A o \in Order : Held(o) => snap[o] > 0
    BY <2>1 DEF Held
  <2> QED
    BY <1>0, <1>h, <2>2, <2>3, <2>4, <2>5 DEF Watched, InProtect
<1>6. CASE ReadFlat
  <2>1. pc = "position" /\ pc' = "fsweep"
    BY <1>6 DEF ReadFlat
  <2> QED
    BY <1>0, <1>6, <2>1, SameWatch DEF ReadFlat, Busy, Held, InProtect, database
<1> QED
  BY <1>1, <1>2, <1>3, <1>4, <1>5, <1>6 DEF Close

LEMMA CancelEntriesWatched == EInv /\ CancelEntries => Watched'
<1> SUFFICES ASSUME EInv, CancelEntries PROVE Watched'
  OBVIOUS
<1>1. CASE CancelDone
  BY <1>1, SameWatch DEF EInv, CancelDone, Busy, Held, InProtect, database, focus
<1>2. ASSUME NEW s \in Signal, CancelPendingEntry(s) PROVE Watched'
  <2>0. pc = "cancel" /\ pc' = "cancel"
    BY <1>2 DEF CancelPendingEntry
  <2>1. CASE row[s] = "submitted" /\ CancelEntryOrder(s)
    <3>1. Resolvable(s) /\ ord[s] \in Order
      BY <2>1 DEF EInv, IInv, Resolvable, SubmittedHasOrder
    <3> QED
      BY <2>0, <2>1, <3>1, CancelEntryOrderCauses DEF EInv, Watched, Busy, Held, InProtect
  <2>2. CASE UNCHANGED <<exchange, database, bounds, why>>
    BY <2>0, <2>2, SameWatch DEF EInv, Busy, Held, InProtect, database
  <2> QED
    BY <1>2, <2>1, <2>2 DEF CancelPendingEntry
<1> QED
  BY <1>1, <1>2 DEF CancelEntries

LEMMA OtherWatched ==
    ASSUME EInv,
           \/ \E b \in Batch : IngestSignals(b)
           \/ \E legs \in SUBSET Signal : CancelRequest(legs)
           \/ ReconcileTick
           \/ Crash
           \/ \E old \in SUBSET Signal : ListSignals(old)
           \/ \E s \in Signal : Age(s)
           \/ MarketStep
           \/ UNCHANGED vars
    PROVE  Watched'
<1>1. CASE \/ \E b \in Batch : IngestSignals(b)
           \/ \E legs \in SUBSET Signal : CancelRequest(legs)
           \/ ReconcileTick
  BY <1>1, SameWatch
     DEF EInv, IngestSignals, CancelRequest, ReconcileTick, Busy, Held, InProtect,
         database, focus
<1>2. CASE Crash
  <2> DEFINE lost == {o \in Order : Exposed(o) /\ ~Tracked(o)}
  <2>1. UNCHANGED <<exchange, database>> /\ pc' = "idle" /\ Blame(lost, "crash")
    BY <1>2 DEF Crash
  <2>2. \A o \in lost : Caused(o)'
    <3>1. lost \in SUBSET Order
      OBVIOUS
    <3> HIDE DEF lost
    <3> QED
      BY <2>1, <3>1, BlameCauses DEF EInv, IInv, Cause
  <2> QED
    BY <2>1, <2>2 DEF Watched, Tracked, Pending, Submitted, Exposed, Naked, InProtect, exchange, database
<1>3. CASE \E s \in Signal : Age(s)
  BY <1>3, SameWatch
     DEF EInv, Watched, Age, Busy, Held, InProtect, request, focus
<1>4. CASE MarketStep
  <2>1. PICK o \in Order : Fill(o) \/ StopOut(o) \/ Expire(o)
    BY <1>4 DEF MarketStep, Market
  <2>2. /\ UNCHANGED <<database, pc, request, focus, why>>
        /\ \A p \in Order : Tracked(p) = Tracked(p)' /\ Busy(p) = Busy(p)'
                            /\ Held(p) = Held(p)' /\ Caused(p) = Caused(p)'
    BY <1>4 DEF MarketStep, Tracked, Pending, Submitted, Busy, Held, Caused, database, focus
  <2>3. \A p \in Order : (live'[p] => live[p]) /\ (Naked(p)' => Naked(p) \/ live[p])
    <3>1. CASE Fill(o)
      BY <3>1 DEF EInv, IInv, TypeOK, ExchangeTypeOK, Fill, Naked
    <3>2. CASE StopOut(o)
      BY <3>2 DEF EInv, IInv, TypeOK, ExchangeTypeOK, StopOut, Naked, Minus, Qty
    <3>3. CASE Expire(o)
      BY <3>3 DEF EInv, IInv, TypeOK, ExchangeTypeOK, Expire, TakeOff, Naked
    <3> QED
      BY <2>1, <3>1, <3>2, <3>3
  <2>4. \A p \in Order : Busy(p) => Held(p)
    BY DEF Busy, Held
  <2>5. InProtect' /\ (att.sig)' # cur' => ord'[(att.sig)'] = (att.ord)'
    BY <2>2 DEF EInv, Watched, InProtect, database, request, focus
  <2> QED
    BY <2>2, <2>3, <2>4, <2>5 DEF EInv, Watched
<1>5. CASE UNCHANGED vars
  BY <1>5, SameWatch
     DEF EInv, Watched, vars, Busy, Held, InProtect, database, request, focus
<1>6. ASSUME NEW old \in SUBSET Signal, ListSignals(old) PROVE Watched'
  <2> DEFINE lost == {o \in Order : InMarket(o) /\ own[o] \in old}
  <2>1. UNCHANGED <<exchange, pc>> /\ pc = "idle" /\ Blame(lost, "retention")
    BY <1>6 DEF ListSignals
  <2>2. /\ \A o \in Order : Caused(o) => Caused(o)'
        /\ \A o \in lost : Caused(o)'
    <3>1. lost \in SUBSET Order
      OBVIOUS
    <3> HIDE DEF lost
    <3> QED
      BY <2>1, <3>1, BlameCauses DEF EInv, IInv, Cause
  <2>3. \A o \in Order : live[o] \/ Naked(o) => InMarket(o)
    BY ExposedInMarket, ExchangeAssumption DEF EInv, IInv, TypeOK, ExchangeTypeOK, Qty
  <2>4. ASSUME NEW o \in Order, Tracked(o), own[o] \notin old PROVE Tracked(o)'
    <3>1. PICK s \in Signal : row[s] = "submitted" /\ ord[s] = o /\ Action[s] = "open"
      BY <2>4 DEF Tracked, Pending, Submitted
    <3>2. own[o] = s
      BY <3>1 DEF EInv, IInv, SubmittedHasOrder
    <3> QED
      BY <1>6, <2>4, <3>1, <3>2 DEF ListSignals, Tracked, Pending, Submitted
  <2>5. \A o \in Order : ~Busy(o) /\ ~Held(o)
    BY <2>1 DEF Busy, Held
  <2> QED
    BY <2>1, <2>2, <2>3, <2>4, <2>5 DEF EInv, Watched, Naked, InProtect, exchange
<1> QED
  BY <1>1, <1>2, <1>3, <1>4, <1>5, <1>6

\* Whatever calls fail and whenever the process dies, an order that may still
\* execute and a lot without enough stop loss are recorded by a submitted row
\* that the next pass lists, or in the hands of the running handler, or left by one of the named causes.
THEOREM NothingForgotten == Spec => []ExposureHasCause
<1>1. IInv /\ Watched /\ [Next]_vars => Watched'
  BY GuardWatched, ScanWatched, OpenWatched, ProtectWatched, CloseWatched,
     CancelEntriesWatched, OtherWatched
     DEF Next, Handler, EInv
<1>2. Watched => ExposureHasCause
  BY DEF Watched, ExposureHasCause, Exposed, Busy, Held, Caused
<1> QED
  BY InitWatched, Inductive, <1>1, <1>2, PTL DEF Spec
=============================================================================
