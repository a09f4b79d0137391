---------------------------- MODULE EntryProofs ----------------------------
(***************************************************************************)
(* What becomes of the entries of a signal: none is called traded before   *)
(* it is protected, none is opened next to another of the same signal, and *)
(* none at market is handled in part, for any set of signals and orders,   *)
(* any size of an entry and any number of faults, crashes and listings.    *)
(***************************************************************************)
EXTENDS ExposureProofs

\* The order being protected is the signal's own, and what is to be covered
\* was executed; once the stop loss works, it covers that much beyond what
\* has been closed again.
Covering ==
    /\ pc = "check" => att.sig = cur
    /\ InProtect => own[att.ord] = att.sig /\ att.qty <= filled[att.ord]
    /\ pc = "tp" => lot[att.ord] + att.qty <= sl[att.ord] + filled[att.ord]
    /\ pc \in {"position", "fsweep", "csweep", "mclose"} => Action[cur] = "close"

\* An order in the market that no step has left to itself.
Kept(o) == Placed(o) /\ InMarket(o) /\ ~Caused(o)

\* Where the row of such an order stands: it is pending with that order, or
\* traded, or its execution died, or its execution has the order in hand.
Stands(o) ==
    \/ row[own[o]] = "submitted" /\ ord[own[o]] = o
    \/ row[own[o]] = "traded"
    \/ row[own[o]] = "received" /\ own[o] # cur
    \/ row[own[o]] = "received" /\ own[o] = cur /\ att.sig = cur /\ Busy(o)

Standing == \A o \in Order : Kept(o) => Stands(o)

Alone == \A o, p \in Order : Kept(o) /\ Kept(p) /\ own[o] = own[p] => o = p

NInv == EInv /\ Covering /\ Standing /\ Alone

-----------------------------------------------------------------------------
(* Orders that stay where they are, or leave the market. *)

\* Orders change no hands, none comes into the market, no cause is forgotten.
Narrows ==
    /\ own' = own
    /\ \A o \in Order : InMarket(o)' => InMarket(o)
    /\ \A o \in Order : Caused(o) => Caused(o)'

LEMMA NarrowsKept ==
    ASSUME Narrows
    PROVE  \A o \in Order : Kept(o)' => Kept(o)
BY DEF Narrows, Kept, Placed

LEMMA NarrowsStands ==
    ASSUME NInv, Narrows,
           \A o \in Order : Kept(o) /\ Kept(o)' /\ Stands(o) => Stands(o)'
    PROVE  Standing' /\ Alone'
<1>1. \A o \in Order : Kept(o)' => Kept(o)
  BY NarrowsKept
<1>2. \A o \in Order : Kept(o) => Stands(o)
  BY DEF NInv, Standing
<1>3. own' = own
  BY DEF Narrows
<1> QED
  BY <1>1, <1>2, <1>3 DEF NInv, Standing, Alone

\* The account and the causes are as before.
LEMMA StillNarrows ==
    ASSUME UNCHANGED <<exchange, why>>
    PROVE  Narrows
BY DEF Narrows, InMarket, Caused, exchange

\* Nothing that tells where a row stands changes.
LEMMA SameStands ==
    ASSUME UNCHANGED <<own, row, ord, cur>>,
           \A o \in Order : Busy(o) => Busy(o)' /\ UNCHANGED att
    PROVE  \A o \in Order : Stands(o) => Stands(o)'
BY DEF Stands

\* Between the places where an order is in hand, whoever executes has none.
LEMMA NoneInHand ==
    ASSUME NInv, pc \notin {"check", "sl", "tp", "sweep", "eclose"}
    PROVE  \A o \in Order : Kept(o) => own[o] # cur
BY DEF NInv, EInv, IInv, Runs, Standing, Stands, Busy, Kept, Placed

LEMMA BlameOnly ==
    ASSUME TypeOK, NEW orders, NEW cause \in Cause \ {"none"}, Blame(orders, cause)
    PROVE  \A o \in Order : (Caused(o) => Caused(o)') /\ (o \in orders => Caused(o)')
BY DEF TypeOK, Blame, Caused

LEMMA BlameBothOnly ==
    ASSUME TypeOK, NEW orders, NEW cause \in Cause \ {"none"}, NEW others,
           NEW otherwise \in Cause \ {"none"},
           BlameBoth(orders, cause, others, otherwise)
    PROVE  \A o \in Order : (Caused(o) => Caused(o)') /\ (o \in orders => Caused(o)')
BY DEF TypeOK, BlameBoth, Caused

-----------------------------------------------------------------------------
(* Where the rows stand, one group of actions after the other. *)

LEMMA GuardStanding == NInv /\ Guard => Standing' /\ Alone'
<1> SUFFICES ASSUME NInv, Guard PROVE Standing' /\ Alone'
  OBVIOUS
<1>1. UNCHANGED <<exchange, why, att>> /\ pc = "guard" /\ cur = NoSignal
  BY DEF Guard, GuardAccepts, GuardSkips, BatchDone, focus, NInv, EInv, IInv, Runs
<1>2. Narrows
  BY <1>1, StillNarrows
<1>3. \A o \in Order : ~Busy(o)
  BY <1>1 DEF Busy
<1>4. CASE GuardAccepts
  <2> DEFINE s == Head(batch)
  <2>1. /\ s \in Signal /\ row[s] \in {"absent", "error", "cancelled"}
        /\ row' = [row EXCEPT ![s] = "received"]
        /\ ord' = [ord EXCEPT ![s] = NoOrder]
        /\ cur' = s
    BY <1>4, HeadTailProperties DEF GuardAccepts, Retryable, NInv, EInv, IInv, TypeOK
  <2> HIDE DEF s
  <2>2. ASSUME NEW o \in Order, Kept(o), Stands(o) PROVE Stands(o)'
    <3>1. own[o] # s
      BY <1>3, <2>1, <2>2 DEF Stands
    <3>2. own'[o] = own[o] /\ row'[own[o]] = row[own[o]] /\ ord'[own[o]] = ord[own[o]]
      BY <1>2, <2>1, <3>1 DEF Narrows, NInv, EInv, IInv, TypeOK
    <3> QED
      BY <1>3, <2>1, <2>2, <3>1, <3>2 DEF Stands
  <2> QED
    BY <1>2, <2>2, NarrowsStands
<1>5. CASE GuardSkips \/ BatchDone
  <2>1. UNCHANGED <<own, row, ord, cur>>
    BY <1>5, <1>1 DEF GuardSkips, BatchDone, exchange, database
  <2> QED
    BY <1>2, <1>3, <2>1, SameStands, NarrowsStands
<1> QED
  BY <1>4, <1>5 DEF Guard

\* A cancelled row leaves its order only with a cause.
LEMMA CancelEntryOrderStanding ==
    ASSUME NInv, NEW s \in Signal, Resolvable(s), CancelEntryOrder(s), UNCHANGED cur,
           \A o \in Order : ~Busy(o)
    PROVE  Standing' /\ Alone'
<1> DEFINE left == {o \in Order : o = ord[s] /\ InMarket(o)'}
<1>1. /\ TypeOK /\ row' = [row EXCEPT ![s] = "cancelled"] /\ ord' = ord
      /\ Blame(left, "cancelled_row")
  BY DEF NInv, EInv, IInv, CancelEntryOrder
<1>2. \A o \in Order : (Caused(o) => Caused(o)') /\ (o \in left => Caused(o)')
  <2> HIDE DEF left
  <2> QED
    BY <1>1, BlameOnly DEF Cause
<1>3. /\ own' = own
      /\ \A o \in Order : InMarket(o)' => InMarket(o)
  BY <1>1 DEF CancelEntryOrder, TakeOff, exchange, TypeOK, ExchangeTypeOK, InMarket
<1>4. Narrows
  BY <1>2, <1>3 DEF Narrows
<1>5. ASSUME NEW o \in Order, Kept(o), Kept(o)', Stands(o) PROVE Stands(o)'
  <2>1. CASE own[o] = s
    <3>1. o = ord[s]
      BY <1>5, <2>1 DEF Stands, Resolvable
    <3> QED
      BY <1>2, <1>5, <3>1 DEF Kept
  <2>2. CASE own[o] # s
    BY <1>1, <1>3, <1>5, <2>2 DEF Stands, TypeOK
  <2> QED
    BY <2>1, <2>2
<1> QED
  BY <1>4, <1>5, NarrowsStands

LEMMA ScanStanding == NInv /\ Scan => Standing' /\ Alone'
<1> SUFFICES ASSUME NInv, Scan PROVE Standing' /\ Alone'
  OBVIOUS
<1>0. TypeOK /\ Runs /\ Passes /\ pc \in {"scan", "ttl", "peer"}
  BY DEF NInv, EInv, IInv, Scan, ScanKeep, ScanFilled, ScanBreaks, ScanGone, ScanExpired,
         NextRow, CancelExpired, CancelPeer, ScanDone
<1>b. \A o \in Order : ~Busy(o)
  BY <1>0 DEF Busy
<1>1. CASE /\ UNCHANGED <<exchange, database, request, why>>
  <2>1. Narrows /\ UNCHANGED <<own, row, ord, cur>>
    BY <1>1, StillNarrows DEF exchange, database, request
  <2> QED
    BY <1>b, <2>1, SameStands, NarrowsStands
<1>2. ASSUME NEW s \in Signal, ScanBreaks(s) PROVE Standing' /\ Alone'
  <2>1. Narrows /\ UNCHANGED <<own, ord>>
    BY <1>2, StillNarrows DEF ScanBreaks, exchange
  <2>2. CASE cur = NoSignal
    <3>1. UNCHANGED <<row, cur>>
      BY <1>2, <2>2 DEF ScanBreaks, request
    <3> QED
      BY <1>b, <2>1, <3>1, SameStands, NarrowsStands
  <2>3. CASE cur # NoSignal
    <3>1. row' = [row EXCEPT ![cur] = "error"] /\ cur' = NoSignal /\ cur \in Signal
      BY <1>0, <1>2, <2>3 DEF ScanBreaks, TypeOK
    <3>2. \A o \in Order : Kept(o) => own[o] # cur
      BY <1>0, NoneInHand
    <3>3. \A o \in Order : Kept(o) /\ Stands(o) => Stands(o)'
      BY <1>0, <1>b, <2>1, <3>1, <3>2 DEF Stands, Kept, Placed, TypeOK
    <3> QED
      BY <2>1, <3>3, NarrowsStands
  <2> QED
    BY <2>2, <2>3
<1>3. ASSUME NEW s \in Signal, ScanGone(s) PROVE Standing' /\ Alone'
  <2> DEFINE left == {o \in Order : o = ord[s] /\ InMarket(o)}
  <2>1. /\ UNCHANGED <<exchange, ord, pc, cur, att>>
        /\ row' = [row EXCEPT ![s] = "cancelled"]
        /\ Blame(left, "cancelled_row")
        /\ Resolvable(s)
    BY <1>0, <1>3 DEF ScanGone, NextRow, request, focus, Passes, InPass
  <2>2. \A o \in Order : (Caused(o) => Caused(o)') /\ (o \in left => Caused(o)')
    <3> HIDE DEF left
    <3> QED
      BY <1>0, <2>1, BlameOnly DEF Cause
  <2>3. Narrows
    BY <2>1, <2>2 DEF Narrows, InMarket, exchange
  <2>4. ASSUME NEW o \in Order, Kept(o), Kept(o)', Stands(o) PROVE Stands(o)'
    <3>1. CASE own[o] = s
      <4>1. o = ord[s]
        BY <2>1, <2>4, <3>1 DEF Stands, Resolvable
      <4> QED
        BY <2>2, <2>4, <4>1 DEF Kept
    <3>2. CASE own[o] # s
      <4>1. own'[o] = own[o] /\ row'[own[o]] = row[own[o]]
        BY <1>0, <2>1, <3>2 DEF exchange, TypeOK
      <4> QED
        BY <1>b, <2>1, <2>4, <4>1 DEF Stands
    <3> QED
      BY <3>1, <3>2
  <2> QED
    BY <2>3, <2>4, NarrowsStands
<1>4. CASE CancelExpired
  BY <1>0, <1>b, <1>4, CancelEntryOrderStanding DEF CancelExpired, Passes, request
<1>5. CASE CancelPeer
  <2> DEFINE peer == RecordedPeer(att.sig)
  <2>1. CASE peer \in Submitted /\ CancelEntryOrder(peer)
    <3>1. peer \in Signal /\ Resolvable(peer) /\ UNCHANGED cur
      BY <1>5, <2>1 DEF CancelPeer, Submitted, Resolvable, request
    <3> QED
      BY <1>b, <2>1, <3>1, CancelEntryOrderStanding
  <2> QED
    BY <1>1, <1>5, <2>1 DEF CancelPeer
<1>6. ASSUME NEW s \in Signal, ScanKeep(s) \/ ScanFilled(s) \/ ScanExpired(s)
      PROVE  Standing' /\ Alone'
  BY <1>1, <1>6 DEF ScanKeep, ScanFilled, ScanExpired
<1>7. CASE ScanDone
  BY <1>1, <1>7 DEF ScanDone
<1> QED
  BY <1>2, <1>3, <1>4, <1>5, <1>6, <1>7 DEF Scan

\* An execution that has no order in hand ends, with whatever result.
LEMMA AnswerStands ==
    ASSUME NInv, cur # NoSignal, NEW status, Answer(status), own' = own,
           \A s \in Signal \ {cur} : ord'[s] = ord[s],
           NEW o \in Order, Kept(o), own[o] # cur
    PROVE  Stands(o)'
<1>1. /\ row' = [row EXCEPT ![cur] = status] /\ cur' = NoSignal
      /\ own[o] \in Signal /\ own[o] # NoSignal /\ TypeOK /\ Stands(o)
  BY DEF Answer, NInv, EInv, IInv, TypeOK, ExchangeTypeOK, Kept, Placed, Standing
<1> QED
  BY <1>1 DEF Stands, TypeOK

\* A POST brings one order into the market that is not lost.
LEMMA PostKept ==
    ASSUME NInv, pc = "open", cur \in Signal, NEW o \in Order,
           NEW unknown \in Unanswered, NEW q \in Qty, Post(cur, o, unknown, q),
           \A p \in Order : (Caused(p) => Caused(p)') /\ (p \in unknown => Caused(p)')
    PROVE  /\ own'[o] = cur
           /\ \A p \in Order \ {o} : Kept(p)' =>
                Kept(p) /\ own'[p] = own[p] /\ own[p] # cur
<1>1. Book(cur, unknown \cup {o}, q, q < Full) /\ unknown \in SUBSET Order
  BY DEF Post, Unanswered, Fresh
<1>2. \A p \in Order \ (unknown \cup {o}) :
        own'[p] = own[p] /\ (InMarket(p)' => InMarket(p))
  BY <1>1 DEF Book, InMarket
<1>3. \A p \in Order : Kept(p) => own[p] # cur
  BY NoneInHand
<1> QED
  BY <1>1, <1>2, <1>3 DEF Kept, Placed, Book

\* The one new order stands where it was put, and nothing of its signal was
\* in the market before.
LEMMA PostStanding ==
    ASSUME NInv, cur \in Signal, NEW o \in Order, own'[o] = cur,
           \A p \in Order \ {o} : Kept(p)' =>
                Kept(p) /\ own'[p] = own[p] /\ own[p] # cur,
           Stands(o)',
           \A p \in Order \ {o} :
                Kept(p) /\ own'[p] = own[p] /\ own[p] # cur => Stands(p)'
    PROVE  Standing' /\ Alone'
BY DEF NInv, Standing, Alone

LEMMA OpenStanding == NInv /\ Open => Standing' /\ Alone'
<1> SUFFICES ASSUME NInv, Open PROVE Standing' /\ Alone'
  OBVIOUS
<1>0. /\ TypeOK /\ Runs /\ Passes /\ cur \in Signal /\ cur # NoSignal
      /\ Full \in Qty /\ 0 \in Qty /\ row[cur] = "received"
  BY ExchangeAssumption
     DEF NInv, EInv, IInv, TypeOK, Open, Runs, OpenRefused, OpenMarket, OpenLimit,
         OpenStop, OpenLost, CheckLimit, Qty
<1>1. CASE OpenRefused
  <2>1. Narrows /\ own' = own
    BY <1>1, StillNarrows DEF OpenRefused, exchange
  <2>2. \A o \in Order : Kept(o) => Stands(o)'
    BY <1>0, <1>1, <2>1, NoneInHand, AnswerStands DEF OpenRefused
  <2> QED
    BY <2>1, <2>2, NarrowsStands
<1>2. ASSUME NEW o \in Order, NEW unknown \in Unanswered, NEW q \in Qty,
             Post(cur, o, unknown, q), Blame(unknown, "no_reply"), pc = "open",
             pc' \in {"sl", "check"}, att' = [sig |-> cur, ord |-> o, qty |-> q],
             UNCHANGED <<database, request>>
      PROVE  Standing' /\ Alone'
  <2>1. /\ own'[o] = cur
        /\ \A p \in Order \ {o} : Kept(p)' =>
                Kept(p) /\ own'[p] = own[p] /\ own[p] # cur
    <3>1. \A p \in Order : (Caused(p) => Caused(p)') /\ (p \in unknown => Caused(p)')
      BY <1>0, <1>2, BlameOnly DEF Cause
    <3> QED
      BY <1>0, <1>2, <3>1, PostKept
  <2>2. Stands(o)'
    BY <1>0, <1>2, <2>1 DEF Stands, Busy, database, request
  <2>3. ASSUME NEW p \in Order \ {o}, Kept(p), own'[p] = own[p], own[p] # cur
        PROVE  Stands(p)'
    BY <1>2, <2>3 DEF NInv, Standing, Stands, database, request
  <2> QED
    BY <1>0, <2>1, <2>2, <2>3, PostStanding
<1>3. CASE OpenMarket
  BY <1>0, <1>2, <1>3 DEF OpenMarket, Attach
<1>4. CASE OpenLimit
  BY <1>0, <1>2, <1>4 DEF OpenLimit
<1>5. CASE OpenStop
  <2> PICK o \in Order, unknown \in Unanswered, q \in Qty :
        /\ pc = "open"
        /\ Post(cur, o, unknown, q)
        /\ \/ q > 0 /\ Attach(cur, o, q) /\ Blame(unknown, "no_reply")
           \/ /\ q = 0
              /\ Submit(o)
              /\ BlameBoth(unknown, "no_reply", Unlisted(o), "never_listed")
    BY <1>5 DEF OpenStop
  <2>1. CASE Attach(cur, o, q) /\ Blame(unknown, "no_reply")
    BY <1>2, <2>1 DEF Attach
  <2>2. CASE Submit(o) /\ BlameBoth(unknown, "no_reply", Unlisted(o), "never_listed")
    <3>1. /\ own'[o] = cur
          /\ \A p \in Order \ {o} : Kept(p)' =>
                Kept(p) /\ own'[p] = own[p] /\ own[p] # cur
      <4>1. \A p \in Order : (Caused(p) => Caused(p)') /\ (p \in unknown => Caused(p)')
        BY <1>0, <2>2, BlameBothOnly DEF Cause
      <4> QED
        BY <1>0, <4>1, PostKept
    <3>2. /\ row' = [row EXCEPT ![cur] = "submitted"]
          /\ ord' = [ord EXCEPT ![cur] = o] /\ cur' = NoSignal
      BY <2>2 DEF Submit, Answer
    <3>3. Stands(o)'
      BY <1>0, <3>1, <3>2 DEF Stands, TypeOK
    <3>4. ASSUME NEW p \in Order \ {o}, Kept(p), own'[p] = own[p], own[p] # cur
          PROVE  Stands(p)'
      <4>1. own[p] \in Signal /\ own[p] # NoSignal /\ Stands(p)
        BY <1>0, <3>4 DEF NInv, Standing, TypeOK, ExchangeTypeOK, Kept, Placed
      <4> QED
        BY <1>0, <3>2, <3>4, <4>1 DEF Stands, TypeOK
    <3> QED
      BY <1>0, <3>1, <3>3, <3>4, PostStanding
  <2> QED
    BY <2>1, <2>2
<1>6. CASE OpenLost
  <2> PICK o \in Fresh, q \in Qty :
        /\ pc = "open" /\ Book(cur, {o}, q, q < Full)
        /\ Blame({o}, "no_reply") /\ Answer("error") /\ UNCHANGED ord
    BY <1>6 DEF OpenLost
  <2>1. \A p \in Order : (Caused(p) => Caused(p)') /\ (p \in {o} => Caused(p)')
    BY <1>0, BlameOnly DEF Cause
  <2>2. \A p \in Order \ {o} : own'[p] = own[p] /\ (InMarket(p)' => InMarket(p))
    BY DEF Book, InMarket
  <2>3. \A p \in Order : Kept(p)' => p # o /\ Kept(p) /\ own'[p] = own[p]
    BY <2>1, <2>2 DEF Kept, Placed
  <2>4. ASSUME NEW p \in Order, Kept(p), own'[p] = own[p] PROVE Stands(p)'
    <3>1. own[p] # cur
      BY <2>4, NoneInHand
    <3>2. own[p] \in Signal /\ own[p] # NoSignal /\ Stands(p)
      BY <1>0, <2>4 DEF NInv, Standing, TypeOK, ExchangeTypeOK, Kept, Placed
    <3>3. row' = [row EXCEPT ![cur] = "error"] /\ cur' = NoSignal
      BY DEF Answer
    <3> QED
      BY <1>0, <2>4, <3>1, <3>2, <3>3 DEF Stands, TypeOK
  <2> QED
    BY <2>3, <2>4 DEF NInv, Standing, Alone
<1>7. CASE CheckLimit
  <2>0. /\ pc = "check" /\ UNCHANGED <<exchange, own>> /\ att.ord \in Order
        /\ att.sig = cur
    BY <1>7 DEF CheckLimit, NInv, EInv, IInv, Passes, Covering, exchange
  <2>h. \A o \in Order : Kept(o) /\ own[o] = cur => o = att.ord
    BY <1>0 DEF NInv, Standing, Stands, Busy
  <2>1. CASE Attach(cur, att.ord, filled[att.ord]) /\ NoBlame
    <3>1. Narrows
      BY <2>0, <2>1, StillNarrows DEF NoBlame
    <3>2. ASSUME NEW o \in Order, Stands(o) PROVE Stands(o)'
      BY <2>0, <2>1, <3>2 DEF Attach, Stands, Busy, database, request
    <3> QED
      BY <3>1, <3>2, NarrowsStands
  <2>2. CASE Submit(att.ord) /\ Blame(Unlisted(att.ord), "never_listed")
    <3>0. \A o \in Order : Caused(o) => Caused(o)'
      BY <1>0, <2>2, BlameOnly DEF Cause
    <3>1. Narrows
      BY <2>0, <3>0 DEF Narrows, InMarket, exchange
    <3>2. /\ row' = [row EXCEPT ![cur] = "submitted"]
          /\ ord' = [ord EXCEPT ![cur] = att.ord] /\ cur' = NoSignal
      BY <2>2 DEF Submit, Answer
    <3>3. ASSUME NEW o \in Order, Kept(o), Stands(o) PROVE Stands(o)'
      <4>1. own[o] \in Signal /\ own[o] # NoSignal
        BY <1>0, <3>3 DEF TypeOK, ExchangeTypeOK, Kept, Placed
      <4>2. CASE own[o] = cur
        BY <1>0, <2>0, <2>h, <3>2, <3>3, <4>2 DEF Stands, TypeOK
      <4>3. CASE own[o] # cur
        BY <1>0, <2>0, <3>2, <3>3, <4>1, <4>3 DEF Stands, TypeOK
      <4> QED
        BY <4>2, <4>3
    <3> QED
      BY <3>1, <3>3, NarrowsStands
  <2>3. CASE Answer("error") /\ Blame({att.ord}, "not_recorded") /\ UNCHANGED ord
    <3>1. \A o \in Order : (Caused(o) => Caused(o)') /\ (o = att.ord => Caused(o)')
      BY <1>0, <2>3, BlameOnly DEF Cause
    <3>2. Narrows
      BY <2>0, <3>1 DEF Narrows, InMarket, exchange
    <3>3. ASSUME NEW o \in Order, Kept(o), Kept(o)', Stands(o) PROVE Stands(o)'
      <4>1. own[o] # cur
        BY <2>h, <3>1, <3>3 DEF Kept
      <4> QED
        BY <1>0, <2>0, <2>3, <3>3, <4>1, AnswerStands
    <3> QED
      BY <3>2, <3>3, NarrowsStands
  <2> QED
    BY <1>7, <2>1, <2>2, <2>3 DEF CheckLimit
<1> QED
  BY <1>1, <1>3, <1>4, <1>5, <1>6, <1>7 DEF Open

LEMMA ProtectStanding == NInv /\ Protect => Standing' /\ Alone'
<1> SUFFICES ASSUME NInv, Protect PROVE Standing' /\ Alone'
  OBVIOUS
<1>0. /\ TypeOK /\ Runs /\ Passes /\ Watched /\ InProtect /\ att.ord \in Order
      /\ att.sig \in Signal /\ att.sig # NoSignal /\ att.qty \in Qty
  BY ExchangeAssumption
     DEF NInv, EInv, IInv, TypeOK, Passes, InProtect, Protect, Focus, PlaceStopLoss,
         TakeProfitFails, Protected, AbortSweep, EmergencyClose
<1>h. \A o \in Order : Busy(o) => o = att.ord
  BY DEF Busy
<1>k. \A o \in Order : Kept(o) => own[o] \in Signal /\ own[o] # NoSignal
  BY <1>0 DEF TypeOK, ExchangeTypeOK, Kept, Placed
<1>1. CASE PlaceStopLoss \/ TakeProfitFails \/ AbortSweep
  <2>1. /\ UNCHANGED <<own, lot, database, request, focus>>
        /\ \A o \in Order : live'[o] => live[o]
        /\ pc' \in {"tp", "sweep", "eclose"}
    BY <1>1 DEF PlaceStopLoss, AddStop, TakeProfitFails, AbortSweep, CancelAllOrders,
                SweepOrders, exchange
  <2>2. \A o \in Order : Caused(o) => Caused(o)'
    <3>1. CASE AbortSweep
      <4> DEFINE bare == {o \in Order : o # att.ord /\ Naked(o)' /\ ~Naked(o)}
      <4>1. Blame(bare, "swept")
        BY <3>1 DEF AbortSweep
      <4> HIDE DEF bare
      <4> QED
        BY <1>0, <4>1, BlameOnly DEF Cause
    <3>2. CASE PlaceStopLoss \/ TakeProfitFails
      BY <3>2 DEF PlaceStopLoss, TakeProfitFails, Caused
    <3> QED
      BY <1>1, <3>1, <3>2
  <2>3. Narrows
    BY <2>1, <2>2 DEF Narrows, InMarket
  <2>4. UNCHANGED <<own, row, ord, cur, att>> /\ \A o \in Order : Busy(o) => Busy(o)'
    BY <2>1 DEF database, request, focus, Busy
  <2> QED
    BY <2>3, <2>4, SameStands, NarrowsStands
<1>2. CASE Protected
  <2> DEFINE rest == {o \in Order : o = att.ord /\ Exposed(o)}
  <2>1. /\ UNCHANGED exchange /\ Settle("traded") /\ Blame(rest, "partial_fill")
        /\ ord' = [ord EXCEPT ![att.sig] = att.ord]
    BY <1>2 DEF Protected
  <2>2. \A o \in Order : Caused(o) => Caused(o)'
    <3> HIDE DEF rest
    <3> QED
      BY <1>0, <2>1, BlameOnly DEF Cause
  <2>3. Narrows /\ own' = own
    BY <2>1, <2>2 DEF Narrows, InMarket, exchange
  <2>4. /\ row' = [row EXCEPT ![att.sig] = "traded"]
        /\ cur' = IF att.sig = cur THEN NoSignal ELSE cur
    BY <2>1 DEF Settle, Answer, request
  <2>5. ASSUME NEW o \in Order, Kept(o), Stands(o) PROVE Stands(o)'
    <3>1. CASE own[o] = att.sig
      BY <1>0, <2>3, <2>4, <3>1 DEF Stands, TypeOK
    <3>2. CASE own[o] # att.sig
      <4>1. row'[own[o]] = row[own[o]] /\ ord'[own[o]] = ord[own[o]] /\ own'[o] = own[o]
        BY <1>0, <1>k, <2>1, <2>3, <2>4, <2>5, <3>2 DEF TypeOK
      <4>2. own[o] # cur'
        BY <1>0, <1>k, <2>4, <2>5, <3>2 DEF Stands, Runs
      <4> QED
        BY <2>5, <3>2, <4>1, <4>2 DEF Stands
    <3> QED
      BY <3>1, <3>2
  <2> QED
    BY <2>3, <2>5, NarrowsStands
<1>3. CASE EmergencyClose
  <2> DEFINE rest == {o \in Order : o = att.ord /\ InMarket(o)'}
             cut == [NoLots EXCEPT ![att.ord] = att.qty]
  <2>1. /\ Reduce(cut) \/ UNCHANGED exchange
        /\ Settle("error") /\ UNCHANGED ord
        /\ \E cause \in Cause \ {"none"} : Blame(rest, cause)
    BY <1>3 DEF EmergencyClose, Cause
  <2>2. \A o \in Order : (Caused(o) => Caused(o)') /\ (o \in rest => Caused(o)')
    <3> HIDE DEF rest
    <3> QED
      BY <1>0, <2>1, BlameOnly
  <2>3. own' = own /\ \A o \in Order : InMarket(o)' => InMarket(o)
    <3>1. \A o \in Order : cut[o] \in Nat
      BY <1>0, ExchangeAssumption DEF NoLots, Qty
    <3>2. \A p, q \in Nat : Minus(p, q) > 0 => p > 0
      BY DEF Minus
    <3>3. lot \in [Order -> Nat]
      BY <1>0, ExchangeAssumption DEF TypeOK, ExchangeTypeOK, Qty
    <3> HIDE DEF cut
    <3> QED
      BY <2>1, <3>1, <3>2, <3>3 DEF Reduce, InMarket, exchange
  <2>4. Narrows
    BY <2>2, <2>3 DEF Narrows
  <2>5. /\ row' = [row EXCEPT ![att.sig] = "error"]
        /\ cur' = IF att.sig = cur THEN NoSignal ELSE cur
    BY <2>1 DEF Settle, Answer, request
  <2>6. att.sig = cur => row[att.sig] = "received"
    BY <1>0 DEF Runs
  <2>7. att.sig # cur => Resolvable(att.sig) /\ ord[att.sig] = att.ord
    BY <1>0 DEF Passes, Watched
  <2>8. ASSUME NEW o \in Order, Kept(o), Kept(o)', Stands(o) PROVE Stands(o)'
    <3>1. CASE own[o] = att.sig
      <4>1. o = att.ord
        BY <1>h, <2>6, <2>7, <2>8, <3>1 DEF Stands, Resolvable
      <4> QED
        BY <2>2, <2>8, <4>1 DEF Kept
    <3>2. CASE own[o] # att.sig
      <4>1. row'[own[o]] = row[own[o]] /\ ord'[own[o]] = ord[own[o]] /\ own'[o] = own[o]
        BY <1>0, <1>k, <2>1, <2>3, <2>5, <2>8, <3>2 DEF TypeOK
      <4>2. own[o] # cur'
        BY <1>0, <1>k, <2>5, <2>8, <3>2 DEF Stands, Runs
      <4> QED
        BY <2>8, <3>2, <4>1, <4>2 DEF Stands
    <3> QED
      BY <3>1, <3>2
  <2> QED
    BY <2>4, <2>8, NarrowsStands
<1> QED
  BY <1>1, <1>2, <1>3 DEF Protect

LEMMA CloseStanding == NInv /\ Close => Standing' /\ Alone'
<1> SUFFICES ASSUME NInv, Close PROVE Standing' /\ Alone'
  OBVIOUS
<1>0. /\ TypeOK /\ cur # NoSignal /\ pc \in {"position", "fsweep", "csweep", "mclose"}
  BY DEF NInv, EInv, IInv, Runs, Close, CloseRefused, ReadFlat, CloseAlreadyFlat,
         ReadPosition, CloseSweep, CloseMarket
<1>b. \A o \in Order : ~Busy(o)
  BY <1>0 DEF Busy
<1>1. /\ own' = own /\ \A o \in Order : InMarket(o)' => InMarket(o)
  <2>1. CASE Reduce(snap)
    <3>1. \A p, q \in Nat : Minus(p, q) > 0 => p > 0
      BY DEF Minus
    <3>2. lot \in [Order -> Nat] /\ snap \in [Order -> Nat]
      BY <1>0, ExchangeAssumption DEF TypeOK, ExchangeTypeOK, Qty
    <3> QED
      BY <2>1, <3>1, <3>2 DEF Reduce, InMarket
  <2>2. CASE UNCHANGED exchange
    BY <2>2 DEF exchange, InMarket
  <2>3. CASE CancelAllOrders
    BY <2>3 DEF CancelAllOrders, SweepOrders, InMarket
  <2> QED
    BY <2>1, <2>2, <2>3 DEF Close, CloseRefused, ReadFlat, CloseAlreadyFlat,
                       ReadPosition, CloseSweep, CloseMarket
<1>2. \A o \in Order : Caused(o) => Caused(o)'
  <2>1. CASE UNCHANGED why
    BY <2>1 DEF Caused
  <2>2. CASE CloseSweep
    <3> DEFINE bare == {o \in Order : snap[o] = 0 /\ Naked(o)' /\ ~Naked(o)}
    <3>1. Blame(bare, "swept")
      BY <2>2 DEF CloseSweep
    <3> HIDE DEF bare
    <3> QED
      BY <1>0, <3>1, BlameOnly DEF Cause
  <2>3. CASE CloseAlreadyFlat
    <3> DEFINE bare == {o \in Order : Naked(o)' /\ ~Naked(o)}
    <3>1. Blame(bare, "swept")
      BY <2>3 DEF CloseAlreadyFlat
    <3> HIDE DEF bare
    <3> QED
      BY <1>0, <3>1, BlameOnly DEF Cause
  <2>4. CASE CloseMarket
    <3> DEFINE bare == {o \in Order : snap[o] > 0 /\ Naked(o)'}
    <3>1. \E cause \in Cause \ {"none"} : Blame(bare, cause)
      BY <2>4 DEF CloseMarket, Cause
    <3> HIDE DEF bare
    <3> QED
      BY <1>0, <3>1, BlameOnly
  <2> QED
    BY <2>1, <2>2, <2>3, <2>4 DEF Close, CloseRefused, ReadFlat, ReadPosition
<1>3. Narrows
  BY <1>1, <1>2 DEF Narrows
<1>4. CASE ReadFlat \/ ReadPosition \/ CloseSweep
  <2>1. UNCHANGED <<row, ord, cur>>
    BY <1>4 DEF ReadFlat, ReadPosition, CloseSweep, database, request
  <2> QED
    BY <1>1, <1>3, <1>b, <2>1, SameStands, NarrowsStands
<1>5. CASE CloseRefused \/ CloseAlreadyFlat \/ CloseMarket
  <2>1. ord' = ord /\ \E status \in {"traded", "error"} : Answer(status)
    BY <1>5 DEF CloseRefused, CloseAlreadyFlat, CloseMarket
  <2>2. \A o \in Order : Kept(o) => own[o] # cur
    BY <1>0, NoneInHand
  <2>3. \A o \in Order : Kept(o) => Stands(o)'
    BY <1>0, <1>1, <2>1, <2>2, AnswerStands
  <2> QED
    BY <1>3, <2>3, NarrowsStands
<1> QED
  BY <1>4, <1>5 DEF Close

LEMMA CancelEntriesStanding == NInv /\ CancelEntries => Standing' /\ Alone'
<1> SUFFICES ASSUME NInv, CancelEntries PROVE Standing' /\ Alone'
  OBVIOUS
<1>0. pc = "cancel" /\ UNCHANGED cur
  BY DEF CancelEntries, CancelDone, CancelPendingEntry, request
<1>b. \A o \in Order : ~Busy(o)
  BY <1>0 DEF Busy
<1>1. CASE UNCHANGED <<exchange, database, why>>
  <2>1. Narrows /\ UNCHANGED <<own, row, ord>>
    BY <1>1, StillNarrows DEF exchange, database
  <2> QED
    BY <1>0, <1>b, <2>1, SameStands, NarrowsStands
<1>2. ASSUME NEW s \in Signal, row[s] = "submitted", CancelEntryOrder(s)
      PROVE  Standing' /\ Alone'
  BY <1>0, <1>b, <1>2, CancelEntryOrderStanding DEF Resolvable
<1> QED
  BY <1>1, <1>2 DEF CancelEntries, CancelDone, CancelPendingEntry

LEMMA OtherStanding ==
    ASSUME NInv,
           \/ \E b \in Batch : IngestSignals(b)
           \/ \E legs \in SUBSET Signal : CancelRequest(legs)
           \/ ReconcileTick
           \/ Crash
           \/ \E old \in SUBSET Signal : ListSignals(old)
           \/ \E s \in Signal : Age(s)
           \/ MarketStep
           \/ UNCHANGED vars
    PROVE  Standing' /\ Alone'
<1>0. TypeOK /\ Runs
  BY DEF NInv, EInv, IInv
<1>1. CASE \/ \E b \in Batch : IngestSignals(b)
           \/ \E legs \in SUBSET Signal : CancelRequest(legs)
           \/ ReconcileTick
           \/ \E s \in Signal : Age(s)
           \/ UNCHANGED vars
  <2>1. UNCHANGED <<exchange, why>> /\ UNCHANGED <<own, row, ord, cur, att>>
    BY <1>1 DEF IngestSignals, CancelRequest, ReconcileTick, Age, vars, exchange,
                database, request, focus
  <2>2. \A o \in Order : Busy(o) => Busy(o)'
    BY <1>1 DEF IngestSignals, CancelRequest, ReconcileTick, Age, vars, focus, Busy
  <2> QED
    BY <2>1, <2>2, StillNarrows, SameStands, NarrowsStands
<1>2. CASE Crash
  <2> DEFINE lost == {o \in Order : Exposed(o) /\ ~Tracked(o)}
  <2>1. UNCHANGED <<own, row, ord>> /\ UNCHANGED exchange /\ cur' = NoSignal
        /\ Blame(lost, "crash")
    BY <1>2 DEF Crash, exchange, database
  <2>2. \A o \in Order : Caused(o) => Caused(o)'
    <3> HIDE DEF lost
    <3> QED
      BY <1>0, <2>1, BlameOnly DEF Cause
  <2>3. Narrows
    BY <2>1, <2>2 DEF Narrows, InMarket, exchange
  <2>4. \A o \in Order : Kept(o) /\ Stands(o) => Stands(o)'
    BY <2>1 DEF Stands, Kept, Placed
  <2> QED
    BY <2>3, <2>4, NarrowsStands
<1>3. ASSUME NEW old \in SUBSET Signal, ListSignals(old) PROVE Standing' /\ Alone'
  <2> DEFINE lost == {o \in Order : InMarket(o) /\ own[o] \in old}
  <2>1. /\ UNCHANGED exchange /\ UNCHANGED <<own, cur>> /\ pc = "idle" /\ Blame(lost, "retention")
        /\ row' = [s \in Signal |-> IF s \in old THEN "absent" ELSE row[s]]
        /\ ord' = [s \in Signal |-> IF s \in old THEN NoOrder ELSE ord[s]]
    BY <1>3 DEF ListSignals, exchange, request
  <2>2. \A o \in Order : (Caused(o) => Caused(o)') /\ (o \in lost => Caused(o)')
    <3> HIDE DEF lost
    <3> QED
      BY <1>0, <2>1, BlameOnly DEF Cause
  <2>3. Narrows
    BY <2>1, <2>2 DEF Narrows, InMarket, exchange
  <2>4. ASSUME NEW o \in Order, Kept(o), Kept(o)', Stands(o) PROVE Stands(o)'
    <3>1. own[o] \in Signal \ old
      BY <1>0, <2>2, <2>4 DEF Kept, Placed, TypeOK, ExchangeTypeOK
    <3>2. ~Busy(o)
      BY <2>1 DEF Busy
    <3> QED
      BY <2>1, <2>4, <3>1, <3>2 DEF Stands
  <2> QED
    BY <2>3, <2>4, NarrowsStands
<1>4. CASE MarketStep
  <2>1. PICK o \in Order : Fill(o) \/ StopOut(o) \/ Expire(o)
    BY <1>4 DEF MarketStep, Market
  <2>2. UNCHANGED <<row, ord, cur, att, pc, why>>
    BY <1>4 DEF MarketStep, database, request, focus
  <2>3. own' = own /\ \A p \in Order : InMarket(p)' => InMarket(p)
    <3>1. CASE Fill(o)
      BY <1>0, <3>1 DEF Fill, InMarket, TypeOK, ExchangeTypeOK
    <3>2. CASE StopOut(o)
      BY <1>0, <3>2 DEF StopOut, InMarket, TypeOK, ExchangeTypeOK
    <3>3. CASE Expire(o)
      BY <1>0, <3>3 DEF Expire, TakeOff, InMarket, TypeOK, ExchangeTypeOK
    <3> QED
      BY <2>1, <3>1, <3>2, <3>3
  <2>4. Narrows
    BY <2>2, <2>3 DEF Narrows, Caused
  <2>5. \A p \in Order : Busy(p) => Busy(p)'
    BY <2>2 DEF Busy
  <2> QED
    BY <2>2, <2>3, <2>4, <2>5, SameStands, NarrowsStands
<1> QED
  BY <1>1, <1>2, <1>3, <1>4

-----------------------------------------------------------------------------
(* What an entry in hand is covered by. *)

\* Elsewhere there is nothing to show.
LEMMA Released ==
    ASSUME pc' \in {"idle", "guard", "scan", "ttl", "peer", "cancel", "open"}
    PROVE  Covering'
BY DEF Covering, InProtect

\* The account and the place are as before.
LEMMA SameCovering ==
    ASSUME Covering, UNCHANGED <<exchange, pc, cur, att>>
    PROVE  Covering'
BY DEF Covering, InProtect, exchange

LEMMA MarketCovering == NInv /\ MarketStep => Covering'
<1> SUFFICES ASSUME NInv, MarketStep PROVE Covering'
  OBVIOUS
<1>1. PICK o \in Order : Fill(o) \/ StopOut(o) \/ Expire(o)
  BY DEF MarketStep, Market
<1>2. UNCHANGED <<own, pc, cur, att>>
  BY <1>1 DEF MarketStep, request, focus, Fill, StopOut, Expire, TakeOff
<1>3. /\ filled \in [Order -> Nat] /\ lot \in [Order -> Nat] /\ sl \in [Order -> Nat]
      /\ \A p \in Order : lot[p] <= filled[p]
  BY ExchangeAssumption DEF NInv, EInv, IInv, TypeOK, ExchangeTypeOK, Qty
<1>4. InProtect => att.ord \in Order /\ att.qty \in Nat
  BY ExchangeAssumption DEF NInv, EInv, IInv, TypeOK, Passes, Focus, Qty
<1>5. InProtect => att.qty <= (filled[att.ord])'
  <2>1. InProtect => att.qty <= filled[att.ord]
    BY DEF NInv, Covering
  <2>2. CASE Fill(o)
    BY <1>2, <1>3, <1>4, <2>1, <2>2 DEF Fill
  <2>3. CASE StopOut(o) \/ Expire(o)
    BY <1>2, <2>1, <2>3 DEF StopOut, Expire, TakeOff
  <2> QED
    BY <1>1, <2>2, <2>3
<1>6. pc = "tp" => (lot[att.ord])' + att.qty <= (sl[att.ord])' + (filled[att.ord])'
  <2> SUFFICES ASSUME pc = "tp"
               PROVE  lot'[att.ord] + att.qty <= sl'[att.ord] + filled'[att.ord]
    BY <1>2
  <2> DEFINE p == att.ord
             n == att.qty
  <2>1. /\ p \in Order /\ n \in Nat /\ n <= filled[p]
        /\ lot[p] + n <= sl[p] + filled[p]
    BY <1>4 DEF NInv, Covering, InProtect
  <2> HIDE DEF p, n
  <2>2. CASE Fill(o)
    <3>1. PICK q \in 1 .. (Full - filled[o]) :
            /\ filled' = [filled EXCEPT ![o] = @ + q]
            /\ lot' = [lot EXCEPT ![o] = @ + q]
      BY <2>2 DEF Fill
    <3>2. sl' = sl /\ q \in Nat
      BY <1>3, <2>2, ExchangeAssumption DEF Fill
    <3>3. CASE p = o
      BY <1>3, <2>1, <3>1, <3>2, <3>3 DEF p, n
    <3>4. CASE p # o
      BY <1>3, <2>1, <3>1, <3>2, <3>4 DEF p, n
    <3> QED
      BY <3>3, <3>4
  <2>3. CASE StopOut(o)
    <3>1. /\ lot' = [lot EXCEPT ![o] = Minus(@, sl[o])]
          /\ sl' = [sl EXCEPT ![o] = 0]
          /\ filled' = filled
      BY <2>3 DEF StopOut
    <3>2. CASE p = o
      BY <1>3, <2>1, <3>1, <3>2 DEF Minus, p, n
    <3>3. CASE p # o
      BY <1>3, <2>1, <3>1, <3>3 DEF p, n
    <3> QED
      BY <3>2, <3>3
  <2>4. CASE Expire(o)
    BY <2>1, <2>4 DEF Expire, TakeOff, p, n
  <2> QED
    BY <1>1, <2>2, <2>3, <2>4
<1> QED
  BY <1>2, <1>5, <1>6 DEF NInv, Covering, InProtect

LEMMA OpenCovering == NInv /\ Open => Covering'
<1> SUFFICES ASSUME NInv, Open PROVE Covering'
  OBVIOUS
<1>0. /\ TypeOK /\ Passes /\ Covering /\ cur \in Signal
      /\ Full \in Qty /\ 0 \in Qty
  BY ExchangeAssumption
     DEF NInv, EInv, IInv, TypeOK, Open, Runs, OpenRefused, OpenMarket, OpenLimit,
         OpenStop, OpenLost, CheckLimit, Qty
<1>1. ASSUME NEW o \in Order, NEW unknown \in Unanswered, NEW q \in Qty,
             Post(cur, o, unknown, q), Attach(cur, o, q)
      PROVE  Covering'
  <2>1. own'[o] = cur /\ filled'[o] = q
    BY <1>1 DEF Post, Book
  <2>2. q <= q
    BY ExchangeAssumption DEF Qty
  <2>3. pc' = "sl" /\ cur' = cur /\ att' = [sig |-> cur, ord |-> o, qty |-> q]
    BY <1>1 DEF Attach, request
  <2> QED
    BY <2>1, <2>2, <2>3 DEF Covering, InProtect
<1>2. CASE OpenMarket
  BY <1>0, <1>1, <1>2 DEF OpenMarket
<1>3. CASE OpenLimit
  BY <1>3 DEF OpenLimit, Covering, InProtect, request
<1>4. CASE OpenStop
  <2>1. ASSUME NEW o, Submit(o) PROVE Covering'
    BY <2>1, Released DEF Submit, Answer
  <2> QED
    BY <1>0, <1>1, <1>4, <2>1 DEF OpenStop
<1>5. CASE OpenRefused \/ OpenLost
  BY <1>5, Released DEF OpenRefused, OpenLost, Answer
<1>6. CASE CheckLimit
  <2>1. CASE Attach(cur, att.ord, filled[att.ord])
    <3>1. /\ own[att.ord] = cur /\ UNCHANGED exchange
          /\ filled[att.ord] \in Qty
      BY <1>0, <1>6 DEF CheckLimit, Passes, TypeOK, ExchangeTypeOK
    <3>2. filled[att.ord] <= filled[att.ord]
      BY <3>1, ExchangeAssumption DEF Qty
    <3>3. /\ pc' = "sl" /\ cur' = cur
          /\ att' = [sig |-> cur, ord |-> att.ord, qty |-> filled[att.ord]]
      BY <2>1 DEF Attach, request
    <3> QED
      BY <3>1, <3>2, <3>3 DEF Covering, InProtect, exchange
  <2>2. CASE \E status \in {"submitted", "error"} : Answer(status)
    BY <2>2, Released DEF Answer
  <2> QED
    BY <1>6, <2>1, <2>2 DEF CheckLimit, Submit
<1> QED
  BY <1>2, <1>3, <1>4, <1>5, <1>6 DEF Open

LEMMA ProtectCovering == NInv /\ Protect => Covering'
<1> SUFFICES ASSUME NInv, Protect PROVE Covering'
  OBVIOUS
<1>0. /\ Covering /\ InProtect /\ att.ord \in Order /\ att.qty \in Nat
      /\ att.qty <= Full /\ Full \in Nat
      /\ filled \in [Order -> Nat] /\ lot \in [Order -> Nat] /\ sl \in [Order -> Nat]
      /\ \A p \in Order : lot[p] <= filled[p]
  BY ExchangeAssumption
     DEF NInv, EInv, IInv, TypeOK, ExchangeTypeOK, Passes, Focus, Qty, InProtect, Protect,
         PlaceStopLoss, TakeProfitFails, Protected, AbortSweep, EmergencyClose
<1>1. CASE PlaceStopLoss
  <2>1. UNCHANGED <<own, filled, lot, cur, att>> /\ pc' \in {"tp", "sweep"}
    BY <1>1 DEF PlaceStopLoss, AddStop, exchange, request, focus
  <2>2. pc' = "tp" => lot[att.ord] + att.qty <= sl'[att.ord] + filled[att.ord]
    <3>1. pc' = "tp" => sl'[att.ord] = AtMost(sl[att.ord] + att.qty, Full)
      BY <1>0, <1>1 DEF PlaceStopLoss, AddStop
    <3> QED
      BY <1>0, <3>1 DEF AtMost
  <2> QED
    BY <1>0, <2>1, <2>2 DEF Covering, InProtect
<1>2. CASE TakeProfitFails \/ AbortSweep
  <2>1. UNCHANGED <<own, filled, cur, att>> /\ pc' \in {"sweep", "eclose"}
    BY <1>2 DEF TakeProfitFails, AbortSweep, CancelAllOrders, SweepOrders, exchange,
                request, focus
  <2> QED
    BY <1>0, <2>1 DEF Covering, InProtect
<1>3. CASE Protected \/ EmergencyClose
  <2>1. pc' \in {"guard", "peer", "scan"}
    BY <1>3 DEF Protected, EmergencyClose, Settle, Answer
  <2> QED
    BY <2>1, Released
<1> QED
  BY <1>1, <1>2, <1>3 DEF Protect

LEMMA CloseCovering == NInv /\ Close => Covering'
<1> SUFFICES ASSUME NInv, Close PROVE Covering'
  OBVIOUS
<1>1. CASE ReadFlat \/ ReadPosition \/ CloseSweep
  BY <1>1 DEF ReadFlat, ReadPosition, CloseSweep, request, NInv, Covering, InProtect
<1>2. CASE CloseRefused \/ CloseAlreadyFlat \/ CloseMarket
  BY <1>2, Released DEF CloseRefused, CloseAlreadyFlat, CloseMarket, Answer
<1> QED
  BY <1>1, <1>2 DEF Close

LEMMA ScanCovering == NInv /\ Scan => Covering'
<1> SUFFICES ASSUME NInv, Scan PROVE Covering'
  OBVIOUS
<1>1. ASSUME NEW s \in Signal, ScanFilled(s) PROVE Covering'
  <2>1. /\ own[ord[s]] = s /\ filled[ord[s]] \in Qty /\ UNCHANGED exchange
        /\ pc' = "sl" /\ att' = [sig |-> s, ord |-> ord[s], qty |-> filled[ord[s]]]
    BY <1>1 DEF ScanFilled, NextRow, NInv, EInv, IInv, Passes, InPass, TypeOK, ExchangeTypeOK
  <2>2. filled[ord[s]] <= filled[ord[s]]
    BY <2>1, ExchangeAssumption DEF Qty
  <2> QED
    BY <2>1, <2>2 DEF Covering, InProtect, exchange
<1>2. CASE ScanDone
  BY <1>2, Released DEF ScanDone, request, Covering, InProtect
<1>3. ASSUME NEW s \in Signal,
             ScanKeep(s) \/ ScanBreaks(s) \/ ScanGone(s) \/ ScanExpired(s)
      PROVE  Covering'
  BY <1>3, Released DEF ScanKeep, ScanBreaks, ScanGone, ScanExpired, NextRow
<1>4. CASE CancelExpired \/ CancelPeer
  BY <1>4, Released DEF CancelExpired, CancelPeer
<1> QED
  BY <1>1, <1>2, <1>3, <1>4 DEF Scan

LEMMA OtherCovering ==
    ASSUME NInv,
           \/ Guard
           \/ CancelEntries
           \/ \E b \in Batch : IngestSignals(b)
           \/ \E legs \in SUBSET Signal : CancelRequest(legs)
           \/ ReconcileTick
           \/ Crash
           \/ \E old \in SUBSET Signal : ListSignals(old)
           \/ \E s \in Signal : Age(s)
           \/ UNCHANGED vars
    PROVE  Covering'
<1>1. CASE \/ \E b \in Batch : IngestSignals(b)
           \/ \E legs \in SUBSET Signal : CancelRequest(legs)
           \/ ReconcileTick
           \/ Crash
           \/ \E old \in SUBSET Signal : ListSignals(old)
           \/ Guard
           \/ CancelEntries
  BY <1>1, Released
     DEF IngestSignals, CancelRequest, ReconcileTick, Crash, ListSignals, Guard,
         GuardAccepts, GuardSkips, BatchDone, CancelEntries, CancelDone, CancelPendingEntry
<1>2. CASE (\E s \in Signal : Age(s)) \/ UNCHANGED vars
  BY <1>2, SameCovering DEF Age, vars, request, focus, NInv
<1> QED
  BY <1>1, <1>2

-----------------------------------------------------------------------------
LEMMA InitNInv == Init => Covering /\ Standing /\ Alone
BY DEF Init, ExchangeInit, Covering, InProtect, Standing, Alone, Kept, Placed

\* NInv is inductive, given what is known of IInv and of Watched.
LEMMA StepNInv == NInv /\ [Next]_vars => Covering' /\ Standing' /\ Alone'
BY GuardStanding, ScanStanding, OpenStanding, ProtectStanding, CloseStanding,
   CancelEntriesStanding, OtherStanding, MarketCovering, OpenCovering, ProtectCovering,
   CloseCovering, ScanCovering, OtherCovering
   DEF Next, Handler

LEMMA StepWatched == IInv /\ Watched /\ [Next]_vars => Watched'
BY GuardWatched, ScanWatched, OpenWatched, ProtectWatched, CloseWatched,
   CancelEntriesWatched, OtherWatched
   DEF Next, Handler, EInv

THEOREM EntriesInductive == Spec => []NInv
<1>1. Init => Watched /\ Covering /\ Standing /\ Alone
  BY InitWatched, InitNInv
<1>2. /\ IInv /\ Watched /\ Covering /\ Standing /\ Alone /\ [Next]_vars
      => Watched' /\ Covering' /\ Standing' /\ Alone'
  BY StepWatched, StepNInv DEF NInv, EInv
<1>3. IInv /\ Watched /\ Covering /\ Standing /\ Alone => NInv
  BY DEF NInv, EInv
<1> QED
  BY Inductive, <1>1, <1>2, <1>3, PTL DEF Spec

\* Retries, passes over an old list, lost answers, crashes and late cancels
\* never put a signal into the market twice, unless one of the two orders was
\* left to itself by a named cause.
THEOREM NeverTwiceWithoutCause == Spec => []OnceInMarket
<1>1. NInv => OnceInMarket
  BY DEF NInv, Alone, Kept, Caused, OnceInMarket, Placed
<1> QED
  BY EntriesInductive, <1>1, PTL

\* What a failed or a cancelled row says is over, is over, unless a named cause
\* left its order to itself: the signal may be retried.
THEOREM RetriesFindNothing == Spec => []RetryFindsNothing
<1>1. NInv => RetryFindsNothing
  <2> SUFFICES ASSUME NInv, NEW o \in Order, Placed(o), InMarket(o),
                      row[own[o]] \in Retryable, ~Caused(o)
               PROVE  FALSE
    BY DEF RetryFindsNothing, Caused
  <2>1. Stands(o)
    BY DEF NInv, Standing, Kept
  <2> QED
    BY <2>1 DEF Stands, Retryable
<1> QED
  BY EntriesInductive, <1>1, PTL

\* Only Protected makes the row of an open traded.
LEMMA TradedByProtected ==
    ASSUME NInv, [Next]_vars, NEW s \in Signal, Action[s] # "close",
           row[s] # "traded", row'[s] = "traded"
    PROVE  Protected /\ s = att.sig
<1>0. TypeOK /\ cur \in Signal \cup {NoSignal}
  BY DEF NInv, EInv, IInv, TypeOK
<1>1. ASSUME NEW t, NEW status \in Status \ {"traded"}, row' = [row EXCEPT ![t] = status]
      PROVE  FALSE
  BY <1>0, <1>1 DEF TypeOK
<1>2. ASSUME UNCHANGED row PROVE FALSE
  BY <1>2
<1>3. ~Guard
  <2>1. CASE GuardAccepts
    BY <1>1, <2>1 DEF GuardAccepts, Status
  <2>2. CASE GuardSkips \/ BatchDone
    BY <1>2, <2>2 DEF GuardSkips, BatchDone, database
  <2> QED
    BY <2>1, <2>2 DEF Guard
<1>4. ASSUME NEW t, CancelEntryOrder(t) PROVE FALSE
  BY <1>1, <1>4 DEF CancelEntryOrder, Status
<1>5. ~Scan
  <2>1. ASSUME NEW t \in Signal, ScanBreaks(t) PROVE FALSE
    BY <1>1, <1>2, <2>1 DEF ScanBreaks, Status
  <2>2. ASSUME NEW t \in Signal, ScanGone(t) PROVE FALSE
    BY <1>1, <2>2 DEF ScanGone, Status
  <2>3. ASSUME NEW t \in Signal, ScanKeep(t) \/ ScanFilled(t) \/ ScanExpired(t) PROVE FALSE
    BY <1>2, <2>3 DEF ScanKeep, ScanFilled, ScanExpired, database
  <2>4. ~CancelExpired
    BY <1>4 DEF CancelExpired
  <2>5. ~CancelPeer
    BY <1>2, <1>4 DEF CancelPeer, database
  <2>6. ~ScanDone
    BY <1>2 DEF ScanDone, database
  <2> QED
    BY <2>1, <2>2, <2>3, <2>4, <2>5, <2>6 DEF Scan
<1>6. ASSUME NEW status \in {"submitted", "error"}, Answer(status) PROVE FALSE
  BY <1>1, <1>6 DEF Answer, Status
<1>7. ~Open
  <2>1. ~OpenRefused /\ ~OpenLost /\ ~CheckLimit
    BY <1>2, <1>6 DEF OpenRefused, OpenLost, CheckLimit, Submit, Attach, database
  <2>2. ~OpenMarket /\ ~OpenLimit /\ ~OpenStop
    BY <1>2, <1>6 DEF OpenMarket, OpenLimit, OpenStop, Submit, Attach, database
  <2> QED
    BY <2>1, <2>2 DEF Open
<1>8. ~Close
  <2>1. ~ReadFlat /\ ~ReadPosition /\ ~CloseSweep
    BY <1>2 DEF ReadFlat, ReadPosition, CloseSweep, database
  <2>2. ASSUME NEW status, Answer(status), pc \in {"position", "fsweep", "mclose"}
        PROVE  FALSE
    <3>1. row' = [row EXCEPT ![cur] = status] /\ Action[cur] = "close"
      BY <2>2 DEF Answer, NInv, Covering
    <3> QED
      BY <1>0, <3>1 DEF TypeOK
  <2>3. ~CloseRefused /\ ~CloseAlreadyFlat /\ ~CloseMarket
    BY <2>2 DEF CloseRefused, CloseAlreadyFlat, CloseMarket
  <2> QED
    BY <2>1, <2>3 DEF Close
<1>9. ~CancelEntries
  BY <1>2, <1>4 DEF CancelEntries, CancelDone, CancelPendingEntry, database
<1>10. ASSUME Protect PROVE Protected /\ s = att.sig
  <2>1. ~PlaceStopLoss /\ ~TakeProfitFails /\ ~AbortSweep
    BY <1>2 DEF PlaceStopLoss, TakeProfitFails, AbortSweep, database
  <2>2. ASSUME NEW status, Settle(status) PROVE row' = [row EXCEPT ![att.sig] = status]
    BY <2>2 DEF Settle, Answer
  <2>3. ~EmergencyClose
    BY <1>1, <2>2 DEF EmergencyClose, Status
  <2>4. Protected => s = att.sig
    BY <1>0, <2>2 DEF Protected, TypeOK
  <2> QED
    BY <1>10, <2>1, <2>3, <2>4 DEF Protect
<1>11. ~(\E old \in SUBSET Signal : ListSignals(old))
  BY DEF ListSignals
<1>12. ~Crash /\ ~ReconcileTick /\ ~MarketStep /\ ~UNCHANGED vars
  BY <1>2 DEF Crash, ReconcileTick, MarketStep, vars, database
<1>13. /\ ~(\E b \in Batch : IngestSignals(b))
       /\ ~(\E legs \in SUBSET Signal : CancelRequest(legs))
       /\ ~(\E t \in Signal : Age(t))
  BY <1>2 DEF IngestSignals, CancelRequest, Age, database
<1> QED
  BY <1>3, <1>5, <1>7, <1>8, <1>9, <1>10, <1>11, <1>12, <1>13 DEF Next, Handler

\* No open is called traded before a stop loss covers, or a close has taken
\* back, all that its order had executed when it was last read.
THEOREM TradedIsProtected == Spec => ProtectedBeforeTraded
<1> DEFINE Step == \A s \in Signal :
        /\ Action[s] # "close"
        /\ row[s] # "traded"
        /\ row'[s] = "traded"
        => /\ own[ord'[s]] = s
           /\ lot[ord'[s]] + att.qty <= sl[ord'[s]] + filled[ord'[s]]
<1>1. NInv /\ [Next]_vars => Step
  <2> SUFFICES ASSUME NInv, [Next]_vars, NEW s \in Signal, Action[s] # "close",
                      row[s] # "traded", row'[s] = "traded"
               PROVE  /\ own[ord'[s]] = s
                      /\ lot[ord'[s]] + att.qty <= sl[ord'[s]] + filled[ord'[s]]
    OBVIOUS
  <2>1. Protected /\ s = att.sig
    BY TradedByProtected
  <2>2. pc = "tp" /\ ord'[s] = att.ord
    BY <2>1 DEF Protected, NInv, EInv, IInv, TypeOK
  <2> QED
    BY <2>1, <2>2 DEF NInv, Covering, InProtect
<1>2. NInv /\ [Next]_vars => [Step]_vars
  BY <1>1
<1> QED
  BY EntriesInductive, <1>2, PTL DEF Spec, ProtectedBeforeTraded

-----------------------------------------------------------------------------
(* Entries at market, which execute at once. *)

AtMarket(o) == Placed(o) /\ Kind[own[o]] = "MARKET"

\* The causes that leave behind a rest of an entry nobody counted.
Uncounted == {"partial_fill", "abort_residue", "close_residue", "cancelled_row",
              "not_recorded"}

Executed == \A o \in Order :
    /\ AtMarket(o) => filled[o] = Full /\ ~live[o]
    /\ ~Placed(o) => lot[o] = 0 /\ ~live[o]

\* What a handler read of such an entry is all there will ever be of it, and
\* no pass takes one for a working order.
Reading ==
    /\ InProtect /\ Kind[att.sig] = "MARKET" => att.qty = Full
    /\ pc = "ttl" => own[ord[att.sig]] = att.sig /\ Kind[att.sig] # "MARKET"
    /\ pc \in {"csweep", "mclose"} =>
        \A o \in Order : AtMarket(o) /\ snap[o] > 0 => lot[o] <= snap[o]

LeftFairly ==
    \A o \in Order : why[o] \in Uncounted => Placed(o) /\ Kind[own[o]] # "MARKET"

Whole == Executed /\ Reading /\ LeftFairly

\* No order is booked, and none executes more.
Shrinks ==
    /\ UNCHANGED <<own, filled>>
    /\ \A o \in Order : (live'[o] => live[o]) /\ lot'[o] \in 0 .. lot[o]

LEMMA QuantitiesAreNumbers ==
    ASSUME TypeOK
    PROVE  /\ filled \in [Order -> Nat] /\ lot \in [Order -> Nat] /\ sl \in [Order -> Nat]
           /\ snap \in [Order -> Nat]
           /\ Full \in Nat /\ Full # 0
BY ExchangeAssumption DEF TypeOK, ExchangeTypeOK, Qty

LEMMA SameShrinks ==
    ASSUME TypeOK, UNCHANGED exchange
    PROVE  Shrinks
BY QuantitiesAreNumbers DEF Shrinks, exchange

LEMMA TakeOffShrinks ==
    ASSUME TypeOK, NEW o, TakeOff(o)
    PROVE  Shrinks
BY QuantitiesAreNumbers DEF Shrinks, TakeOff, TypeOK, ExchangeTypeOK

LEMMA SweepShrinks ==
    ASSUME TypeOK, CancelAllOrders
    PROVE  Shrinks
BY QuantitiesAreNumbers DEF Shrinks, CancelAllOrders, SweepOrders

LEMMA ReduceShrinks ==
    ASSUME TypeOK, NEW cut \in [Order -> Nat], Reduce(cut)
    PROVE  Shrinks /\ \A o \in Order : lot'[o] = IF lot[o] < cut[o] THEN 0 ELSE lot[o] - cut[o]
BY QuantitiesAreNumbers DEF Shrinks, Reduce, Minus

LEMMA CancelShrinks ==
    ASSUME TypeOK, NEW s, CancelEntryOrder(s)
    PROVE  Shrinks
BY TakeOffShrinks, SameShrinks DEF CancelEntryOrder

LEMMA ShrinksExecuted ==
    ASSUME TypeOK, Executed, Shrinks
    PROVE  Executed'
BY QuantitiesAreNumbers DEF Shrinks, Executed, AtMarket, Placed

\* Causes are only added, and the counted ones to any order.
LEMMA SameFairly ==
    ASSUME LeftFairly, \A o \in Order : Placed(o) => own'[o] = own[o], UNCHANGED why
    PROVE  LeftFairly'
BY DEF LeftFairly, Placed

LEMMA BlameBothFairly ==
    ASSUME TypeOK, LeftFairly, \A o \in Order : Placed(o) => own'[o] = own[o],
           NEW orders, NEW cause, NEW others, NEW otherwise,
           BlameBoth(orders, cause, others, otherwise),
           cause \notin Uncounted, otherwise \notin Uncounted
    PROVE  LeftFairly'
<1>1. \A o \in Order : why'[o] \in Uncounted => why'[o] = why[o]
  BY DEF TypeOK, BlameBoth
<1> QED
  BY <1>1 DEF LeftFairly, Placed

LEMMA BlameFairly ==
    ASSUME TypeOK, LeftFairly, \A o \in Order : Placed(o) => own'[o] = own[o],
           NEW orders, NEW cause, Blame(orders, cause),
           \/ cause \notin Uncounted
           \/ \A o \in Order : o \in orders => Placed(o) /\ Kind[own[o]] # "MARKET"
    PROVE  LeftFairly'
BY DEF TypeOK, Blame, LeftFairly, Placed, Uncounted

\* An entry of a row that a pass or a cancel may still handle, taken for a
\* working or cancelled one, is not at market.
LEMMA NotAtMarket ==
    ASSUME NInv, Whole, NEW s \in Signal, ord[s] \in Order, own[ord[s]] = s,
           Entry(s) # "FILLED"
    PROVE  Kind[s] # "MARKET"
<1>1. s # NoSignal
  BY ExchangeAssumption
<1>2. Kind[s] = "MARKET" => filled[ord[s]] = Full
  BY <1>1 DEF Whole, Executed, AtMarket, Placed
<1> QED
  BY <1>2, ExchangeAssumption DEF Entry, EntryStatus, OrderStatus

-----------------------------------------------------------------------------
LEMMA CancelWhole ==
    ASSUME NInv, Whole, NEW s \in Signal, CancelEntryOrder(s),
           own[ord[s]] = s, Kind[s] # "MARKET"
    PROVE  Executed' /\ LeftFairly'
<1>1. TypeOK /\ Shrinks /\ s # NoSignal
  BY CancelShrinks, ExchangeAssumption DEF NInv, EInv, IInv
<1> DEFINE left == {o \in Order : o = ord[s] /\ InMarket(o)'}
<1>2. Blame(left, "cancelled_row") /\ own' = own
  BY <1>1 DEF CancelEntryOrder, Shrinks
<1>3. \A o \in Order : o \in left => Placed(o) /\ Kind[own[o]] # "MARKET"
  BY <1>1 DEF Placed
<1> HIDE DEF left
<1>4. LeftFairly'
  BY <1>1, <1>2, <1>3, BlameFairly DEF Whole
<1> QED
  BY <1>1, <1>4, ShrinksExecuted DEF Whole

\* At the other places there is nothing read.
LEMMA NothingRead ==
    ASSUME pc' \in {"idle", "guard", "scan", "peer", "cancel", "open", "check", "position",
                   "fsweep"}
    PROVE  Reading'
BY DEF Reading, InProtect

LEMMA SameWhole ==
    ASSUME NInv, Whole, UNCHANGED <<exchange, why>>
    PROVE  Executed' /\ LeftFairly'
BY SameShrinks, ShrinksExecuted, SameFairly DEF Whole, NInv, EInv, IInv, exchange

LEMMA ScanWhole == NInv /\ Whole /\ Scan => Whole'
<1> SUFFICES ASSUME NInv, Whole, Scan PROVE Whole'
  OBVIOUS
<1>0. /\ TypeOK /\ Passes /\ SubmittedHasOrder
  BY DEF NInv, EInv, IInv
<1>a. ASSUME NEW s \in Signal, NextRow(s)
      PROVE  ord[s] \in Order /\ own[ord[s]] = s /\ s # NoSignal
  BY <1>0, <1>a, ExchangeAssumption DEF NextRow, Passes, InPass
<1>1. ASSUME NEW s \in Signal, ScanKeep(s) \/ ScanBreaks(s) PROVE Whole'
  <2>1. UNCHANGED <<exchange, why>> /\ pc' \in {"idle", "guard", "scan"}
    BY <1>1 DEF ScanKeep, ScanBreaks, NextRow
  <2> QED
    BY <2>1, SameWhole, NothingRead DEF Whole
<1>2. ASSUME NEW s \in Signal, ScanFilled(s) PROVE Whole'
  <2>1. /\ UNCHANGED <<exchange, why>> /\ pc' = "sl"
        /\ att' = [sig |-> s, ord |-> ord[s], qty |-> filled[ord[s]]]
        /\ ord[s] \in Order /\ own[ord[s]] = s /\ s # NoSignal
    BY <1>2, <1>a DEF ScanFilled
  <2>2. Kind[s] = "MARKET" => filled[ord[s]] = Full
    BY <2>1 DEF Whole, Executed, AtMarket, Placed
  <2>3. Reading'
    BY <2>1, <2>2 DEF Reading, InProtect
  <2> QED
    BY <2>1, <2>3, SameWhole DEF Whole
<1>3. ASSUME NEW s \in Signal, ScanGone(s) PROVE Whole'
  <2> DEFINE left == {o \in Order : o = ord[s] /\ InMarket(o)}
  <2>1. /\ UNCHANGED exchange /\ own' = own /\ pc' = "scan"
        /\ Blame(left, "cancelled_row") /\ own[ord[s]] = s /\ s # NoSignal
    BY <1>3, <1>a DEF ScanGone, NextRow, exchange
  <2>2. Kind[s] # "MARKET"
    BY <1>3, <1>a, NotAtMarket DEF ScanGone
  <2>3. \A o \in Order : o \in left => Placed(o) /\ Kind[own[o]] # "MARKET"
    BY <2>1, <2>2 DEF Placed
  <2> HIDE DEF left
  <2>4. LeftFairly'
    BY <1>0, <2>1, <2>3, BlameFairly DEF Whole
  <2>5. Executed'
    BY <1>0, <2>1, SameShrinks, ShrinksExecuted DEF Whole
  <2> QED
    BY <2>1, <2>4, <2>5, NothingRead DEF Whole
<1>4. ASSUME NEW s \in Signal, ScanExpired(s) PROVE Whole'
  <2>1. /\ UNCHANGED <<exchange, why>> /\ UNCHANGED <<own, ord>> /\ pc' = "ttl"
        /\ (att').sig = s /\ own[ord[s]] = s
    BY <1>4, <1>a DEF ScanExpired, exchange, database
  <2>2. Kind[s] # "MARKET"
    BY <1>4, <1>a, NotAtMarket DEF ScanExpired
  <2>3. Reading'
    BY <2>1, <2>2 DEF Reading, InProtect
  <2> QED
    BY <2>1, <2>3, SameWhole DEF Whole
<1>5. CASE CancelExpired
  <2>1. /\ att.sig \in Signal /\ own[ord[att.sig]] = att.sig /\ Kind[att.sig] # "MARKET"
        /\ CancelEntryOrder(att.sig) /\ pc' = "scan"
    BY <1>0, <1>5 DEF CancelExpired, Passes, Whole, Reading
  <2> QED
    BY <2>1, CancelWhole, NothingRead DEF Whole
<1>6. CASE CancelPeer
  <2> DEFINE peer == RecordedPeer(att.sig)
  <2>1. CASE peer \in Submitted /\ CancelEntryOrder(peer)
    <3>1. peer \in Signal /\ own[ord[peer]] = peer /\ Kind[peer] # "MARKET"
      BY <1>0, <2>1 DEF Submitted, SubmittedHasOrder
    <3>2. pc' = "scan"
      BY <1>6 DEF CancelPeer
    <3> HIDE DEF peer
    <3> QED
      BY <2>1, <3>1, <3>2, CancelWhole, NothingRead DEF Whole
  <2>2. CASE UNCHANGED <<exchange, why>>
    <3>1. pc' = "scan"
      BY <1>6 DEF CancelPeer
    <3> QED
      BY <2>2, <3>1, SameWhole, NothingRead DEF Whole
  <2> QED
    BY <1>6, <2>1, <2>2 DEF CancelPeer
<1>7. CASE ScanDone
  <2>1. UNCHANGED <<exchange, why>> /\ pc' \in {"idle", "position", "open"}
    BY <1>7 DEF ScanDone
  <2> QED
    BY <2>1, SameWhole, NothingRead DEF Whole
<1> QED
  BY <1>1, <1>2, <1>3, <1>4, <1>5, <1>6, <1>7 DEF Scan

LEMMA CancelEntriesWhole == NInv /\ Whole /\ CancelEntries => Whole'
<1> SUFFICES ASSUME NInv, Whole, CancelEntries PROVE Whole'
  OBVIOUS
<1>1. pc' \in {"idle", "cancel"}
  BY DEF CancelEntries, CancelDone, CancelPendingEntry
<1>2. ASSUME NEW s \in Signal, row[s] = "submitted", CancelEntryOrder(s)
      PROVE  Whole'
  <2>1. own[ord[s]] = s /\ Kind[s] # "MARKET"
    BY <1>2 DEF NInv, EInv, IInv, SubmittedHasOrder
  <2> QED
    BY <1>1, <1>2, <2>1, CancelWhole, NothingRead DEF Whole
<1>3. CASE UNCHANGED <<exchange, why>>
  BY <1>1, <1>3, SameWhole, NothingRead DEF Whole
<1> QED
  BY <1>2, <1>3 DEF CancelEntries, CancelDone, CancelPendingEntry

\* The orders of a POST: an entry at market is executed when it is booked.
LEMMA BookExecuted ==
    ASSUME NInv, Executed, cur \in Signal, NEW new \in SUBSET Fresh, NEW q \in Qty,
           Book(cur, new, q, q < Full), Kind[cur] = "MARKET" => q = Full
    PROVE  Executed' /\ \A o \in Order : Placed(o) => own'[o] = own[o]
<1>0. cur # NoSignal /\ TypeOK /\ new \in SUBSET Order /\ q \in Nat
  BY ExchangeAssumption DEF NInv, EInv, IInv, Fresh, Qty
<1>1. \A o \in Order : Placed(o) => own'[o] = own[o]
  BY <1>0 DEF Book, Fresh, Placed
<1>2. ASSUME NEW o \in new
      PROVE  (AtMarket(o)' => filled'[o] = Full /\ ~live'[o]) /\ Placed(o)'
  <2>1. own'[o] = cur /\ filled'[o] = q /\ live'[o] = (q < Full)
    BY <1>0, <1>2 DEF Book
  <2>2. Kind[cur] = "MARKET" => ~(q < Full)
    BY <1>0, QuantitiesAreNumbers
  <2> QED
    BY <1>0, <2>1, <2>2 DEF AtMarket, Placed
<1>3. ASSUME NEW o \in Order \ new
      PROVE  /\ AtMarket(o)' => filled'[o] = Full /\ ~live'[o]
             /\ ~Placed(o)' => lot'[o] = 0 /\ ~live'[o]
  BY <1>0, <1>3 DEF Book, AtMarket, Placed, Executed
<1> QED
  BY <1>1, <1>2, <1>3 DEF Executed

LEMMA PostWhole ==
    ASSUME NInv, Whole, cur \in Signal, NEW o \in Order, NEW unknown \in Unanswered,
           NEW q \in Qty, Post(cur, o, unknown, q), Kind[cur] = "MARKET" => q = Full,
           NEW others,
           \/ Blame(unknown, "no_reply")
           \/ BlameBoth(unknown, "no_reply", others, "never_listed")
    PROVE  Executed' /\ LeftFairly'
<1>1. /\ TypeOK /\ unknown \cup {o} \in SUBSET Fresh
      /\ Book(cur, unknown \cup {o}, q, q < Full)
  BY DEF NInv, EInv, IInv, Post, Unanswered, Fresh
<1>2. Executed' /\ \A p \in Order : Placed(p) => own'[p] = own[p]
  BY <1>1, BookExecuted DEF Whole
<1>3. CASE Blame(unknown, "no_reply")
  BY <1>1, <1>2, <1>3, BlameFairly DEF Whole, Uncounted
<1>4. CASE BlameBoth(unknown, "no_reply", others, "never_listed")
  <2>1. "no_reply" \notin Uncounted /\ "never_listed" \notin Uncounted
    BY DEF Uncounted
  <2> QED
    BY <1>1, <1>2, <1>4, <2>1, BlameBothFairly DEF Whole
<1> QED
  BY <1>2, <1>3, <1>4

LEMMA OpenWhole == NInv /\ Whole /\ Open => Whole'
<1> SUFFICES ASSUME NInv, Whole, Open PROVE Whole'
  OBVIOUS
<1>0. /\ TypeOK /\ Passes /\ cur \in Signal /\ cur # NoSignal
      /\ Full \in Qty /\ 0 \in Qty
  BY ExchangeAssumption
     DEF NInv, EInv, IInv, TypeOK, Open, Runs, OpenRefused, OpenMarket, OpenLimit,
         OpenStop, OpenLost, CheckLimit, Qty
<1>1. CASE OpenRefused
  <2>1. UNCHANGED <<exchange, why>> /\ pc' = "guard"
    BY <1>1 DEF OpenRefused, Answer
  <2> QED
    BY <2>1, SameWhole, NothingRead DEF Whole
<1>2. CASE OpenMarket
  <2>1. PICK o \in Order, unknown \in Unanswered :
            /\ Post(cur, o, unknown, Full)
            /\ Blame(unknown, "no_reply")
            /\ Attach(cur, o, Full)
    BY <1>2 DEF OpenMarket
  <2>2. Executed' /\ LeftFairly'
    BY <1>0, <2>1, PostWhole
  <2>3. Reading'
    BY <2>1 DEF Attach, Reading, InProtect
  <2> QED
    BY <2>2, <2>3 DEF Whole
<1>3. CASE OpenLimit
  <2>1. PICK o \in Order, unknown \in Unanswered :
            Post(cur, o, unknown, 0) /\ Blame(unknown, "no_reply")
    BY <1>3 DEF OpenLimit
  <2>2. Kind[cur] # "MARKET" /\ pc' = "check"
    BY <1>3 DEF OpenLimit
  <2> QED
    BY <1>0, <2>1, <2>2, PostWhole, NothingRead DEF Whole
<1>4. CASE OpenStop
  <2>1. PICK o \in Order, unknown \in Unanswered, q \in Qty :
            /\ Post(cur, o, unknown, q)
            /\ \/ Attach(cur, o, q) /\ Blame(unknown, "no_reply")
               \/ Submit(o) /\ BlameBoth(unknown, "no_reply", Unlisted(o), "never_listed")
    BY <1>4 DEF OpenStop
  <2>2. Kind[cur] # "MARKET"
    BY <1>4 DEF OpenStop
  <2>3. Executed' /\ LeftFairly'
    BY <1>0, <2>1, <2>2, PostWhole
  <2>4. Reading'
    <3>1. CASE Attach(cur, o, q)
      BY <2>2, <3>1 DEF Attach, Reading, InProtect
    <3>2. CASE Submit(o)
      BY <3>2, NothingRead DEF Submit, Answer
    <3> QED
      BY <2>1, <3>1, <3>2
  <2> QED
    BY <2>3, <2>4 DEF Whole
<1>5. CASE OpenLost
  <2>1. PICK o \in Fresh, q \in Qty :
            /\ Kind[cur] = "MARKET" => q = Full
            /\ Book(cur, {o}, q, q < Full)
            /\ Blame({o}, "no_reply")
    BY <1>5 DEF OpenLost
  <2>2. Executed' /\ \A p \in Order : Placed(p) => own'[p] = own[p]
    BY <1>0, <2>1, BookExecuted DEF Whole
  <2>3. LeftFairly'
    BY <1>0, <2>1, <2>2, BlameFairly DEF Whole, Uncounted
  <2>4. pc' = "guard"
    BY <1>5 DEF OpenLost, Answer
  <2> QED
    BY <2>2, <2>3, <2>4, NothingRead DEF Whole
<1>6. CASE CheckLimit
  <2>1. /\ own[att.ord] = cur /\ Kind[cur] = "LIMIT" /\ att.ord \in Order
        /\ UNCHANGED exchange /\ own' = own
    BY <1>0, <1>6 DEF CheckLimit, Passes, exchange
  <2>2. Executed'
    BY <1>0, <2>1, SameShrinks, ShrinksExecuted DEF Whole
  <2>3. LeftFairly'
    <3>1. CASE UNCHANGED why
      BY <2>1, <3>1, SameFairly DEF Whole
    <3>2. CASE Blame({att.ord}, "not_recorded")
      <4>1. \A p \in Order : p \in {att.ord} => Placed(p) /\ Kind[own[p]] # "MARKET"
        BY <1>0, <2>1 DEF Placed
      <4> QED
        BY <1>0, <2>1, <3>2, <4>1, BlameFairly DEF Whole
    <3>3. CASE Blame(Unlisted(att.ord), "never_listed")
      BY <1>0, <2>1, <3>3, BlameFairly DEF Whole, Uncounted
    <3> QED
      BY <1>6, <3>1, <3>2, <3>3 DEF CheckLimit, NoBlame
  <2>4. Reading'
    <3>1. CASE Attach(cur, att.ord, filled[att.ord])
      BY <2>1, <3>1 DEF Attach, Reading, InProtect
    <3>2. CASE pc' = "guard"
      BY <3>2, NothingRead
    <3> QED
      BY <1>6, <3>1, <3>2 DEF CheckLimit, Submit, Answer
  <2> QED
    BY <2>2, <2>3, <2>4 DEF Whole
<1> QED
  BY <1>1, <1>2, <1>3, <1>4, <1>5, <1>6 DEF Open

LEMMA ProtectWhole == NInv /\ Whole /\ Protect => Whole'
<1> SUFFICES ASSUME NInv, Whole, Protect PROVE Whole'
  OBVIOUS
<1>0. /\ TypeOK /\ InProtect /\ Executed /\ LeftFairly
      /\ att.ord \in Order /\ own[att.ord] = att.sig /\ att.sig \in Signal
      /\ att.sig # NoSignal /\ att.qty \in Nat
      /\ Kind[att.sig] = "MARKET" => att.qty = Full
  BY ExchangeAssumption
     DEF NInv, EInv, IInv, TypeOK, Passes, Covering, Focus, Qty, Whole, Reading,
         InProtect, Protect, PlaceStopLoss, TakeProfitFails, Protected, AbortSweep,
         EmergencyClose
<1>a. Kind[att.sig] = "MARKET" => filled[att.ord] = Full /\ ~live[att.ord]
  BY <1>0 DEF Executed, AtMarket, Placed
<1>1. CASE PlaceStopLoss \/ TakeProfitFails
  <2>1. UNCHANGED <<own, filled, lot, live, att, why>> /\ pc' \in {"tp", "sweep"}
    BY <1>1 DEF PlaceStopLoss, TakeProfitFails, AddStop, exchange, focus
  <2>2. Executed' /\ LeftFairly'
    BY <1>0, <2>1 DEF Executed, LeftFairly, AtMarket, Placed
  <2>3. Reading'
    BY <1>0, <2>1 DEF Reading, InProtect
  <2> QED
    BY <2>2, <2>3 DEF Whole
<1>2. CASE Protected
  <2> DEFINE rest == {o \in Order : o = att.ord /\ Exposed(o)}
  <2>1. /\ UNCHANGED exchange /\ own' = own /\ pc' \in {"guard", "peer"} /\ pc = "tp"
        /\ Blame(rest, "partial_fill")
    BY <1>2 DEF Protected, Settle, Answer, exchange
  <2>2. lot[att.ord] + att.qty <= sl[att.ord] + filled[att.ord]
    BY <2>1 DEF NInv, Covering
  <2>3. Kind[att.sig] = "MARKET" => ~Exposed(att.ord)
    BY <1>0, <1>a, <2>2, QuantitiesAreNumbers DEF Exposed, Naked
  <2>4. \A o \in Order : o \in rest => Placed(o) /\ Kind[own[o]] # "MARKET"
    BY <1>0, <2>3 DEF Placed
  <2> HIDE DEF rest
  <2>5. LeftFairly'
    BY <1>0, <2>1, <2>4, BlameFairly
  <2>6. Executed'
    BY <1>0, <2>1, SameShrinks, ShrinksExecuted
  <2> QED
    BY <2>1, <2>5, <2>6, NothingRead DEF Whole
<1>3. CASE AbortSweep
  <2> DEFINE bare == {o \in Order : o # att.ord /\ Naked(o)' /\ ~Naked(o)}
  <2>1. CancelAllOrders /\ UNCHANGED att /\ pc' = "eclose" /\ Blame(bare, "swept")
    BY <1>3 DEF AbortSweep, focus
  <2> HIDE DEF bare
  <2>2. Shrinks /\ own' = own
    BY <1>0, <2>1, SweepShrinks DEF Shrinks
  <2>3. LeftFairly'
    BY <1>0, <2>1, <2>2, BlameFairly DEF Uncounted
  <2>4. Executed'
    BY <1>0, <2>2, ShrinksExecuted
  <2>5. Reading'
    BY <1>0, <2>1 DEF Reading, InProtect
  <2> QED
    BY <2>3, <2>4, <2>5 DEF Whole
<1>4. CASE EmergencyClose
  <2> DEFINE cut == [NoLots EXCEPT ![att.ord] = att.qty]
             rest == {o \in Order : o = att.ord /\ InMarket(o)'}
  <2>1. cut \in [Order -> Nat] /\ cut[att.ord] = att.qty
    BY <1>0 DEF NoLots
  <2>2. pc' \in {"guard", "scan"}
    BY <1>4 DEF EmergencyClose, Settle, Answer
  <2>3. \/ Reduce(cut) /\ Blame(rest, "abort_residue")
        \/ UNCHANGED exchange /\ Blame(rest, "emergency_failed")
    BY <1>4 DEF EmergencyClose
  <2>4. Shrinks /\ own' = own
    <3> HIDE DEF cut
    <3> QED
      BY <1>0, <2>1, <2>3, ReduceShrinks, SameShrinks DEF Shrinks
  <2>5. CASE Reduce(cut) /\ Blame(rest, "abort_residue")
    <3>1. lot'[att.ord] = IF lot[att.ord] < att.qty THEN 0 ELSE lot[att.ord] - att.qty
      <4> HIDE DEF cut
      <4> QED
        BY <1>0, <2>1, <2>5, ReduceShrinks
    <3>2. lot[att.ord] <= filled[att.ord]
      BY <1>0 DEF TypeOK, ExchangeTypeOK
    <3>3. lot[att.ord] \in Nat /\ lot[att.ord] <= Full /\ Full \in Nat
      BY <1>0, ExchangeAssumption DEF TypeOK, ExchangeTypeOK, Qty
    <3>4. Kind[att.sig] = "MARKET" => lot'[att.ord] = 0
      BY <1>0, <3>1, <3>3
    <3>5. ~live[att.ord] => ~live'[att.ord]
      BY <1>0, <2>4 DEF Shrinks
    <3>6. ASSUME NEW o \in Order, o \in rest PROVE Placed(o) /\ Kind[own[o]] # "MARKET"
      <4>1. o = att.ord /\ (live'[o] \/ lot'[o] > 0)
        BY <3>6 DEF InMarket
      <4> QED
        BY <1>0, <1>a, <3>4, <3>5, <4>1 DEF Placed
    <3> HIDE DEF rest, cut
    <3> QED
      BY <1>0, <2>4, <2>5, <3>6, BlameFairly, ShrinksExecuted, <2>2, NothingRead DEF Whole
  <2>6. CASE Blame(rest, "emergency_failed")
    <3> HIDE DEF rest, cut
    <3>1. LeftFairly'
      BY <1>0, <2>4, <2>6, BlameFairly DEF Uncounted
    <3> QED
      BY <1>0, <2>2, <2>4, <3>1, ShrinksExecuted, NothingRead DEF Whole
  <2> QED
    BY <2>3, <2>5, <2>6
<1> QED
  BY <1>1, <1>2, <1>3, <1>4 DEF Protect

LEMMA CloseWhole == NInv /\ Whole /\ Close => Whole'
<1> SUFFICES ASSUME NInv, Whole, Close PROVE Whole'
  OBVIOUS
<1>0. TypeOK /\ Executed /\ LeftFairly
  BY DEF NInv, EInv, IInv, Whole
<1>1. CASE CloseRefused
  <2>1. UNCHANGED <<exchange, why>> /\ pc' = "guard"
    BY <1>1 DEF CloseRefused, Answer
  <2> QED
    BY <2>1, SameWhole, NothingRead DEF Whole
<1>2. CASE CloseAlreadyFlat
  <2> DEFINE bare == {o \in Order : Naked(o)' /\ ~Naked(o)}
  <2>1. CancelAllOrders /\ Blame(bare, "swept") /\ pc' = "guard"
    BY <1>2 DEF CloseAlreadyFlat, Answer
  <2> HIDE DEF bare
  <2>2. Shrinks /\ own' = own
    BY <1>0, <2>1, SweepShrinks DEF Shrinks
  <2>3. LeftFairly'
    BY <1>0, <2>1, <2>2, BlameFairly DEF Uncounted
  <2> QED
    BY <1>0, <2>1, <2>2, <2>3, ShrinksExecuted, NothingRead DEF Whole
<1>3. CASE ReadPosition
  <2>1. /\ UNCHANGED <<exchange, why>> /\ UNCHANGED <<own, lot>> /\ pc' = "csweep"
        /\ snap' = [o \in Order |-> IF o \in Position(Side[cur]) THEN lot[o] ELSE 0]
    BY <1>3 DEF ReadPosition, exchange
  <2>2. \A o \in Order : snap'[o] > 0 => lot'[o] <= snap'[o]
    BY <1>0, <2>1, QuantitiesAreNumbers
  <2>3. Reading'
    BY <2>1, <2>2 DEF Reading, InProtect
  <2> QED
    BY <2>1, <2>3, SameWhole DEF Whole
<1>4. CASE CloseSweep
  <2> DEFINE bare == {o \in Order : snap[o] = 0 /\ Naked(o)' /\ ~Naked(o)}
  <2>1. /\ CancelAllOrders /\ UNCHANGED snap /\ pc = "csweep" /\ pc' = "mclose"
        /\ Blame(bare, "swept")
    BY <1>4 DEF CloseSweep, focus
  <2> HIDE DEF bare
  <2>2. Shrinks /\ own' = own /\ lot' = lot
    BY <1>0, <2>1, SweepShrinks DEF Shrinks, CancelAllOrders, SweepOrders
  <2>3. LeftFairly'
    BY <1>0, <2>1, <2>2, BlameFairly DEF Uncounted
  <2>4. Reading'
    BY <2>1, <2>2 DEF Whole, Reading, InProtect, AtMarket, Placed
  <2> QED
    BY <1>0, <2>2, <2>3, <2>4, ShrinksExecuted DEF Whole
<1>5. CASE CloseMarket
  <2> DEFINE bare == {o \in Order : snap[o] > 0 /\ Naked(o)'}
  <2>1. /\ pc = "mclose" /\ pc' = "guard"
        /\ \/ Reduce(snap) /\ Blame(bare, "close_residue")
           \/ UNCHANGED exchange /\ Blame(bare, "close_failed")
    BY <1>5 DEF CloseMarket, Answer
  <2>2. snap \in [Order -> Nat]
    BY <1>0, QuantitiesAreNumbers
  <2>3. Shrinks /\ own' = own
    BY <1>0, <2>1, <2>2, ReduceShrinks, SameShrinks DEF Shrinks
  <2>4. CASE Reduce(snap) /\ Blame(bare, "close_residue")
    <3>1. ASSUME NEW o \in Order, o \in bare PROVE Placed(o) /\ Kind[own[o]] # "MARKET"
      <4>1. lot'[o] = IF lot[o] < snap[o] THEN 0 ELSE lot[o] - snap[o]
        BY <1>0, <2>2, <2>4, ReduceShrinks
      <4>2. lot'[o] # 0
        BY <1>0, <2>3, <2>4, <3>1, QuantitiesAreNumbers DEF Reduce, Naked, Shrinks
      <4>3. lot[o] \in Nat /\ snap[o] \in Nat
        BY <1>0, QuantitiesAreNumbers
      <4>4. lot[o] > snap[o]
        BY <4>1, <4>2, <4>3
      <4>5. Placed(o)
        BY <1>0, <4>3, <4>4 DEF Executed
      <4>6. ~AtMarket(o)
        BY <2>1, <3>1, <4>3, <4>4 DEF Whole, Reading
      <4> QED
        BY <4>5, <4>6 DEF AtMarket
    <3> HIDE DEF bare
    <3>2. LeftFairly'
      BY <1>0, <2>3, <2>4, <3>1, BlameFairly
    <3> QED
      BY <1>0, <2>1, <2>3, <3>2, ShrinksExecuted, NothingRead DEF Whole
  <2>5. CASE Blame(bare, "close_failed")
    <3> HIDE DEF bare
    <3>1. LeftFairly'
      BY <1>0, <2>3, <2>5, BlameFairly DEF Uncounted
    <3> QED
      BY <1>0, <2>1, <2>3, <3>1, ShrinksExecuted, NothingRead DEF Whole
  <2> QED
    BY <2>1, <2>4, <2>5
<1>6. CASE ReadFlat
  <2>1. UNCHANGED <<exchange, why>> /\ pc' = "fsweep"
    BY <1>6 DEF ReadFlat
  <2> QED
    BY <2>1, SameWhole, NothingRead DEF Whole
<1> QED
  BY <1>1, <1>2, <1>3, <1>4, <1>5, <1>6 DEF Close

LEMMA MarketWhole == NInv /\ Whole /\ MarketStep => Whole'
<1> SUFFICES ASSUME NInv, Whole, MarketStep PROVE Whole'
  OBVIOUS
<1>0. /\ TypeOK /\ Executed /\ LeftFairly /\ Reading
      /\ UNCHANGED <<ord, pc, att, snap, why>>
  BY DEF NInv, EInv, IInv, Whole, MarketStep, database, focus
<1>1. PICK o \in Order : Fill(o) \/ StopOut(o) \/ Expire(o)
  BY DEF MarketStep, Market
<1>2. own' = own
  BY <1>1 DEF Fill, StopOut, Expire, TakeOff
<1>3. Executed' /\ \A p \in Order : AtMarket(p) => lot'[p] <= lot[p]
  <2>1. CASE Fill(o)
    <3>1. live[o] /\ Placed(o) /\ ~AtMarket(o)
      BY <2>1, <1>0 DEF Fill, Executed
    <3>2. ASSUME NEW p \in Order \ {o}
          PROVE  filled'[p] = filled[p] /\ lot'[p] = lot[p] /\ live'[p] = live[p]
      BY <2>1, <1>0 DEF Fill, TypeOK, ExchangeTypeOK
    <3> QED
      BY <1>0, <1>2, <3>1, <3>2, QuantitiesAreNumbers DEF Executed, AtMarket, Placed
  <2>2. CASE StopOut(o)
    <3>1. \A p \in Order : lot'[p] \in 0 .. lot[p]
      BY <2>2, <1>0, QuantitiesAreNumbers DEF StopOut, Minus
    <3>2. Shrinks
      BY <2>2, <3>1 DEF Shrinks, StopOut
    <3> QED
      BY <1>0, <3>1, <3>2, ShrinksExecuted, QuantitiesAreNumbers
  <2>3. CASE Expire(o)
    <3>1. Shrinks
      BY <1>0, <2>3, TakeOffShrinks DEF Expire
    <3> QED
      BY <1>0, <3>1, ShrinksExecuted, QuantitiesAreNumbers DEF Shrinks
  <2> QED
    BY <1>1, <2>1, <2>2, <2>3
<1>4. LeftFairly'
  BY <1>0, <1>2, SameFairly
<1>5. ASSUME NEW p \in Order, AtMarket(p)', snap'[p] > 0, pc' \in {"csweep", "mclose"}
      PROVE  lot'[p] <= snap'[p]
  <2>1. AtMarket(p) /\ snap' = snap
    BY <1>0, <1>2, <1>5 DEF AtMarket, Placed
  <2>2. lot[p] <= snap[p] /\ lot'[p] <= lot[p]
    BY <1>0, <1>3, <1>5, <2>1 DEF Reading
  <2>3. lot[p] \in Nat /\ snap[p] \in Nat /\ lot'[p] \in Nat
    <3>1. ExchangeTypeOK'
      BY <1>0, MarketType DEF MarketStep, TypeOK
    <3> QED
      BY <1>0, <3>1, QuantitiesAreNumbers, ExchangeAssumption DEF ExchangeTypeOK, Qty
  <2> QED
    BY <2>1, <2>2, <2>3
<1>6. Reading'
  BY <1>0, <1>2, <1>5 DEF Reading, InProtect
<1> QED
  BY <1>3, <1>4, <1>6 DEF Whole

LEMMA OtherWhole ==
    ASSUME NInv, Whole,
           \/ Guard
           \/ \E b \in Batch : IngestSignals(b)
           \/ \E legs \in SUBSET Signal : CancelRequest(legs)
           \/ ReconcileTick
           \/ Crash
           \/ \E old \in SUBSET Signal : ListSignals(old)
           \/ \E s \in Signal : Age(s)
           \/ UNCHANGED vars
    PROVE  Whole'
<1>0. TypeOK /\ Executed /\ LeftFairly
  BY DEF NInv, EInv, IInv, Whole
<1>1. CASE \/ Guard
           \/ \E b \in Batch : IngestSignals(b)
           \/ \E legs \in SUBSET Signal : CancelRequest(legs)
           \/ ReconcileTick
  <2>1. UNCHANGED <<exchange, why>> /\ pc' \in {"guard", "cancel", "scan"}
    BY <1>1 DEF Guard, GuardAccepts, GuardSkips, BatchDone, IngestSignals, CancelRequest,
                ReconcileTick
  <2> QED
    BY <2>1, SameWhole, NothingRead DEF Whole
<1>2. CASE (\E s \in Signal : Age(s)) \/ UNCHANGED vars
  <2>1. UNCHANGED <<exchange, why>> /\ UNCHANGED <<own, lot, ord, pc, att, snap>>
    BY <1>2 DEF Age, vars, exchange, database, focus
  <2>2. Reading'
    BY <2>1 DEF Whole, Reading, InProtect, AtMarket, Placed
  <2> QED
    BY <2>1, <2>2, SameWhole DEF Whole
<1>3. ASSUME NEW orders, NEW cause, Blame(orders, cause), cause \notin Uncounted,
             UNCHANGED exchange, pc' = "idle"
      PROVE  Whole'
  <2>1. own' = own
    BY <1>3 DEF exchange
  <2>2. LeftFairly'
    BY <1>0, <1>3, <2>1, BlameFairly
  <2> QED
    BY <1>0, <1>3, <2>2, SameShrinks, ShrinksExecuted, NothingRead DEF Whole
<1>4. CASE Crash
  BY <1>3, <1>4 DEF Crash, Uncounted
<1>5. CASE \E old \in SUBSET Signal : ListSignals(old)
  BY <1>3, <1>5 DEF ListSignals, Uncounted
<1> QED
  BY <1>1, <1>2, <1>4, <1>5

LEMMA InitWhole == Init => Whole
BY DEF Init, ExchangeInit, Whole, Executed, Reading, LeftFairly, InProtect, AtMarket, Placed,
       Uncounted

LEMMA StepWhole == NInv /\ Whole /\ [Next]_vars => Whole'
BY ScanWhole, OpenWhole, ProtectWhole, CloseWhole, CancelEntriesWhole, MarketWhole, OtherWhole
   DEF Next, Handler

\* An entry at market is never left to itself for a rest that nobody counted:
\* what its execution, or a later close, read of it was all of it.
THEOREM MarketEntriesInWhole == Spec => []AtMarketInWhole
<1>1. Whole => AtMarketInWhole
  BY DEF Whole, LeftFairly, AtMarketInWhole, Uncounted
<1> QED
  BY EntriesInductive, InitWhole, StepWhole, <1>1, PTL DEF Spec
=============================================================================
