----------------------- MODULE SignalExecutionProofs -----------------------
(***************************************************************************)
(* Proofs about SignalExecution, for any set of signals and orders, any    *)
(* size of an entry and any number of faults and crashes.                  *)
(***************************************************************************)
EXTENDS SignalExecution, SequenceTheorems, TLAPS

InPass == pc \in {"scan", "ttl", "peer", "sl", "tp", "sweep", "eclose"}
InProtect == pc \in {"sl", "tp", "sweep", "eclose"}
Resolvable(s) == row[s] \in {"submitted", "cancelled"}

\* Who executes at each place of the handlers.
Runs ==
    /\ pc \in {"idle", "guard", "cancel"} => cur = NoSignal
    /\ pc \in {"open", "check", "position", "fsweep", "csweep", "mclose"} =>
        cur # NoSignal
    /\ pc \in {"open", "check"} => Action[cur] # "close"
    /\ cur # NoSignal => row[cur] = "received"

\* What a pass holds in its hands: the rows still to visit had an order when
\* the list was read and keep it, and the row being handled is not among them.
Passes ==
    /\ ~InPass /\ pc # "cancel" => todo = {}
    /\ InPass => \A s \in todo :
        Resolvable(s) /\ ord[s] \in Order /\ own[ord[s]] = s
    /\ pc = "ttl" =>
        att.sig \in Signal \ todo /\ Resolvable(att.sig) /\ ord[att.sig] \in Order
    /\ pc = "peer" => att.sig \in Signal \ todo /\ row[att.sig] = "traded"
    /\ InProtect =>
        /\ att.ord \in Order
        /\ att.sig \in Signal \ todo
        /\ IF att.sig = cur THEN todo = {} ELSE Resolvable(att.sig)
    /\ pc = "check" =>
        /\ att.ord \in Order
        /\ own[att.ord] = cur
        /\ Kind[cur] = "LIMIT"

IInv ==
    /\ TypeOK
    /\ Runs
    /\ Passes
    /\ SubmittedHasOrder
    /\ ReceivedIsExecuting

-----------------------------------------------------------------------------
(* What the calls do to the account keeps its type. *)

LEMMA BookType ==
    ASSUME ExchangeTypeOK, NEW s \in Signal, NEW new \in SUBSET Order, NEW q \in Qty,
           NEW working \in BOOLEAN, Book(s, new, q, working)
    PROVE  ExchangeTypeOK'
BY ExchangeAssumption DEF ExchangeTypeOK, Book, Qty

LEMMA TakeOffType ==
    ASSUME ExchangeTypeOK, NEW o, TakeOff(o)
    PROVE  ExchangeTypeOK'
BY DEF ExchangeTypeOK, TakeOff

LEMMA SweepType ==
    ASSUME ExchangeTypeOK, NEW regular \in BOOLEAN, NEW entries, NEW stops,
           SweepOrders(regular, entries, stops)
    PROVE  ExchangeTypeOK'
BY ExchangeAssumption DEF ExchangeTypeOK, SweepOrders, Qty

LEMMA AddStopType ==
    ASSUME ExchangeTypeOK, NEW o \in Order, NEW q \in Qty, AddStop(o, q)
    PROVE  ExchangeTypeOK'
BY ExchangeAssumption DEF ExchangeTypeOK, AddStop, Qty, AtMost

LEMMA ReduceType ==
    ASSUME ExchangeTypeOK, NEW cut \in [Order -> Qty], Reduce(cut)
    PROVE  ExchangeTypeOK'
BY ExchangeAssumption DEF ExchangeTypeOK, Reduce, Qty, Minus

LEMMA MarketType ==
    ASSUME ExchangeTypeOK, Market
    PROVE  ExchangeTypeOK'
<1> PICK o \in Order : Fill(o) \/ StopOut(o) \/ Expire(o)
  BY DEF Market
<1>1. CASE Fill(o)
  BY <1>1, ExchangeAssumption DEF ExchangeTypeOK, Fill, Qty
<1>2. CASE StopOut(o)
  BY <1>2, ExchangeAssumption DEF ExchangeTypeOK, StopOut, Qty, Minus
<1>3. CASE Expire(o)
  BY <1>3, TakeOffType DEF Expire
<1> QED
  BY <1>1, <1>2, <1>3

LEMMA SameType ==
    ASSUME ExchangeTypeOK, UNCHANGED exchange
    PROVE  ExchangeTypeOK'
BY DEF ExchangeTypeOK, exchange

LEMMA BlameType ==
    ASSUME why \in [Order -> Cause], NEW orders, NEW cause \in Cause,
           Blame(orders, cause)
    PROVE  why' \in [Order -> Cause]
BY DEF Blame

LEMMA BlameBothType ==
    ASSUME why \in [Order -> Cause], NEW orders, NEW cause \in Cause, NEW others,
           NEW otherwise \in Cause, BlameBoth(orders, cause, others, otherwise)
    PROVE  why' \in [Order -> Cause]
BY DEF BlameBoth

LEMMA BoundsType ==
    ASSUME faults \in Nat, crashes \in Nat, listings \in Nat, Fine \/ Faulty
    PROVE  /\ faults' \in Nat /\ crashes' \in Nat /\ listings' \in Nat
           /\ crashes' = crashes
BY DEF Fine, Faulty, bounds

\* A placed order never changes hands.
LEMMA BookKeepsOwner ==
    ASSUME ExchangeTypeOK, NEW s \in Signal, NEW new \in SUBSET Fresh, NEW q,
           NEW working, Book(s, new, q, working), NEW o \in Order, Placed(o)
    PROVE  own'[o] = own[o]
BY DEF Book, Fresh, Placed, ExchangeTypeOK

-----------------------------------------------------------------------------
LEMMA InitIInv == Init => IInv
BY ExchangeAssumption, SignalAssumption
   DEF Init, IInv, TypeOK, ExchangeInit, ExchangeTypeOK, Runs, Passes, InPass,
       InProtect, SubmittedHasOrder, ReceivedIsExecuting, Status, Acted, Place,
       Cause, Focus, Nothing, NoLots, Qty

LEMMA StutterIInv == IInv /\ UNCHANGED vars => IInv'
BY DEF IInv, TypeOK, ExchangeTypeOK, Runs, Passes, InPass, InProtect, Resolvable,
       SubmittedHasOrder, ReceivedIsExecuting, vars, exchange, database, request,
       focus, bounds

LEMMA GuardIInv == IInv /\ Guard => IInv'
<1> SUFFICES ASSUME IInv, Guard PROVE IInv'
  OBVIOUS
<1> USE DEF IInv, Runs, Passes, InPass, InProtect, Resolvable, SubmittedHasOrder,
        ReceivedIsExecuting, TypeOK
<1>1. CASE GuardAccepts
  <2>1. Head(batch) \in Signal /\ Tail(batch) \in Seq(Signal)
    BY <1>1, HeadTailProperties DEF GuardAccepts
  <2>2. lastid' \in Nat
    BY <1>1 DEF GuardAccepts
  <2>3. rowid' \in [Signal -> Nat]
    BY <1>1, <2>1, <2>2 DEF GuardAccepts
  <2>4. TypeOK'
    BY <1>1, <2>1, <2>2, <2>3, SameType
       DEF GuardAccepts, Pending, Submitted, Status, Place, focus, bounds
  <2>5. Runs' /\ Passes'
    BY <1>1, <2>1 DEF GuardAccepts, Retryable, Pending, Submitted, exchange, focus
  <2>6. SubmittedHasOrder'
    BY <1>1, <2>1 DEF GuardAccepts, Retryable, exchange
  <2>7. ReceivedIsExecuting'
    BY <1>1, <2>1, ExchangeAssumption DEF GuardAccepts, Retryable, bounds
  <2> QED
    BY <2>4, <2>5, <2>6, <2>7
<1>2. CASE GuardSkips
  <2>1. Head(batch) \in Signal /\ Tail(batch) \in Seq(Signal)
    BY <1>2, HeadTailProperties DEF GuardSkips
  <2>2. TypeOK'
    BY <1>2, <2>1, SameType DEF GuardSkips, Acted, database, focus, bounds
  <2>3. Runs' /\ Passes' /\ SubmittedHasOrder' /\ ReceivedIsExecuting'
    BY <1>2 DEF GuardSkips, exchange, database, focus, bounds
  <2> QED
    BY <2>2, <2>3
<1>3. CASE BatchDone
  <2>1. TypeOK'
    BY <1>3, SameType DEF BatchDone, IncompleteLegs, Acted, Place, database, focus, bounds
  <2>2. Runs' /\ Passes' /\ SubmittedHasOrder' /\ ReceivedIsExecuting'
    BY <1>3 DEF BatchDone, exchange, database, focus, bounds
  <2> QED
    BY <2>1, <2>2
<1> QED
  BY <1>1, <1>2, <1>3 DEF Guard

\* A cancelled row keeps its order and its owner.
LEMMA CancelEntryOrderEffect ==
    ASSUME TypeOK, NEW s \in Signal, CancelEntryOrder(s)
    PROVE  /\ row' = [row EXCEPT ![s] = "cancelled"]
           /\ own' = own /\ ord' = ord /\ rowid' = rowid
           /\ lastid' = lastid /\ aged' = aged
           /\ ExchangeTypeOK'
           /\ why' \in [Order -> Cause]
           /\ faults' \in Nat /\ listings' \in Nat /\ crashes' = crashes
<1>1. ExchangeTypeOK' /\ own' = own
  BY TakeOffType, SameType DEF CancelEntryOrder, TypeOK, TakeOff, exchange
<1>2. why' \in [Order -> Cause]
  BY DEF CancelEntryOrder, Blame, TypeOK, Cause
<1>3. faults' \in Nat /\ listings' \in Nat /\ crashes' = crashes
  BY BoundsType DEF CancelEntryOrder, TypeOK
<1> QED
  BY <1>1, <1>2, <1>3 DEF CancelEntryOrder

LEMMA ScanIInv == IInv /\ Scan => IInv'
<1> SUFFICES ASSUME IInv, Scan PROVE IInv'
  OBVIOUS
<1> USE DEF IInv, Runs, Passes, InPass, InProtect, Resolvable, SubmittedHasOrder,
        ReceivedIsExecuting, TypeOK
<1>1. ASSUME NEW s \in Signal, ScanKeep(s) PROVE IInv'
  <2>1. TypeOK'
    BY <1>1, SameType, BoundsType DEF ScanKeep, database, request, focus
  <2>2. Runs' /\ Passes' /\ SubmittedHasOrder' /\ ReceivedIsExecuting'
    BY <1>1, BoundsType DEF ScanKeep, NextRow, exchange, database, request, focus
  <2> QED
    BY <2>1, <2>2
<1>2. ASSUME NEW s \in Signal, ScanFilled(s) PROVE IInv'
  <2>1. ord[s] \in Order /\ filled[ord[s]] \in Qty
    BY <1>2 DEF ScanFilled, NextRow, ExchangeTypeOK
  <2>2. TypeOK'
    BY <1>2, <2>1, SameType DEF ScanFilled, Focus, Place, database, request, bounds
  <2>3. Runs' /\ Passes' /\ SubmittedHasOrder' /\ ReceivedIsExecuting'
    BY <1>2, <2>1, ExchangeAssumption
       DEF ScanFilled, NextRow, exchange, database, request, bounds
  <2> QED
    BY <2>2, <2>3
<1>3. ASSUME NEW s \in Signal, ScanBreaks(s) PROVE IInv'
  <2>1. row' \in [Signal -> Status] /\ acted' \in [Signal -> Acted]
    <3>1. CASE cur = NoSignal
      BY <1>3, <3>1 DEF ScanBreaks, request
    <3>2. CASE cur # NoSignal
      BY <1>3, <3>2 DEF ScanBreaks, Status, Acted
    <3> QED
      BY <3>1, <3>2
  <2>2. faults' \in Nat /\ listings' \in Nat /\ crashes' = crashes
    BY <1>3, BoundsType DEF ScanBreaks
  <2>3. TypeOK'
    BY <1>3, <2>1, <2>2, SameType DEF ScanBreaks, Place, request, focus
  <2>4. Runs' /\ Passes' /\ SubmittedHasOrder'
    BY <1>3 DEF ScanBreaks, NextRow, exchange, request, focus
  <2>5. ReceivedIsExecuting'
    BY <1>3, <2>2, ExchangeAssumption DEF ScanBreaks, request
  <2> QED
    BY <2>3, <2>4, <2>5
<1>4. ASSUME NEW s \in Signal, ScanGone(s) PROVE IInv'
  <2>1. TypeOK'
    BY <1>4, SameType DEF ScanGone, Status, Blame, Cause, request, focus, bounds
  <2>2. Runs' /\ Passes' /\ SubmittedHasOrder' /\ ReceivedIsExecuting'
    BY <1>4 DEF ScanGone, NextRow, exchange, request, focus, bounds
  <2> QED
    BY <2>1, <2>2
<1>5. ASSUME NEW s \in Signal, ScanExpired(s) PROVE IInv'
  <2>1. ord[s] \in Order
    BY <1>5 DEF ScanExpired, NextRow
  <2>2. TypeOK'
    BY <1>5, <2>1, SameType, ExchangeAssumption
       DEF ScanExpired, Focus, Qty, Place, database, request, bounds
  <2>3. Runs' /\ Passes' /\ SubmittedHasOrder' /\ ReceivedIsExecuting'
    BY <1>5, <2>1 DEF ScanExpired, NextRow, exchange, database, request, bounds
  <2> QED
    BY <2>2, <2>3
<1>6. CASE CancelExpired
  <2>1. att.sig \in Signal /\ CancelEntryOrder(att.sig)
    BY <1>6 DEF CancelExpired
  <2>2. /\ row' = [row EXCEPT ![att.sig] = "cancelled"]
        /\ own' = own /\ ord' = ord /\ rowid' = rowid
        /\ lastid' = lastid /\ aged' = aged
        /\ ExchangeTypeOK' /\ why' \in [Order -> Cause]
        /\ faults' \in Nat /\ listings' \in Nat /\ crashes' = crashes
    BY <2>1, CancelEntryOrderEffect
  <2>3. TypeOK'
    BY <1>6, <2>1, <2>2, ExchangeAssumption
       DEF CancelExpired, Nothing, Focus, Qty, Status, Place, request
  <2>4. Runs' /\ Passes' /\ SubmittedHasOrder' /\ ReceivedIsExecuting'
    BY <1>6, <2>1, <2>2 DEF CancelExpired, request
  <2> QED
    BY <2>3, <2>4
<1>7. CASE CancelPeer
  <2> DEFINE peer == RecordedPeer(att.sig)
  <2>1. CASE peer \in Submitted /\ CancelEntryOrder(peer)
    <3>1. peer \in Signal /\ row[peer] = "submitted"
      BY <2>1 DEF Submitted
    <3>2. /\ row' = [row EXCEPT ![peer] = "cancelled"]
          /\ own' = own /\ ord' = ord /\ rowid' = rowid
          /\ lastid' = lastid /\ aged' = aged
          /\ ExchangeTypeOK' /\ why' \in [Order -> Cause]
          /\ faults' \in Nat /\ listings' \in Nat /\ crashes' = crashes
      BY <2>1, <3>1, CancelEntryOrderEffect
    <3> HIDE DEF peer
    <3>3. TypeOK'
      BY <1>7, <3>1, <3>2, ExchangeAssumption
         DEF CancelPeer, Nothing, Focus, Qty, Status, Place, request
    <3>4. Runs' /\ Passes' /\ SubmittedHasOrder' /\ ReceivedIsExecuting'
      BY <1>7, <3>1, <3>2 DEF CancelPeer, request
    <3> QED
      BY <3>3, <3>4
  <2>2. CASE UNCHANGED <<exchange, database, bounds, why>>
    <3>1. TypeOK'
      BY <1>7, <2>2, SameType, ExchangeAssumption
         DEF CancelPeer, Nothing, Focus, Qty, Place, database, bounds, request
    <3>2. Runs' /\ Passes' /\ SubmittedHasOrder' /\ ReceivedIsExecuting'
      BY <1>7, <2>2 DEF CancelPeer, exchange, database, bounds, request
    <3> QED
      BY <3>1, <3>2
  <2> QED
    BY <1>7, <2>1, <2>2 DEF CancelPeer
<1>8. CASE ScanDone
  <2>1. TypeOK'
    BY <1>8, SameType DEF ScanDone, Place, database, request, focus, bounds
  <2>2. Runs' /\ Passes' /\ SubmittedHasOrder' /\ ReceivedIsExecuting'
    BY <1>8, SignalAssumption
       DEF ScanDone, exchange, database, request, focus, bounds
  <2> QED
    BY <2>1, <2>2
<1> QED
  BY <1>1, <1>2, <1>3, <1>4, <1>5, <1>6, <1>7, <1>8 DEF Scan

\* The answer to an execution, whoever gives it and with whatever result.
LEMMA AnswerEffect ==
    ASSUME IInv, cur # NoSignal, todo = {}, NEW status \in {"traded", "submitted", "error"},
           Answer(status),
           ExchangeTypeOK',
           \A o \in Order : Placed(o) => own'[o] = own[o],
           ord' \in [Signal -> Order \cup {NoOrder}],
           \A s \in Signal \ {cur} : ord'[s] = ord[s],
           status = "submitted" =>
               /\ ord'[cur] \in Order /\ own'[ord'[cur]] = cur
               /\ Action[cur] # "close" /\ Kind[cur] # "MARKET",
           att' \in Focus, snap' \in [Order -> Qty],
           faults' \in Nat, listings' \in Nat, crashes' = crashes, why' \in [Order -> Cause]
    PROVE  IInv'
<1> USE DEF IInv, TypeOK, Answer
<1>1. /\ cur \in Signal
      /\ row' = [row EXCEPT ![cur] = status]
      /\ pc' = "guard" /\ cur' = NoSignal /\ todo' = {}
  OBVIOUS
<1>2. TypeOK'
  <2>1. row' \in [Signal -> Status] /\ acted' \in [Signal -> Acted]
    BY <1>1 DEF Status, Acted
  <2> QED
    BY <1>1, <2>1 DEF Place
<1>3. Runs' /\ Passes'
  BY <1>1 DEF Runs, Passes, InPass, InProtect
<1>4. SubmittedHasOrder'
  <2> SUFFICES ASSUME NEW s \in Signal, row'[s] = "submitted"
               PROVE  /\ ord'[s] \in Order /\ own'[ord'[s]] = s
                      /\ Action[s] # "close" /\ Kind[s] # "MARKET"
    BY DEF SubmittedHasOrder
  <2>1. CASE s = cur
    BY <1>1, <2>1
  <2>2. CASE s # cur
    <3>1. row[s] = "submitted" /\ ord'[s] = ord[s]
      BY <1>1, <2>2
    <3>2. /\ ord[s] \in Order /\ own[ord[s]] = s
          /\ Action[s] # "close" /\ Kind[s] # "MARKET"
      BY <3>1 DEF SubmittedHasOrder
    <3>3. own'[ord[s]] = own[ord[s]]
      BY <3>2, ExchangeAssumption DEF Placed
    <3> QED
      BY <3>1, <3>2, <3>3
  <2> QED
    BY <2>1, <2>2
<1>5. ReceivedIsExecuting'
  BY <1>1 DEF ReceivedIsExecuting
<1> QED
  BY <1>2, <1>3, <1>4, <1>5

\* A POST books at most the fresh orders, all of them for the caller.
LEMMA PostEffect ==
    ASSUME TypeOK, NEW s \in Signal, NEW o \in Order, NEW unknown \in Unanswered,
           NEW q \in Qty, Post(s, o, unknown, q)
    PROVE  /\ ExchangeTypeOK'
           /\ own'[o] = s
           /\ \A p \in Order : Placed(p) => own'[p] = own[p]
           /\ faults' \in Nat /\ listings' \in Nat /\ crashes' = crashes
<1>1. unknown \cup {o} \in SUBSET Fresh /\ unknown \cup {o} \in SUBSET Order
  BY DEF Unanswered, Post, Fresh
<1>2. Book(s, unknown \cup {o}, q, q < Full)
  BY DEF Post
<1>3. (q < Full) \in BOOLEAN
  OBVIOUS
<1>4. ExchangeTypeOK'
  BY <1>1, <1>2, <1>3, BookType DEF TypeOK
<1>5. \A p \in Order : Placed(p) => own'[p] = own[p]
  BY <1>1, <1>2, BookKeepsOwner DEF TypeOK
<1>6. own'[o] = s
  BY <1>2 DEF Book
<1>7. faults' \in Nat /\ listings' \in Nat /\ crashes' = crashes
  BY BoundsType DEF Post, TypeOK
<1> QED
  BY <1>4, <1>5, <1>6, <1>7

LEMMA OpenIInv == IInv /\ Open => IInv'
<1> SUFFICES ASSUME IInv, Open PROVE IInv'
  OBVIOUS
<1>0. /\ cur \in Signal /\ cur # NoSignal /\ todo = {} /\ Action[cur] # "close"
      /\ ord \in [Signal -> Order \cup {NoOrder}]
      /\ att \in Focus /\ snap \in [Order -> Qty] /\ Nothing \in Focus
      /\ faults \in Nat /\ crashes \in Nat /\ listings \in Nat /\ why \in [Order -> Cause]
      /\ Full \in Qty /\ 0 \in Qty /\ TypeOK
  BY ExchangeAssumption
     DEF IInv, TypeOK, Open, Runs, Passes, InPass, OpenRefused, OpenMarket, OpenLimit,
         OpenStop, OpenLost, CheckLimit, Nothing, Focus, Qty
<1>1. CASE OpenRefused
  BY <1>0, <1>1, SameType, AnswerEffect
     DEF OpenRefused, TypeOK, exchange, focus, bounds
<1>2. CASE OpenMarket
  <2> PICK o \in Order, unknown \in Unanswered :
        /\ Post(cur, o, unknown, Full)
        /\ Blame(unknown, "no_reply")
        /\ Attach(cur, o, Full)
    BY <1>2 DEF OpenMarket
  <2>0. why' \in [Order -> Cause]
    BY <1>0 DEF Blame, Cause
  <2>1. /\ ExchangeTypeOK'
        /\ \A p \in Order : Placed(p) => own'[p] = own[p]
        /\ why' \in [Order -> Cause]
        /\ faults' \in Nat /\ listings' \in Nat /\ crashes' = crashes
    BY <1>0, <2>0, PostEffect
  <2>2. TypeOK'
    BY <1>0, <2>1 DEF Attach, TypeOK, Focus, Place, database, request
  <2>3. Runs' /\ Passes'
    BY <1>0, <2>1 DEF IInv, Attach, Runs, Passes, InPass, InProtect, database, request
  <2>4. SubmittedHasOrder' /\ ReceivedIsExecuting'
    BY <1>0, <2>1, ExchangeAssumption
       DEF IInv, SubmittedHasOrder, ReceivedIsExecuting, Attach, Placed, database, request
  <2> QED
    BY <2>2, <2>3, <2>4 DEF IInv
<1>3. CASE OpenLimit
  <2> PICK o \in Order, unknown \in Unanswered :
        /\ Post(cur, o, unknown, 0)
        /\ Blame(unknown, "no_reply")
        /\ att' = [sig |-> cur, ord |-> o, qty |-> 0]
    BY <1>3 DEF OpenLimit
  <2>0. why' \in [Order -> Cause]
    BY <1>0 DEF Blame, Cause
  <2>1. /\ ExchangeTypeOK' /\ own'[o] = cur
        /\ \A p \in Order : Placed(p) => own'[p] = own[p]
        /\ why' \in [Order -> Cause]
        /\ faults' \in Nat /\ listings' \in Nat /\ crashes' = crashes
    BY <1>0, <2>0, PostEffect
  <2>2. TypeOK'
    BY <1>0, <1>3, <2>1 DEF OpenLimit, TypeOK, Focus, Place, database, request
  <2>3. Runs' /\ Passes'
    BY <1>0, <1>3, <2>1
       DEF IInv, OpenLimit, Runs, Passes, InPass, InProtect, database, request
  <2>4. SubmittedHasOrder' /\ ReceivedIsExecuting'
    BY <1>0, <1>3, <2>1, ExchangeAssumption
       DEF IInv, SubmittedHasOrder, ReceivedIsExecuting, OpenLimit, Placed, database, request
  <2> QED
    BY <2>2, <2>3, <2>4 DEF IInv
<1>4. CASE OpenStop
  <2> PICK o \in Order, unknown \in Unanswered, q \in Qty :
        /\ Post(cur, o, unknown, q)
        /\ \/ /\ q > 0
              /\ Attach(cur, o, q)
              /\ Blame(unknown, "no_reply")
           \/ /\ q = 0
              /\ ord' = [ord EXCEPT ![cur] = o]
              /\ Answer("submitted")
              /\ BlameBoth(unknown, "no_reply", Unlisted(o), "never_listed")
              /\ UNCHANGED focus
    BY <1>4 DEF OpenStop, Submit
  <2>0. why' \in [Order -> Cause]
    BY <1>0, BlameType, BlameBothType DEF Cause
  <2>1. /\ ExchangeTypeOK' /\ own'[o] = cur
        /\ \A p \in Order : Placed(p) => own'[p] = own[p]
        /\ why' \in [Order -> Cause]
        /\ faults' \in Nat /\ listings' \in Nat /\ crashes' = crashes
    BY <1>0, <2>0, PostEffect
  <2>2. CASE Attach(cur, o, q)
    <3>1. TypeOK'
      BY <1>0, <2>1, <2>2 DEF Attach, TypeOK, Focus, Place, database, request
    <3>2. Runs' /\ Passes'
      BY <1>0, <2>1, <2>2
         DEF IInv, Attach, Runs, Passes, InPass, InProtect, database, request
    <3>3. SubmittedHasOrder' /\ ReceivedIsExecuting'
      BY <1>0, <2>1, <2>2, ExchangeAssumption
         DEF IInv, SubmittedHasOrder, ReceivedIsExecuting, Attach, Placed, database, request
    <3> QED
      BY <3>1, <3>2, <3>3 DEF IInv
  <2>3. CASE /\ ord' = [ord EXCEPT ![cur] = o]
             /\ Answer("submitted")
             /\ UNCHANGED focus
    <3>1. Kind[cur] # "MARKET"
      BY <1>4 DEF OpenStop
    <3> QED
      BY <1>0, <2>1, <2>3, <3>1, AnswerEffect DEF focus
  <2> QED
    BY <2>2, <2>3
<1>5. CASE OpenLost
  <2> PICK o \in Fresh, q \in Qty :
        Book(cur, {o}, q, q < Full) /\ Blame({o}, "no_reply")
    BY <1>5 DEF OpenLost
  <2>1. {o} \in SUBSET Fresh /\ {o} \in SUBSET Order /\ (q < Full) \in BOOLEAN
    BY DEF Fresh
  <2>2. ExchangeTypeOK'
    BY <1>0, <2>1, BookType DEF TypeOK
  <2>3. \A p \in Order : Placed(p) => own'[p] = own[p]
    BY <1>0, <2>1, BookKeepsOwner DEF TypeOK
  <2>4. why' \in [Order -> Cause]
    BY <1>0 DEF Blame, Cause
  <2>5. faults' \in Nat /\ listings' \in Nat /\ crashes' = crashes
    BY <1>0, <1>5, BoundsType DEF OpenLost
  <2> QED
    BY <1>0, <1>5, <2>2, <2>3, <2>4, <2>5, AnswerEffect DEF OpenLost, focus
<1>6. CASE CheckLimit
  <2>0. /\ pc = "check" /\ UNCHANGED exchange
        /\ att.ord \in Order /\ own[att.ord] = cur /\ Kind[cur] = "LIMIT"
        /\ filled[att.ord] \in Qty
    BY <1>0, <1>6 DEF CheckLimit, IInv, Passes, TypeOK, ExchangeTypeOK
  <2>1. CASE Attach(cur, att.ord, filled[att.ord]) /\ Fine /\ NoBlame
    <3>1. TypeOK'
      BY <1>0, <2>0, <2>1, SameType
         DEF Attach, Fine, NoBlame, TypeOK, Focus, Place, database, request, bounds
    <3>2. Runs' /\ Passes'
      BY <1>0, <2>0, <2>1
         DEF IInv, Attach, Runs, Passes, InPass, InProtect, database, request
    <3>3. SubmittedHasOrder' /\ ReceivedIsExecuting'
      BY <2>0, <2>1 DEF IInv, SubmittedHasOrder, ReceivedIsExecuting, Attach, Fine,
                        exchange, database, request, bounds
    <3> QED
      BY <3>1, <3>2, <3>3 DEF IInv
  <2>2. CASE /\ ord' = [ord EXCEPT ![cur] = att.ord]
             /\ Answer("submitted") /\ att' = Nothing
             /\ Fine /\ Blame(Unlisted(att.ord), "never_listed") /\ UNCHANGED snap
    <3>1. ExchangeTypeOK'
      BY <1>0, <2>0, SameType DEF TypeOK
    <3>2. why' \in [Order -> Cause]
      BY <1>0, <2>2, BlameType DEF Cause
    <3> QED
      BY <1>0, <2>0, <2>2, <3>1, <3>2, AnswerEffect DEF Fine, exchange, bounds
  <2>3. CASE /\ Faulty /\ Answer("error") /\ att' = Nothing
             /\ Blame({att.ord}, "not_recorded") /\ UNCHANGED <<ord, snap>>
    <3>1. why' \in [Order -> Cause] /\ faults' \in Nat /\ listings' \in Nat /\ crashes' = crashes
      BY <1>0, <2>3, BoundsType DEF Blame, Cause
    <3>2. ExchangeTypeOK'
      BY <1>0, <2>0, SameType DEF TypeOK
    <3> QED
      BY <1>0, <2>0, <2>3, <3>1, <3>2, AnswerEffect DEF exchange
  <2> QED
    BY <1>6, <2>1, <2>2, <2>3 DEF CheckLimit, Submit
<1> QED
  BY <1>1, <1>2, <1>3, <1>4, <1>5, <1>6 DEF Open

LEMMA CancelAllOrdersEffect ==
    ASSUME TypeOK, CancelAllOrders
    PROVE  /\ ExchangeTypeOK' /\ own' = own
           /\ faults' \in Nat /\ listings' \in Nat /\ crashes' = crashes
<1> PICK regular \in BOOLEAN, entries \in SUBSET Order, stops \in SUBSET Order :
        /\ SweepOrders(regular, entries, stops)
        /\ IF regular /\ entries = Order /\ stops = Order THEN Fine ELSE Faulty
  BY DEF CancelAllOrders
<1>1. ExchangeTypeOK'
  BY SweepType DEF TypeOK
<1>2. own' = own
  BY DEF SweepOrders
<1>3. Fine \/ Faulty
  OBVIOUS
<1> QED
  BY <1>1, <1>2, <1>3, BoundsType DEF TypeOK

\* What _attach_protective ends with, for an execution or for a row of a pass.
LEMMA SettleEffect ==
    ASSUME IInv, InProtect, NEW status \in {"traded", "error"}, Settle(status),
           ExchangeTypeOK', own' = own,
           ord' \in [Signal -> Order \cup {NoOrder}],
           \A s \in Signal \ {att.sig} : ord'[s] = ord[s],
           snap' = snap, faults' \in Nat, listings' \in Nat, crashes' = crashes,
           why' \in [Order -> Cause]
    PROVE  IInv'
<1>0. /\ TypeOK /\ att \in Focus /\ Nothing \in Focus /\ NoSignal \notin Signal
      /\ att.sig \in Signal \ todo
      /\ IF att.sig = cur THEN todo = {} ELSE Resolvable(att.sig)
  BY ExchangeAssumption DEF IInv, TypeOK, Passes, Nothing, Focus, Qty
<1>1. CASE att.sig = cur
  <2>1. Answer(status) /\ att' = Nothing /\ todo = {} /\ cur # NoSignal
    BY <1>0, <1>1 DEF Settle
  <2>2. snap' \in [Order -> Qty]
    BY <1>0 DEF TypeOK
  <2> QED
    BY <1>0, <1>1, <2>1, <2>2, AnswerEffect
<1>2. CASE att.sig # cur
  <2>1. /\ row' = [row EXCEPT ![att.sig] = status]
        /\ pc' = IF status = "traded" THEN "peer" ELSE "scan"
        /\ att' = IF status = "traded" THEN att ELSE Nothing
        /\ UNCHANGED <<rowid, lastid, aged, request, todo>>
    BY <1>2 DEF Settle
  <2>2. TypeOK'
    BY <1>0, <2>1 DEF TypeOK, Status, Place, request
  <2>3. Runs' /\ Passes'
    BY <1>0, <1>2, <2>1
       DEF IInv, TypeOK, Runs, Passes, InPass, InProtect, Resolvable, request
  <2>4. SubmittedHasOrder' /\ ReceivedIsExecuting'
    BY <1>0, <1>2, <2>1
       DEF IInv, TypeOK, SubmittedHasOrder, ReceivedIsExecuting, request
  <2> QED
    BY <2>2, <2>3, <2>4 DEF IInv
<1> QED
  BY <1>1, <1>2

LEMMA ProtectIInv == IInv /\ Protect => IInv'
<1> SUFFICES ASSUME IInv, Protect PROVE IInv'
  OBVIOUS
<1>0. /\ TypeOK /\ InProtect /\ att \in Focus
      /\ att.ord \in Order /\ att.sig \in Signal /\ att.qty \in Qty
  BY DEF IInv, TypeOK, Passes, InProtect, Protect, Focus, PlaceStopLoss,
         TakeProfitFails, Protected, AbortSweep, EmergencyClose
<1> USE DEF IInv, Runs, Passes, InPass, InProtect, Resolvable, SubmittedHasOrder,
        ReceivedIsExecuting, TypeOK
<1>1. CASE PlaceStopLoss
  <2>1. ExchangeTypeOK' /\ own' = own
    BY <1>0, <1>1, AddStopType, SameType DEF PlaceStopLoss, AddStop, exchange
  <2>2. faults' \in Nat /\ listings' \in Nat /\ crashes' = crashes
    BY <1>1, BoundsType DEF PlaceStopLoss
  <2>3. pc' \in {"tp", "sweep"} /\ pc = "sl"
    BY <1>1 DEF PlaceStopLoss
  <2>4. TypeOK'
    BY <1>1, <2>1, <2>2, <2>3 DEF PlaceStopLoss, Place, database, request, focus
  <2>5. Runs' /\ Passes' /\ SubmittedHasOrder' /\ ReceivedIsExecuting'
    BY <1>1, <2>1, <2>2, <2>3 DEF PlaceStopLoss, database, request, focus
  <2> QED
    BY <2>4, <2>5
<1>2. CASE TakeProfitFails
  <2>1. TypeOK'
    BY <1>2, SameType DEF TakeProfitFails, Place, database, request, focus, bounds
  <2>2. Runs' /\ Passes' /\ SubmittedHasOrder' /\ ReceivedIsExecuting'
    BY <1>2 DEF TakeProfitFails, exchange, database, request, focus, bounds
  <2> QED
    BY <2>1, <2>2
<1>3. CASE Protected
  <2>1. ExchangeTypeOK' /\ own' = own /\ snap' = snap
    BY <1>3, SameType DEF Protected, exchange
  <2>2. why' \in [Order -> Cause]
    BY <1>3 DEF Protected, Blame, Cause
  <2>3. faults' \in Nat /\ listings' \in Nat /\ crashes' = crashes
    BY <1>3 DEF Protected, bounds
  <2>4. /\ ord' \in [Signal -> Order \cup {NoOrder}]
        /\ \A s \in Signal \ {att.sig} : ord'[s] = ord[s]
    BY <1>0, <1>3 DEF Protected
  <2> QED
    BY <1>0, <1>3, <2>1, <2>2, <2>3, <2>4, SettleEffect DEF Protected
<1>4. CASE AbortSweep
  <2>1. /\ ExchangeTypeOK' /\ own' = own
        /\ faults' \in Nat /\ listings' \in Nat /\ crashes' = crashes
    BY <1>4, CancelAllOrdersEffect DEF AbortSweep
  <2>2. why' \in [Order -> Cause]
    BY <1>4 DEF AbortSweep, Blame, Cause
  <2>3. TypeOK'
    BY <1>4, <2>1, <2>2 DEF AbortSweep, Place, database, request, focus
  <2>4. Runs' /\ Passes' /\ SubmittedHasOrder' /\ ReceivedIsExecuting'
    BY <1>4, <2>1 DEF AbortSweep, database, request, focus
  <2> QED
    BY <2>3, <2>4
<1>5. CASE EmergencyClose
  <2> DEFINE cut == [NoLots EXCEPT ![att.ord] = att.qty]
  <2>1. cut \in [Order -> Qty]
    BY <1>0, ExchangeAssumption DEF NoLots, Qty
  <2>2. (Reduce(cut) \/ UNCHANGED exchange) /\ (Fine \/ Faulty)
    BY <1>5 DEF EmergencyClose
  <2>3. ExchangeTypeOK' /\ own' = own
    <3>1. CASE Reduce(cut)
      <4> HIDE DEF cut
      <4> QED
        BY <2>1, <3>1, ReduceType DEF Reduce
    <3>2. CASE UNCHANGED exchange
      BY <3>2, SameType DEF exchange
    <3> QED
      BY <2>2, <3>1, <3>2
  <2>4. faults' \in Nat /\ listings' \in Nat /\ crashes' = crashes
    BY <2>2, BoundsType
  <2>5. why' \in [Order -> Cause]
    BY <1>5 DEF EmergencyClose, Blame, Cause
  <2> QED
    BY <1>0, <1>5, <2>3, <2>4, <2>5, SettleEffect DEF EmergencyClose
<1> QED
  BY <1>1, <1>2, <1>3, <1>4, <1>5 DEF Protect

LEMMA CloseIInv == IInv /\ Close => IInv'
<1> SUFFICES ASSUME IInv, Close PROVE IInv'
  OBVIOUS
<1>0. /\ TypeOK /\ cur \in Signal /\ cur # NoSignal /\ todo = {}
      /\ ord \in [Signal -> Order \cup {NoOrder}]
      /\ att \in Focus /\ snap \in [Order -> Qty] /\ NoLots \in [Order -> Qty]
      /\ faults \in Nat /\ crashes \in Nat /\ listings \in Nat /\ why \in [Order -> Cause]
  BY ExchangeAssumption
     DEF IInv, TypeOK, Runs, Passes, InPass, Close, CloseRefused, ReadFlat,
         CloseAlreadyFlat, ReadPosition, CloseSweep, CloseMarket, NoLots, Qty
<1>1. CASE CloseRefused
  <2>1. ExchangeTypeOK' /\ own' = own
    BY <1>0, <1>1, SameType DEF CloseRefused, TypeOK, exchange
  <2>2. faults' \in Nat /\ listings' \in Nat /\ crashes' = crashes
    BY <1>0, <1>1, BoundsType DEF CloseRefused
  <2> QED
    BY <1>0, <1>1, <2>1, <2>2, AnswerEffect DEF CloseRefused, focus
<1>2. CASE CloseAlreadyFlat
  <2>1. /\ ExchangeTypeOK' /\ own' = own
        /\ faults' \in Nat /\ listings' \in Nat /\ crashes' = crashes
    BY <1>0, <1>2, CancelAllOrdersEffect DEF CloseAlreadyFlat
  <2>2. why' \in [Order -> Cause]
    BY <1>0, <1>2 DEF CloseAlreadyFlat, Blame, Cause
  <2> QED
    BY <1>0, <1>2, <2>1, <2>2, AnswerEffect DEF CloseAlreadyFlat, focus
<1>3. CASE ReadPosition
  <2>1. snap' \in [Order -> Qty]
    BY <1>0, <1>3, ExchangeAssumption DEF ReadPosition, TypeOK, ExchangeTypeOK, Qty
  <2>2. TypeOK'
    BY <1>0, <1>3, <2>1, SameType
       DEF ReadPosition, TypeOK, Place, database, request, bounds
  <2>3. Runs' /\ Passes'
    BY <1>0, <1>3
       DEF IInv, ReadPosition, Runs, Passes, InPass, InProtect, database, request
  <2>4. SubmittedHasOrder' /\ ReceivedIsExecuting'
    BY <1>3 DEF IInv, ReadPosition, SubmittedHasOrder, ReceivedIsExecuting, exchange,
                database, request, bounds
  <2> QED
    BY <2>2, <2>3, <2>4 DEF IInv
<1>4. CASE CloseSweep
  <2>1. /\ ExchangeTypeOK' /\ own' = own
        /\ faults' \in Nat /\ listings' \in Nat /\ crashes' = crashes
    BY <1>0, <1>4, CancelAllOrdersEffect DEF CloseSweep
  <2>2. why' \in [Order -> Cause]
    BY <1>0, <1>4 DEF CloseSweep, Blame, Cause
  <2>3. TypeOK'
    BY <1>0, <1>4, <2>1, <2>2
       DEF CloseSweep, TypeOK, Place, database, request, focus
  <2>4. Runs' /\ Passes'
    BY <1>0, <1>4
       DEF IInv, CloseSweep, Runs, Passes, InPass, InProtect, database, request
  <2>5. SubmittedHasOrder' /\ ReceivedIsExecuting'
    BY <1>4, <2>1 DEF IInv, CloseSweep, SubmittedHasOrder, ReceivedIsExecuting,
                      database, request
  <2> QED
    BY <2>3, <2>4, <2>5 DEF IInv
<1>5. CASE CloseMarket
  <2>1. (Reduce(snap) \/ UNCHANGED exchange) /\ (Fine \/ Faulty)
    BY <1>5 DEF CloseMarket
  <2>2. ExchangeTypeOK' /\ own' = own
    BY <1>0, <2>1, ReduceType, SameType DEF TypeOK, Reduce, exchange
  <2>3. faults' \in Nat /\ listings' \in Nat /\ crashes' = crashes
    BY <1>0, <2>1, BoundsType
  <2>4. why' \in [Order -> Cause]
    BY <1>0, <1>5 DEF CloseMarket, Blame, Cause
  <2>5. PICK status \in {"traded", "error"} : Answer(status)
    BY <1>5 DEF CloseMarket
  <2> QED
    BY <1>0, <1>5, <2>2, <2>3, <2>4, <2>5, AnswerEffect DEF CloseMarket
<1>6. CASE ReadFlat
  <2>1. TypeOK'
    BY <1>0, <1>6, SameType
       DEF ReadFlat, TypeOK, Place, database, request, focus, bounds
  <2>2. Runs' /\ Passes' /\ SubmittedHasOrder' /\ ReceivedIsExecuting'
    BY <1>0, <1>6
       DEF IInv, ReadFlat, Runs, Passes, InPass, InProtect, SubmittedHasOrder,
           ReceivedIsExecuting, exchange, database, request, focus, bounds
  <2> QED
    BY <2>1, <2>2 DEF IInv
<1> QED
  BY <1>1, <1>2, <1>3, <1>4, <1>5, <1>6 DEF Close

LEMMA CancelEntriesIInv == IInv /\ CancelEntries => IInv'
<1> SUFFICES ASSUME IInv, CancelEntries PROVE IInv'
  OBVIOUS
<1> USE DEF IInv, Runs, Passes, InPass, InProtect, Resolvable, SubmittedHasOrder,
        ReceivedIsExecuting, TypeOK
<1>1. CASE CancelDone
  <2>1. TypeOK'
    BY <1>1, SameType DEF CancelDone, Place, database, request, focus, bounds
  <2>2. Runs' /\ Passes' /\ SubmittedHasOrder' /\ ReceivedIsExecuting'
    BY <1>1 DEF CancelDone, exchange, database, request, focus, bounds
  <2> QED
    BY <2>1, <2>2
<1>2. ASSUME NEW s \in Signal, CancelPendingEntry(s) PROVE IInv'
  <2>1. CASE row[s] = "submitted" /\ CancelEntryOrder(s)
    <3>1. /\ row' = [row EXCEPT ![s] = "cancelled"]
          /\ own' = own /\ ord' = ord /\ rowid' = rowid
          /\ lastid' = lastid /\ aged' = aged
          /\ ExchangeTypeOK' /\ why' \in [Order -> Cause]
          /\ faults' \in Nat /\ listings' \in Nat /\ crashes' = crashes
      BY <2>1, CancelEntryOrderEffect
    <3>2. TypeOK'
      BY <1>2, <2>1, <3>1 DEF CancelPendingEntry, Status, request, focus
    <3>3. Runs' /\ Passes' /\ SubmittedHasOrder' /\ ReceivedIsExecuting'
      BY <1>2, <2>1, <3>1 DEF CancelPendingEntry, request, focus
    <3> QED
      BY <3>2, <3>3
  <2>2. CASE UNCHANGED <<exchange, database, bounds, why>>
    <3>1. TypeOK'
      BY <1>2, <2>2, SameType DEF CancelPendingEntry, database, request, focus, bounds
    <3>2. Runs' /\ Passes' /\ SubmittedHasOrder' /\ ReceivedIsExecuting'
      BY <1>2, <2>2
         DEF CancelPendingEntry, exchange, database, request, focus, bounds
    <3> QED
      BY <3>1, <3>2
  <2> QED
    BY <1>2, <2>1, <2>2 DEF CancelPendingEntry
<1> QED
  BY <1>1, <1>2 DEF CancelEntries

\* Requests, the timer, crashes, time and the market.
LEMMA ArrivalIInv ==
    ASSUME IInv,
           \/ \E b \in Batch : IngestSignals(b)
           \/ \E legs \in SUBSET Signal : CancelRequest(legs)
           \/ ReconcileTick
    PROVE  IInv'
<1> USE DEF IInv, Runs, Passes, InPass, InProtect, Resolvable, SubmittedHasOrder,
        ReceivedIsExecuting, TypeOK
<1>1. ASSUME NEW b \in Batch, IngestSignals(b) PROVE IInv'
  <2>1. b \in Seq(Signal)
    BY SignalAssumption
  <2>2. TypeOK'
    BY <1>1, <2>1, SameType DEF IngestSignals, Acted, Place, database, focus, bounds
  <2>3. Runs' /\ Passes' /\ SubmittedHasOrder' /\ ReceivedIsExecuting'
    BY <1>1 DEF IngestSignals, exchange, database, focus, bounds
  <2> QED
    BY <2>2, <2>3
<1>2. ASSUME NEW legs \in SUBSET Signal, CancelRequest(legs) PROVE IInv'
  <2>1. TypeOK'
    BY <1>2, SameType DEF CancelRequest, Place, database, request, focus, bounds
  <2>2. Runs' /\ Passes' /\ SubmittedHasOrder' /\ ReceivedIsExecuting'
    BY <1>2 DEF CancelRequest, exchange, database, request, focus, bounds
  <2> QED
    BY <2>1, <2>2
<1>3. CASE ReconcileTick
  <2>1. TypeOK'
    BY <1>3, SameType
       DEF ReconcileTick, Pending, Submitted, Place, database, request, focus, bounds
  <2>2. Runs' /\ Passes' /\ SubmittedHasOrder' /\ ReceivedIsExecuting'
    BY <1>3 DEF ReconcileTick, Pending, Submitted, exchange, database, request, focus, bounds
  <2> QED
    BY <2>1, <2>2
<1> QED
  BY <1>1, <1>2, <1>3

LEMMA CrashIInv == IInv /\ Crash => IInv'
<1> SUFFICES ASSUME IInv, Crash PROVE IInv'
  OBVIOUS
<1> USE DEF IInv, Runs, Passes, InPass, InProtect, Resolvable, SubmittedHasOrder,
        ReceivedIsExecuting, TypeOK
<1>1. /\ Nothing \in Focus /\ NoLots \in [Order -> Qty] /\ <<>> \in Seq(Signal)
  BY ExchangeAssumption DEF Nothing, Focus, NoLots, Qty
<1>2. why' \in [Order -> Cause]
  BY DEF Crash, Blame, Cause
<1>3. TypeOK'
  BY <1>1, <1>2, SameType DEF Crash, Acted, Place, database
<1>4. Runs' /\ Passes' /\ SubmittedHasOrder' /\ ReceivedIsExecuting'
  BY DEF Crash, exchange, database
<1> QED
  BY <1>3, <1>4

LEMMA ListSignalsIInv ==
    ASSUME IInv, NEW old \in SUBSET Signal, ListSignals(old) PROVE IInv'
<1> USE DEF IInv, Runs, Passes, InPass, InProtect, Resolvable, SubmittedHasOrder,
        ReceivedIsExecuting, TypeOK
<1>1. why' \in [Order -> Cause]
  BY DEF ListSignals, Blame, Cause
<1>2. TypeOK'
  BY <1>1, SameType DEF ListSignals, Status, Place, request, focus
<1>3. Runs' /\ Passes' /\ SubmittedHasOrder' /\ ReceivedIsExecuting'
  BY DEF ListSignals, exchange, request, focus
<1> QED
  BY <1>2, <1>3

LEMMA AgeIInv == ASSUME IInv, NEW s \in Signal, Age(s) PROVE IInv'
<1> USE DEF IInv, Runs, Passes, InPass, InProtect, Resolvable, SubmittedHasOrder,
        ReceivedIsExecuting, TypeOK
<1>1. TypeOK'
  BY SameType DEF Age, request, focus, bounds
<1>2. Runs' /\ Passes' /\ SubmittedHasOrder' /\ ReceivedIsExecuting'
  BY DEF Age, exchange, request, focus, bounds
<1> QED
  BY <1>1, <1>2

LEMMA MarketIInv == IInv /\ MarketStep => IInv'
<1> SUFFICES ASSUME IInv, MarketStep PROVE IInv'
  OBVIOUS
<1> USE DEF IInv, Runs, Passes, InPass, InProtect, Resolvable, SubmittedHasOrder,
        ReceivedIsExecuting, TypeOK
<1>1. own' = own
  BY DEF MarketStep, Market, Fill, StopOut, Expire, TakeOff
<1>2. TypeOK'
  BY MarketType DEF MarketStep, database, request, focus, bounds
<1>3. Runs' /\ Passes' /\ SubmittedHasOrder' /\ ReceivedIsExecuting'
  BY <1>1 DEF MarketStep, database, request, focus, bounds
<1> QED
  BY <1>2, <1>3

THEOREM Inductive == Spec => []IInv
<1>1. IInv /\ [Next]_vars => IInv'
  BY StutterIInv, GuardIInv, ScanIInv, OpenIInv, ProtectIInv, CloseIInv,
     CancelEntriesIInv, ArrivalIInv, CrashIInv, ListSignalsIInv, AgeIInv, MarketIInv
     DEF Next, Handler
<1> QED
  BY InitIInv, <1>1, PTL DEF Spec

-----------------------------------------------------------------------------
(* What the invariant gives. *)

\* The variables keep their types; lots never exceed what was executed.
THEOREM TypeCorrect == Spec => []TypeOK
BY Inductive, PTL DEF IInv

\* However cancels, retries, stale lists, faults and crashes fall, a submitted
\* row, of an open or of a rolling, names an entry order placed for its own
\* signal.
THEOREM SubmittedRowsHaveTheirOrder == Spec => []SubmittedHasOrder
BY Inductive, PTL DEF IInv

\* Only a crash leaves a row in `received`.
THEOREM OnlyCrashesStrand == Spec => []ReceivedIsExecuting
BY Inductive, PTL DEF IInv

-----------------------------------------------------------------------------
(* The execution implements the promised life of a signal: each action is a *)
(* step of SignalLifecycle or leaves status and running alone.               *)

Idle == UNCHANGED <<row, cur>>
Promised == Idle \/ Lifecycle!Next

LEMMA AnswerFinishes ==
    ASSUME IInv, cur # NoSignal, NEW status \in {"traded", "submitted", "error"},
           Answer(status)
    PROVE  Promised
<1>1. Lifecycle!Finish(status)
  BY DEF Answer, IInv, Runs, Lifecycle!Finish
<1> QED
  BY <1>1 DEF Promised, Lifecycle!Next

LEMMA CancelResolves ==
    ASSUME NEW s \in Signal, Resolvable(s), CancelEntryOrder(s), UNCHANGED cur
    PROVE  Promised
<1>1. Lifecycle!Resolve(s, "cancelled")
  BY DEF CancelEntryOrder, Resolvable, Lifecycle!Resolve
<1> QED
  BY <1>1 DEF Promised, Lifecycle!Next

LEMMA SettleResolves ==
    ASSUME IInv, InProtect, NEW status \in {"traded", "error"}, Settle(status)
    PROVE  Promised
<1>0. att.sig \in Signal /\ NoSignal \notin Signal
      /\ (att.sig # cur => Resolvable(att.sig))
  BY ExchangeAssumption DEF IInv, Passes
<1>1. CASE att.sig = cur /\ Answer(status)
  BY <1>0, <1>1, AnswerFinishes
<1>2. CASE /\ att.sig # cur
           /\ row' = [row EXCEPT ![att.sig] = status]
           /\ UNCHANGED request
  <2>1. Lifecycle!Resolve(att.sig, status)
    BY <1>0, <1>2 DEF Resolvable, Lifecycle!Resolve, request
  <2> QED
    BY <1>0, <2>1 DEF Promised, Lifecycle!Next
<1> QED
  BY <1>1, <1>2 DEF Settle

LEMMA GuardPromised == IInv /\ Guard => Promised
<1> SUFFICES ASSUME IInv, Guard PROVE Promised
  OBVIOUS
<1>1. CASE GuardAccepts
  <2>1. Head(batch) \in Signal /\ cur = NoSignal
    BY <1>1, HeadTailProperties DEF GuardAccepts, IInv, TypeOK, Runs
  <2>2. Lifecycle!Accept(Head(batch))
    BY <1>1, <2>1 DEF GuardAccepts, Retryable, Lifecycle!Accept
  <2> QED
    BY <2>1, <2>2 DEF Promised, Lifecycle!Next
<1>2. CASE GuardSkips \/ BatchDone
  BY <1>2 DEF GuardSkips, BatchDone, database, Promised, Idle
<1> QED
  BY <1>1, <1>2 DEF Guard

LEMMA ScanPromised == IInv /\ Scan => Promised
<1> SUFFICES ASSUME IInv, Scan PROVE Promised
  OBVIOUS
<1>1. ASSUME NEW s \in Signal, ScanKeep(s) \/ ScanFilled(s) \/ ScanExpired(s)
      PROVE  Promised
  BY <1>1 DEF ScanKeep, ScanFilled, ScanExpired, database, request, Promised, Idle
<1>2. ASSUME NEW s \in Signal, ScanBreaks(s) PROVE Promised
  <2>1. CASE cur = NoSignal
    BY <1>2, <2>1 DEF ScanBreaks, request, Promised, Idle
  <2>2. CASE cur # NoSignal
    <3>1. Lifecycle!Finish("error")
      BY <1>2, <2>2 DEF ScanBreaks, IInv, Runs, Lifecycle!Finish
    <3> QED
      BY <3>1 DEF Promised, Lifecycle!Next
  <2> QED
    BY <2>1, <2>2
<1>3. ASSUME NEW s \in Signal, ScanGone(s) PROVE Promised
  <2>1. Lifecycle!Resolve(s, "cancelled")
    BY <1>3 DEF ScanGone, NextRow, request, IInv, Passes, InPass, Resolvable,
                Lifecycle!Resolve
  <2> QED
    BY <2>1 DEF Promised, Lifecycle!Next
<1>4. CASE CancelExpired
  BY <1>4, CancelResolves DEF CancelExpired, IInv, Passes, request
<1>5. CASE CancelPeer
  <2> DEFINE peer == RecordedPeer(att.sig)
  <2>1. CASE peer \in Submitted /\ CancelEntryOrder(peer)
    <3>1. peer \in Signal /\ Resolvable(peer)
      BY <2>1 DEF Submitted, Resolvable
    <3> QED
      BY <1>5, <2>1, <3>1, CancelResolves DEF CancelPeer, request
  <2>2. CASE UNCHANGED database
    BY <1>5, <2>2 DEF CancelPeer, database, request, Promised, Idle
  <2> QED
    BY <1>5, <2>1, <2>2 DEF CancelPeer
<1>6. CASE ScanDone
  BY <1>6 DEF ScanDone, database, request, Promised, Idle
<1> QED
  BY <1>1, <1>2, <1>3, <1>4, <1>5, <1>6 DEF Scan

LEMMA OpenPromised == IInv /\ Open => Promised
<1> SUFFICES ASSUME IInv, Open PROVE Promised
  OBVIOUS
<1>1. cur # NoSignal
  BY DEF IInv, Runs, Open, OpenRefused, OpenMarket, OpenLimit, OpenStop, OpenLost,
         CheckLimit
<1>2. \/ \E status \in {"submitted", "error"} : Answer(status)
      \/ UNCHANGED <<database, request>>
  BY DEF Open, OpenRefused, OpenMarket, OpenLimit, OpenStop, OpenLost, CheckLimit,
         Attach, Submit
<1> QED
  BY <1>1, <1>2, AnswerFinishes DEF database, request, Promised, Idle

LEMMA ProtectPromised == IInv /\ Protect => Promised
<1> SUFFICES ASSUME IInv, Protect PROVE Promised
  OBVIOUS
<1>1. InProtect
  BY DEF InProtect, Protect, PlaceStopLoss, TakeProfitFails, Protected, AbortSweep,
         EmergencyClose
<1>2. \/ \E status \in {"traded", "error"} : Settle(status)
      \/ UNCHANGED <<database, request>>
  BY DEF Protect, PlaceStopLoss, TakeProfitFails, Protected, AbortSweep,
         EmergencyClose
<1> QED
  BY <1>1, <1>2, SettleResolves DEF database, request, Promised, Idle

LEMMA ClosePromised == IInv /\ Close => Promised
<1> SUFFICES ASSUME IInv, Close PROVE Promised
  OBVIOUS
<1>1. cur # NoSignal
  BY DEF IInv, Runs, Close, CloseRefused, ReadFlat, CloseAlreadyFlat, ReadPosition,
         CloseSweep, CloseMarket
<1>2. \/ \E status \in {"traded", "error"} : Answer(status)
      \/ UNCHANGED <<database, request>>
  BY DEF Close, CloseRefused, ReadFlat, CloseAlreadyFlat, ReadPosition, CloseSweep,
         CloseMarket
<1> QED
  BY <1>1, <1>2, AnswerFinishes DEF database, request, Promised, Idle

LEMMA CancelEntriesPromised == IInv /\ CancelEntries => Promised
<1> SUFFICES ASSUME IInv, CancelEntries PROVE Promised
  OBVIOUS
<1>1. CASE CancelDone
  BY <1>1 DEF CancelDone, database, request, Promised, Idle
<1>2. ASSUME NEW s \in Signal, CancelPendingEntry(s) PROVE Promised
  <2>1. CASE row[s] = "submitted" /\ CancelEntryOrder(s)
    BY <1>2, <2>1, CancelResolves DEF CancelPendingEntry, Resolvable, request
  <2>2. CASE UNCHANGED database
    BY <1>2, <2>2 DEF CancelPendingEntry, database, request, Promised, Idle
  <2> QED
    BY <1>2, <2>1, <2>2 DEF CancelPendingEntry
<1> QED
  BY <1>1, <1>2 DEF CancelEntries

LEMMA OtherPromised ==
    ASSUME \/ \E b \in Batch : IngestSignals(b)
           \/ \E legs \in SUBSET Signal : CancelRequest(legs)
           \/ ReconcileTick
           \/ Crash
           \/ \E old \in SUBSET Signal : ListSignals(old)
           \/ \E s \in Signal : Age(s)
           \/ MarketStep
           \/ UNCHANGED vars,
           IInv
    PROVE  Promised
<1>1. CASE Crash
  BY <1>1 DEF Crash, database, Promised, Lifecycle!Next, Lifecycle!Die
<1>2. CASE Idle
  BY <1>2 DEF Promised
<1>3. CASE \E old \in SUBSET Signal : ListSignals(old)
  BY <1>3 DEF ListSignals, IInv, Runs, request, Promised, Lifecycle!Next,
              Lifecycle!Forget
<1> QED
  BY <1>1, <1>2, <1>3 DEF IngestSignals, CancelRequest, ReconcileTick, Age, MarketStep,
                    vars, database, request, Idle

\* One signal executes at a time and a traded signal is never touched again:
\* SignalExecution implements SignalLifecycle.
THEOREM Refinement == Spec => KeepsLifecycle
<1>1. Init => Lifecycle!Init
  BY DEF Init, Lifecycle!Init
<1>2. IInv /\ [Next]_vars => [Lifecycle!Next]_(Lifecycle!lifecycle)
  BY GuardPromised, ScanPromised, OpenPromised, ProtectPromised, ClosePromised,
     CancelEntriesPromised, OtherPromised
     DEF Next, Handler, Promised, Idle, Lifecycle!lifecycle
<1> QED
  BY <1>1, <1>2, Inductive, PTL DEF Spec, KeepsLifecycle, Lifecycle!Spec
=============================================================================
