-------------------------- MODULE SignalExecution --------------------------
(***************************************************************************)
(* The path of a trading signal through the protocol: POST /signals/ingest *)
(* (ingest/pipeline.py, guards.py, dispatcher.py, oco_rollback.py), the    *)
(* execution of an open or a close (trader.py, trading/*.py), the          *)
(* reconciliation of pending entries (trading/entry_reconcile.py, called   *)
(* by every execution and by the 60 s loop of main.py) and the cancel      *)
(* endpoint (trading/entry_cancel.py), for the signals of one symbol.      *)
(*                                                                         *)
(* Every handler is an `async def` that awaits nothing, so two handlers    *)
(* never interleave.  What does interleave with a handler is the market,   *)
(* between any two REST calls, and the death of the process.  Hence one    *)
(* action per REST call, with the database writes that follow it; pc names *)
(* the next call.                                                          *)
(***************************************************************************)
EXTENDS Exchange, Sequences

CONSTANTS
    Action,         \* Action[s]: open, close, or rolling (which stands for
                    \* every other text: it is executed as an open)
    AllowGap,       \* signals with allow_gap_market
    Peer,           \* Peer[s]: oco_peer_api_id, or NoSignal
    Batch,          \* bodies the client may POST: sequences of signals
    MaxFaults,      \* bound on failed or unanswered calls
    MaxCrashes,     \* bound on process deaths
    MaxListings     \* bound on listings that delete old rows

ASSUME SignalAssumption ==
    /\ Action \in [Signal -> {"open", "rolling", "close"}]
    /\ AllowGap \subseteq Signal
    /\ Peer \in [Signal -> Signal \cup {NoSignal}]
    /\ Batch \subseteq Seq(Signal)
    /\ MaxFaults \in Nat
    /\ MaxCrashes \in Nat
    /\ MaxListings \in Nat

VARIABLES
    \* signals_log
    row,        \* row[s]: status column, "absent" before the insert
    ord,        \* ord[s]: entry_order_id in result_json
    rowid,      \* rowid[s]: id column
    lastid,     \* the AUTOINCREMENT counter
    aged,       \* rows received more than _PENDING_TTL_HOURS ago
    \* the running handler
    pc,         \* the next call, "idle" between requests
    cur,        \* the signal execute_trade_with_status runs for
    batch,      \* signals of the request still to be processed
    acted,      \* acted[s]: the action in the detail record of s
    todo,       \* rows a pass still has to visit
    att,        \* the order a pass or an open is busy with
    snap,       \* the lots get_live_position saw
    \* bounds, and the cause for which an order is on its own
    faults,
    crashes,
    listings,
    why

database == <<row, ord, rowid, lastid, aged>>
request == <<cur, batch, acted>>
focus == <<att, snap>>
bounds == <<faults, crashes, listings>>
vars == <<exchange, database, pc, request, todo, focus, bounds, why>>

Status == {"absent", "received", "submitted", "traded", "error", "cancelled"}
Acted == {"none", "traded", "submitted", "error", "duplicate"}
Place == {"idle", "guard", "scan", "ttl", "peer", "cancel", "open", "check",
          "sl", "tp", "sweep", "eclose", "position", "fsweep", "csweep",
          "mclose"}
Cause == {"none", "crash", "no_reply", "not_recorded", "partial_fill",
          "cancelled_row", "swept", "abort_residue", "emergency_failed",
          "close_failed", "close_residue", "retention", "never_listed"}
Focus == [sig : Signal \cup {NoSignal}, ord : Order \cup {NoOrder}, qty : Qty]
Nothing == [sig |-> NoSignal, ord |-> NoOrder, qty |-> 0]
NoLots == [o \in Order |-> 0]

TypeOK ==
    /\ ExchangeTypeOK
    /\ row \in [Signal -> Status]
    /\ ord \in [Signal -> Order \cup {NoOrder}]
    /\ rowid \in [Signal -> Nat]
    /\ lastid \in Nat
    /\ aged \subseteq Signal
    /\ pc \in Place
    /\ cur \in Signal \cup {NoSignal}
    /\ batch \in Seq(Signal)
    /\ acted \in [Signal -> Acted]
    /\ todo \subseteq Signal
    /\ att \in Focus
    /\ snap \in [Order -> Qty]
    /\ faults \in Nat
    /\ crashes \in Nat
    /\ listings \in Nat
    /\ why \in [Order -> Cause]

Init ==
    /\ ExchangeInit
    /\ row = [s \in Signal |-> "absent"]
    /\ ord = [s \in Signal |-> NoOrder]
    /\ rowid = [s \in Signal |-> 0]
    /\ lastid = 0
    /\ aged = {}
    /\ pc = "idle"
    /\ cur = NoSignal
    /\ batch = <<>>
    /\ acted = [s \in Signal |-> "none"]
    /\ todo = {}
    /\ att = Nothing
    /\ snap = NoLots
    /\ faults = 0
    /\ crashes = 0
    /\ listings = 0
    /\ why = [o \in Order |-> "none"]

-----------------------------------------------------------------------------
(* Bookkeeping shared by the actions. *)

Fine == UNCHANGED bounds

\* A call that fails, or whose answer is lost; the guard bounds them.
Faulty ==
    /\ faults < MaxFaults
    /\ faults' = faults + 1
    /\ UNCHANGED <<crashes, listings>>

\* o may open a position, or is one, beyond what its stop loss covers.
Exposed(o) == live[o] \/ Naked(o)

\* o may open a position, or is one.
InMarket(o) == live[o] \/ lot[o] > 0

\* The rows with an entry order that has not been resolved.
Submitted == {s \in Signal : row[s] = "submitted"}

\* History: the first step that left o to itself, exposed or with a row that
\* says it is over.
Blame(orders, cause) ==
    why' = [o \in Order |-> IF o \in orders /\ why[o] = "none"
                            THEN cause ELSE why[o]]
BlameBoth(orders, cause, others, otherwise) ==
    why' = [o \in Order |-> CASE why[o] # "none" -> why[o]
                              [] why[o] = "none" /\ o \in orders -> cause
                              [] why[o] = "none" /\ o \in others \ orders -> otherwise
                              [] OTHER -> why[o]]
NoBlame == UNCHANGED why

\* Mutants: a listing that forgets its status filter, and one that leaves out
\* the rows past their TTL.
PendingOrTraded ==
    {s \in Signal : row[s] \in {"submitted", "traded"} /\ Action[s] = "open"}
PendingYoung == {s \in Submitted : Action[s] = "open" /\ s \notin aged}

\* What a pass lists: status submitted and action open.  The row of a rolling
\* entry is never among them.
Pending == {s \in Submitted : Action[s] = "open"}

\* A row the next pass will list records o.
Tracked(o) == \E s \in Pending : ord[s] = o

\* The execution of cur ends: the row gets its status, the detail its action.
Answer(status) ==
    /\ row' = [row EXCEPT ![cur] = status]
    /\ acted' = [acted EXCEPT ![cur] = status]
    /\ cur' = NoSignal
    /\ pc' = "guard"
    /\ UNCHANGED <<batch, rowid, lastid, aged, todo>>

\* Mutants: a result without entry_order_id, and an acknowledged order taken
\* for an executed one.
SubmitForgets(o) ==
    /\ UNCHANGED ord
    /\ Answer("submitted")
SubmitAsTraded(o) ==
    /\ ord' = [ord EXCEPT ![cur] = o]
    /\ Answer("traded")

\* The execution of cur ends with its entry order pending.
Submit(o) ==
    /\ ord' = [ord EXCEPT ![cur] = o]
    /\ Answer("submitted")

\* The entry order of cur may execute while no pass looks for it.
Unlisted(o) == IF Action[cur] = "open" THEN {} ELSE {o}

\* An entry order handled by _attach_protective is settled, on behalf of an
\* execution (cur) or of a row of a reconcile pass.
Settle(status) ==
    \/ /\ att.sig = cur
       /\ Answer(status)
       /\ att' = Nothing
    \/ /\ att.sig # cur
       /\ row' = [row EXCEPT ![att.sig] = status]
       /\ pc' = IF status = "traded" THEN "peer" ELSE "scan"
       /\ att' = IF status = "traded" THEN att ELSE Nothing
       /\ UNCHANGED <<rowid, lastid, aged, request, todo>>

\* One cancel call on the order of s whose result the code ignores, after
\* which the row is cancelled whatever happened.
CancelEntryOrder(s) ==
    /\ \/ TakeOff(ord[s]) /\ Fine
       \/ UNCHANGED exchange /\ Faulty
    /\ row' = [row EXCEPT ![s] = "cancelled"]
    /\ Blame({o \in Order : o = ord[s] /\ InMarket(o)'}, "cancelled_row")
    /\ UNCHANGED <<ord, rowid, lastid, aged>>

\* cancel_all_orders with its swallowed failures.
CancelAllOrders ==
    \E regular \in BOOLEAN, entries, stops \in SUBSET Order :
        /\ SweepOrders(regular, entries, stops)
        /\ IF regular /\ entries = Order /\ stops = Order THEN Fine ELSE Faulty

-----------------------------------------------------------------------------
(* POST /signals/ingest *)

IngestSignals(b) ==
    /\ pc = "idle"
    /\ pc' = "guard"
    /\ batch' = b
    /\ acted' = [s \in Signal |-> "none"]
    /\ UNCHANGED <<exchange, database, cur, todo, focus, bounds, why>>

\* Mutant: a pending row may be executed again.
RetryablePending == {"absent", "error", "cancelled", "submitted"}

Retryable == {"absent", "error", "cancelled"}

\* guard_dedup_insert lets the signal through: a new row, or one whose last
\* execution ended in error or cancelled, which loses its result_json.  The
\* execution starts with a reconcile pass over the submitted rows.
GuardAccepts ==
    /\ pc = "guard"
    /\ batch # <<>>
    /\ LET s == Head(batch) IN
        /\ row[s] \in Retryable
        /\ lastid' = IF row[s] = "absent" THEN lastid + 1 ELSE lastid
        /\ rowid' = IF row[s] = "absent" THEN [rowid EXCEPT ![s] = lastid'] ELSE rowid
        /\ row' = [row EXCEPT ![s] = "received"]
        /\ ord' = [ord EXCEPT ![s] = NoOrder]
        /\ aged' = aged \ {s}
        /\ cur' = s
    /\ batch' = Tail(batch)
    /\ todo' = Pending
    /\ pc' = "scan"
    /\ UNCHANGED <<exchange, acted, focus, bounds, why>>

GuardSkips ==
    /\ pc = "guard"
    /\ batch # <<>>
    /\ row[Head(batch)] \notin Retryable
    /\ acted' = [acted EXCEPT ![Head(batch)] = "duplicate"]
    /\ batch' = Tail(batch)
    /\ UNCHANGED <<exchange, database, pc, cur, todo, focus, bounds, why>>

\* _leg_action_from_batch: a leg's detail, or its row when the batch has none.
LegAction(s) ==
    IF acted[s] \in {"none", "duplicate"} THEN row[s] ELSE acted[s]

\* rollback_incomplete_oco_batch: submitted legs of the pairs of this batch
\* with a failed leg and no traded one.
IncompleteLegs ==
    {s \in Signal :
        \E t \in Signal : \E leg \in {s, t} :
            /\ acted[leg] # "none"
            /\ Peer[leg] = (IF leg = s THEN t ELSE s)
            /\ LegAction(s) = "submitted"
            /\ LegAction(t) = "error"}

BatchDone ==
    /\ pc = "guard"
    /\ batch = <<>>
    /\ todo' = IncompleteLegs
    /\ pc' = "cancel"
    /\ acted' = [s \in Signal |-> "none"]
    /\ UNCHANGED <<exchange, database, cur, batch, focus, bounds, why>>

-----------------------------------------------------------------------------
(* cancel_pending_entry_by_api_id, for the rollback and for the endpoint
   POST /maintenance/cancel-pending-entries. *)

CancelRequest(legs) ==
    /\ pc = "idle"
    /\ pc' = "cancel"
    /\ todo' = legs
    /\ UNCHANGED <<exchange, database, request, focus, bounds, why>>

CancelPendingEntry(s) ==
    /\ pc = "cancel"
    /\ s \in todo
    /\ \/ /\ row[s] = "submitted"
          /\ CancelEntryOrder(s)
       \/ /\ row[s] # "submitted"
          /\ UNCHANGED <<exchange, database, bounds, why>>
    /\ todo' = todo \ {s}
    /\ UNCHANGED <<pc, request, focus>>

CancelDone ==
    /\ pc = "cancel"
    /\ todo = {}
    /\ pc' = "idle"
    /\ UNCHANGED <<exchange, database, request, todo, focus, bounds, why>>

-----------------------------------------------------------------------------
(* reconcile_pending_entry_orders.  The list of rows is read once; a row is
   judged by the order status fetched for it, whatever its status column has
   become since. *)

ReconcileTick ==
    /\ pc = "idle"
    /\ pc' = "scan"
    /\ todo' = Pending
    /\ UNCHANGED <<exchange, database, request, focus, bounds, why>>

\* The next row of the list: ORDER BY id DESC.
NextRow(s) ==
    /\ pc = "scan"
    /\ s \in todo
    /\ \A t \in todo : rowid[t] <= rowid[s]

Entry(s) == EntryStatus(s, ord[s])

\* The order cannot be fetched, or is working and young: the row stays.
ScanKeep(s) ==
    /\ NextRow(s)
    /\ \/ Faulty
       \/ /\ Entry(s) \in {"NEW", "PARTIALLY_FILLED"}
          /\ s \notin aged
          /\ Fine
    /\ todo' = todo \ {s}
    /\ UNCHANGED <<exchange, database, pc, request, focus, why>>

\* finalize_filled_entry: protect what the order reports as executed.
ScanFilled(s) ==
    /\ NextRow(s)
    /\ Entry(s) = "FILLED"
    /\ att' = [sig |-> s, ord |-> ord[s], qty |-> filled[ord[s]]]
    /\ pc' = "sl"
    /\ todo' = todo \ {s}
    /\ UNCHANGED <<exchange, database, request, snap, bounds, why>>

\* Mutant: the exception of the pass is not recorded on the execution's row.
ScanBreaksUnrecorded(s) ==
    /\ NextRow(s)
    /\ Entry(s) = "FILLED"
    /\ Faulty
    /\ todo' = {}
    /\ pc' = IF cur = NoSignal THEN "idle" ELSE "guard"
    /\ cur' = NoSignal
    /\ UNCHANGED <<exchange, database, batch, acted, focus, why>>

\* Mutant: the exception is recorded on the row of the filled order.
ScanBreaksFilledRow(s) ==
    /\ NextRow(s)
    /\ Entry(s) = "FILLED"
    /\ Faulty
    /\ todo' = {}
    /\ row' = [row EXCEPT ![s] = "error"]
    /\ pc' = IF cur = NoSignal THEN "idle" ELSE "guard"
    /\ cur' = NoSignal
    /\ UNCHANGED <<exchange, ord, rowid, lastid, aged, batch, acted, focus, why>>

\* _get_filters or get_mark_price fails for a filled row: the exception ends
\* the pass, and with it the execution that started it (dispatch records it).
ScanBreaks(s) ==
    /\ NextRow(s)
    /\ Entry(s) = "FILLED"
    /\ Faulty
    /\ todo' = {}
    /\ \/ /\ cur = NoSignal
          /\ pc' = "idle"
          /\ UNCHANGED <<row, request>>
       \/ /\ cur # NoSignal
          /\ row' = [row EXCEPT ![cur] = "error"]
          /\ acted' = [acted EXCEPT ![cur] = "error"]
          /\ cur' = NoSignal
          /\ pc' = "guard"
          /\ UNCHANGED batch
    /\ UNCHANGED <<exchange, ord, rowid, lastid, aged, focus, why>>

\* A partially executed order that was cancelled counts as cancelled.
ScanGone(s) ==
    /\ NextRow(s)
    /\ Entry(s) = "CANCELED"
    /\ row' = [row EXCEPT ![s] = "cancelled"]
    /\ Blame({o \in Order : o = ord[s] /\ InMarket(o)}, "cancelled_row")
    /\ todo' = todo \ {s}
    /\ UNCHANGED <<exchange, ord, rowid, lastid, aged, pc, request, focus, bounds>>

\* entry_ttl_expired: decided on the status just fetched, cancelled next.
ScanExpired(s) ==
    /\ NextRow(s)
    /\ Entry(s) \in {"NEW", "PARTIALLY_FILLED"}
    /\ s \in aged
    /\ att' = [sig |-> s, ord |-> ord[s], qty |-> 0]
    /\ pc' = "ttl"
    /\ todo' = todo \ {s}
    /\ UNCHANGED <<exchange, database, request, snap, bounds, why>>

CancelExpired ==
    /\ pc = "ttl"
    /\ CancelEntryOrder(att.sig)
    /\ att' = Nothing
    /\ pc' = "scan"
    /\ UNCHANGED <<request, todo, snap>>

\* _cancel_oco_peer after a row is promoted.  Only the result of a STOP_LIMIT
\* entry records the peer.
RecordedPeer(s) == IF Kind[s] = "STOP_LIMIT" THEN Peer[s] ELSE NoSignal

CancelPeer ==
    /\ pc = "peer"
    /\ LET peer == RecordedPeer(att.sig) IN
        \/ /\ peer \in Submitted
           /\ CancelEntryOrder(peer)
        \/ /\ peer \notin Submitted
           /\ UNCHANGED <<exchange, database, bounds, why>>
    /\ att' = Nothing
    /\ pc' = "scan"
    /\ UNCHANGED <<request, todo, snap>>

ScanDone ==
    /\ pc = "scan"
    /\ todo = {}
    /\ pc' = IF cur = NoSignal THEN "idle"
             ELSE IF Action[cur] = "close" THEN "position" ELSE "open"
    /\ UNCHANGED <<exchange, database, request, todo, focus, bounds, why>>

-----------------------------------------------------------------------------
(* Opening: execute_trade_with_status after its reconcile pass. *)

\* Mutant: a refusal with a status of its own.
OpenRefusedRejects ==
    /\ pc = "open"
    /\ Answer("rejected")
    /\ UNCHANGED <<exchange, ord, focus, bounds, why>>

\* Every refusal before an order exists: execution paused, bad numbers, setup
\* failure, quantity or notional, SL preflight, gap not allowed, rejected by
\* the exchange.  A rejection with code -2021 is one of them: the text of the
\* HTTPStatusError the client raises does not carry the code.
OpenRefused ==
    /\ pc = "open"
    /\ Answer("error")
    /\ UNCHANGED <<exchange, ord, focus, bounds, why>>

\* BinanceClient.request posts again after a timeout: an order the exchange
\* already took is then unknown to the caller.
Unanswered == {{}} \cup {{o} : o \in Fresh}

Post(s, o, unknown, q) ==
    /\ o \in Fresh \ unknown
    /\ Book(s, unknown \cup {o}, q, q < Full)
    /\ IF unknown = {} THEN Fine ELSE Faulty

Attach(s, o, q) ==
    /\ att' = [sig |-> s, ord |-> o, qty |-> q]
    /\ pc' = "sl"
    /\ UNCHANGED <<database, request, todo, snap>>

\* open_market, also the gap fallback of open_stop_limit.
OpenMarket ==
    /\ pc = "open"
    /\ \/ Kind[cur] = "MARKET"
       \/ Kind[cur] = "STOP_LIMIT" /\ cur \in AllowGap
    /\ \E o \in Order, unknown \in Unanswered :
        /\ Post(cur, o, unknown, Full)
        /\ Blame(unknown, "no_reply")
        /\ Attach(cur, o, Full)

\* open_limit up to the acknowledged order.
OpenLimit ==
    /\ pc = "open"
    /\ Kind[cur] = "LIMIT"
    /\ \E o \in Order, unknown \in Unanswered :
        /\ Post(cur, o, unknown, 0)
        /\ Blame(unknown, "no_reply")
        /\ att' = [sig |-> cur, ord |-> o, qty |-> 0]
    /\ pc' = "check"
    /\ UNCHANGED <<database, request, todo, snap>>

\* open_stop_limit: the answer already tells what was executed.
OpenStop ==
    /\ pc = "open"
    /\ Kind[cur] = "STOP_LIMIT"
    /\ \E o \in Order, unknown \in Unanswered, q \in Qty :
        /\ Post(cur, o, unknown, q)
        /\ \/ /\ q > 0
              /\ Attach(cur, o, q)
              /\ Blame(unknown, "no_reply")
           \/ /\ q = 0
              /\ Submit(o)
              /\ BlameBoth(unknown, "no_reply", Unlisted(o), "never_listed")
              /\ UNCHANGED focus

\* The order was taken but every answer was lost.
OpenLost ==
    /\ pc = "open"
    /\ \E o \in Fresh, q \in Qty :
        /\ Kind[cur] = "MARKET" => q = Full
        /\ Kind[cur] = "LIMIT" => q = 0
        /\ Book(cur, {o}, q, q < Full)
        /\ Blame({o}, "no_reply")
    /\ Faulty
    /\ Answer("error")
    /\ UNCHANGED <<ord, focus>>

\* open_limit reads the order back: any execution is protected as it stands,
\* none leaves a submitted row, and a failed read an error row.
CheckLimit ==
    /\ pc = "check"
    /\ \/ /\ filled[att.ord] > 0
          /\ Attach(cur, att.ord, filled[att.ord])
          /\ Fine
          /\ NoBlame
       \/ /\ filled[att.ord] = 0
          /\ Submit(att.ord)
          /\ att' = Nothing
          /\ Fine
          /\ Blame(Unlisted(att.ord), "never_listed")
          /\ UNCHANGED snap
       \/ /\ Faulty
          /\ Answer("error")
          /\ att' = Nothing
          /\ Blame({att.ord}, "not_recorded")
          /\ UNCHANGED <<ord, snap>>
    /\ UNCHANGED exchange

-----------------------------------------------------------------------------
(* _attach_protective: stop loss, take profit, then the row; any failure     *)
(* sweeps the orders of the symbol and closes what was opened.               *)

\* Mutant: a stop loss that is refused is passed over.
PlaceStopLossLeniently ==
    /\ pc = "sl"
    /\ pc' = "tp"
    /\ \/ AddStop(att.ord, att.qty) /\ Fine
       \/ UNCHANGED exchange /\ Fine
    /\ UNCHANGED <<database, request, todo, focus, why>>

\* place_sl_strict: refused (no SL in the signal, too close to the mark,
\* rejected twice), accepted, or accepted without an answer.
PlaceStopLoss ==
    /\ pc = "sl"
    /\ \/ pc' = "tp" /\ AddStop(att.ord, att.qty) /\ Fine
       \/ pc' = "sweep" /\ UNCHANGED exchange /\ Fine
       \/ pc' = "sweep" /\ AddStop(att.ord, att.qty) /\ Faulty
    /\ UNCHANGED <<database, request, todo, focus, why>>

\* The take profit fails: the working stop loss is given up with it.
TakeProfitFails ==
    /\ pc = "tp"
    /\ pc' = "sweep"
    /\ UNCHANGED <<exchange, database, request, todo, focus, bounds, why>>

\* The row becomes traded.  Nothing looks at the order any more: what it may
\* still execute stays without a stop loss.
Protected ==
    /\ pc = "tp"
    /\ Settle("traded")
    /\ ord' = [ord EXCEPT ![att.sig] = att.ord]
    /\ Blame({o \in Order : o = att.ord /\ Exposed(o)}, "partial_fill")
    /\ UNCHANGED <<exchange, snap, bounds>>

\* cancel_all_orders of _abort_unprotected: the stop losses of every other
\* lot of the symbol go too.
AbortSweep ==
    /\ pc = "sweep"
    /\ CancelAllOrders
    /\ Blame({o \in Order : o # att.ord /\ Naked(o)' /\ ~Naked(o)}, "swept")
    /\ pc' = "eclose"
    /\ UNCHANGED <<database, request, todo, focus>>

\* Mutant: the emergency close is left out.
AbortWithoutClose ==
    /\ pc = "eclose"
    /\ Settle("error")
    /\ Fine
    /\ UNCHANGED <<exchange, ord, snap, why>>

\* emergency_close_position: closed, refused, or closed without an answer.
EmergencyClose ==
    /\ pc = "eclose"
    /\ LET close == Reduce([NoLots EXCEPT ![att.ord] = att.qty])
           rest == {o \in Order : o = att.ord /\ InMarket(o)'}
       IN  \/ close /\ Fine /\ Blame(rest, "abort_residue")
           \/ UNCHANGED exchange /\ Faulty /\ Blame(rest, "emergency_failed")
           \/ close /\ Faulty /\ Blame(rest, "abort_residue")
    /\ Settle("error")
    /\ UNCHANGED <<ord, snap>>

-----------------------------------------------------------------------------
(* _close_live_position, in hedge mode: one position for each side.          *)

Position(side) == {o \in Order : lot[o] > 0 /\ Side[own[o]] = side}

\* get_live_position or _get_filters raises, or the live position is on the
\* other side.
CloseRefused ==
    /\ pc = "position"
    /\ \/ Faulty
       \/ Fine /\ \E side \in {"LONG", "SHORT"} \ {Side[cur]} : Position(side) # {}
    /\ Answer("error")
    /\ UNCHANGED <<exchange, ord, focus, why>>

\* The account is flat.
ReadFlat ==
    /\ pc = "position"
    /\ \A o \in Order : lot[o] = 0
    /\ pc' = "fsweep"
    /\ UNCHANGED <<exchange, database, request, todo, focus, bounds, why>>

\* _record_close_already_flat, whatever has been opened since the read.
CloseAlreadyFlat ==
    /\ pc = "fsweep"
    /\ CancelAllOrders
    /\ Answer("traded")
    /\ Blame({o \in Order : Naked(o)' /\ ~Naked(o)}, "swept")
    /\ UNCHANGED <<ord, focus>>

ReadPosition ==
    /\ pc = "position"
    /\ Position(Side[cur]) # {}
    /\ snap' = [o \in Order |-> IF o \in Position(Side[cur]) THEN lot[o] ELSE 0]
    /\ pc' = "csweep"
    /\ UNCHANGED <<exchange, database, request, todo, att, bounds, why>>

CloseSweep ==
    /\ pc = "csweep"
    /\ CancelAllOrders
    /\ Blame({o \in Order : snap[o] = 0 /\ Naked(o)' /\ ~Naked(o)}, "swept")
    /\ pc' = "mclose"
    /\ UNCHANGED <<database, request, todo, focus>>

\* The MARKET order for the quantity read: accepted, refused or rejected,
\* accepted without an answer.
CloseMarket ==
    /\ pc = "mclose"
    /\ LET bare == {o \in Order : snap[o] > 0 /\ Naked(o)'}
       IN  \/ Reduce(snap) /\ Fine /\ Answer("traded")
              /\ Blame(bare, "close_residue")
           \/ Reduce(snap) /\ Faulty /\ Answer("error")
              /\ Blame(bare, "close_residue")
           \/ UNCHANGED exchange /\ Faulty /\ Answer("error")
              /\ Blame(bare, "close_failed")
    /\ snap' = NoLots
    /\ UNCHANGED <<ord, att>>

-----------------------------------------------------------------------------
(* The process dies: the database and the exchange stay, the handler does    *)
(* not.                                                                      *)
Crash ==
    /\ pc # "idle"
    /\ crashes < MaxCrashes
    /\ crashes' = crashes + 1
    /\ pc' = "idle"
    /\ cur' = NoSignal
    /\ batch' = <<>>
    /\ acted' = [s \in Signal |-> "none"]
    /\ todo' = {}
    /\ att' = Nothing
    /\ snap' = NoLots
    /\ Blame({o \in Order : Exposed(o) /\ ~Tracked(o)}, "crash")
    /\ UNCHANGED <<exchange, database, faults, listings>>

-----------------------------------------------------------------------------
(* GET /signals deletes the rows received more than 24 h ago before it reads *)
(* the log, whatever their status.  A pending row is then past its TTL too.  *)
ListSignals(old) ==
    /\ pc = "idle"
    /\ listings < MaxListings
    /\ listings' = listings + 1
    /\ old # {}
    /\ \A s \in old : row[s] # "absent"
    /\ old \cap Submitted \subseteq aged
    /\ row' = [s \in Signal |-> IF s \in old THEN "absent" ELSE row[s]]
    /\ ord' = [s \in Signal |-> IF s \in old THEN NoOrder ELSE ord[s]]
    /\ rowid' = [s \in Signal |-> IF s \in old THEN 0 ELSE rowid[s]]
    /\ aged' = aged \ old
    /\ Blame({o \in Order : InMarket(o) /\ own[o] \in old}, "retention")
    /\ UNCHANGED <<exchange, lastid, pc, request, todo, focus, faults, crashes>>

\* _PENDING_TTL_HOURS pass since received_at.
Age(s) ==
    /\ row[s] = "submitted"
    /\ s \notin aged
    /\ aged' = aged \cup {s}
    /\ UNCHANGED <<exchange, row, ord, rowid, lastid, pc, request, todo, focus,
                   bounds, why>>

MarketStep ==
    /\ Market
    /\ UNCHANGED <<database, pc, request, todo, focus, bounds, why>>

-----------------------------------------------------------------------------
Guard == GuardAccepts \/ GuardSkips \/ BatchDone

Scan ==
    \/ \E s \in Signal :
        \/ ScanKeep(s)
        \/ ScanFilled(s)
        \/ ScanBreaks(s)
        \/ ScanGone(s)
        \/ ScanExpired(s)
    \/ CancelExpired
    \/ CancelPeer
    \/ ScanDone

Open == OpenRefused \/ OpenMarket \/ OpenLimit \/ OpenStop \/ OpenLost \/ CheckLimit

Protect ==
    PlaceStopLoss \/ TakeProfitFails \/ Protected \/ AbortSweep \/ EmergencyClose

Close ==
    \/ CloseRefused
    \/ ReadFlat
    \/ CloseAlreadyFlat
    \/ ReadPosition
    \/ CloseSweep
    \/ CloseMarket

CancelEntries == CancelDone \/ \E s \in Signal : CancelPendingEntry(s)

\* The steps of a handler that has started.
Handler == Guard \/ Scan \/ Open \/ Protect \/ Close \/ CancelEntries

Next ==
    \/ \E b \in Batch : IngestSignals(b)
    \/ \E legs \in SUBSET Signal : CancelRequest(legs)
    \/ ReconcileTick
    \/ Handler
    \/ Crash
    \/ \E old \in SUBSET Signal : ListSignals(old)
    \/ \E s \in Signal : Age(s)
    \/ MarketStep

Spec == Init /\ [][Next]_vars

\* A handler runs to its end once started; the event loop gets back to its
\* ready timer between handlers, however many requests come in; time passes.
FairSpec ==
    /\ Spec
    /\ WF_vars(Handler)
    /\ SF_vars(ReconcileTick)
    /\ \A s \in Signal : WF_vars(Age(s))

-----------------------------------------------------------------------------
(* Properties. *)

\* The running handler is the one that answers for o.
Held(o) ==
    \/ /\ pc \in {"check", "sl", "tp", "sweep", "eclose"}
       /\ att.ord = o
    \/ /\ pc \in {"csweep", "mclose"}
       /\ snap[o] > 0

\* A submitted row names an entry order that the exchange took for this very
\* signal, whatever retries, cancels and crashes came before: what a pass will
\* protect, and a cancel take off, is this signal's own entry.
SubmittedHasOrder ==
    \A s \in Signal : row[s] = "submitted" =>
        /\ ord[s] \in Order
        /\ own[ord[s]] = s
        /\ Action[s] # "close"
        /\ Kind[s] # "MARKET"

\* No order is forgotten: an order that may still execute, and a lot without
\* enough stop loss, is recorded by a submitted row that the next pass lists,
\* or in the hands of the running handler, or was left to itself by one of the
\* named causes.  The entry of a rolling is left to itself once it is pending.
ExposureHasCause ==
    \A o \in Order : Exposed(o) => Tracked(o) \/ Held(o) \/ why[o] # "none"

\* A signal the guard would let through again has nothing left in the market,
\* neither a working order nor a lot, but for a named cause: what a failed or
\* cancelled row says is over, is over.
RetryFindsNothing ==
    \A o \in Order :
        Placed(o) /\ InMarket(o) /\ row[own[o]] \in Retryable => why[o] # "none"

\* An entry at market executes at once, so what protects, aborts or closes it
\* does so in whole, however long before it read the quantity: such an entry is
\* left to itself by a failing call, a crash, a deletion or another's sweep, and
\* never for a rest that nobody counted.
AtMarketInWhole ==
    \A o \in Order :
        Placed(o) /\ Kind[own[o]] = "MARKET" =>
            why[o] \notin {"partial_fill", "abort_residue", "close_residue",
                          "cancelled_row", "not_recorded"}

\* No signal is in the market twice but for a named cause: retries, passes that
\* work from an old list, lost answers, crashes and cancels that come too late
\* do not open next to what is open unless one of the two was left to itself.
OnceInMarket ==
    \A o, p \in Order :
        /\ Placed(o) /\ own[o] = own[p] /\ o # p
        /\ InMarket(o) /\ InMarket(p)
        => why[o] # "none" \/ why[p] # "none"

\* Every way an execution can end, exceptions of the reconcile pass it starts
\* with included, settles its row: one is left in `received`, where neither a
\* retry nor a pass looks at it, only by a crash.
ReceivedIsExecuting ==
    \A s \in Signal : row[s] = "received" => s = cur \/ crashes > 0

\* An open becomes traded only when all that its order had executed when it
\* was last read is covered by a working stop loss or closed again.
ProtectedBeforeTraded ==
    [][\A s \in Signal :
        /\ Action[s] # "close"
        /\ row[s] # "traded"
        /\ row'[s] = "traded"
        => /\ own[ord'[s]] = s
           /\ lot[ord'[s]] + att.qty <= sl[ord'[s]] + filled[ord'[s]]]_vars

\* Every step of the execution is a step of the promised life of a signal:
\* one signal executes at a time, whatever it met on its way it ends in the
\* row it started, and no pass, cancel, retry or crash touches a signal that
\* traded, not even a pass that works from a list read before the trade.
Lifecycle == INSTANCE SignalLifecycle WITH status <- row, running <- cur
KeepsLifecycle == Lifecycle!Spec

\* A pending entry of an open does not stay pending: it is promoted, aborted,
\* found gone or cancelled by the TTL.  No pass lists the entry of a rolling,
\* which stays pending until its peer or the endpoint cancels it or its row is
\* deleted.
PendingResolved ==
    \A s \in Signal :
        Action[s] = "open" => (row[s] = "submitted" ~> row[s] # "submitted")
=============================================================================
