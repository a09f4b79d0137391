------------------------------ MODULE Exchange ------------------------------
(***************************************************************************)
(* The futures account as the protocol sees it through binance/orders.py   *)
(* and binance/account.py: the entry orders of one symbol, the quantity    *)
(* each has filled, the part of that quantity still open as a position     *)
(* (the order's lot) and the quantity of working stop loss that covers the *)
(* lot.  The exchange itself is outside the repository; its behaviour is   *)
(* what the code relies on.  The operators below are the effects the REST  *)
(* calls of binance/orders.py have on it and what they report back.        *)
(*                                                                         *)
(* Quantities are in units of 1/Full of an entry, so that Full = 2 is the  *)
(* smallest value with a partial fill.  Take-profit orders are not kept:   *)
(* a lot is safe exactly when its stop loss is working.                    *)
(***************************************************************************)
EXTENDS Naturals

CONSTANTS
    Signal,     \* (source, api_signal_id) keys of the signals for one symbol
    NoSignal,
    Order,      \* identifiers the exchange can give to entry orders
    NoOrder,
    Full,       \* the quantity of one entry
    Kind,       \* Kind[s]: normalised entry_type of signal s
    Side        \* Side[s]: LONG or SHORT

EntryKind == {"MARKET", "LIMIT", "STOP_LIMIT"}

ASSUME ExchangeAssumption ==
    /\ NoSignal \notin Signal
    /\ NoOrder \notin Order
    /\ Full \in Nat \ {0}
    /\ Kind \in [Signal -> EntryKind]
    /\ Side \in [Signal -> {"LONG", "SHORT"}]

VARIABLES
    own,        \* own[o]: the signal whose execution placed o
    live,       \* live[o]: o is working on the book or waiting for its trigger
    filled,     \* filled[o]: executed quantity of o
    lot,        \* lot[o]: part of filled[o] still open as a position
    sl          \* sl[o]: quantity of working stop loss covering lot[o]

exchange == <<own, live, filled, lot, sl>>

Qty == 0 .. Full

ExchangeTypeOK ==
    /\ own \in [Order -> Signal \cup {NoSignal}]
    /\ live \in [Order -> BOOLEAN]
    /\ filled \in [Order -> Qty]
    /\ lot \in [Order -> Qty]
    /\ sl \in [Order -> Qty]
    /\ \A o \in Order : lot[o] <= filled[o]

ExchangeInit ==
    /\ own = [o \in Order |-> NoSignal]
    /\ live = [o \in Order |-> FALSE]
    /\ filled = [o \in Order |-> 0]
    /\ lot = [o \in Order |-> 0]
    /\ sl = [o \in Order |-> 0]

Placed(o) == own[o] # NoSignal
Fresh == {o \in Order : ~Placed(o)}
Naked(o) == lot[o] > sl[o]
AtMost(q, bound) == IF q < bound THEN q ELSE bound
Minus(q, r) == IF q < r THEN 0 ELSE q - r

-----------------------------------------------------------------------------
(* What the calls of binance/orders.py report and change. *)

\* Status of the entry order of s as reconcile reads it: an algo order goes
\* through normalize_algo_entry_order, which calls any executed quantity
\* FILLED and every ended order CANCELED.
AlgoStatus(o) ==
    CASE filled[o] > 0 -> "FILLED"
      [] filled[o] = 0 /\ ~live[o] -> "CANCELED"
      [] OTHER -> "NEW"

OrderStatus(o) ==
    CASE filled[o] = Full -> "FILLED"
      [] filled[o] < Full /\ ~live[o] -> "CANCELED"
      [] filled[o] = 0 /\ live[o] -> "NEW"
      [] OTHER -> "PARTIALLY_FILLED"

EntryStatus(s, o) ==
    IF Kind[s] = "STOP_LIMIT" THEN AlgoStatus(o) ELSE OrderStatus(o)

\* The exchange books new orders for s, each executed for q and working when
\* more is to come.
Book(s, new, q, working) ==
    /\ own' = [o \in Order |-> IF o \in new THEN s ELSE own[o]]
    /\ filled' = [o \in Order |-> IF o \in new THEN q ELSE filled[o]]
    /\ lot' = [o \in Order |-> IF o \in new THEN q ELSE lot[o]]
    /\ live' = [o \in Order |-> IF o \in new THEN working ELSE live[o]]
    /\ UNCHANGED sl

\* cancel_algo_order, cancel_order_by_id: a working order is taken off; one
\* that is filled or gone answers 4xx, which both functions report as success.
TakeOff(o) ==
    /\ live' = [live EXCEPT ![o] = FALSE]
    /\ UNCHANGED <<own, filled, lot, sl>>

\* cancel_all_orders: the regular orders in one call, then the algo list one
\* order at a time, the stop entries and the stop losses.  A failed call is
\* logged and leaves its orders working.
SweepOrders(regular, entries, stops) ==
    /\ live' = [o \in Order |->
                  /\ live[o]
                  /\ IF Kind[own[o]] = "STOP_LIMIT" THEN o \notin entries ELSE ~regular]
    /\ sl' = [o \in Order |-> IF o \in stops THEN 0 ELSE sl[o]]
    /\ UNCHANGED <<own, filled, lot>>

\* Mutant: the quantity is rounded down by a step too much.
AddStopShort(o, q) ==
    /\ sl' = [sl EXCEPT ![o] = AtMost(sl[o] + Minus(q, 1), Full)]
    /\ UNCHANGED <<own, live, filled, lot>>

\* A reduce-only stop for q more units of o is accepted.
AddStop(o, q) ==
    /\ sl' = [sl EXCEPT ![o] = AtMost(sl[o] + q, Full)]
    /\ UNCHANGED <<own, live, filled, lot>>

\* MARKET orders that close part of every lot: cut[o] of the lot of o.
Reduce(cut) ==
    /\ lot' = [o \in Order |-> Minus(lot[o], cut[o])]
    /\ UNCHANGED <<own, live, filled, sl>>

-----------------------------------------------------------------------------
(* What the market does at any moment, between any two calls. *)

\* A working entry order executes q more units.
Fill(o) ==
    \E q \in 1 .. (Full - filled[o]) :
        /\ live[o]
        /\ filled' = [filled EXCEPT ![o] = @ + q]
        /\ lot' = [lot EXCEPT ![o] = @ + q]
        /\ live' = [live EXCEPT ![o] = filled[o] + q < Full]
        /\ UNCHANGED <<own, sl>>

\* The stop loss of o triggers and closes what it covers.
StopOut(o) ==
    /\ lot[o] > 0
    /\ sl[o] > 0
    /\ lot' = [lot EXCEPT ![o] = Minus(@, sl[o])]
    /\ sl' = [sl EXCEPT ![o] = 0]
    /\ UNCHANGED <<own, live, filled>>

\* The exchange expires or rejects a working entry order.
Expire(o) ==
    /\ live[o]
    /\ TakeOff(o)

Market == \E o \in Order : Fill(o) \/ StopOut(o) \/ Expire(o)
=============================================================================
