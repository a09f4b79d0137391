---------------------------- MODULE BinanceClient ----------------------------
(***************************************************************************)
(* The access to the exchange: BinanceClient.request with its attempts,    *)
(* timestamps and clock synchronisation (binance/client.py, time_sync.py), *)
(* the breaker that pauses opens after repeated auth failures (trader.py)  *)
(* and the cached position mode of the account (binance/account.py), under *)
(* the requests of the service that use them.                              *)
(*                                                                         *)
(* Every user of the client is an `async def` handler or the loop of       *)
(* main.py, on one thread and without an await, so calls come one at a     *)
(* time.  SignalExecution takes such a call as one step with the outcomes  *)
(* RestCall allows.                                                        *)
(***************************************************************************)
EXTENDS Naturals, Sequences

CONSTANTS
    MaxRetries,     \* MAX_RETRIES
    Backoff,        \* the pause before the attempt after n, in BACKOFF_BASE_SEC
    Window,         \* recvWindow, in the same unit
    Delay,          \* how long an attempt can take before its answer is judged
    Threshold,      \* _SYNC_AUTH_FAIL_THRESHOLD
    DualSide,       \* the account is in hedge mode
    MaxFaults,      \* bound on attempts and syncs that fail
    MaxEvents       \* bound on key changes and clock drifts

ASSUME ClientAssumption ==
    /\ MaxRetries \in Nat \ {0}
    /\ Backoff \in [0 .. MaxRetries -> Nat]
    /\ Window \in Nat
    /\ Delay \subseteq Nat
    /\ Threshold \in Nat \ {0}
    /\ DualSide \in BOOLEAN
    /\ MaxFaults \in Nat
    /\ MaxEvents \in Nat

VARIABLES
    \* the request of the service that runs
    plan,       \* its calls still to come, the running one first
    who,        \* "none", "open", "close", "status" or "pass"
    told,       \* execution_paused as the status handler read it
    \* the running call
    pc,         \* "idle", "next", "stamp", "send", "reply"
    attempt,
    age,        \* time since the timestamp was taken, up to Window + 1
    reply,      \* what came back on the last attempt
    outcome,    \* how the last call ended
    executed,   \* history: how often the exchange executed the call
    lossy,      \* history: an attempt of the call ended without an answer
    unsynced,   \* history: a synchronisation for the call failed
    \* time_sync.py
    synced,     \* the offset is right
    due,        \* should_resync()
    \* the breaker of trader.py
    fails,      \* only compared with Threshold, so it stops there
    paused,
    tripped,    \* history: the call whose failure paused execution
    \* _hedge_mode_cache
    hedge,
    \* the account and the network
    keys,       \* the API key is valid for this address
    pending,    \* a submitted row waits for its entry order
    faults,
    events

service == <<plan, who, told>>
call == <<attempt, age, reply, outcome, executed, lossy, unsynced>>
clock == <<synced, due>>
breaker == <<fails, paused, tripped>>
account == <<keys, pending, events>>
vars == <<service, pc, call, clock, breaker, hedge, account, faults>>

\* row: the order of a pending row; read: the position or the account; setup:
\* margin type and leverage; probe: the position mode; public: an unsigned
\* call; sweep: a cancel whose failure is ignored; order: an order is posted.
Call == {"row", "read", "setup", "probe", "public", "sweep", "order"}
\* gate: is_execution_paused(); sync: _sync_time_before_close().
Step == Call \cup {"gate", "sync"}
Reply == {"none", "ok", "refused", "auth", "stale", "busy", "lost"}
Outcome == {"none", "running", "ok", "refused", "auth", "stale", "failed"}
Mode == {"unknown", "oneway", "dual"}

Kind == Head(plan)
Signed == Kind # "public"

TypeOK ==
    /\ plan \in Seq(Step)
    /\ who \in {"none", "open", "close", "status", "pass"}
    /\ told \in BOOLEAN
    /\ pc \in {"idle", "next", "stamp", "send", "reply"}
    /\ attempt \in 0 .. MaxRetries
    /\ age \in 0 .. Window + 1
    /\ reply \in Reply
    /\ outcome \in Outcome
    /\ executed \in 0 .. MaxRetries + 1
    /\ lossy \in BOOLEAN
    /\ unsynced \in BOOLEAN
    /\ synced \in BOOLEAN
    /\ due \in BOOLEAN
    /\ fails \in 0 .. Threshold
    /\ paused \in BOOLEAN
    /\ tripped \in Call \cup {"none"}
    /\ hedge \in Mode
    /\ keys \in BOOLEAN
    /\ pending \in BOOLEAN
    /\ faults \in Nat
    /\ events \in Nat

\* A process that has just started: nothing synchronised, nothing cached.
Init ==
    /\ plan = <<>>
    /\ who = "none"
    /\ told = FALSE
    /\ pc = "idle"
    /\ attempt = 0
    /\ age = 0
    /\ reply = "none"
    /\ outcome = "none"
    /\ executed = 0
    /\ lossy = FALSE
    /\ unsynced = FALSE
    /\ synced \in BOOLEAN
    /\ due = TRUE
    /\ fails = 0
    /\ paused = FALSE
    /\ tripped = "none"
    /\ hedge = "unknown"
    /\ keys \in BOOLEAN
    /\ pending \in BOOLEAN
    /\ faults = 0
    /\ events = 0

AtMost(n, bound) == IF n < bound THEN n ELSE bound

Fine == UNCHANGED faults
Faulty ==
    /\ faults < MaxFaults
    /\ faults' = faults + 1

-----------------------------------------------------------------------------
(* The requests that lead to calls, as the sequence of their calls.          *)

\* Every execution starts with a pass over the pending rows.
Rows == IF pending THEN <<"row">> ELSE <<>>

Request(name, steps) ==
    /\ pc = "idle"
    /\ who' = name
    /\ plan' = steps
    /\ pc' = "next"
    /\ UNCHANGED <<call, clock, breaker, hedge, account, faults>>

\* execute_trade_with_status, up to the order it posts.
OpenSignal ==
    /\ Request("open", Rows \o <<"gate", "public", "setup", "setup", "probe", "public",
                               "order">>)
    /\ UNCHANGED told

\* _close_live_position, on a flat account or not; the sweeps are the calls of
\* cancel_all_orders.
CloseSignal ==
    /\ \/ Request("close", Rows \o <<"read", "sweep", "sweep">>)
       \/ Request("close", Rows \o <<"read", "probe", "public", "sweep", "sweep", "sync",
                                    "order">>)
    /\ UNCHANGED told

\* get_status reads the pause before it asks for the positions.
StatusRequest ==
    /\ Request("status", <<"read">>)
    /\ told' = paused

\* The 60 s loop: it reads the order of a pending row and, when that is
\* filled, protects it (finalize_filled_entry).
ReconcileTick ==
    /\ pending
    /\ \/ Request("pass", <<"row">>)
       \/ Request("pass", <<"row", "public", "probe", "order">>)
    /\ UNCHANGED told

\* No step left, or a step that calls nothing.
RequestDone ==
    /\ pc = "next"
    /\ plan = <<>>
    /\ pc' = "idle"
    /\ who' = "none"
    /\ told' = FALSE
    /\ UNCHANGED <<plan, call, clock, breaker, hedge, account, faults>>

\* Mutant: the gate is left out.
GateOpen ==
    /\ pc = "next"
    /\ plan # <<>> /\ Kind = "gate"
    /\ plan' = Tail(plan)
    /\ UNCHANGED <<who, told, pc, call, clock, breaker, hedge, account, faults>>

\* is_execution_paused() refuses an open, and is not asked again.
Gate ==
    /\ pc = "next"
    /\ plan # <<>> /\ Kind = "gate"
    /\ plan' = IF paused THEN <<>> ELSE Tail(plan)
    /\ UNCHANGED <<who, told, pc, call, clock, breaker, hedge, account, faults>>

\* do_sync: a failure is swallowed and leaves the old offset.
Sync ==
    \/ synced' = TRUE /\ due' = FALSE /\ Fine /\ UNCHANGED unsynced
    \/ UNCHANGED clock /\ Faulty /\ unsynced' = TRUE

SyncBeforeClose ==
    /\ pc = "next"
    /\ plan # <<>> /\ Kind = "sync"
    /\ Sync
    /\ plan' = Tail(plan)
    /\ UNCHANGED <<who, told, pc, attempt, age, reply, outcome, executed, lossy,
                   breaker, hedge, account>>

\* detect_hedge_mode answers from its cache.
ProbeCached ==
    /\ pc = "next"
    /\ plan # <<>> /\ Kind = "probe"
    /\ hedge # "unknown"
    /\ plan' = Tail(plan)
    /\ UNCHANGED <<who, told, pc, call, clock, breaker, hedge, account, faults>>

-----------------------------------------------------------------------------
(* BinanceClient.request *)

BeginCall ==
    /\ pc = "next"
    /\ plan # <<>> /\ Kind \in Call
    /\ Kind = "probe" => hedge = "unknown"
    /\ pc' = IF Signed THEN "stamp" ELSE "send"
    /\ attempt' = 0
    /\ age' = 0
    /\ reply' = "none"
    /\ outcome' = "running"
    /\ executed' = 0
    /\ lossy' = FALSE
    /\ unsynced' = FALSE
    /\ UNCHANGED <<service, clock, breaker, hedge, account, faults>>

\* _ts(): a synchronisation when it is due, then the timestamp.
Stamp ==
    /\ pc = "stamp"
    /\ IF due THEN Sync ELSE UNCHANGED <<clock, faults, unsynced>>
    /\ pc' = "send"
    /\ UNCHANGED <<service, attempt, age, reply, outcome, executed, lossy, breaker,
                   hedge, account>>

\* The exchange looks at the key and the timestamp first, then at the side an
\* order names.
Authentic == Signed => keys
Fresh == Signed => synced /\ age <= Window
RightSide == Kind = "order" => (hedge = "dual") = DualSide
Executable == Authentic /\ Fresh /\ RightSide

\* The exchange answers.  A refusal of a read is a fault of the account.
Answered ==
    /\ \/ reply' = "auth" /\ Signed /\ ~keys /\ UNCHANGED executed
       \/ reply' = "stale" /\ Signed /\ keys /\ ~Fresh /\ UNCHANGED executed
       \/ reply' = "refused" /\ Authentic /\ Fresh /\ UNCHANGED executed
       \/ reply' = "ok" /\ Executable /\ executed' = executed + 1
    /\ UNCHANGED lossy
    /\ IF reply' = "refused" /\ Kind \in {"row", "read", "probe"} THEN Faulty ELSE Fine

\* An answer 429, 418, 5xx, -1003 or -1004 (busy) and a transport error (lost)
\* leave open whether the request was executed.
Unanswered ==
    /\ reply' \in {"busy", "lost"}
    /\ executed' \in IF Executable THEN {executed, executed + 1} ELSE {executed}
    /\ lossy' = TRUE
    /\ Faulty

\* One attempt.
Send ==
    /\ pc = "send"
    /\ Answered \/ Unanswered
    /\ \E d \in Delay : age' = AtMost(age + d, Window + 1)
    /\ pc' = "reply"
    /\ UNCHANGED <<service, attempt, outcome, unsynced, clock, breaker, hedge, account>>

\* Mutant: one attempt too many.
ResendOnceMore ==
    /\ reply = "busy"
    /\ attempt <= MaxRetries
    /\ age' = age
    /\ attempt' = attempt + 1
    /\ pc' = "send"
    /\ UNCHANGED <<service, reply, outcome, executed, lossy, unsynced, clock,
                   breaker, hedge, account, faults>>

\* The same bytes are sent again after a pause, timestamp included.
Resend ==
    /\ reply = "busy"
    /\ attempt < MaxRetries
    /\ age' = AtMost(age + Backoff[attempt], Window + 1)
    /\ attempt' = attempt + 1
    /\ pc' = "send"
    /\ UNCHANGED <<service, reply, outcome, executed, lossy, unsynced, clock,
                   breaker, hedge, account, faults>>

\* Mutant: the timestamp is renewed with the old offset.
ResignUnsynced ==
    /\ reply \in {"stale", "lost"}
    /\ attempt < MaxRetries
    /\ age' = IF Signed THEN 0 ELSE age
    /\ attempt' = attempt + 1
    /\ pc' = "send"
    /\ UNCHANGED <<service, reply, outcome, executed, lossy, unsynced, clock,
                   breaker, hedge, account, faults>>

\* _refresh_signed after -1021 or a transport error: synchronise, stamp and
\* sign again (stamping repeats a synchronisation that failed, which has the
\* same two outcomes); an unsigned call goes out as it was.
Resign ==
    /\ reply \in {"stale", "lost"}
    /\ attempt < MaxRetries
    /\ IF Signed THEN age' = 0 /\ Sync
       ELSE UNCHANGED <<age, clock, faults, unsynced>>
    /\ attempt' = attempt + 1
    /\ pc' = "send"
    /\ UNCHANGED <<service, reply, outcome, executed, lossy, breaker, hedge, account>>

\* A row that cannot be read is left for the next pass, what follows in this
\* pass for its order included; an execution goes on with its own steps.
SkipRow == IF who = "pass" THEN <<>> ELSE Tail(plan)

\* The steps left when the call ends: set_margin_type and set_leverage pass
\* over some refusals, cancels and the probe over every failure.
Rest(result) ==
    IF result = "ok" \/ Kind \in {"sweep", "probe"} THEN {Tail(plan)}
    ELSE IF Kind = "row" THEN {SkipRow}
    ELSE IF Kind = "setup" /\ result = "refused" THEN {Tail(plan), <<>>}
    ELSE {<<>>}

\* detect_hedge_mode caches what it was told, and one-way on any failure.
CacheMode(result) ==
    hedge' = IF Kind # "probe" THEN hedge
             ELSE IF result = "ok" /\ DualSide THEN "dual" ELSE "oneway"

\* An accepted order of an open may stay pending; a pass that got as far as
\* the stop loss settles its row.
PendingAfter(result) ==
    IF Kind # "order" THEN {pending}
    ELSE IF who = "pass" THEN {FALSE}
    ELSE IF who = "open" /\ result = "ok" THEN BOOLEAN
    ELSE {pending}

CallEnds(result) ==
    /\ outcome' = result
    /\ plan' \in Rest(result)
    /\ pending' \in PendingAfter(result)
    /\ CacheMode(result)
    /\ pc' = "next"
    /\ UNCHANGED <<who, told, attempt, age, reply, executed, lossy, unsynced, clock,
                   keys, events, faults>>

\* Mutant: a success resets the count and forgets the pause.
ResetCount ==
    /\ fails' = 0
    /\ UNCHANGED <<paused, tripped>>

\* notify_binance_auth_success
ResetBreaker ==
    /\ fails' = 0
    /\ paused' = FALSE
    /\ tripped' = "none"

Succeed ==
    /\ reply = "ok"
    /\ IF Signed THEN ResetBreaker ELSE UNCHANGED breaker
    /\ CallEnds("ok")

\* notify_binance_auth_fail: 401 or 403 on a signed call.
AuthFails ==
    /\ reply = "auth"
    /\ fails' = AtMost(fails + 1, Threshold)
    /\ paused' = (paused \/ fails + 1 >= Threshold)
    /\ tripped' = IF fails + 1 >= Threshold THEN Kind ELSE tripped
    /\ CallEnds("auth")

\* Mutant: the loop is left without an error.
FailsSilently ==
    /\ \/ reply = "refused" /\ CallEnds("refused")
       \/ reply = "stale" /\ attempt = MaxRetries /\ CallEnds("stale")
       \/ reply \in {"busy", "lost"} /\ attempt = MaxRetries /\ CallEnds("ok")
    /\ UNCHANGED breaker

\* Any other answer 4xx, or the last attempt without a usable answer.
Fails ==
    /\ \/ reply = "refused" /\ CallEnds("refused")
       \/ reply = "stale" /\ attempt = MaxRetries /\ CallEnds("stale")
       \/ reply \in {"busy", "lost"} /\ attempt = MaxRetries /\ CallEnds("failed")
    /\ UNCHANGED breaker

Receive == pc = "reply" /\ (Resend \/ Resign \/ Succeed \/ AuthFails \/ Fails)

-----------------------------------------------------------------------------
(* The account and the clock. *)

\* The key is revoked, restored, or bound to another address, at any time: in
\* the middle of a request, of a call and of its attempts.
KeysChange ==
    /\ events < MaxEvents
    /\ events' = events + 1
    /\ keys' = ~keys
    /\ UNCHANGED <<service, pc, call, clock, breaker, hedge, pending, faults>>

\* SERVER_TIME_RESYNC_SEC pass; the local clock may be set, or drift out of
\* the window, between two calls.
TimePasses ==
    /\ pc \in {"idle", "next"}
    /\ events < MaxEvents
    /\ events' = events + 1
    /\ synced' \in {synced, FALSE}
    /\ due' \in {due, TRUE}
    /\ UNCHANGED <<service, pc, call, breaker, hedge, keys, pending, faults>>

-----------------------------------------------------------------------------
Handler ==
    \/ RequestDone \/ Gate \/ SyncBeforeClose \/ ProbeCached
    \/ BeginCall \/ Stamp \/ Send \/ Receive

Next ==
    \/ OpenSignal \/ CloseSignal \/ StatusRequest \/ ReconcileTick
    \/ Handler
    \/ KeysChange \/ TimePasses

Spec == Init /\ [][Next]_vars

\* A handler runs to its end; the timer of the 60 s loop is served between
\* handlers however many requests come in.
FairSpec ==
    /\ Spec
    /\ WF_vars(Handler)
    /\ SF_vars(ReconcileTick)

-----------------------------------------------------------------------------
(* Properties. *)

\* What SignalExecution relies on: a success is real, a failure hides an
\* execution only when an answer was lost on the way, and no request is
\* executed more often than it is sent.
Failed == {"refused", "auth", "stale", "failed"}
Contract == INSTANCE RestCall WITH
            Limit <- MaxRetries + 1,
            outcome <- IF outcome \in Failed THEN "error" ELSE outcome
KeepsRestCall == Contract!Spec

\* A call fails for its timestamp only when a synchronisation failed, or when
\* attempts without an answer used up the retries: the answer -1021 renews the
\* timestamp, and a resend with the old one is never the last word.
StaleHasCause == outcome = "stale" => unsynced \/ lossy

\* An open that has passed the gate posts its order although execution is
\* paused only if its own probe of the position mode was the failure that
\* paused it.
BreakerHolds ==
    who = "open" /\ pc = "send" /\ Kind = "order" /\ paused => tripped = "probe"

\* While the key is valid and an entry is pending, the passes lift the pause.
PauseLifts == <>[](keys /\ pending) => []<>~paused
=============================================================================
