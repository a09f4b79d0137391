------------------------------ MODULE PolyCopy ------------------------------
(***************************************************************************)
(* The Polymarket paper copy: the book of utils/poly_paper_copy.py and the *)
(* supervisor that feeds it (utils/poly_copy_supervisor.py).  A leader's   *)
(* fill reaches the book twice, from the websocket, which may lose it, and *)
(* from the poll, which reads the newest fills again and again; the list   *)
(* `seen` of the book is there to take it once.                            *)
(*                                                                         *)
(* Functions of poly_paper_copy.py hold _lock from load_paper to           *)
(* save_paper, so each is one action.  What interleaves are the websocket  *)
(* task, the poll task, requests in the thread pool, the steps of a sync   *)
(* or a poll that fetch outside the lock, and the death of the process.    *)
(*                                                                         *)
(* A fill stands for its dedupe key.  Amounts are left out: whether a fill *)
(* is copied or skipped for want of cash, position, size or price is open. *)
(***************************************************************************)
EXTENDS Naturals, Sequences, FiniteSets

CONSTANTS
    Wallet,         \* leaders
    Rich,           \* leaders that hold other positions throughout
    Bot,            \* seats of the watchlist
    Addr,           \* Addr[b]: the leader seat b follows
    Coalescing,     \* seats with coalesce_sec > 0
    Fill,           \* the leaders' fills
    Of,             \* Of[f]: who made f
    Asset,          \* Asset[f]: the outcome token
    Buys,           \* fills on the BUY side; each moves one unit
    Undated,        \* fills reported without a timestamp that can be read
    Keep,           \* length of seen_trades (5000)
    Limit,          \* fills a poll reads for a leader (50)
    MaxTime,        \* bound on the clock
    MaxFaults,      \* bound on failing fetches and saves
    MaxCrashes,     \* bound on restarts
    MaxRequests     \* bound on resets and syncs

ASSUME PolyAssumption ==
    /\ Rich \subseteq Wallet
    /\ Addr \in [Bot -> Wallet]
    /\ Coalescing \subseteq Bot
    /\ IsFiniteSet(Fill)
    /\ Of \in [Fill -> Wallet]
    /\ Buys \subseteq Fill
    /\ Undated \subseteq Fill
    /\ Keep \in Nat \ {0}
    /\ Limit \in Nat \ {0}
    /\ MaxTime \in Nat
    /\ MaxFaults \in Nat
    /\ MaxCrashes \in Nat
    /\ MaxRequests \in Nat

VARIABLES
    \* Polymarket
    now,        \* the clock, in seconds
    at,         \* at[f]: when f was made, 0 before
    place,      \* place[f]: its place in the order of all fills
    ws,         \* websocket messages under way, in order
    \* the book on disk
    seats,      \* ids in bots
    base,       \* base[b]: baseline_ts
    valued,     \* seats with leader_equity > 0
    seen,       \* seen_trades, oldest first
    copies,     \* copies[b][f]: how often f went into the position of b
    \* the process
    thread,     \* of the supervisor: "starting", "up", or "ended"
    slice,      \* slice[b]: fills in the open coalesce slice of b
    quiet,      \* seats whose slice was not touched for coalesce_sec
    polling,    \* a poll cycle runs
    due,        \* seats it has still to read
    rows,       \* fills it has read and has still to handle
    syncing,    \* seats with a sync between its fetch and its write
    mirror,     \* mirror[b]: the leader's fills in the positions fetched
    \* history
    settled,    \* settled[b]: fills copied or skipped for good since the reset
    mirrored,   \* mirrored[b]: fills in the positions of the last sync
    evicted,    \* fills dropped from seen
    faults, crashes, requests

market == <<now, at, place, ws>>
seat == <<seats, base, valued>>
effect == <<copies, settled, mirrored>>
dedupe == <<seen, evicted>>
book == <<seat, effect, dedupe>>
buffers == <<slice, quiet>>
poll == <<thread, polling, due, rows>>
sync == <<syncing, mirror>>
counts == <<crashes, requests>>
bounds == <<faults, counts>>
vars == <<market, book, buffers, poll, sync, bounds>>

Many == 2       \* copies[b][f] counts to "more than once"
Elements(q) == {q[i] : i \in DOMAIN q}
Seen == Elements(seen)
None == [f \in Fill |-> 0]

TypeOK ==
    /\ now \in 1 .. MaxTime + 1
    /\ at \in [Fill -> Nat]
    /\ place \in [Fill -> Nat]
    /\ ws \in Seq(Fill)
    /\ seats \subseteq Bot
    /\ base \in [Bot -> Nat]
    /\ valued \subseteq seats
    /\ seen \in Seq(Fill)
    /\ Len(seen) <= Keep
    /\ \A i, j \in DOMAIN seen : seen[i] = seen[j] => i = j
    /\ copies \in [Bot -> [Fill -> 0 .. Many]]
    /\ slice \in [Bot -> Seq(Fill)]
    /\ quiet \subseteq Bot
    /\ thread \in {"starting", "up", "ended"}
    /\ polling \in BOOLEAN
    /\ due \subseteq Bot
    /\ rows \subseteq Fill
    /\ syncing \subseteq Bot
    /\ mirror \in [Bot -> SUBSET Fill]
    /\ settled \in [Bot -> SUBSET Fill]
    /\ mirrored \in [Bot -> SUBSET Fill]
    /\ evicted \subseteq Fill
    /\ faults \in Nat
    /\ crashes \in Nat
    /\ requests \in Nat

Init ==
    /\ now = 1
    /\ at = None
    /\ place = None
    /\ ws = <<>>
    /\ seats = Bot
    /\ base = [b \in Bot |-> now]
    /\ valued = {}
    /\ seen = <<>>
    /\ copies = [b \in Bot |-> None]
    /\ slice = [b \in Bot |-> <<>>]
    /\ quiet = {}
    /\ thread = "starting"
    /\ polling = FALSE
    /\ due = {}
    /\ rows = {}
    /\ syncing = {}
    /\ mirror = [b \in Bot |-> {}]
    /\ settled = [b \in Bot |-> {}]
    /\ mirrored = [b \in Bot |-> {}]
    /\ evicted = {}
    /\ faults = 0
    /\ crashes = 0
    /\ requests = 0

Fine == UNCHANGED faults
Faulty == faults < MaxFaults /\ faults' = faults + 1
Requested ==
    requests < MaxRequests /\ requests' = requests + 1 /\ UNCHANGED crashes

-----------------------------------------------------------------------------
(* The leaders. *)

Tick ==
    /\ now <= MaxTime
    /\ now' = now + 1
    /\ UNCHANGED <<at, place, ws, book, buffers, poll, sync, bounds>>

Made(w) == {f \in Fill : at[f] > 0 /\ Of[f] = w}

\* Units that the fills of a set leave open.
Open(fills) == Cardinality(fills \cap Buys) > Cardinality(fills \ Buys)

\* The websocket of a supervisor that runs gets a message.
Trade(f) ==
    /\ at[f] = 0
    /\ f \notin Buys => Open({g \in Made(Of[f]) : Asset[g] = Asset[f]})
    /\ at' = [at EXCEPT ![f] = now]
    /\ place' = [place EXCEPT ![f] = 1 + Cardinality({g \in Fill : at[g] > 0})]
    /\ ws' = IF thread = "up" THEN Append(ws, f) ELSE ws
    /\ UNCHANGED <<now, book, buffers, poll, sync, bounds>>

\* fetch_portfolio_value: the worth of the open positions, cash not counted.
HasValue(w, fills) == w \in Rich \/ Open(fills)

-----------------------------------------------------------------------------
(* Taking fills into the book. *)

\* _mark_seen for each fill of a set: appended unless present, the oldest
\* dropped.  The order within the set is left open.
Orders(fills) ==
    {q \in [1 .. Cardinality(fills) -> fills] :
        \A f \in fills : \E i \in DOMAIN q :
            \A j \in DOMAIN q : q[j] = f <=> j = i}

\* Mutant: nothing is ever dropped.
RememberAll(fills) ==
    /\ \E fresh \in Orders(fills \ Seen) : seen' = seen \o fresh
    /\ UNCHANGED evicted

Remember(fills) ==
    \E fresh \in Orders(fills \ Seen) :
        LET all == seen \o fresh
            excess == IF Len(all) > Keep THEN Len(all) - Keep ELSE 0
        IN  /\ seen' = SubSeq(all, excess + 1, Len(all))
            /\ evicted' = evicted \cup Elements(SubSeq(all, 1, excess))

\* The seat has shares to sell only if it took a purchase of the token.
Holds(b, asset) == \E g \in Buys : Asset[g] = asset /\ copies[b][g] > 0

\* A fill without a timestamp is never taken for an old one.
BeforeBaseline(b, f) == f \notin Undated /\ at[f] <= base[b]

\* Mutant: a fill of the second of the baseline counts as new.
VerdictsFromBaseline(b, fills) ==
    IF fills = <<>> THEN {"none"}
    ELSE IF Head(fills) \notin Undated /\ at[Head(fills)] < base[b] THEN {"skipped"}
    ELSE IF b \notin valued THEN {"retry"}
    ELSE IF Head(fills) \in Buys \/ Holds(b, Asset[Head(fills)])
         THEN {"copied", "skipped"}
    ELSE {"skipped"}

\* Mutant: a sale is copied whether or not the seat has the token.
VerdictsShort(b, fills) ==
    IF fills = <<>> THEN {"none"}
    ELSE IF BeforeBaseline(b, Head(fills)) THEN {"skipped"}
    ELSE IF b \notin valued THEN {"retry"}
    ELSE {"copied", "skipped"}

\* _apply_to_bot on one fill or on the merged fills of a slice, which are
\* judged by the time of the first.
Verdicts(b, fills) ==
    IF fills = <<>> THEN {"none"}
    ELSE IF BeforeBaseline(b, Head(fills)) THEN {"skipped"}
    ELSE IF b \notin valued THEN {"retry"}
    ELSE IF Head(fills) \in Buys \/ Holds(b, Asset[Head(fills)])
         THEN {"copied", "skipped"}
    ELSE {"skipped"}

Times(f, fills) == Cardinality({i \in DOMAIN fills : fills[i] = f})
UpToMany(n) == IF n < Many THEN n ELSE Many

Applied == {"copied", "skipped"}
Verdict == Applied \cup {"none", "retry"}

\* Mutant: a fill that was copied does not take it.
FinalSkips == {"skipped"}

\* The verdicts that consume the dedupe slot: all but _RETRIABLE_SKIP.
Final == Applied

\* attempt[b] is applied to seat b with verdict[b], then save_paper.  When
\* the write fails the book keeps its old contents.
Settle(attempt, verdict, saved) ==
    \/ /\ saved
       /\ Fine
       /\ copies' = [b \in Bot |-> [f \in Fill |->
                        IF verdict[b] = "copied"
                        THEN UpToMany(copies[b][f] + Times(f, attempt[b]))
                        ELSE copies[b][f]]]
       /\ settled' = [b \in Bot |->
                        IF verdict[b] \in Applied
                        THEN settled[b] \cup Elements(attempt[b])
                        ELSE settled[b]]
       /\ Remember(UNION {Elements(attempt[b]) :
                            b \in {c \in Bot : verdict[c] \in Final}})
       /\ UNCHANGED <<seat, mirrored>>
    \/ /\ ~saved
       /\ Faulty
       /\ UNCHANGED book

SliceKey(f) == <<Asset[f], f \in Buys>>

\* The buffer of b is for another key or has expired.
Closed(b, f) ==
    /\ slice[b] # <<>>
    /\ SliceKey(Head(slice[b])) # SliceKey(f) \/ b \in quiet

Matched(f) == {b \in seats : Addr[b] = Of[f]}

\* Mutant: the open slices are not searched.
KnownWhenSeen(f) == f \in Seen

Known(f) == f \in Seen \/ \E b \in Bot : f \in Elements(slice[b])

\* What each matching seat applies when f comes in.
Attempt(f) == [b \in Bot |->
    CASE b \notin Matched(f) -> <<>>
      [] b \in Matched(f) \ Coalescing -> <<f>>
      [] b \in Matched(f) \cap Coalescing /\ Closed(b, f) -> slice[b]
      [] OTHER -> <<>>]

\* A slice to be retried is put back by _flush_slice and then replaced if the
\* new fill is for another key.
Joins(b, f, verdict) ==
    /\ verdict[b] \notin Applied
    /\ slice[b] # <<>>
    /\ SliceKey(Head(slice[b])) = SliceKey(f)

Buffered(f, verdict) == [b \in Bot |->
    IF b \notin Matched(f) \cap Coalescing THEN slice[b]
    ELSE IF Joins(b, f, verdict) THEN Append(slice[b], f) ELSE <<f>>]

\* ingest_trade: what each matching seat applies now, and what it buffers.
Ingest(f, saved) ==
    \/ /\ Known(f) \/ Matched(f) = {}
       /\ saved
       /\ Fine
       /\ UNCHANGED <<book, buffers>>
    \/ /\ ~Known(f)
       /\ Matched(f) # {}
       /\ \E verdict \in [Bot -> Verdict] :
            /\ \A b \in Bot : verdict[b] \in Verdicts(b, Attempt(f)[b])
            /\ Settle(Attempt(f), verdict, saved)
            /\ slice' = Buffered(f, verdict)
       /\ quiet' = quiet \ Matched(f)

\* flush_coalesce_slices applies the slices of a set of seats; it saves when
\* there were any.
FlushAttempt(which) ==
    [b \in Bot |-> IF b \in which \cap seats THEN slice[b] ELSE <<>>]

FlushSettles(which, verdict, saved) ==
    /\ \A b \in Bot : verdict[b] \in Verdicts(b, FlushAttempt(which)[b])
    /\ saved \/ \E b \in which \cap seats : slice[b] # <<>>
    /\ Settle(FlushAttempt(which), verdict, saved)

\* Mutant: every open slice is taken for one that must wait.
NoneExpired(b) == FALSE

\* The slice of b is due for the flush at the end of a poll cycle.
Expired(b) == b \in quiet

FlushExpired(saved) ==
    \E verdict \in [Bot -> Verdict] :
        /\ FlushSettles({b \in Bot : Expired(b)}, verdict, saved)
        /\ slice' = [b \in Bot |->
                IF b \notin seats \/ verdict[b] \in Applied THEN <<>> ELSE slice[b]]
        /\ quiet' = {b \in quiet : slice'[b] # <<>>}

\* coalesce_sec pass without a fill for the slice of b.
GoQuiet(b) ==
    /\ slice[b] # <<>>
    /\ b \notin quiet
    /\ quiet' = quiet \cup {b}
    /\ UNCHANGED <<market, book, slice, poll, sync, bounds>>

-----------------------------------------------------------------------------
(* The supervisor: websocket task and poll task. *)

SeatsForAll ==
    /\ seats' = Bot
    /\ base' = [b \in Bot |-> IF b \in seats THEN base[b] ELSE now]

\* _async_main up to its tasks: it brings the seats and their baselines into
\* the book.  A save that fails ends the thread, and nothing starts another.
SupervisorStarts ==
    /\ thread = "starting"
    /\ \/ thread' = "up" /\ SeatsForAll /\ Fine
       \/ thread' = "ended" /\ UNCHANGED <<seats, base>> /\ Faulty
    /\ UNCHANGED <<market, valued, effect, dedupe, buffers, polling, due, rows, sync,
                   counts>>

WsDeliver ==
    /\ thread = "up"
    /\ ws # <<>>
    /\ ws' = Tail(ws)
    /\ \E saved \in BOOLEAN : Ingest(Head(ws), saved)
    /\ UNCHANGED <<now, at, place, poll, sync, counts>>

\* Not connected, or dropped with the connection.
WsLose ==
    /\ ws # <<>>
    /\ ws' = Tail(ws)
    /\ UNCHANGED <<now, at, place, book, buffers, poll, sync, bounds>>

\* refresh_leader_equity writes what it has fetched, if the seat is still
\* there; a failing fetch counts as worth 0.
Refresh(b) ==
    /\ b \in seats
    /\ HasValue(Addr[b], Made(Addr[b]))
    /\ valued' = valued \cup {b}
    /\ UNCHANGED <<market, seats, base, effect, dedupe, buffers, poll, sync, bounds>>

RefreshToNothing(b) ==
    /\ b \in valued
    /\ IF HasValue(Addr[b], Made(Addr[b])) THEN Faulty ELSE Fine
    /\ valued' = valued \ {b}
    /\ UNCHANGED <<market, seats, base, effect, dedupe, buffers, poll, sync, counts>>

PollStart ==
    /\ thread = "up"
    /\ ~polling
    /\ polling' = TRUE
    /\ due' = Bot
    /\ UNCHANGED <<market, book, buffers, thread, rows, sync, bounds>>

\* Mutant: the oldest fills after the baseline.
OldestFirst(b) ==
    LET cutoff == IF b \in seats THEN base[b] ELSE 0
        new == {f \in Made(Addr[b]) : at[f] > cutoff}
    IN  {f \in new : Cardinality({g \in new : place[g] < place[f]}) < Limit}

\* The newest fills of the leader after the baseline, if there is one.
Newest(b) ==
    LET cutoff == IF b \in seats THEN base[b] ELSE 0
        new == {f \in Made(Addr[b]) : at[f] > cutoff}
    IN  {f \in new : Cardinality({g \in new : place[g] > place[f]}) < Limit}

PollFetch(b) ==
    /\ polling
    /\ rows = {}
    /\ b \in due
    /\ rows' = Newest(b)
    /\ due' = due \ {b}
    /\ UNCHANGED <<market, book, buffers, thread, polling, sync, bounds>>

\* The exception ends the cycle: the other seats and the flush wait for the
\* next one.
EndCycle ==
    /\ polling' = FALSE
    /\ due' = {}
    /\ rows' = {}

PollFails ==
    /\ polling
    /\ rows = {}
    /\ due # {}
    /\ Faulty
    /\ EndCycle
    /\ UNCHANGED <<market, book, buffers, thread, sync, counts>>

\* Oldest first.
PollIngest ==
    /\ polling
    /\ \E f \in rows :
        /\ \A g \in rows : place[f] <= place[g]
        /\ \/ Ingest(f, TRUE) /\ rows' = rows \ {f} /\ UNCHANGED <<polling, due>>
           \/ Ingest(f, FALSE) /\ EndCycle
    /\ UNCHANGED <<market, thread, sync, counts>>

PollFlush ==
    /\ polling
    /\ rows = {}
    /\ due = {}
    /\ \E saved \in BOOLEAN : FlushExpired(saved)
    /\ EndCycle
    /\ UNCHANGED <<market, thread, sync, counts>>

-----------------------------------------------------------------------------
(* Requests, and what the supervisor does for the watchlist. *)

\* ensure_bots_from_watchlist: seats that are missing start flat, now.
EnsureBots ==
    /\ seats # Bot
    /\ SeatsForAll
    /\ UNCHANGED <<market, valued, effect, dedupe, buffers, poll, sync, bounds>>

DropSlices(which) ==
    /\ slice' = [b \in Bot |-> IF b \in which THEN <<>> ELSE slice[b]]
    /\ quiet' = quiet \ which

EmptySeat(b) ==
    /\ copies' = [copies EXCEPT ![b] = None]
    /\ settled' = [settled EXCEPT ![b] = {}]
    /\ mirrored' = [mirrored EXCEPT ![b] = {}]

\* Mutant: the baseline stays where it was.
ResetBotKeepsBaseline(b) ==
    /\ b \in seats
    /\ Requested
    /\ Fine
    /\ EmptySeat(b)
    /\ DropSlices({b})
    /\ UNCHANGED <<market, seat, dedupe, poll, sync>>

\* reset_paper_bot
ResetBot(b) ==
    /\ b \in seats
    /\ Requested
    /\ Fine
    /\ EmptySeat(b)
    /\ DropSlices({b})
    /\ base' = [base EXCEPT ![b] = now]
    /\ UNCHANGED <<market, seats, valued, dedupe, poll, sync>>

\* reset_paper up to the release of the lock; EnsureBots follows it.
ResetAll ==
    /\ Requested
    /\ Fine
    /\ seats' = {}
    /\ valued' = {}
    /\ seen' = <<>>
    /\ evicted' = {}
    /\ copies' = [b \in Bot |-> None]
    /\ settled' = [b \in Bot |-> {}]
    /\ mirrored' = [b \in Bot |-> {}]
    /\ DropSlices(Bot)
    /\ UNCHANGED <<market, base, poll, sync>>

\* Either reset, when the book cannot be saved: the slices are gone.
ResetUnsaved ==
    /\ Requested
    /\ Faulty
    /\ \E which \in {Bot} \cup {{b} : b \in seats} : DropSlices(which)
    /\ UNCHANGED <<market, book, poll, sync>>

\* sync_leader_positions: positions and value are fetched outside the lock.
SyncRead(b) ==
    /\ b \in seats \ syncing
    /\ Requested
    /\ Fine
    /\ syncing' = syncing \cup {b}
    /\ mirror' = [mirror EXCEPT ![b] = Made(Addr[b])]
    /\ UNCHANGED <<market, book, buffers, poll>>

SyncEnds(b) ==
    /\ b \in syncing
    /\ syncing' = syncing \ {b}
    /\ mirror' = [mirror EXCEPT ![b] = {}]

\* Mutant: positions that could not be fetched count as none.
SyncVoidFlat(b) ==
    /\ SyncEnds(b)
    /\ b \in seats
    /\ Faulty
    /\ copies' = [copies EXCEPT ![b] = None]
    /\ UNCHANGED <<market, seat, settled, mirrored, dedupe, buffers, poll, counts>>

\* The positions could not be fetched, or the seat is gone or worth nothing;
\* or the leader's value is 0 or could not be fetched.
SyncVoid(b) ==
    /\ SyncEnds(b)
    /\ \/ Fine /\ UNCHANGED valued
       \/ /\ b \in seats
          /\ IF HasValue(Addr[b], mirror[b]) THEN Faulty ELSE Fine
          /\ valued' = valued \ {b}
    /\ UNCHANGED <<market, seats, base, effect, dedupe, buffers, poll, counts>>

\* The positions fetched replace those of the seat; its slice is dropped and
\* nothing is marked seen.
SyncWrite(b) ==
    /\ b \in seats
    /\ HasValue(Addr[b], mirror[b])
    /\ SyncEnds(b)
    /\ DropSlices({b})
    /\ \/ /\ Fine
          /\ valued' = valued \cup {b}
          /\ copies' = [copies EXCEPT ![b] = [f \in Fill |-> IF f \in mirror[b] THEN 1 ELSE 0]]
          /\ mirrored' = [mirrored EXCEPT ![b] = mirror[b]]
          /\ UNCHANGED <<seats, base, settled, dedupe>>
       \/ Faulty /\ UNCHANGED book
    /\ UNCHANGED <<market, poll, counts>>

-----------------------------------------------------------------------------
(* The process goes and comes back, with the book and nothing else. *)

Forget ==
    /\ crashes < MaxCrashes
    /\ crashes' = crashes + 1
    /\ ws' = <<>>
    /\ thread' = "starting"
    /\ slice' = [b \in Bot |-> <<>>]
    /\ quiet' = {}
    /\ EndCycle
    /\ syncing' = {}
    /\ mirror' = [b \in Bot |-> {}]
    /\ UNCHANGED <<now, at, place, requests>>

Crash ==
    /\ Forget
    /\ Fine
    /\ UNCHANGED book

\* stop(): the tasks are cancelled and all slices flushed before it goes.
Stop ==
    /\ Forget
    /\ \E saved \in BOOLEAN, verdict \in [Bot -> Verdict] :
            FlushSettles(Bot, verdict, saved)

Poll == PollStart \/ (\E b \in Bot : PollFetch(b)) \/ PollFails \/ PollIngest \/ PollFlush

Next ==
    \/ Tick
    \/ \E f \in Fill : Trade(f)
    \/ SupervisorStarts
    \/ WsDeliver
    \/ WsLose
    \/ Poll
    \/ EnsureBots
    \/ \E b \in Bot :
        \/ GoQuiet(b)
        \/ Refresh(b)
        \/ RefreshToNothing(b)
        \/ ResetBot(b)
        \/ SyncRead(b)
        \/ SyncVoid(b)
        \/ SyncWrite(b)
    \/ ResetAll
    \/ ResetUnsaved
    \/ Crash
    \/ Stop

Spec == Init /\ [][Next]_vars

\* A supervisor that has started runs its tasks for as long as the process
\* lives: the poll, its refresh of the leader's value, the watchlist every
\* 15 s.  Bursts end.
Up(A) == thread = "up" /\ A

FairSpec ==
    /\ Spec
    /\ WF_vars(SupervisorStarts)
    /\ WF_vars(Poll)
    /\ WF_vars(Up(EnsureBots))
    /\ \A b \in Bot : WF_vars(GoQuiet(b)) /\ WF_vars(Up(Refresh(b)))

-----------------------------------------------------------------------------
(* Properties. *)

SoleSeat(b) == \A c \in Bot : Addr[c] = Addr[b] => c = b
New(b, f) == Addr[b] = Of[f] /\ at[f] > base[b]

\* The dedupe slot of a fill is consumed only once the fill is settled for
\* the seat that follows its maker: whatever was buffered, put back, replaced,
\* synced, restarted or not saved on the way, a fill that is marked seen was
\* copied or skipped for good, or lies before the seat's baseline.
SeenIsSettled ==
    \A b \in seats : SoleSeat(b) =>
        \A f \in Seen : New(b, f) => f \in settled[b]

\* Websocket, poll, buffers, restarts and failed saves never bring a fill into
\* a position twice, but for two causes: its key was dropped from the bounded
\* list, or a sync had brought it in with the leader's positions.
DoubleHasCause ==
    \A b \in seats : \A f \in Fill :
        copies[b][f] > 1 => f \in evicted \cup mirrored[b]

\* What the leader did before the seat's baseline is never copied, but by a
\* sync, in a slice with a newer fill, or for want of a timestamp: its own, or
\* that of a fill in its slice.
HistoryHasCause ==
    \A b \in Bot, f \in Fill :
        copies[b][f] > 0 /\ f \notin mirrored[b] =>
            \E g \in Fill :
                /\ copies[b][g] > 0
                /\ SliceKey(g) = SliceKey(f)
                /\ at[g] > base[b] \/ g \in Undated

\* No seat sells what it does not have: a sale that arrives before its purchase,
\* in another slice or after a reset or a sync is in a position only beside a
\* purchase of the token.
NeverShort ==
    \A b \in Bot : \A f \in Fill \ Buys :
        copies[b][f] > 0 => \E g \in Buys : Asset[g] = Asset[f] /\ copies[b][g] > 0

\* The book implements its promise: two feeds, slices that are put back,
\* replaced or lost, failed saves, restarts and syncs in two steps settle each
\* fill once for a seat, unless its key was dropped, and leave no trace else.
Promise == INSTANCE CopyBook WITH
    Seat <- Bot,
    Meant <- [b \in Bot |-> {f \in Fill : Of[f] = Addr[b]}],
    held <- copies, done <- settled, lent <- mirrored, forgotten <- evicted
KeepsCopyBook == Promise!Spec

Emptied(b) == copies[b] = None /\ settled[b] = {} /\ mirrored[b] = {}

\* No copied fill leaves the position of a seat but with a reset of the seat,
\* or with a sync that had fetched the leader's positions before the fill was
\* made: what a sync overwrites, it has fetched or could not have.
SyncLosesNewer ==
    [][\A b \in Bot, f \in Fill :
        copies[b][f] > 0 /\ copies'[b][f] = 0 =>
            \/ Emptied(b)'
            \/ b \in syncing /\ \A g \in mirror[b] : place[g] < place[f]]_vars

\* The leader has made so many fills since that no poll returns f.
Buried(f) == Cardinality({g \in Made(Of[f]) : place[g] > place[f]}) >= Limit

\* A new fill of the leader is not missed: it is copied or skipped for good,
\* unless the seat is reset meanwhile, Limit newer fills hide it from the poll,
\* the leader has no position left, so that its value counts as unknown, or the
\* thread of the supervisor ended as it started.
FillSettled ==
    \A b \in Bot, f \in Fill :
        (b \in seats /\ New(b, f))
            ~> (b \in seats /\ New(b, f) =>
                    \/ f \in settled[b]
                    \/ Buried(f)
                    \/ ~HasValue(Addr[b], Made(Addr[b]))
                    \/ thread = "ended")
=============================================================================
