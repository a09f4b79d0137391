--------------------------- MODULE PolyBookProofs ---------------------------
(***************************************************************************)
(* PolyCopy implements CopyBook for every instance: no way in which a fill *)
(* reaches, waits for or leaves the book makes a seat settle it twice; and *)
(* no seat sells what it does not have.                                    *)
(***************************************************************************)
EXTENDS PolyHistoryProofs

\* A fill that is settled for a seat is remembered or dropped; one that waits
\* in a slice all the same was dropped before it came again.
Recalled ==
    \A b \in Bot :
        /\ settled[b] \subseteq Seen \cup evicted
        /\ settled[b] \cap Elements(slice[b]) \subseteq evicted

\* With every sale there is a purchase of the token.
Backed(fills) ==
    \A f \in fills \ Buys : \E g \in fills \cap Buys : Asset[g] = Asset[f]

\* Leaders sell only what they have, and a sync fetches what they have done.
LeadersBacked ==
    /\ \A w \in Wallet : Backed(Made(w))
    /\ \A b \in syncing : Backed(mirror[b])

KInv == HInv /\ Recalled /\ NeverShort /\ LeadersBacked

\* What a step of the book does for the promise.
Promised == Promise!Next \/ UNCHANGED Promise!vars

Holding == Recalled' /\ NeverShort' /\ LeadersBacked' /\ Promised

-----------------------------------------------------------------------------
(* Settlements. *)

\* The fills of an attempt that is applied are settled, those of one that is
\* copied are copied once each, and what is dropped from the list is evicted.
LEMMA SettleBooks ==
    ASSUME KInv,
           NEW attempt \in [Bot -> Seq(Fill)], NEW verdict \in [Bot -> Verdict],
           NEW saved \in BOOLEAN, Settle(attempt, verdict, saved), saved,
           \A b \in Bot : Fit(b, attempt[b], copies[b])
    PROVE  /\ UNCHANGED <<seats, base, mirrored>>
           /\ settled' = [b \in Bot |-> settled[b] \cup
                            IF verdict[b] \in Applied THEN Elements(attempt[b]) ELSE {}]
           /\ copies' = [b \in Bot |-> [f \in Fill |->
                            IF verdict[b] = "copied" /\ f \in Elements(attempt[b])
                            THEN Promise!OnceMore(copies[b][f]) ELSE copies[b][f]]]
           /\ evicted \subseteq evicted' /\ evicted' \subseteq Fill
           /\ Seen \subseteq Seen' \cup evicted'
           /\ \A b \in Bot : verdict[b] \in Applied =>
                Elements(attempt[b]) \subseteq Seen' \cup evicted'
<1> USE DEF KInv, HInv, PInv, BookInv
<1> DEFINE fills == UNION {Elements(attempt[b]) : b \in {c \in Bot : verdict[c] \in Final}}
<1>1. /\ copies' = [b \in Bot |-> [f \in Fill |->
                        IF verdict[b] = "copied"
                        THEN UpToMany(copies[b][f] + Times(f, attempt[b]))
                        ELSE copies[b][f]]]
      /\ settled' = [b \in Bot |->
                        IF verdict[b] \in Applied
                        THEN settled[b] \cup Elements(attempt[b])
                        ELSE settled[b]]
      /\ Remember(fills)
      /\ UNCHANGED <<seats, base, mirrored>>
  BY DEF Settle, seat
<1>2. \A b \in Bot : Elements(attempt[b]) \subseteq Fill
  BY ElementsOfSeq
<1>3. fills \in SUBSET Fill
  BY <1>2
<1>4. /\ evicted' \subseteq Fill
      /\ evicted \subseteq evicted'
      /\ Seen \cup fills \subseteq Seen' \cup evicted'
  BY <1>1, <1>3, RememberKeeps
<1>5. \A b \in Bot : verdict[b] \in Applied => Elements(attempt[b]) \subseteq fills
  BY DEF Final
<1> HIDE DEF fills
<1>6. ASSUME NEW b \in Bot, NEW f \in Fill, verdict[b] = "copied"
      PROVE  UpToMany(copies[b][f] + Times(f, attempt[b])) =
                IF f \in Elements(attempt[b]) THEN Promise!OnceMore(copies[b][f]) ELSE copies[b][f]
  <2>1. /\ f \in Elements(attempt[b]) => Times(f, attempt[b]) = 1
        /\ f \notin Elements(attempt[b]) => Times(f, attempt[b]) = 0
    BY TimesDistinct, TimesOnce DEF Fit
  <2>2. copies[b][f] \in 0 .. 2
    BY DEF BookOK, Many
  <2> QED
    BY <2>1, <2>2 DEF UpToMany, Many, Promise!OnceMore
<1>7. copies' = [b \in Bot |-> [f \in Fill |->
                    IF verdict[b] = "copied" /\ f \in Elements(attempt[b])
                    THEN Promise!OnceMore(copies[b][f]) ELSE copies[b][f]]]
  BY <1>1, <1>6
<1>8. settled' = [b \in Bot |-> settled[b] \cup
                    IF verdict[b] \in Applied THEN Elements(attempt[b]) ELSE {}]
  BY <1>1
<1> QED
  BY <1>1, <1>4, <1>5, <1>7, <1>8

\* What may be applied is still to be settled, by the book's own account.
Due(b, fills) == \A f \in fills : f \in settled[b] => f \in evicted

LEMMA SettlePromised ==
    ASSUME KInv,
           NEW attempt \in [Bot -> Seq(Fill)], NEW verdict \in [Bot -> Verdict],
           NEW saved \in BOOLEAN, Settle(attempt, verdict, saved),
           \A b \in Bot : Fit(b, attempt[b], copies[b]) /\ Due(b, Elements(attempt[b]))
    PROVE  Promised
<1>1. CASE ~saved
  BY <1>1 DEF Settle, Promised, Promise!vars, book, effect, dedupe
<1>2. CASE saved
  <2> DEFINE slices == [b \in Bot |->
                            IF verdict[b] \in Applied THEN Elements(attempt[b]) ELSE {}]
             takers == {b \in Bot : verdict[b] = "copied"}
             meant == [b \in Bot |-> {f \in Fill : Of[f] = Addr[b]}]
  <2>1. /\ UNCHANGED mirrored
        /\ settled' = [b \in Bot |-> settled[b] \cup
                            IF verdict[b] \in Applied THEN Elements(attempt[b]) ELSE {}]
        /\ copies' = [b \in Bot |-> [f \in Fill |->
                            IF verdict[b] = "copied" /\ f \in Elements(attempt[b])
                            THEN Promise!OnceMore(copies[b][f]) ELSE copies[b][f]]]
        /\ evicted \subseteq evicted' /\ evicted' \subseteq Fill
    BY <1>2, SettleBooks
  <2>2. \A b \in Bot : Elements(attempt[b]) \subseteq Fill
    BY ElementsOfSeq
  <2>3. slices \in [Bot -> SUBSET Fill] /\ takers \in SUBSET Bot
    BY <2>2
  <2>4. \A b \in Bot : slices[b] \subseteq Promise!Open(b)
    BY <2>2 DEF Promise!Open, Fit, Due
  <2>5. settled' = [b \in Bot |-> settled[b] \cup slices[b]]
    BY <2>1
  <2>6. \A b \in Bot, f \in Fill :
            (verdict[b] = "copied" /\ f \in Elements(attempt[b]))
                <=> (b \in takers /\ f \in slices[b])
    BY DEF Applied
  <2>7. copies' = [b \in Bot |-> [f \in Fill |->
                        IF b \in takers /\ f \in slices[b]
                        THEN Promise!OnceMore(copies[b][f]) ELSE copies[b][f]]]
    BY <2>1, <2>6
  <2> HIDE DEF slices, takers
  <2> QED
    BY <2>1, <2>3, <2>4, <2>5, <2>7 DEF Promised, Promise!Next, Promise!Settle
<1> QED
  BY <1>1, <1>2

\* A sale is applied only beside a purchase, and with it goes a slice of sales.
LEMMA SettleNeverShort ==
    ASSUME KInv,
           NEW attempt \in [Bot -> Seq(Fill)], NEW verdict \in [Bot -> Verdict],
           NEW saved \in BOOLEAN, Settle(attempt, verdict, saved),
           \A b \in Bot :
                /\ Fit(b, attempt[b], copies[b])
                /\ verdict[b] \in Verdicts(b, attempt[b])
                /\ \A f, g \in Elements(attempt[b]) : SliceKey(f) = SliceKey(g)
    PROVE  NeverShort'
<1>1. \A b \in Bot, f \in Fill :
        /\ copies[b][f] > 0 => copies'[b][f] > 0
        /\ copies'[b][f] > 0 =>
            copies[b][f] > 0 \/ (verdict[b] = "copied" /\ f \in Elements(attempt[b]))
  BY SettleGrows DEF Fit, KInv, HInv
<1> SUFFICES ASSUME NEW b \in Bot, NEW f \in Fill \ Buys, copies'[b][f] > 0
             PROVE  \E g \in Buys : Asset[g] = Asset[f] /\ copies'[b][g] > 0
  BY DEF NeverShort
<1>2. Buys \subseteq Fill
  BY PolyAssumption
<1>3. CASE copies[b][f] > 0
  BY <1>1, <1>2, <1>3 DEF KInv, NeverShort
<1>4. CASE verdict[b] = "copied" /\ f \in Elements(attempt[b])
  <2> DEFINE h == Head(attempt[b])
  <2>1. attempt[b] # <<>> /\ verdict[b] \in Verdicts(b, attempt[b])
    BY <1>4 DEF Verdicts
  <2>2. h \in Elements(attempt[b])
    BY <2>1, HeadTailProperties DEF Elements
  <2>3. SliceKey(h) = SliceKey(f)
    BY <1>4, <2>2
  <2>4. Asset[h] = Asset[f] /\ h \notin Buys
    BY <2>3 DEF SliceKey
  <2>5. Holds(b, Asset[h])
    BY <1>4, <2>1, <2>4 DEF Verdicts
  <2> QED
    BY <1>1, <1>2, <2>4, <2>5 DEF Holds
<1> QED
  BY <1>1, <1>3, <1>4

\* The slices after a settlement: those that stay were not applied, and what
\* is new in them was unknown.
LEMMA SettleRecalled ==
    ASSUME KInv,
           NEW attempt \in [Bot -> Seq(Fill)], NEW verdict \in [Bot -> Verdict],
           NEW saved \in BOOLEAN, Settle(attempt, verdict, saved),
           \A b \in Bot : Fit(b, attempt[b], copies[b]),
           \A b \in Bot : \A f \in Elements(slice'[b]) :
                /\ Due(b, {f})
                /\ verdict[b] \in Applied => f \notin Elements(attempt[b])
    PROVE  Recalled'
<1>1. CASE ~saved
  BY <1>1 DEF Settle, KInv, Recalled, Due, Seen, book, effect, dedupe
<1>2. CASE saved
  <2>1. /\ settled' = [b \in Bot |-> settled[b] \cup
                            IF verdict[b] \in Applied THEN Elements(attempt[b]) ELSE {}]
        /\ evicted \subseteq evicted'
        /\ Seen \subseteq Seen' \cup evicted'
        /\ \A b \in Bot : verdict[b] \in Applied =>
                Elements(attempt[b]) \subseteq Seen' \cup evicted'
    BY <1>2, SettleBooks
  <2>2. ASSUME NEW b \in Bot
        PROVE  /\ settled'[b] \subseteq Seen' \cup evicted'
               /\ settled'[b] \cap Elements(slice'[b]) \subseteq evicted'
    <3>1. settled[b] \subseteq Seen \cup evicted
      BY DEF KInv, Recalled
    <3>2. settled'[b] = settled[b] \cup
                            IF verdict[b] \in Applied THEN Elements(attempt[b]) ELSE {}
      BY <2>1
    <3> QED
      BY <2>1, <3>1, <3>2 DEF Due
  <2> QED
    BY <2>2 DEF Recalled, Elements
<1> QED
  BY <1>1, <1>2

-----------------------------------------------------------------------------
(* Steps that settle nothing. *)

\* No fill is made and nothing is fetched for a sync.
LEMMA BackedKept ==
    ASSUME KInv, UNCHANGED at, syncing' \subseteq syncing,
           \A b \in syncing' : mirror'[b] = mirror[b]
    PROVE  LeadersBacked'
BY DEF KInv, LeadersBacked, Backed, Made

\* The book is as it was, and slices at most dropped.
LEMMA BookUntouched ==
    ASSUME KInv, UNCHANGED <<effect, dedupe>>,
           \A b \in Bot : slice'[b] = <<>> \/ slice'[b] = slice[b]
    PROVE  Recalled' /\ NeverShort' /\ Promised
<1>1. UNCHANGED <<copies, settled, mirrored, seen, evicted>>
  BY DEF effect, dedupe
<1>2. Elements(<<>>) = {}
  BY DEF Elements
<1>3. Recalled'
  BY <1>1, <1>2 DEF KInv, Recalled, Seen, Elements
<1>4. NeverShort'
  BY <1>1 DEF KInv, NeverShort
<1>5. Promised
  BY <1>1 DEF Promised, Promise!vars
<1> QED
  BY <1>3, <1>4, <1>5

LEMMA TradeHolding ==
    ASSUME KInv, NEW f \in Fill, Trade(f)
    PROVE  Holding
<1>1. /\ at \in [Fill -> Nat] /\ now \in Nat /\ now > 0 /\ mirror \in [Bot -> SUBSET Fill]
  BY PolyAssumption DEF KInv, HInv, PInv, BookInv, BookOK, FeedInv, FeedOK
<1>2. /\ at[f] = 0 /\ at' = [at EXCEPT ![f] = now]
      /\ UNCHANGED <<effect, dedupe, slice, syncing, mirror>>
  BY DEF Trade, book, buffers, sync
<1>3. \A w \in Wallet : Made(w)' = Made(w) \cup (IF Of[f] = w THEN {f} ELSE {})
  BY <1>1, <1>2 DEF Made
<1>4. f \notin Buys => \E g \in Made(Of[f]) \cap Buys : Asset[g] = Asset[f]
  <2> SUFFICES ASSUME f \notin Buys
               PROVE  \E g \in Made(Of[f]) \cap Buys : Asset[g] = Asset[f]
    OBVIOUS
  <2> DEFINE S == {g \in Made(Of[f]) : Asset[g] = Asset[f]}
  <2>1. Open(S)
    BY DEF Trade
  <2>2. Cardinality(S \ Buys) \in Nat
    BY PolyAssumption, FS_Subset, FS_CardinalityType DEF Made
  <2> HIDE DEF S
  <2>3. S \cap Buys # {}
    BY <2>1, <2>2, FS_EmptySet DEF Open
  <2> QED
    BY <2>3 DEF S
<1>5. \A w \in Wallet : Backed(Made(w)')
  BY <1>3, <1>4 DEF KInv, LeadersBacked, Backed
<1>6. LeadersBacked'
  BY <1>2, <1>5 DEF KInv, LeadersBacked, Backed
<1> QED
  BY <1>2, <1>6, BookUntouched DEF Holding

LEMMA QuietHolding ==
    ASSUME KInv,
           \/ Tick \/ WsLose \/ EnsureBots \/ SupervisorStarts \/ ResetUnsaved \/ Crash
           \/ UNCHANGED vars
           \/ PollStart \/ PollFails \/ \E b \in Bot : PollFetch(b)
           \/ \E b \in Bot : \/ GoQuiet(b) \/ Refresh(b) \/ RefreshToNothing(b)
                             \/ SyncRead(b) \/ SyncVoid(b)
    PROVE  Holding
<1>1. /\ UNCHANGED <<at, effect, dedupe>>
      /\ \A b \in Bot : slice'[b] = <<>> \/ slice'[b] = slice[b]
  BY DEF Tick, WsLose, EnsureBots, SupervisorStarts, ResetUnsaved, DropSlices, Crash, Forget, PollStart, PollFails,
         PollFetch, GoQuiet, Refresh, RefreshToNothing, SyncRead, SyncVoid, SyncEnds,
         vars, market, book, buffers
<1>2. mirror \in [Bot -> SUBSET Fill] /\ syncing \subseteq Bot
  BY DEF KInv, HInv, PInv, FeedInv, FeedOK
<1>3. LeadersBacked'
  <2>1. ASSUME NEW b \in Bot, SyncRead(b) PROVE LeadersBacked'
    <3>1. /\ syncing' = syncing \cup {b}
          /\ \A c \in Bot : mirror'[c] = IF c = b THEN Made(Addr[b]) ELSE mirror[c]
      BY <1>2, <2>1 DEF SyncRead
    <3>2. Addr[b] \in Wallet
      BY PolyAssumption
    <3>3. \A c \in syncing' : Backed(mirror'[c])
      BY <1>2, <3>1, <3>2 DEF KInv, LeadersBacked
    <3> QED
      BY <1>1, <3>3 DEF KInv, LeadersBacked, Backed, Made
  <2>2. ASSUME NEW b \in Bot, SyncVoid(b) PROVE LeadersBacked'
    BY <1>1, <1>2, <2>2, BackedKept DEF SyncVoid, SyncEnds
  <2>3. CASE UNCHANGED sync \/ syncing' = {}
    BY <1>1, <2>3, BackedKept DEF sync
  <2> QED
    BY <2>1, <2>2, <2>3 DEF Tick, WsLose, EnsureBots, SupervisorStarts, ResetUnsaved, Crash, Forget, PollStart,
         PollFails, PollFetch, GoQuiet, Refresh, RefreshToNothing, vars
<1> QED
  BY <1>1, <1>3, BookUntouched DEF Holding

-----------------------------------------------------------------------------
(* Resets and syncs. *)

LEMMA ResetHolding ==
    ASSUME KInv, ResetAll \/ \E b \in Bot : ResetBot(b)
    PROVE  Holding
<1>1. /\ copies \in [Bot -> [Fill -> 0 .. Many]] /\ settled \in [Bot -> SUBSET Fill]
      /\ mirrored \in [Bot -> SUBSET Fill]
  BY DEF KInv, HInv, PInv, BookInv, BookOK
<1>2. LeadersBacked'
  BY BackedKept DEF ResetAll, ResetBot, market, sync
<1>3. Elements(<<>>) = {} /\ Promise!None = None
  BY DEF Elements, Promise!None, None
<1>4. CASE ResetAll
  <2>1. /\ copies' = [b \in Bot |-> None] /\ settled' = [b \in Bot |-> {}]
        /\ mirrored' = [b \in Bot |-> {}] /\ evicted' = {}
    BY <1>4 DEF ResetAll
  <2>2. Recalled' /\ NeverShort'
    BY <2>1 DEF Recalled, NeverShort, None
  <2>3. Promise!Empty(Bot)
    BY <1>3, <2>1 DEF Promise!Empty
  <2> QED
    BY <1>2, <2>2, <2>3 DEF Holding, Promised, Promise!Next
<1>5. ASSUME NEW b \in Bot, ResetBot(b) PROVE Holding
  <2>1. /\ UNCHANGED <<seen, evicted>>
        /\ copies' = [copies EXCEPT ![b] = None]
        /\ settled' = [settled EXCEPT ![b] = {}]
        /\ mirrored' = [mirrored EXCEPT ![b] = {}]
        /\ \A c \in Bot : slice'[c] = IF c = b THEN <<>> ELSE slice[c]
    BY <1>5 DEF ResetBot, EmptySeat, DropSlices, dedupe
  <2>2. \A c \in Bot : settled'[c] = IF c = b THEN {} ELSE settled[c]
    BY <1>1, <2>1
  <2>3. Recalled'
    BY <2>1, <2>2 DEF KInv, Recalled, Seen, Elements
  <2>4. NeverShort'
    BY <1>1, <2>1 DEF KInv, NeverShort, None
  <2> DEFINE which == {b}
  <2>5. /\ copies' = [c \in Bot |-> IF c \in which THEN None ELSE copies[c]]
        /\ settled' = [c \in Bot |-> IF c \in which THEN {} ELSE settled[c]]
        /\ mirrored' = [c \in Bot |-> IF c \in which THEN {} ELSE mirrored[c]]
    BY <1>1, <2>1
  <2>6. which \in SUBSET Bot
    OBVIOUS
  <2> HIDE DEF which
  <2>7. Promise!Empty(which)
    BY <1>3, <2>1, <2>5 DEF Promise!Empty
  <2> QED
    BY <1>2, <2>3, <2>4, <2>6, <2>7 DEF Holding, Promised, Promise!Next
<1> QED
  BY <1>4, <1>5

LEMMA SyncHolding ==
    ASSUME KInv, NEW b \in Bot, SyncWrite(b)
    PROVE  Holding
<1>1. /\ copies \in [Bot -> [Fill -> 0 .. Many]] /\ mirrored \in [Bot -> SUBSET Fill]
      /\ mirror \in [Bot -> SUBSET Fill] /\ syncing \subseteq Bot
  BY DEF KInv, HInv, PInv, BookInv, BookOK, FeedInv, FeedOK
<1>2. /\ UNCHANGED at /\ b \in syncing
      /\ syncing' = syncing \ {b} /\ mirror' = [mirror EXCEPT ![b] = {}]
      /\ \A c \in Bot : slice'[c] = <<>> \/ slice'[c] = slice[c]
  BY DEF SyncWrite, SyncEnds, DropSlices, market
<1>3. LeadersBacked'
  BY <1>1, <1>2, BackedKept
<1>4. CASE UNCHANGED book
  BY <1>2, <1>3, <1>4, BookUntouched DEF Holding, book
<1>5. CASE /\ copies' = [copies EXCEPT ![b] = [f \in Fill |-> IF f \in mirror[b] THEN 1 ELSE 0]]
           /\ mirrored' = [mirrored EXCEPT ![b] = mirror[b]]
           /\ UNCHANGED <<settled, dedupe>>
  <2>1. UNCHANGED <<settled, seen, evicted>>
    BY <1>5 DEF dedupe
  <2>2. Recalled'
    <3>1. Elements(<<>>) = {}
      BY DEF Elements
    <3> QED
      BY <1>2, <2>1, <3>1 DEF KInv, Recalled, Seen, Elements
  <2>3. /\ \A f \in Fill : copies'[b][f] = IF f \in mirror[b] THEN 1 ELSE 0
        /\ \A c \in Bot : c # b => copies'[c] = copies[c]
    BY <1>1, <1>5
  <2>4. NeverShort'
    <3> SUFFICES ASSUME NEW c \in Bot, NEW f \in Fill \ Buys, copies'[c][f] > 0
                 PROVE  \E g \in Buys : Asset[g] = Asset[f] /\ copies'[c][g] > 0
      BY DEF NeverShort
    <3>1. CASE c = b
      <4>1. f \in mirror[b] \ Buys
        BY <2>3, <3>1
      <4>2. PICK g \in mirror[b] \cap Buys : Asset[g] = Asset[f]
        BY <1>2, <4>1 DEF KInv, LeadersBacked, Backed
      <4> QED
        BY <1>1, <2>3, <3>1, <4>2
    <3>2. CASE c # b
      BY <2>3, <3>2 DEF KInv, NeverShort
    <3> QED
      BY <3>1, <3>2
  <2>5. mirror[b] \subseteq Made(Addr[b])
    BY <1>2 DEF KInv, HInv, OrderInv
  <2>6. Promise!Mirror(b)
    <3> DEFINE fills == mirror[b]
    <3>1. fills \in SUBSET {f \in Fill : Of[f] = Addr[b]}
      BY <2>5 DEF Made
    <3> QED
      BY <1>5, <2>1, <3>1 DEF Promise!Mirror
  <2> QED
    BY <1>3, <2>2, <2>4, <2>6 DEF Holding, Promised, Promise!Next
<1> QED
  BY <1>4, <1>5 DEF SyncWrite

-----------------------------------------------------------------------------
(* Fills that come in, and flushes. *)

LEMMA IngestHolding ==
    ASSUME KInv, UNCHANGED at,
           NEW f \in Fill, at[f] > 0, NEW saved \in BOOLEAN, Ingest(f, saved)
    PROVE  Recalled' /\ NeverShort' /\ Promised
<1> USE DEF KInv
<1>1. CASE UNCHANGED <<book, buffers>>
  BY <1>1, BookUntouched DEF book, buffers
<1>2. CASE ~Known(f) /\ Matched(f) # {}
  <2>1. PICK verdict \in [Bot -> Verdict] :
            /\ \A b \in Bot : verdict[b] \in Verdicts(b, Attempt(f)[b])
            /\ Settle(Attempt(f), verdict, saved)
            /\ slice' = Buffered(f, verdict)
    BY <1>2 DEF Ingest
  <2>2. /\ Attempt(f) \in [Bot -> Seq(Fill)]
        /\ \A b \in Bot :
            /\ Fit(b, Attempt(f)[b], copies[b])
            /\ b \notin Matched(f) => Attempt(f)[b] = <<>>
            /\ b \in Coalescing => Attempt(f)[b] \in {<<>>, slice[b]}
    BY <1>2, AttemptFits DEF HInv, PInv
  <2>3. /\ Elements(<<f>>) = {f} /\ Elements(<<>>) = {}
        /\ \A b \in Bot : slice[b] \in Seq(Fill)
    BY OneAndNone DEF HInv, PInv, BookInv, BookOK
  <2>4. f \notin Seen /\ \A b \in Bot : f \notin Elements(slice[b])
    BY <1>2 DEF Known
  <2>5. \A b \in Bot : Due(b, {f}) /\ Due(b, Elements(slice[b]))
    BY <2>4 DEF Recalled, Due
  <2>6. ASSUME NEW b \in Bot
        PROVE  /\ Due(b, Elements(Attempt(f)[b]))
               /\ \A g, h \in Elements(Attempt(f)[b]) : SliceKey(g) = SliceKey(h)
    <3>1. Attempt(f)[b] \in {<<f>>, <<>>, slice[b]}
      BY DEF Attempt
    <3>2. CASE Attempt(f)[b] = <<f>>
      <4>1. Elements(Attempt(f)[b]) = {f}
        BY <2>3, <3>2
      <4>2. \A g, h \in Elements(Attempt(f)[b]) : g = h
        BY <4>1
      <4> QED
        BY <2>5, <4>1, <4>2
    <3>3. CASE Attempt(f)[b] = <<>>
      BY <2>3, <3>3 DEF Due
    <3>4. CASE Attempt(f)[b] = slice[b]
      BY <2>5, <3>4 DEF HInv, CopyInv, Sliced
    <3> QED
      BY <3>1, <3>2, <3>3, <3>4
  <2>7. NeverShort' /\ Promised
    <3>1. NeverShort'
      BY <2>1, <2>2, <2>6, SettleNeverShort
    <3>2. Promised
      BY <2>1, <2>2, <2>6, SettlePromised
    <3> QED
      BY <3>1, <3>2
  <2>8. ASSUME NEW b \in Bot, NEW g \in Elements(slice'[b])
        PROVE  Due(b, {g}) /\ (verdict[b] \in Applied => g \notin Elements(Attempt(f)[b]))
    <3>1. CASE b \notin Matched(f) \cap Coalescing
      <4>1. g \in Elements(slice[b])
        BY <2>1, <2>8, <3>1 DEF Buffered
      <4>2. Attempt(f)[b] \in {<<f>>, <<>>}
        BY <3>1 DEF Attempt
      <4> QED
        BY <2>3, <2>4, <2>5, <4>1, <4>2 DEF Due
    <3>2. CASE b \in Matched(f) \cap Coalescing /\ Joins(b, f, verdict)
      <4>1. slice'[b] = Append(slice[b], f) /\ verdict[b] \notin Applied
        BY <2>1, <3>2 DEF Buffered, Joins
      <4>2. g \in Elements(slice[b]) \cup {f}
        BY <2>3, <2>8, <4>1, AppendProperties DEF Elements
      <4> QED
        BY <2>5, <4>1, <4>2 DEF Due
    <3>3. CASE b \in Matched(f) \cap Coalescing /\ ~Joins(b, f, verdict)
      <4>1. g = f
        BY <2>1, <2>3, <2>8, <3>3 DEF Buffered
      <4> QED
        BY <2>2, <2>3, <2>4, <2>5, <3>3, <4>1
    <3> QED
      BY <3>1, <3>2, <3>3
  <2>9. Recalled'
    BY <2>1, <2>2, <2>8, SettleRecalled
  <2> QED
    BY <2>7, <2>9
<1> QED
  BY <1>1, <1>2 DEF Ingest

LEMMA FlushHolding ==
    ASSUME KInv, UNCHANGED at,
           NEW which \in SUBSET Bot, NEW verdict \in [Bot -> Verdict],
           NEW saved \in BOOLEAN, FlushSettles(which, verdict, saved),
           \A b \in Bot :
                \/ slice'[b] = <<>>
                \/ slice'[b] = slice[b] /\ verdict[b] \notin Applied
    PROVE  Recalled' /\ NeverShort' /\ Promised
<1> USE DEF KInv
<1>1. <<>> \in Seq(Fill) /\ Elements(<<>>) = {} /\ Distinct(<<>>)
  BY DEF Elements, Distinct
<1>2. \A b \in Bot :
        slice[b] \in Seq(Fill) /\ Fit(b, slice[b], copies[b]) /\ Due(b, Elements(slice[b]))
  BY SlicesFit DEF HInv, PInv, Recalled, Due
<1>3. FlushAttempt(which) \in [Bot -> Seq(Fill)]
  BY <1>1, <1>2 DEF FlushAttempt
<1>4. ASSUME NEW b \in Bot
      PROVE  /\ Fit(b, FlushAttempt(which)[b], copies[b])
             /\ Due(b, Elements(FlushAttempt(which)[b]))
             /\ \A f, g \in Elements(FlushAttempt(which)[b]) : SliceKey(f) = SliceKey(g)
  <2>1. FlushAttempt(which)[b] = IF b \in which \cap seats THEN slice[b] ELSE <<>>
    BY DEF FlushAttempt
  <2> QED
    BY <1>1, <1>2, <2>1 DEF Fit, Due, HInv, CopyInv, Sliced
<1>5. /\ \A b \in Bot : verdict[b] \in Verdicts(b, FlushAttempt(which)[b])
      /\ Settle(FlushAttempt(which), verdict, saved)
  BY DEF FlushSettles
<1>6. NeverShort' /\ Promised
  BY <1>3, <1>4, <1>5, SettleNeverShort, SettlePromised
<1>7. ASSUME NEW b \in Bot, NEW f \in Elements(slice'[b])
      PROVE  /\ Due(b, {f})
             /\ verdict[b] \in Applied => f \notin Elements(FlushAttempt(which)[b])
  <2>1. slice'[b] = slice[b] /\ verdict[b] \notin Applied
    BY <1>1, <1>7
  <2> QED
    BY <1>2, <1>7, <2>1 DEF Due
<1>8. Recalled'
  BY <1>3, <1>4, <1>5, <1>7, SettleRecalled
<1> QED
  BY <1>6, <1>8

LEMMA FeedHolding ==
    ASSUME KInv, WsDeliver \/ PollIngest \/ PollFlush \/ Stop
    PROVE  Holding
<1>1. /\ ws \in Seq(Fill) /\ rows \subseteq Fill
      /\ \A f \in rows \cup Elements(ws) : at[f] > 0
  BY DEF KInv, HInv, PInv, FeedInv, FeedOK, Sent
<1>2. CASE WsDeliver
  <2>1. Head(ws) \in Fill /\ at[Head(ws)] > 0
    BY <1>1, <1>2, HeadTailProperties DEF WsDeliver, Elements
  <2>2. PICK saved \in BOOLEAN : Ingest(Head(ws), saved)
    BY <1>2 DEF WsDeliver
  <2>3. UNCHANGED <<at, syncing, mirror>>
    BY <1>2 DEF WsDeliver, sync
  <2> QED
    BY <2>1, <2>2, <2>3, IngestHolding, BackedKept DEF Holding
<1>3. CASE PollIngest
  <2>1. PICK f \in rows, saved \in BOOLEAN : Ingest(f, saved)
    BY <1>3 DEF PollIngest
  <2>2. UNCHANGED <<at, syncing, mirror>>
    BY <1>3 DEF PollIngest, market, sync
  <2> QED
    BY <1>1, <2>1, <2>2, IngestHolding, BackedKept DEF Holding
<1>4. CASE PollFlush
  <2>1. PICK saved \in BOOLEAN, verdict \in [Bot -> Verdict] :
            /\ FlushSettles({b \in Bot : Expired(b)}, verdict, saved)
            /\ slice' = [b \in Bot |->
                    IF b \notin seats \/ verdict[b] \in Applied THEN <<>> ELSE slice[b]]
    BY <1>4 DEF PollFlush, FlushExpired
  <2>2. UNCHANGED <<at, syncing, mirror>>
    BY <1>4 DEF PollFlush, market, sync
  <2>3. {b \in Bot : Expired(b)} \in SUBSET Bot
    OBVIOUS
  <2> QED
    BY <2>1, <2>2, <2>3, FlushHolding, BackedKept DEF Holding
<1>5. CASE Stop
  <2>1. /\ UNCHANGED at /\ syncing' = {} /\ \A b \in Bot : slice'[b] = <<>>
    BY <1>5 DEF Stop, Forget
  <2>2. PICK saved \in BOOLEAN, verdict \in [Bot -> Verdict] : FlushSettles(Bot, verdict, saved)
    BY <1>5 DEF Stop
  <2> QED
    BY <2>1, <2>2, FlushHolding, BackedKept DEF Holding
<1> QED
  BY <1>2, <1>3, <1>4, <1>5

-----------------------------------------------------------------------------
(* The invariant, and what it says of the promise. *)

LEMMA InitHolding == Init => KInv /\ Promise!Init
<1> SUFFICES ASSUME Init PROVE KInv /\ Promise!Init
  OBVIOUS
<1>1. HInv
  BY InitHistory
<1>2. Recalled /\ NeverShort
  BY DEF Init, Recalled, NeverShort, None
<1>3. LeadersBacked
  BY DEF Init, LeadersBacked, Backed, Made, None
<1>4. Promise!Init
  BY DEF Init, Promise!Init, Promise!None, None
<1> QED
  BY <1>1, <1>2, <1>3, <1>4 DEF KInv

LEMMA StepHolding == KInv /\ [Next]_vars => KInv' /\ Promised
<1> SUFFICES ASSUME KInv, [Next]_vars PROVE KInv' /\ Promised
  OBVIOUS
<1>1. HInv'
  BY StepHistory DEF KInv
<1>2. Holding
  BY TradeHolding, QuietHolding, ResetHolding, SyncHolding, FeedHolding DEF Next, Poll
<1> QED
  BY <1>1, <1>2 DEF KInv, Holding

THEOREM KInvariant == Spec => []KInv
<1>1. KInv /\ [Next]_vars => KInv'
  BY StepHolding
<1> QED
  BY <1>1, InitHolding, PTL DEF Spec

\* A sale that _apply_to_bot takes without its purchase, by itself, at the head
\* of a slice or through a sync, would leave a seat short: there is none.
THEOREM PolyNeverShort == Spec => []NeverShort
<1>1. KInv => NeverShort
  BY DEF KInv
<1> QED
  BY <1>1, KInvariant, PTL

\* Two feeds, slices, failed saves, restarts, resets and syncs: all of it is
\* the abstract book, where a seat settles a fill once unless it is forgotten.
THEOREM PolyKeepsCopyBook == Spec => KeepsCopyBook
<1>1. Init => Promise!Init
  BY InitHolding
<1>2. KInv /\ [Next]_vars => [Promise!Next]_(Promise!vars)
  BY StepHolding DEF Promised
<1> QED
  BY <1>1, <1>2, KInvariant, PTL DEF Spec, KeepsCopyBook, Promise!Spec
=============================================================================
