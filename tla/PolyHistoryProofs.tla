-------------------------- MODULE PolyHistoryProofs --------------------------
(***************************************************************************)
(* Of PolyCopy, for every instance: which fills of the past can get into a *)
(* position, and which can leave it.  Both follow from the order in which  *)
(* the fills were made, which the slices and a sync in two steps disturb.  *)
(***************************************************************************)
EXTENDS PolyCopyProofs

\* A slice is for one token and side.
Sliced == \A b \in Bot : \A f, g \in Elements(slice[b]) : SliceKey(f) = SliceKey(g)

\* A seat that is gone holds nothing, the others fills of their leader only.
Taken ==
    /\ \A b \in Bot \ seats : \A f \in Fill : copies[b][f] = 0
    /\ \A b \in Bot, f \in Fill : copies[b][f] > 0 => f \in Made(Addr[b])

CopyInv == Sliced /\ Taken /\ HistoryHasCause

\* The fills are made in the order of their places, and what a sync has not
\* fetched was made after all that it has.
Happened == {f \in Fill : at[f] > 0}

OrderInv ==
    /\ \A f \in Fill : place[f] <= Cardinality(Happened)
    /\ \A b \in syncing :
        /\ mirror[b] \subseteq Made(Addr[b])
        /\ \A f \in Made(Addr[b]) \ mirror[b] : \A g \in mirror[b] : place[g] < place[f]

HInv == PInv /\ CopyInv /\ OrderInv

\* What SyncLosesNewer says of one step.
Loses ==
    \A b \in Bot, f \in Fill :
        copies[b][f] > 0 /\ copies'[b][f] = 0 =>
            \/ Emptied(b)'
            \/ b \in syncing /\ \A g \in mirror[b] : place[g] < place[f]

Kept == CopyInv' /\ OrderInv' /\ Loses

-----------------------------------------------------------------------------
(* Settlements: what grows, and that nothing shrinks. *)

LEMMA TimesOnce ==
    ASSUME NEW q, Distinct(q), NEW f \in Elements(q)
    PROVE  Times(f, q) = 1
<1>1. PICK i \in DOMAIN q : q[i] = f
  BY DEF Elements
<1>2. {j \in DOMAIN q : q[j] = f} = {i}
  BY <1>1 DEF Distinct
<1> QED
  BY <1>2, FS_Singleton DEF Times

LEMMA SettleGrows ==
    ASSUME PInv,
           NEW attempt, NEW verdict, NEW saved \in BOOLEAN,
           Settle(attempt, verdict, saved),
           \A b \in Bot : Distinct(attempt[b])
    PROVE  /\ UNCHANGED <<seats, base, mirrored>>
           /\ \A b \in Bot, f \in Fill :
                /\ copies[b][f] > 0 => copies'[b][f] > 0
                /\ copies'[b][f] > 0 =>
                    \/ copies[b][f] > 0
                    \/ verdict[b] = "copied" /\ f \in Elements(attempt[b])
           /\ saved => \A b \in Bot, f \in Fill :
                verdict[b] = "copied" /\ f \in Elements(attempt[b]) => copies'[b][f] > 0
           /\ ~saved => copies' = copies
<1>1. CASE ~saved
  BY <1>1 DEF Settle, book, seat, effect
<1>2. CASE saved
  <2>1. /\ UNCHANGED <<seats, base, mirrored>>
        /\ \A b \in Bot, f \in Fill :
            copies'[b][f] = IF verdict[b] = "copied"
                            THEN UpToMany(copies[b][f] + Times(f, attempt[b]))
                            ELSE copies[b][f]
    BY <1>2 DEF Settle, seat
  <2>2. ASSUME NEW b \in Bot, NEW f \in Fill
        PROVE  /\ copies[b][f] > 0 => copies'[b][f] > 0
               /\ copies'[b][f] > 0 =>
                    copies[b][f] > 0 \/ (verdict[b] = "copied" /\ f \in Elements(attempt[b]))
               /\ verdict[b] = "copied" /\ f \in Elements(attempt[b]) => copies'[b][f] > 0
    <3> DEFINE n == copies[b][f]
               m == copies'[b][f]
               t == Times(f, attempt[b])
    <3>1. n \in 0 .. 2
      BY DEF PInv, BookInv, BookOK, Many
    <3>2. t \in {0, 1} /\ (t = 1 <=> f \in Elements(attempt[b]))
      BY TimesDistinct, TimesOnce
    <3>3. IF verdict[b] = "copied" THEN m = (IF n + t < 2 THEN n + t ELSE 2) ELSE m = n
      BY <2>1 DEF UpToMany, Many
    <3> HIDE DEF n, m, t
    <3>4. /\ n > 0 => m > 0
          /\ m > 0 => n > 0 \/ (verdict[b] = "copied" /\ t = 1)
          /\ verdict[b] = "copied" /\ t = 1 => m > 0
      BY <3>1, <3>2, <3>3
    <3> QED
      BY <3>2, <3>4 DEF n, m, t
  <2> QED
    BY <1>2, <2>1, <2>2
<1> QED
  BY <1>1, <1>2

\* Fills are applied in slices of one token and side whose first fill is new,
\* and to seats that are there.
LEMMA SettleHistory ==
    ASSUME HInv, UNCHANGED at,
           NEW attempt \in [Bot -> Seq(Fill)], NEW verdict \in [Bot -> Verdict],
           NEW saved \in BOOLEAN, Settle(attempt, verdict, saved),
           \A b \in Bot :
                /\ Fit(b, attempt[b], copies[b])
                /\ verdict[b] \in Verdicts(b, attempt[b])
                /\ b \notin seats => attempt[b] = <<>>
                /\ \A f, g \in Elements(attempt[b]) : SliceKey(f) = SliceKey(g)
    PROVE  Taken' /\ HistoryHasCause' /\ Loses
<1> USE DEF HInv, CopyInv
<1>1. /\ UNCHANGED <<seats, base, mirrored>>
      /\ \A b \in Bot, f \in Fill :
            /\ copies[b][f] > 0 => copies'[b][f] > 0
            /\ copies'[b][f] > 0 =>
                copies[b][f] > 0 \/ (verdict[b] = "copied" /\ f \in Elements(attempt[b]))
      /\ saved => \A b \in Bot, f \in Fill :
            verdict[b] = "copied" /\ f \in Elements(attempt[b]) => copies'[b][f] > 0
      /\ ~saved => copies' = copies
  BY SettleGrows DEF Fit
<1>2. \A b \in Bot, f \in Fill : copies[b][f] \in 0 .. 2
  BY DEF PInv, BookInv, BookOK, Many
<1>3. ASSUME NEW b \in Bot, verdict[b] = "copied"
      PROVE  /\ attempt[b] # <<>>
             /\ b \in seats
             /\ Head(attempt[b]) \in Fill
             /\ Head(attempt[b]) \in Elements(attempt[b])
             /\ at[Head(attempt[b])] > base[b] \/ Head(attempt[b]) \in Undated
  <2>1. verdict[b] \in Verdicts(b, attempt[b])
    OBVIOUS
  <2>2. attempt[b] # <<>>
    BY <1>3, <2>1 DEF Verdicts
  <2>3. Head(attempt[b]) \in Fill /\ Head(attempt[b]) \in Elements(attempt[b])
    BY <2>2, HeadTailProperties DEF Elements
  <2>4. ~(at[Head(attempt[b])] <= base[b]) \/ Head(attempt[b]) \in Undated
    BY <1>3, <2>1, <2>2 DEF Verdicts, BeforeBaseline
  <2>5. at[Head(attempt[b])] \in Nat /\ base[b] \in Nat
    BY <2>3 DEF PInv, FeedInv, FeedOK, BookInv, BookOK
  <2> QED
    BY <2>2, <2>3, <2>4, <2>5
<1>4. Taken'
  <2>1. ASSUME NEW b \in Bot \ seats, NEW f \in Fill PROVE copies'[b][f] = 0
    <3>1. copies[b][f] = 0 /\ verdict[b] # "copied"
      BY <1>3 DEF Taken
    <3>2. ~(copies'[b][f] > 0)
      BY <1>1, <3>1
    <3>3. copies'[b][f] = copies[b][f]
      BY <3>1 DEF Settle, book, effect
    <3> QED
      BY <3>1, <3>3
  <2>2. ASSUME NEW b \in Bot, NEW f \in Fill, copies'[b][f] > 0
        PROVE  f \in Made(Addr[b])'
    BY <1>1, <2>2 DEF Taken, Made, Fit
  <2> QED
    BY <1>1, <2>1, <2>2 DEF Taken
<1>5. HistoryHasCause'
  <2> SUFFICES ASSUME NEW b \in Bot, NEW f \in Fill, copies'[b][f] > 0, f \notin mirrored[b]
               PROVE  \E g \in Fill : /\ copies'[b][g] > 0
                                      /\ SliceKey(g) = SliceKey(f)
                                      /\ at[g] > base[b] \/ g \in Undated
    BY <1>1 DEF HistoryHasCause, SliceKey
  <2>1. CASE copies[b][f] > 0
    BY <1>1, <2>1 DEF HistoryHasCause
  <2>2. CASE saved /\ verdict[b] = "copied" /\ f \in Elements(attempt[b])
    <3> DEFINE g == Head(attempt[b])
    <3>1. g \in Fill /\ g \in Elements(attempt[b]) /\ (at[g] > base[b] \/ g \in Undated)
      BY <1>3, <2>2
    <3>2. copies'[b][g] > 0
      BY <1>1, <2>2, <3>1
    <3>3. SliceKey(g) = SliceKey(f)
      BY <2>2, <3>1
    <3> QED
      BY <3>1, <3>2, <3>3
  <2> QED
    BY <1>1, <2>1, <2>2
<1>6. Loses
  BY <1>1, <1>2 DEF Loses
<1> QED
  BY <1>4, <1>5, <1>6

-----------------------------------------------------------------------------
(* Steps that change nothing of the one or the other half. *)

\* No copy, no seat and no fill is touched, and slices at most dropped.
LEMMA CopiesKept ==
    ASSUME HInv, UNCHANGED <<seats, base, copies, mirrored, at>>,
           \A b \in Bot : slice'[b] = <<>> \/ slice'[b] = slice[b]
    PROVE  CopyInv' /\ Loses
<1>1. Elements(<<>>) = {}
  BY OneAndNone, PolyAssumption DEF Elements
<1>2. Sliced'
  BY <1>1 DEF HInv, CopyInv, Sliced, SliceKey, Elements
<1>3. Taken' /\ HistoryHasCause'
  BY DEF HInv, CopyInv, Taken, Made, HistoryHasCause, SliceKey
<1>4. Loses
  BY DEF Loses
<1> QED
  BY <1>2, <1>3, <1>4 DEF CopyInv

\* No fill is made and nothing fetched for a sync.
LEMMA OrderKept ==
    ASSUME HInv, UNCHANGED <<at, place>>, syncing' \subseteq syncing,
           \A b \in syncing' : mirror'[b] = mirror[b]
    PROVE  OrderInv'
BY DEF HInv, OrderInv, Made, Happened

\* A reset empties a seat, and may take another time for its baseline.
LEMMA SeatsEmptied ==
    ASSUME HInv, UNCHANGED at, NEW which \in SUBSET Bot,
           \A b \in which : Emptied(b)' /\ slice'[b] = <<>>,
           \A b \in Bot \ which :
                /\ copies'[b] = copies[b] /\ mirrored'[b] = mirrored[b]
                /\ slice'[b] = slice[b] /\ base'[b] = base[b]
                /\ b \in seats => b \in seats'
    PROVE  CopyInv' /\ Loses
<1> USE DEF HInv, CopyInv
<1>1. Elements(<<>>) = {}
  BY DEF Elements
<1>2. \A b \in which : \A f \in Fill : copies'[b][f] = 0
  BY DEF Emptied, None
<1>3. Sliced'
  BY <1>1 DEF Sliced, SliceKey, Elements
<1>4. Taken' /\ HistoryHasCause'
  BY <1>2 DEF Taken, Made, HistoryHasCause, SliceKey
<1>5. Loses
  BY DEF Loses
<1> QED
  BY <1>3, <1>4, <1>5

-----------------------------------------------------------------------------
(* The actions. *)

LEMMA TradeHistory ==
    ASSUME HInv, NEW f \in Fill, Trade(f)
    PROVE  Kept
<1> USE DEF HInv, CopyInv
<1>1. /\ at \in [Fill -> Nat] /\ place \in [Fill -> Nat] /\ now \in Nat /\ now > 0
      /\ base \in [Bot -> Nat] /\ mirror \in [Bot -> SUBSET Fill] /\ syncing \subseteq Bot
  BY PolyAssumption DEF PInv, BookInv, BookOK, FeedInv, FeedOK
<1>2. /\ at[f] = 0
      /\ at' = [at EXCEPT ![f] = now]
      /\ place' = [place EXCEPT ![f] = 1 + Cardinality(Happened)]
      /\ UNCHANGED <<seats, base, copies, mirrored, slice, syncing, mirror>>
  BY DEF Trade, Happened, book, seat, effect, buffers, sync
<1>3. f \notin Happened /\ Happened' = Happened \cup {f}
  BY <1>1, <1>2 DEF Happened
<1>4. IsFiniteSet(Happened) /\ Cardinality(Happened) \in Nat
  BY PolyAssumption, FS_Subset, FS_CardinalityType DEF Happened
<1>5. Cardinality(Happened') = Cardinality(Happened) + 1
  BY <1>3, <1>4, FS_AddElement
<1>6. \A g \in Fill : g # f => at'[g] = at[g] /\ place'[g] = place[g]
  BY <1>1, <1>2
<1>7. \A w \in Wallet : Made(w) \subseteq Made(w)' /\ Made(w)' \subseteq Made(w) \cup {f}
  BY <1>1, <1>2, <1>6 DEF Made
<1>8. f \notin UNION {Made(w) : w \in Wallet}
  BY <1>2 DEF Made
<1>9. \A b \in Bot : Addr[b] \in Wallet
  BY PolyAssumption
<1>10. CopyInv'
  <2>1. Sliced'
    BY <1>2 DEF Sliced, SliceKey, Elements
  <2>2. Taken'
    BY <1>2, <1>7, <1>9 DEF Taken
  <2>3. HistoryHasCause'
    <3> SUFFICES ASSUME NEW b \in Bot, NEW g \in Fill, copies[b][g] > 0, g \notin mirrored[b]
                 PROVE  \E h \in Fill : /\ copies[b][h] > 0
                                        /\ SliceKey(h) = SliceKey(g)
                                        /\ at'[h] > base[b] \/ h \in Undated
      BY <1>2 DEF HistoryHasCause, SliceKey
    <3>1. PICK h \in Fill : /\ copies[b][h] > 0
                            /\ SliceKey(h) = SliceKey(g)
                            /\ at[h] > base[b] \/ h \in Undated
      BY DEF HistoryHasCause
    <3>2. ASSUME at[h] > base[b] PROVE at'[h] > base[b]
      <4>1. h \in Fill /\ at[h] \in Nat /\ base[b] \in Nat
        BY <1>1
      <4>2. h # f
        BY <1>2, <3>2, <4>1
      <4> QED
        BY <1>6, <3>2, <4>1, <4>2
    <3> WITNESS h \in Fill
    <3> QED
      BY <3>1, <3>2
  <2> QED
    BY <2>1, <2>2, <2>3
<1>11. OrderInv'
  <2>1. \A g \in Fill : place'[g] <= Cardinality(Happened)'
    <3> TAKE g \in Fill
    <3>1. place[g] \in Nat /\ place[g] <= Cardinality(Happened)
      BY <1>1 DEF OrderInv
    <3>2. CASE g = f
      BY <1>1, <1>2, <1>4, <1>5, <3>2
    <3>3. CASE g # f
      BY <1>4, <1>5, <1>6, <3>1, <3>3
    <3> QED
      BY <3>2, <3>3
  <2>2. ASSUME NEW b \in syncing
        PROVE  /\ mirror[b] \subseteq Made(Addr[b])'
               /\ \A g \in Made(Addr[b])' \ mirror[b] : \A h \in mirror[b] : place'[h] < place'[g]
    <3>1. mirror[b] \subseteq Made(Addr[b]) /\ Addr[b] \in Wallet
      BY <1>1, <1>9 DEF OrderInv
    <3>2. SUFFICES ASSUME NEW g \in Made(Addr[b])' \ mirror[b], NEW h \in mirror[b]
                   PROVE  place'[h] < place'[g]
      BY <1>7, <3>1
    <3>3. h # f /\ h \in Fill /\ place'[h] = place[h]
      BY <1>1, <1>6, <1>8, <3>1
    <3>4. CASE g = f
      <4>1. place'[f] = 1 + Cardinality(Happened) /\ place[h] <= Cardinality(Happened)
        BY <1>1, <1>2, <3>3 DEF OrderInv
      <4> QED
        BY <1>1, <1>4, <3>3, <3>4, <4>1
    <3>5. CASE g # f
      <4>1. g \in Made(Addr[b]) \ mirror[b] /\ g \in Fill
        BY <1>7, <3>1, <3>5 DEF Made
      <4> QED
        BY <1>6, <3>3, <3>5, <4>1 DEF OrderInv
    <3> QED
      BY <3>4, <3>5
  <2> QED
    BY <1>2, <2>1, <2>2 DEF OrderInv
<1> QED
  BY <1>2, <1>10, <1>11 DEF Kept, Loses

\* ingest_trade, from the websocket or the poll.
LEMMA IngestHistory ==
    ASSUME HInv, UNCHANGED at,
           NEW f \in Fill, at[f] > 0, NEW saved \in BOOLEAN, Ingest(f, saved)
    PROVE  CopyInv' /\ Loses
<1> USE DEF HInv, CopyInv
<1>1. CASE UNCHANGED <<book, buffers>>
  BY <1>1, CopiesKept DEF book, seat, effect, buffers
<1>2. CASE ~Known(f) /\ Matched(f) # {}
  <2>1. PICK verdict \in [Bot -> Verdict] :
            /\ \A b \in Bot : verdict[b] \in Verdicts(b, Attempt(f)[b])
            /\ Settle(Attempt(f), verdict, saved)
            /\ slice' = Buffered(f, verdict)
    BY <1>2 DEF Ingest
  <2>2. /\ Attempt(f) \in [Bot -> Seq(Fill)]
        /\ \A b \in Bot :
            /\ Fit(b, Attempt(f)[b], copies[b])
            /\ b \notin Matched(f) => Attempt(f)[b] = <<>>
    BY <1>2, AttemptFits DEF PInv
  <2>3. /\ Elements(<<f>>) = {f} /\ Elements(<<>>) = {}
        /\ \A b \in Bot : slice[b] \in Seq(Fill)
    BY OneAndNone DEF PInv, BookInv, BookOK
  <2>4. \A b \in Bot : b \notin seats => Attempt(f)[b] = <<>>
    BY <2>2 DEF Matched
  <2>5. ASSUME NEW b \in Bot
        PROVE  \A g, h \in Elements(Attempt(f)[b]) : SliceKey(g) = SliceKey(h)
    <3>1. Attempt(f)[b] \in {<<f>>, <<>>, slice[b]}
      BY DEF Attempt
    <3> QED
      BY <2>3, <3>1 DEF Sliced
  <2>6. Taken' /\ HistoryHasCause' /\ Loses
    BY <2>1, <2>2, <2>4, <2>5, SettleHistory
  <2>7. ASSUME NEW b \in Bot
        PROVE  \A g, h \in Elements(slice'[b]) : SliceKey(g) = SliceKey(h)
    <3>1. CASE slice'[b] = slice[b]
      BY <3>1 DEF Sliced
    <3>2. CASE slice'[b] = <<f>>
      BY <2>3, <3>2
    <3>3. CASE slice'[b] = Append(slice[b], f) /\ Joins(b, f, verdict)
      <4>1. Head(slice[b]) \in Elements(slice[b]) /\ SliceKey(Head(slice[b])) = SliceKey(f)
        BY <2>3, <3>3, HeadTailProperties DEF Joins, Elements
      <4>2. Elements(slice'[b]) \subseteq Elements(slice[b]) \cup {f}
        BY <2>3, <3>3, AppendProperties DEF Elements
      <4> QED
        BY <4>1, <4>2 DEF Sliced
    <3> QED
      BY <2>1, <3>1, <3>2, <3>3 DEF Buffered
  <2>8. Sliced'
    BY <2>7 DEF Sliced, SliceKey, Elements
  <2> QED
    BY <2>6, <2>8
<1> QED
  BY <1>1, <1>2 DEF Ingest

\* A flush, at the end of a poll cycle or of the process.
LEMMA FlushHistory ==
    ASSUME HInv, UNCHANGED at,
           NEW which \in SUBSET Bot, NEW verdict \in [Bot -> Verdict],
           NEW saved \in BOOLEAN, FlushSettles(which, verdict, saved),
           \A b \in Bot : slice'[b] = <<>> \/ slice'[b] = slice[b]
    PROVE  CopyInv' /\ Loses
<1> USE DEF HInv, CopyInv
<1>1. <<>> \in Seq(Fill) /\ Elements(<<>>) = {} /\ Distinct(<<>>)
  BY DEF Elements, Distinct
<1>2. \A b \in Bot : slice[b] \in Seq(Fill) /\ Fit(b, slice[b], copies[b])
  BY SlicesFit DEF PInv
<1>3. FlushAttempt(which) \in [Bot -> Seq(Fill)]
  BY <1>1, <1>2 DEF FlushAttempt
<1>4. ASSUME NEW b \in Bot
      PROVE  /\ Fit(b, FlushAttempt(which)[b], copies[b])
             /\ b \notin seats => FlushAttempt(which)[b] = <<>>
             /\ \A f, g \in Elements(FlushAttempt(which)[b]) : SliceKey(f) = SliceKey(g)
  <2>1. FlushAttempt(which)[b] = IF b \in which \cap seats THEN slice[b] ELSE <<>>
    BY DEF FlushAttempt
  <2> QED
    BY <1>1, <1>2, <2>1 DEF Fit, Sliced
<1>5. /\ \A b \in Bot : verdict[b] \in Verdicts(b, FlushAttempt(which)[b])
      /\ Settle(FlushAttempt(which), verdict, saved)
  BY DEF FlushSettles
<1>6. Taken' /\ HistoryHasCause' /\ Loses
  BY <1>3, <1>4, <1>5, SettleHistory
<1>7. Sliced'
  BY <1>1 DEF Sliced, SliceKey, Elements
<1> QED
  BY <1>6, <1>7

LEMMA ResetHistory ==
    ASSUME HInv,
           \/ EnsureBots \/ SupervisorStarts \/ ResetAll \/ ResetUnsaved
           \/ \E b \in Bot : ResetBot(b)
    PROVE  Kept
<1> USE DEF HInv
<1>1. /\ base \in [Bot -> Nat] /\ slice \in [Bot -> Seq(Fill)] /\ seats \subseteq Bot
      /\ copies \in [Bot -> [Fill -> 0 .. Many]]
      /\ settled \in [Bot -> SUBSET Fill] /\ mirrored \in [Bot -> SUBSET Fill]
  BY DEF PInv, BookInv, BookOK
<1>2. OrderInv'
  BY OrderKept DEF EnsureBots, SupervisorStarts, ResetAll, ResetUnsaved, ResetBot, market, sync
<1>3. CASE EnsureBots \/ (SupervisorStarts /\ SeatsForAll)
  <2>1. /\ UNCHANGED <<copies, mirrored, slice, at>>
        /\ seats' = Bot
        /\ \A b \in seats : base'[b] = base[b]
    BY <1>1, <1>3 DEF EnsureBots, SupervisorStarts, SeatsForAll, effect, buffers, market
  <2>2. Sliced' /\ Taken'
    BY <2>1 DEF CopyInv, Sliced, SliceKey, Elements, Taken, Made
  <2>3. HistoryHasCause'
    <3> SUFFICES ASSUME NEW b \in Bot, NEW f \in Fill, copies[b][f] > 0, f \notin mirrored[b]
                 PROVE  \E g \in Fill : /\ copies[b][g] > 0
                                        /\ SliceKey(g) = SliceKey(f)
                                        /\ at[g] > base'[b] \/ g \in Undated
      BY <2>1 DEF HistoryHasCause, SliceKey
    <3>1. b \in seats
      BY <1>1 DEF CopyInv, Taken
    <3> QED
      BY <2>1, <3>1 DEF CopyInv, HistoryHasCause
  <2> QED
    BY <1>2, <2>1, <2>2, <2>3 DEF Kept, CopyInv, Loses
<1>4. CASE ResetAll
  <2>1. /\ UNCHANGED <<at, base>>
        /\ \A b \in Bot : Emptied(b)' /\ slice'[b] = <<>>
    BY <1>4 DEF ResetAll, DropSlices, Emptied, None, market
  <2> QED
    BY <1>2, <2>1, SeatsEmptied DEF Kept
<1>5. CASE ResetUnsaved
  <2>1. UNCHANGED <<seats, base, copies, mirrored, at>>
    BY <1>5 DEF ResetUnsaved, book, seat, effect, market
  <2>2. \A b \in Bot : slice'[b] = <<>> \/ slice'[b] = slice[b]
    BY <1>5 DEF ResetUnsaved, DropSlices
  <2> QED
    BY <1>2, <2>1, <2>2, CopiesKept DEF Kept
<1>6. ASSUME NEW b \in Bot, ResetBot(b) PROVE Kept
  <2>1. UNCHANGED <<at, seats>>
    BY <1>6 DEF ResetBot, market
  <2>2. Emptied(b)' /\ slice'[b] = <<>>
    BY <1>1, <1>6 DEF ResetBot, EmptySeat, DropSlices, Emptied, None
  <2>3. \A c \in Bot \ {b} :
            /\ copies'[c] = copies[c] /\ mirrored'[c] = mirrored[c]
            /\ slice'[c] = slice[c] /\ base'[c] = base[c]
    BY <1>1, <1>6 DEF ResetBot, EmptySeat, DropSlices
  <2> DEFINE which == {b}
  <2>4. which \in SUBSET Bot /\ \A c \in which : Emptied(c)' /\ slice'[c] = <<>>
    BY <2>2
  <2>5. \A c \in Bot \ which :
            /\ copies'[c] = copies[c] /\ mirrored'[c] = mirrored[c]
            /\ slice'[c] = slice[c] /\ base'[c] = base[c]
            /\ c \in seats => c \in seats'
    BY <2>1, <2>3
  <2> HIDE DEF which
  <2>6. CopyInv' /\ Loses
    BY <2>1, <2>4, <2>5, SeatsEmptied
  <2> QED
    BY <1>2, <2>6 DEF Kept
<1>7. CASE SupervisorStarts /\ UNCHANGED <<seats, base>>
  <2>1. UNCHANGED <<seats, base, copies, mirrored, at, slice>>
    BY <1>7 DEF SupervisorStarts, effect, buffers, market
  <2> QED
    BY <1>2, <2>1, CopiesKept DEF Kept
<1> QED
  BY <1>3, <1>4, <1>5, <1>6, <1>7 DEF SupervisorStarts

LEMMA SyncHistory ==
    ASSUME HInv, NEW b \in Bot, SyncRead(b) \/ SyncVoid(b) \/ SyncWrite(b)
    PROVE  Kept
<1> USE DEF HInv, CopyInv
<1>1. /\ mirror \in [Bot -> SUBSET Fill] /\ syncing \subseteq Bot
      /\ slice \in [Bot -> Seq(Fill)]
      /\ copies \in [Bot -> [Fill -> 0 .. Many]] /\ mirrored \in [Bot -> SUBSET Fill]
  BY DEF PInv, FeedInv, FeedOK, BookInv, BookOK
<1>2. CASE SyncRead(b)
  <2>1. /\ UNCHANGED <<at, place, seats, base, copies, mirrored, slice>>
        /\ syncing' = syncing \cup {b}
        /\ mirror' = [mirror EXCEPT ![b] = Made(Addr[b])]
    BY <1>2 DEF SyncRead, market, book, seat, effect, buffers
  <2>2. \A c \in Bot : mirror'[c] = IF c = b THEN Made(Addr[b]) ELSE mirror[c]
    BY <1>1, <2>1
  <2>3. Made(Addr[b])' = Made(Addr[b]) /\ Happened' = Happened
    BY <2>1 DEF Made, Happened
  <2>4. \A c \in syncing' : c # b => c \in syncing /\ mirror'[c] = mirror[c]
    BY <1>1, <2>1, <2>2
  <2>5. \A c \in syncing' :
            /\ mirror'[c] \subseteq Made(Addr[c])
            /\ \A f \in Made(Addr[c]) \ mirror'[c] :
                    \A g \in mirror'[c] : place[g] < place[f]
    BY <2>2, <2>4 DEF OrderInv
  <2>6. OrderInv'
    BY <2>1, <2>3, <2>5 DEF OrderInv, Made, Happened
  <2> QED
    BY <2>1, <2>6, CopiesKept DEF Kept
<1>3. CASE SyncVoid(b)
  <2>1. /\ UNCHANGED <<at, place, seats, base, copies, mirrored, slice>>
        /\ syncing' = syncing \ {b}
        /\ mirror' = [mirror EXCEPT ![b] = {}]
    BY <1>3 DEF SyncVoid, SyncEnds, market, effect, buffers
  <2> QED
    BY <1>1, <2>1, CopiesKept, OrderKept DEF Kept
<1>4. CASE SyncWrite(b)
  <2>1. /\ UNCHANGED <<at, place>>
        /\ b \in syncing /\ b \in seats
        /\ syncing' = syncing \ {b}
        /\ mirror' = [mirror EXCEPT ![b] = {}]
        /\ \A c \in Bot : slice'[c] = IF c = b THEN <<>> ELSE slice[c]
    BY <1>4 DEF SyncWrite, SyncEnds, DropSlices, market
  <2>2. OrderInv'
    BY <1>1, <2>1, OrderKept
  <2>3. CASE UNCHANGED book
    BY <2>1, <2>2, <2>3, CopiesKept DEF Kept, book, seat, effect
  <2>4. CASE /\ copies' = [copies EXCEPT ![b] = [f \in Fill |-> IF f \in mirror[b] THEN 1 ELSE 0]]
             /\ mirrored' = [mirrored EXCEPT ![b] = mirror[b]]
             /\ UNCHANGED <<seats, base>>
    <3>1. /\ mirrored'[b] = mirror[b]
          /\ \A f \in Fill : copies'[b][f] = IF f \in mirror[b] THEN 1 ELSE 0
      BY <1>1, <2>4
    <3>2. \A c \in Bot : c # b => copies'[c] = copies[c] /\ mirrored'[c] = mirrored[c]
      BY <1>1, <2>4
    <3>3. mirror[b] \subseteq Made(Addr[b])
      BY <2>1 DEF OrderInv
    <3>4. Elements(<<>>) = {}
      BY DEF Elements
    <3>5. Sliced'
      BY <2>1, <3>4 DEF Sliced, SliceKey, Elements
    <3>6. Taken'
      BY <2>1, <2>4, <3>1, <3>2, <3>3 DEF Taken, Made
    <3>7. HistoryHasCause'
      BY <2>1, <2>4, <3>1, <3>2 DEF HistoryHasCause, SliceKey
    <3>8. Loses
      BY <2>1, <3>1, <3>2 DEF Loses, Taken, OrderInv
    <3> QED
      BY <2>2, <3>5, <3>6, <3>7, <3>8 DEF Kept
  <2> QED
    BY <1>4, <2>3, <2>4 DEF SyncWrite
<1> QED
  BY <1>2, <1>3, <1>4

\* Delivery, poll and flush, and the end of the process.
LEMMA FeedHistory ==
    ASSUME HInv, WsDeliver \/ Poll \/ Crash \/ Stop
    PROVE  Kept
<1> USE DEF HInv
<1>1. /\ ws \in Seq(Fill) /\ rows \subseteq Fill
      /\ \A f \in rows \cup Elements(ws) : at[f] > 0
  BY DEF PInv, FeedInv, FeedOK, Sent
<1>2. CASE WsDeliver
  <2>1. Head(ws) \in Fill /\ at[Head(ws)] > 0
    BY <1>1, <1>2, HeadTailProperties DEF WsDeliver, Elements
  <2>2. PICK saved \in BOOLEAN : Ingest(Head(ws), saved)
    BY <1>2 DEF WsDeliver
  <2>3. UNCHANGED <<at, place, syncing, mirror>>
    BY <1>2 DEF WsDeliver, sync
  <2> QED
    BY <2>1, <2>2, <2>3, IngestHistory, OrderKept DEF Kept
<1>3. CASE PollIngest
  <2>1. PICK f \in rows, saved \in BOOLEAN : Ingest(f, saved)
    BY <1>3 DEF PollIngest
  <2>2. UNCHANGED <<at, place, syncing, mirror>>
    BY <1>3 DEF PollIngest, market, sync
  <2> QED
    BY <1>1, <2>1, <2>2, IngestHistory, OrderKept DEF Kept
<1>4. CASE PollStart \/ PollFails \/ \E b \in Bot : PollFetch(b)
  <2>1. UNCHANGED <<at, place, syncing, mirror, seats, base, copies, mirrored, slice>>
    BY <1>4 DEF PollStart, PollFails, PollFetch, market, sync, book, seat, effect, buffers
  <2> QED
    BY <2>1, CopiesKept, OrderKept DEF Kept
<1>5. CASE PollFlush
  <2>1. PICK saved \in BOOLEAN, verdict \in [Bot -> Verdict] :
            /\ FlushSettles({b \in Bot : Expired(b)}, verdict, saved)
            /\ \A b \in Bot : slice'[b] = <<>> \/ slice'[b] = slice[b]
    BY <1>5 DEF PollFlush, FlushExpired
  <2>2. UNCHANGED <<at, place, syncing, mirror>>
    BY <1>5 DEF PollFlush, market, sync
  <2>3. {b \in Bot : Expired(b)} \in SUBSET Bot
    OBVIOUS
  <2> QED
    BY <2>1, <2>2, <2>3, FlushHistory, OrderKept DEF Kept
<1>6. CASE Crash \/ Stop
  <2>1. /\ UNCHANGED <<at, place>> /\ syncing' = {}
        /\ \A b \in Bot : slice'[b] = <<>>
    BY <1>6 DEF Crash, Stop, Forget
  <2>2. OrderInv'
    BY <2>1, OrderKept
  <2>3. CASE Crash
    BY <2>1, <2>2, <2>3, CopiesKept DEF Kept, Crash, book, seat, effect
  <2>4. CASE Stop
    <3>1. PICK saved \in BOOLEAN, verdict \in [Bot -> Verdict] :
            FlushSettles(Bot, verdict, saved)
      BY <2>4 DEF Stop
    <3> QED
      BY <2>1, <2>2, <3>1, FlushHistory DEF Kept
  <2> QED
    BY <1>6, <2>3, <2>4
<1> QED
  BY <1>2, <1>3, <1>4, <1>5, <1>6 DEF Poll

LEMMA QuietHistory ==
    ASSUME HInv,
           \/ Tick \/ WsLose \/ UNCHANGED vars
           \/ \E b \in Bot : GoQuiet(b) \/ Refresh(b) \/ RefreshToNothing(b)
    PROVE  Kept
<1>1. UNCHANGED <<at, place, syncing, mirror, seats, base, copies, mirrored, slice>>
  BY DEF Tick, WsLose, GoQuiet, Refresh, RefreshToNothing, vars, market, sync, book, seat,
         effect, buffers
<1> QED
  BY <1>1, CopiesKept, OrderKept DEF Kept

-----------------------------------------------------------------------------
(* The invariant and what follows from it. *)

LEMMA InitHistory == Init => HInv
<1> SUFFICES ASSUME Init PROVE HInv
  OBVIOUS
<1>1. PInv
  BY InitInvariant
<1>2. Elements(<<>>) = {} /\ Happened = {} /\ Cardinality({}) = 0
  BY FS_EmptySet DEF Init, Elements, Happened, None
<1>3. CopyInv
  BY <1>2 DEF Init, CopyInv, Sliced, Taken, HistoryHasCause, None
<1>4. OrderInv
  BY <1>2 DEF Init, OrderInv, None
<1> QED
  BY <1>1, <1>3, <1>4 DEF HInv

LEMMA StepHistory == HInv /\ [Next]_vars => HInv' /\ Loses
<1> SUFFICES ASSUME HInv, [Next]_vars PROVE HInv' /\ Loses
  OBVIOUS
<1>1. PInv'
  BY StepInvariant DEF HInv
<1>2. CASE UNCHANGED vars
  BY <1>1, <1>2, QuietHistory DEF HInv, Kept
<1>3. CASE Next
  <2>1. Kept
    BY <1>3, TradeHistory, ResetHistory, SyncHistory, FeedHistory, QuietHistory DEF Next
  <2> QED
    BY <1>1, <2>1 DEF HInv, Kept
<1> QED
  BY <1>2, <1>3

THEOREM HInvariant == Spec => []HInv
<1>1. HInv /\ [Next]_vars => HInv'
  BY StepHistory
<1> QED
  BY <1>1, InitHistory, PTL DEF Spec

\* What _apply_to_bot judges by the time of the first fill of a slice, and what
\* sync_leader_positions brings in, is all of a leader's past that can get into
\* a position; resets, restarts and late messages bring in none.
THEOREM PolyHistoryHasCause == Spec => []HistoryHasCause
<1>1. HInv => HistoryHasCause
  BY DEF HInv, CopyInv
<1> QED
  BY <1>1, HInvariant, PTL

\* The write of sync_leader_positions, made from positions that were fetched
\* before the lock was taken, costs a seat no fill that was made before the
\* fetch; nothing else but a reset costs it any.
THEOREM PolySyncLosesNewer == Spec => SyncLosesNewer
<1>1. HInv /\ [Next]_vars =>
        [\A b \in Bot, f \in Fill :
            copies[b][f] > 0 /\ copies'[b][f] = 0 =>
                \/ Emptied(b)'
                \/ b \in syncing /\ \A g \in mirror[b] : place[g] < place[f]]_vars
  BY StepHistory DEF Loses
<1> QED
  BY <1>1, HInvariant, PTL DEF Spec, SyncLosesNewer
=============================================================================
