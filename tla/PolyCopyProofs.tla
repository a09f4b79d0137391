--------------------------- MODULE PolyCopyProofs ---------------------------
(***************************************************************************)
(* The safety properties of PolyCopy for every number of leaders, seats    *)
(* and fills, every length of the list of seen fills and any faults.       *)
(***************************************************************************)
EXTENDS PolyCopy, FiniteSetTheorems, SequenceTheorems, TLAPS

Distinct(q) == \A i, j \in DOMAIN q : q[i] = q[j] => i = j
Excused(b) == evicted \cup mirrored[b]

\* TypeOK in two parts: the book with its buffers, and the rest.
BookOK ==
    /\ seats \subseteq Bot
    /\ base \in [Bot -> Nat]
    /\ valued \subseteq seats
    /\ seen \in Seq(Fill)
    /\ Len(seen) <= Keep
    /\ Distinct(seen)
    /\ copies \in [Bot -> [Fill -> 0 .. Many]]
    /\ slice \in [Bot -> Seq(Fill)]
    /\ quiet \subseteq Bot
    /\ settled \in [Bot -> SUBSET Fill]
    /\ mirrored \in [Bot -> SUBSET Fill]
    /\ evicted \subseteq Fill
    /\ faults \in Nat

FeedOK ==
    /\ now \in 1 .. MaxTime + 1
    /\ at \in [Fill -> Nat]
    /\ place \in [Fill -> Nat]
    /\ ws \in Seq(Fill)
    /\ thread \in {"starting", "up", "ended"}
    /\ polling \in BOOLEAN
    /\ due \subseteq Bot
    /\ rows \subseteq Fill
    /\ syncing \subseteq Bot
    /\ mirror \in [Bot -> SUBSET Fill]
    /\ crashes \in Nat
    /\ requests \in Nat

\* What was seen, buffered, read or sent has happened, to the leader of the
\* seat that holds it, and not later than now.
Past ==
    /\ \A f \in Fill : at[f] <= now
    /\ \A b \in Bot : base[b] <= now
    /\ \A f \in Seen : at[f] > 0
    /\ \A b \in Bot : \A f \in Elements(slice[b]) : at[f] > 0 /\ Of[f] = Addr[b]

Sent == \A f \in rows \cup Elements(ws) : at[f] > 0

\* A fill in a position is remembered, or there is an excuse; one that is in
\* a position and in a slice has an excuse, and is in the slice once.
Remembered ==
    \A b \in Bot :
        /\ Distinct(slice[b])
        /\ \A f \in Fill : copies[b][f] > 0 => f \in Seen \cup Excused(b)
        /\ \A f \in Elements(slice[b]) : copies[b][f] > 0 => f \in Excused(b)
        /\ \A f \in Fill : copies[b][f] > 1 => f \in Excused(b)

\* The fills of q may be applied to seat b, whose position holds `held`.
Fit(b, q, held) ==
    /\ Distinct(q)
    /\ \A f \in Elements(q) :
        /\ at[f] > 0
        /\ Of[f] = Addr[b]
        /\ held[f] > 0 => f \in Excused(b)

BookInv == BookOK /\ Past /\ SeenIsSettled /\ Remembered
FeedInv == FeedOK /\ Sent
PInv == BookInv /\ FeedInv

-----------------------------------------------------------------------------
(* Sequences and the operators of the model. *)

LEMMA ElementsOfSeq ==
    ASSUME NEW S, NEW q \in Seq(S)
    PROVE  Elements(q) \subseteq S
BY DEF Elements

LEMMA OneAndNone ==
    ASSUME NEW f \in Fill
    PROVE  /\ <<f>> \in Seq(Fill) /\ Distinct(<<f>>) /\ Elements(<<f>>) = {f}
           /\ <<>> \in Seq(Fill) /\ Distinct(<<>>) /\ Elements(<<>>) = {}
<1>1. <<f>> \in Seq(Fill) /\ DOMAIN <<f>> = {1} /\ <<f>>[1] = f
  OBVIOUS
<1>2. <<>> \in Seq(Fill) /\ DOMAIN <<>> = {}
  OBVIOUS
<1> QED
  BY <1>1, <1>2 DEF Distinct, Elements

LEMMA DistinctAppend ==
    ASSUME NEW q \in Seq(Fill), NEW f \in Fill, Distinct(q), f \notin Elements(q)
    PROVE  /\ Distinct(Append(q, f))
           /\ Elements(Append(q, f)) = Elements(q) \cup {f}
<1>1. /\ DOMAIN Append(q, f) = 1 .. Len(q) + 1
      /\ DOMAIN q = 1 .. Len(q)
      /\ Len(q) \in Nat
      /\ \A i \in 1 .. Len(q) : Append(q, f)[i] = q[i]
      /\ Append(q, f)[Len(q) + 1] = f
  BY AppendProperties
<1> QED
  BY <1>1 DEF Distinct, Elements

LEMMA TimesDistinct ==
    ASSUME NEW f, NEW q, Distinct(q)
    PROVE  /\ Times(f, q) \in {0, 1}
           /\ f \notin Elements(q) => Times(f, q) = 0
<1> DEFINE I == {i \in DOMAIN q : q[i] = f}
<1>1. CASE I = {}
  BY <1>1, FS_EmptySet DEF Times
<1>2. CASE I # {}
  <2>1. PICK i \in I : TRUE
    BY <1>2
  <2>2. I = {i}
    BY <2>1 DEF Distinct
  <2> QED
    BY <2>1, <2>2, FS_Singleton DEF Times, Elements
<1> QED
  BY <1>1, <1>2

\* An order of a set is a sequence of its members, each once.
LEMMA OrderOfSet ==
    ASSUME NEW fills \in SUBSET Fill, NEW q \in Orders(fills)
    PROVE  /\ q \in Seq(Fill)
           /\ Distinct(q)
           /\ Elements(q) = fills
<1>1. Cardinality(fills) \in Nat
  BY PolyAssumption, FS_Subset, FS_CardinalityType
<1>2. DOMAIN q = 1 .. Cardinality(fills) /\ \A i \in DOMAIN q : q[i] \in fills
  BY DEF Orders
<1>3. q \in Seq(Fill)
  BY <1>1, IsASeq DEF Orders
<1>4. \A f \in fills : \E i \in DOMAIN q : \A j \in DOMAIN q : q[j] = f <=> j = i
  BY DEF Orders
<1> QED
  BY <1>2, <1>3, <1>4 DEF Elements, Distinct

\* _mark_seen forgets nothing but what it drops from the list.
LEMMA RememberKeeps ==
    ASSUME BookOK, NEW fills \in SUBSET Fill, Remember(fills)
    PROVE  /\ seen' \in Seq(Fill)
           /\ Len(seen') <= Keep
           /\ Distinct(seen')
           /\ Seen' \subseteq Seen \cup fills
           /\ evicted' \subseteq Fill
           /\ evicted \subseteq evicted'
           /\ Seen \cup fills \subseteq Seen' \cup evicted'
<1>1. PICK fresh \in Orders(fills \ Seen) :
        LET all == seen \o fresh
            excess == IF Len(all) > Keep THEN Len(all) - Keep ELSE 0
        IN  /\ seen' = SubSeq(all, excess + 1, Len(all))
            /\ evicted' = evicted \cup Elements(SubSeq(all, 1, excess))
  BY DEF Remember
<1> DEFINE all == seen \o fresh
           excess == IF Len(all) > Keep THEN Len(all) - Keep ELSE 0
<1>2. fresh \in Seq(Fill) /\ Distinct(fresh) /\ Elements(fresh) = fills \ Seen
  BY OrderOfSet
<1>3. seen \in Seq(Fill) /\ Len(seen) <= Keep /\ Distinct(seen) /\ Keep \in Nat
  BY PolyAssumption DEF BookOK
<1>4. /\ all \in Seq(Fill)
      /\ Len(all) = Len(seen) + Len(fresh)
      /\ \A i \in 1 .. Len(all) :
            all[i] = IF i <= Len(seen) THEN seen[i] ELSE fresh[i - Len(seen)]
  BY <1>2, <1>3, ConcatProperties
<1>5. Distinct(all) /\ Elements(all) = Seen \cup fills
  <2>1. \A i \in 1 .. Len(all) : i > Len(seen) => fresh[i - Len(seen)] \notin Seen
    BY <1>2, <1>3, <1>4 DEF Elements
  <2>2. Distinct(all)
    <3> SUFFICES ASSUME NEW i \in 1 .. Len(all), NEW j \in 1 .. Len(all), all[i] = all[j]
                 PROVE  i = j
      BY <1>4 DEF Distinct
    <3>1. CASE i <= Len(seen) /\ j <= Len(seen)
      BY <1>3, <1>4, <3>1 DEF Distinct
    <3>2. CASE i > Len(seen) /\ j > Len(seen)
      <4>1. fresh[i - Len(seen)] = fresh[j - Len(seen)]
        BY <1>3, <1>4, <3>2
      <4>2. i - Len(seen) \in DOMAIN fresh /\ j - Len(seen) \in DOMAIN fresh
        BY <1>2, <1>3, <1>4, <3>2
      <4> QED
        BY <1>2, <1>3, <4>1, <4>2 DEF Distinct
    <3>3. CASE i <= Len(seen) /\ j > Len(seen)
      BY <1>3, <1>4, <2>1, <3>3 DEF Seen, Elements
    <3>4. CASE i > Len(seen) /\ j <= Len(seen)
      BY <1>3, <1>4, <2>1, <3>4 DEF Seen, Elements
    <3> QED
      BY <1>3, <3>1, <3>2, <3>3, <3>4
  <2>3. Elements(all) \subseteq Seen \cup fills
    BY <1>2, <1>3, <1>4 DEF Seen, Elements
  <2>4. Seen \subseteq Elements(all)
    BY <1>2, <1>3, <1>4 DEF Seen, Elements
  <2>5. ASSUME NEW f \in fills \ Seen PROVE f \in Elements(all)
    <3>1. PICK k \in 1 .. Len(fresh) : fresh[k] = f
      BY <1>2 DEF Elements
    <3>2. k + Len(seen) \in 1 .. Len(all) /\ all[k + Len(seen)] = f
      BY <1>2, <1>3, <1>4, <3>1
    <3> QED
      BY <1>4, <3>2 DEF Elements
  <2> QED
    BY <2>2, <2>3, <2>4, <2>5
<1>6. excess \in 0 .. Len(all) /\ Len(all) - excess <= Keep
  BY <1>2, <1>3, <1>4
<1>7. /\ seen' \in Seq(Fill)
      /\ Len(seen') = Len(all) - excess
      /\ \A i \in 1 .. Len(seen') : seen'[i] = all[excess + i]
  <2>1. seen' = SubSeq(all, excess + 1, Len(all))
    BY <1>1
  <2> HIDE DEF all, excess
  <2>2. excess + 1 \in 1 .. Len(all) + 1 /\ Len(all) \in Nat
    BY <1>4, <1>6
  <2>3. /\ seen' \in Seq(Fill)
        /\ Len(seen') = IF excess + 1 <= Len(all) THEN Len(all) - (excess + 1) + 1 ELSE 0
        /\ \A i \in 1 .. Len(all) - (excess + 1) + 1 : seen'[i] = all[excess + 1 + i - 1]
    BY <1>4, <2>1, <2>2, SubSeqProperties
  <2> QED
    BY <1>6, <2>2, <2>3
<1> DEFINE dropped == SubSeq(all, 1, excess)
<1>8. /\ dropped \in Seq(Fill)
      /\ Len(dropped) = excess
      /\ \A i \in 1 .. excess : dropped[i] = all[i]
  BY <1>4, <1>6, SubSeqProperties
<1>9. evicted' = evicted \cup Elements(dropped)
  BY <1>1
<1> HIDE DEF all, excess, dropped
<1>10. Distinct(seen')
  <2> SUFFICES ASSUME NEW i \in 1 .. Len(seen'), NEW j \in 1 .. Len(seen'), seen'[i] = seen'[j]
               PROVE  i = j
    BY <1>7 DEF Distinct
  <2>1. excess + i \in DOMAIN all /\ excess + j \in DOMAIN all
    BY <1>4, <1>6, <1>7
  <2>2. all[excess + i] = all[excess + j]
    BY <1>7
  <2> QED
    BY <1>5, <1>6, <2>1, <2>2 DEF Distinct
<1>11. Seen' \subseteq Elements(all)
  <2> SUFFICES ASSUME NEW i \in 1 .. Len(seen') PROVE seen'[i] \in Elements(all)
    BY <1>7 DEF Seen, Elements
  <2>1. excess + i \in DOMAIN all /\ seen'[i] = all[excess + i]
    BY <1>4, <1>6, <1>7
  <2> QED
    BY <2>1 DEF Elements
<1>12. ASSUME NEW i \in 1 .. Len(all)
       PROVE  all[i] \in Seen' \cup Elements(dropped)
  <2>1. CASE i <= excess
    <3>1. i \in DOMAIN dropped /\ dropped[i] = all[i]
      BY <1>6, <1>8, <2>1
    <3> QED
      BY <3>1 DEF Elements
  <2>2. CASE i > excess
    <3>1. i - excess \in DOMAIN seen' /\ seen'[i - excess] = all[i]
      BY <1>4, <1>6, <1>7, <2>2
    <3> QED
      BY <3>1 DEF Seen, Elements
  <2> QED
    BY <1>4, <1>6, <2>1, <2>2
<1>13. Elements(all) \subseteq Seen' \cup Elements(dropped)
  <2>1. DOMAIN all = 1 .. Len(all)
    BY <1>4
  <2> QED
    BY <1>12, <2>1 DEF Elements
<1>14. evicted' \subseteq Fill
  BY <1>8, <1>9, ElementsOfSeq DEF BookOK
<1> QED
  BY <1>5, <1>6, <1>7, <1>9, <1>10, <1>11, <1>13, <1>14

\* What a settlement leaves of the book: where copies grew, or the list of seen
\* fills lost something, there is a reason.
Settled(attempt, verdict, saved) ==
    /\ seats' = seats /\ base' = base /\ valued' = valued /\ mirrored' = mirrored
    /\ seen' \in Seq(Fill) /\ Len(seen') <= Keep /\ Distinct(seen')
    /\ evicted' \subseteq Fill /\ evicted \subseteq evicted'
    /\ copies' \in [Bot -> [Fill -> 0 .. Many]]
    /\ settled' \in [Bot -> SUBSET Fill]
    /\ faults' \in Nat
    /\ \A f \in Seen' : f \in Seen \/ at[f] > 0
    /\ \A b \in Bot, f \in Fill :
         f \notin Elements(attempt[b]) => copies'[b][f] = copies[b][f]
    /\ \A b \in Bot : verdict[b] \notin Applied => copies'[b] = copies[b]
    /\ ~saved => copies' = copies
    /\ \A b \in Bot, f \in Fill :
         /\ copies'[b][f] > 0 => f \in Seen' \cup evicted' \cup mirrored[b]
         /\ copies'[b][f] > 1 => f \in evicted' \cup mirrored[b]
    /\ \A b \in seats : SoleSeat(b) =>
         \A f \in Seen' : New(b, f) => f \in settled'[b]

\* Where copies grew, or what the list of seen fills lost, there is a reason.
LEMMA SettleKeeps ==
    ASSUME BookInv,
           NEW attempt \in [Bot -> Seq(Fill)], NEW verdict \in [Bot -> Verdict],
           NEW saved \in BOOLEAN, Settle(attempt, verdict, saved),
           \A b \in Bot : Fit(b, attempt[b], copies[b])
    PROVE  Settled(attempt, verdict, saved)
<1>1. CASE ~saved
  BY <1>1 DEF Settled, Settle, Faulty, book, seat, effect, dedupe, BookInv, BookOK, Past,
              SeenIsSettled, Remembered, Excused, Distinct, Seen, Many
<1>2. CASE saved
  <2> DEFINE fills == UNION {Elements(attempt[b]) : b \in {c \in Bot : verdict[c] \in Final}}
  <2>1. /\ Fine
        /\ copies' = [b \in Bot |-> [f \in Fill |->
                        IF verdict[b] = "copied"
                        THEN UpToMany(copies[b][f] + Times(f, attempt[b]))
                        ELSE copies[b][f]]]
        /\ settled' = [b \in Bot |->
                        IF verdict[b] \in Applied
                        THEN settled[b] \cup Elements(attempt[b])
                        ELSE settled[b]]
        /\ Remember(fills)
        /\ UNCHANGED <<seat, mirrored>>
    BY <1>2 DEF Settle
  <2>2. \A b \in Bot : Elements(attempt[b]) \subseteq Fill
    BY ElementsOfSeq
  <2>3. fills \in SUBSET Fill
    BY <2>2
  <2>4. /\ seen' \in Seq(Fill)
        /\ Len(seen') <= Keep
        /\ Distinct(seen')
        /\ Seen' \subseteq Seen \cup fills
        /\ evicted' \subseteq Fill
        /\ evicted \subseteq evicted'
        /\ Seen \cup fills \subseteq Seen' \cup evicted'
    BY <2>1, <2>3, RememberKeeps DEF BookInv
  <2>5. \A b \in Bot, f \in Fill :
            /\ Times(f, attempt[b]) \in {0, 1}
            /\ f \notin Elements(attempt[b]) => Times(f, attempt[b]) = 0
    BY TimesDistinct DEF Fit
  <2>6. \A b \in Bot, f \in Fill :
            copies'[b][f] = IF verdict[b] = "copied"
                            THEN UpToMany(copies[b][f] + Times(f, attempt[b]))
                            ELSE copies[b][f]
    BY <2>1
  <2>7. \A b \in Bot, f \in Fill : copies[b][f] \in 0 .. 2
    BY DEF BookInv, BookOK, Many
  <2>8. \A b \in Bot, f \in Fill :
            /\ copies'[b][f] \in 0 .. 2
            /\ f \notin Elements(attempt[b]) => copies'[b][f] = copies[b][f]
            /\ copies'[b][f] > 0 =>
                    copies[b][f] > 0 \/ (verdict[b] = "copied" /\ f \in Elements(attempt[b]))
            /\ copies'[b][f] > 1 =>
                    copies[b][f] > 1 \/ (copies[b][f] > 0 /\ f \in Elements(attempt[b]))
    <3> TAKE b \in Bot, f \in Fill
    <3> DEFINE n == copies[b][f]
               m == copies'[b][f]
               t == Times(f, attempt[b])
    <3>1. t \in {0, 1} /\ (f \notin Elements(attempt[b]) => t = 0)
      BY <2>5
    <3>2. n \in 0 .. 2
      BY <2>7
    <3>3. IF verdict[b] = "copied" THEN m = (IF n + t < 2 THEN n + t ELSE 2) ELSE m = n
      BY <2>6 DEF UpToMany, Many
    <3> HIDE DEF n, m, t
    <3>4. /\ m \in 0 .. 2
          /\ t = 0 => m = n
          /\ m > 0 => n > 0 \/ (verdict[b] = "copied" /\ t = 1)
          /\ m > 1 => n > 1 \/ (n > 0 /\ t = 1)
      BY <3>1, <3>2, <3>3
    <3> QED
      BY <3>1, <3>4 DEF n, m, t
  <2>9. copies' \in [Bot -> [Fill -> 0 .. Many]] /\ settled' \in [Bot -> SUBSET Fill]
    BY <2>1, <2>2, <2>8 DEF BookInv, BookOK, Many
  <2>10. \A b \in Bot : verdict[b] \notin Applied => copies'[b] = copies[b]
    BY <2>1 DEF BookInv, BookOK, Applied
  <2>11. \A b \in Bot, f \in Fill :
            verdict[b] = "copied" /\ f \in Elements(attempt[b]) => f \in fills
    BY DEF Final, Applied
  <2>12. \A f \in fills : at[f] > 0
    BY DEF Fit
  <2>13. \A b \in seats : SoleSeat(b) =>
            \A f \in Seen' : New(b, f) => f \in settled'[b]
    <3> SUFFICES ASSUME NEW b \in seats, SoleSeat(b), NEW f \in Seen', New(b, f)
                 PROVE  f \in settled'[b]
      OBVIOUS
    <3>1. b \in Bot /\ settled[b] \subseteq settled'[b]
      BY <2>1 DEF BookInv, BookOK
    <3>2. CASE f \in Seen
      BY <3>1, <3>2 DEF BookInv, SeenIsSettled
    <3>3. CASE f \in fills
      <4>1. PICK c \in Bot : verdict[c] \in Final /\ f \in Elements(attempt[c])
        BY <3>3
      <4>2. c = b
        BY <4>1 DEF SoleSeat, New, Fit
      <4> QED
        BY <2>1, <3>1, <4>1, <4>2 DEF Final
    <3> QED
      BY <2>4, <3>2, <3>3
  <2> HIDE DEF fills
  <2>14. \A b \in Bot, f \in Fill :
            /\ copies'[b][f] > 0 => f \in Seen' \cup evicted' \cup mirrored[b]
            /\ copies'[b][f] > 1 => f \in evicted' \cup mirrored[b]
    BY <2>4, <2>8, <2>11 DEF BookInv, Remembered, Excused, Fit
  <2> QED
    BY <1>2, <2>1, <2>4, <2>8, <2>9, <2>10, <2>12, <2>13, <2>14
       DEF Settled, Fine, seat, BookInv, BookOK
<1> QED
  BY <1>1, <1>2

\* What is left in the slices decides whether the book stays in order.
LEMMA SettledBook ==
    ASSUME BookInv, UNCHANGED <<now, at>>,
           NEW attempt \in [Bot -> Seq(Fill)], NEW verdict \in [Bot -> Verdict],
           NEW saved \in BOOLEAN, Settle(attempt, verdict, saved),
           \A b \in Bot : Fit(b, attempt[b], copies[b]),
           slice' \in [Bot -> Seq(Fill)], quiet' \subseteq Bot,
           \A b \in Bot : Fit(b, slice'[b], copies'[b])
    PROVE  BookInv'
<1>1. Settled(attempt, verdict, saved)
  BY SettleKeeps
<1>2. BookOK'
  BY <1>1 DEF Settled, BookInv, BookOK
<1>3. Past'
  <2>1. \A f \in Seen' : at[f] > 0
    BY <1>1 DEF Settled, BookInv, Past
  <2> QED
    BY <1>1, <2>1 DEF Settled, BookInv, Past, Fit
<1>4. SeenIsSettled'
  BY <1>1 DEF Settled, SeenIsSettled, New, SoleSeat
<1>5. Remembered'
  BY <1>1 DEF Settled, Remembered, Excused, Fit
<1> QED
  BY <1>2, <1>3, <1>4, <1>5 DEF BookInv

\* What lies in the slices may be applied.
LEMMA SlicesFit ==
    ASSUME BookInv
    PROVE  \A b \in Bot :
                /\ slice[b] \in Seq(Fill)
                /\ Elements(slice[b]) \subseteq Fill
                /\ Fit(b, slice[b], copies[b])
<1>1. \A b \in Bot : slice[b] \in Seq(Fill) /\ Elements(slice[b]) \subseteq Fill
  BY ElementsOfSeq DEF BookInv, BookOK
<1> QED
  BY <1>1 DEF BookInv, Past, Remembered, Fit

\* What the arrival of a fill makes the seats apply may be applied.
LEMMA AttemptFits ==
    ASSUME BookInv, NEW f \in Fill, at[f] > 0, ~Known(f)
    PROVE  /\ Attempt(f) \in [Bot -> Seq(Fill)]
           /\ \A b \in Bot :
                /\ Fit(b, Attempt(f)[b], copies[b])
                /\ b \notin Matched(f) => Attempt(f)[b] = <<>>
                /\ b \in Coalescing => Attempt(f)[b] \in {<<>>, slice[b]}
<1>1. f \notin Seen /\ \A b \in Matched(f) : b \in Bot /\ Of[f] = Addr[b]
  BY DEF Known, Matched, BookInv, BookOK
<1>2. /\ <<f>> \in Seq(Fill) /\ Distinct(<<f>>) /\ Elements(<<f>>) = {f}
      /\ <<>> \in Seq(Fill) /\ Distinct(<<>>) /\ Elements(<<>>) = {}
  BY OneAndNone
<1>3. \A b \in Bot : copies[b][f] > 0 => f \in Excused(b)
  BY <1>1 DEF BookInv, Remembered
<1>4. \A b \in Bot : Fit(b, <<>>, copies[b])
  BY <1>2 DEF Fit
<1>5. \A b \in Matched(f) : Fit(b, <<f>>, copies[b])
  BY <1>1, <1>2, <1>3 DEF Fit
<1>6. ASSUME NEW b \in Bot
      PROVE  /\ Attempt(f)[b] \in Seq(Fill)
             /\ Fit(b, Attempt(f)[b], copies[b])
             /\ b \notin Matched(f) => Attempt(f)[b] = <<>>
             /\ b \in Coalescing => Attempt(f)[b] \in {<<>>, slice[b]}
  <2>1. \/ b \in Matched(f) \ Coalescing /\ Attempt(f)[b] = <<f>>
        \/ Attempt(f)[b] = <<>>
        \/ b \in Matched(f) \cap Coalescing /\ Attempt(f)[b] = slice[b]
    BY DEF Attempt
  <2>2. b \notin Matched(f) => Attempt(f)[b] = <<>>
    BY DEF Attempt
  <2> QED
    BY <1>2, <1>4, <1>5, <2>1, <2>2, SlicesFit
<1>7. Attempt(f) \in [Bot -> Seq(Fill)]
  <2>1. Attempt(f) = [b \in Bot |-> Attempt(f)[b]]
    BY DEF Attempt
  <2> QED
    BY <1>6, <2>1
<1> QED
  BY <1>6, <1>7

LEMMA IngestKeeps ==
    ASSUME BookInv, UNCHANGED <<now, at>>,
           NEW f \in Fill, at[f] > 0, NEW saved \in BOOLEAN, Ingest(f, saved)
    PROVE  BookInv'
<1>1. CASE /\ Known(f) \/ Matched(f) = {}
           /\ Fine
           /\ UNCHANGED <<book, buffers>>
  BY <1>1 DEF BookInv, BookOK, Past, SeenIsSettled, Remembered, Excused, Distinct, Seen, New,
              SoleSeat, Fine, book, seat, effect, dedupe, buffers
<1>2. CASE ~Known(f) /\ Matched(f) # {}
  <2>1. PICK verdict \in [Bot -> Verdict] :
            /\ Settle(Attempt(f), verdict, saved)
            /\ slice' = Buffered(f, verdict)
    BY <1>2 DEF Ingest
  <2>2. quiet' \subseteq Bot
    BY <1>2 DEF Ingest, BookInv, BookOK
  <2>3. f \notin Seen /\ \A b \in Bot : f \notin Elements(slice[b])
    BY <1>2 DEF Known
  <2>4. \A b \in Matched(f) : b \in Bot /\ Of[f] = Addr[b]
    BY DEF Matched, BookInv, BookOK
  <2>5. /\ <<f>> \in Seq(Fill) /\ Distinct(<<f>>) /\ Elements(<<f>>) = {f}
        /\ <<>> \in Seq(Fill) /\ Distinct(<<>>) /\ Elements(<<>>) = {}
    BY OneAndNone
  <2>6. \A b \in Bot : copies[b][f] > 0 => f \in Excused(b)
    BY <2>3 DEF BookInv, Remembered
  <2>8. \A b \in Matched(f) : Fit(b, <<f>>, copies[b])
    BY <2>4, <2>5, <2>6 DEF Fit
  <2>9. \A b \in Bot :
            /\ slice[b] \in Seq(Fill)
            /\ Elements(slice[b]) \subseteq Fill
            /\ Fit(b, slice[b], copies[b])
    BY SlicesFit
  <2>10. /\ Attempt(f) \in [Bot -> Seq(Fill)]
         /\ \A b \in Bot :
                /\ Fit(b, Attempt(f)[b], copies[b])
                /\ b \notin Matched(f) => Attempt(f)[b] = <<>>
                /\ b \in Coalescing => Attempt(f)[b] \in {<<>>, slice[b]}
    BY <1>2, AttemptFits
  <2>13. Settled(Attempt(f), verdict, saved)
    BY <2>1, <2>10, SettleKeeps
  <2>14. \A b \in Bot, g \in Fill :
            /\ g \notin Elements(Attempt(f)[b]) => copies'[b][g] = copies[b][g]
            /\ verdict[b] \notin Applied => copies'[b][g] = copies[b][g]
    BY <2>13 DEF Settled
  <2>15. ASSUME NEW b \in Bot
         PROVE  slice'[b] \in Seq(Fill) /\ Fit(b, slice'[b], copies'[b])
    <3>1. CASE b \notin Matched(f) \cap Coalescing
      <4>1. slice'[b] = slice[b]
        BY <2>1, <3>1 DEF Buffered
      <4>2. CASE b \notin Matched(f)
        <5>1. \A g \in Elements(slice[b]) : g \notin Elements(Attempt(f)[b])
          BY <2>5, <2>10, <4>2
        <5> QED
          BY <2>9, <2>14, <4>1, <5>1 DEF Fit
      <4>3. CASE b \in Matched(f) \ Coalescing
        <5>1. Attempt(f)[b] = <<f>>
          BY <4>3 DEF Attempt
        <5>2. \A g \in Elements(slice[b]) : g \notin Elements(Attempt(f)[b])
          BY <2>3, <2>5, <5>1
        <5> QED
          BY <2>9, <2>14, <4>1, <5>2 DEF Fit
      <4> QED
        BY <3>1, <4>2, <4>3
    <3>2. CASE b \in Matched(f) \cap Coalescing /\ Joins(b, f, verdict)
      <4>1. slice'[b] = Append(slice[b], f) /\ verdict[b] \notin Applied
        BY <2>1, <3>2 DEF Buffered, Joins
      <4>2. Distinct(slice'[b]) /\ Elements(slice'[b]) = Elements(slice[b]) \cup {f}
        BY <2>3, <2>9, <4>1, DistinctAppend DEF Fit
      <4>3. slice'[b] \in Seq(Fill)
        BY <2>9, <4>1, AppendProperties
      <4> QED
        BY <2>4, <2>6, <2>9, <2>14, <3>2, <4>1, <4>2, <4>3 DEF Fit
    <3>3. CASE b \in Matched(f) \cap Coalescing /\ ~Joins(b, f, verdict)
      <4>1. slice'[b] = <<f>>
        BY <2>1, <3>3 DEF Buffered
      <4>2. f \notin Elements(Attempt(f)[b])
        BY <2>3, <2>5, <2>10, <3>3
      <4> QED
        BY <2>5, <2>8, <2>14, <3>3, <4>1, <4>2 DEF Fit
    <3> QED
      BY <3>1, <3>2, <3>3
  <2>16. slice' \in [Bot -> Seq(Fill)]
    <3>1. slice' = [b \in Bot |-> slice'[b]]
      BY <2>1 DEF Buffered
    <3> QED
      BY <2>15, <3>1
  <2> QED
    BY <2>1, <2>2, <2>10, <2>15, <2>16, SettledBook
<1> QED
  BY <1>1, <1>2 DEF Ingest

LEMMA FlushKeeps ==
    ASSUME BookInv, UNCHANGED <<now, at>>,
           NEW which \in SUBSET Bot, NEW verdict \in [Bot -> Verdict],
           NEW saved \in BOOLEAN, FlushSettles(which, verdict, saved),
           slice' \in [Bot -> Seq(Fill)], quiet' \subseteq Bot,
           \A b \in Bot :
                \/ slice'[b] = <<>>
                \/ slice'[b] = slice[b] /\ verdict[b] \notin Applied
    PROVE  BookInv'
<1>1. \A b \in Bot :
        /\ slice[b] \in Seq(Fill)
        /\ Elements(slice[b]) \subseteq Fill
        /\ Fit(b, slice[b], copies[b])
  BY SlicesFit
<1>2. <<>> \in Seq(Fill) /\ \A b \in Bot : \A held : Fit(b, <<>>, held)
  <2>1. DOMAIN <<>> = {}
    OBVIOUS
  <2> QED
    BY <2>1 DEF Fit, Distinct, Elements
<1>3. FlushAttempt(which) \in [Bot -> Seq(Fill)]
  BY <1>1, <1>2 DEF FlushAttempt
<1>4. \A b \in Bot : Fit(b, FlushAttempt(which)[b], copies[b])
  BY <1>1, <1>2 DEF FlushAttempt
<1>5. Settle(FlushAttempt(which), verdict, saved)
  BY DEF FlushSettles
<1>6. Settled(FlushAttempt(which), verdict, saved)
  BY <1>3, <1>4, <1>5, SettleKeeps
<1>7. ASSUME NEW b \in Bot PROVE Fit(b, slice'[b], copies'[b])
  <2>1. CASE slice'[b] = <<>>
    BY <1>2, <2>1
  <2>2. CASE slice'[b] = slice[b] /\ verdict[b] \notin Applied
    <3>1. copies'[b] = copies[b]
      BY <1>6, <2>2 DEF Settled
    <3> QED
      BY <1>1, <2>2, <3>1
  <2> QED
    BY <2>1, <2>2
<1> QED
  BY <1>3, <1>4, <1>5, <1>7, SettledBook

\* A step that settles nothing and brings no fill into a slice or a position.
LEMMA BookKept ==
    ASSUME BookInv, UNCHANGED <<seats, base, effect, dedupe, at>>,
           now \in Nat, now' \in Nat, now <= now', at \in [Fill -> Nat],
           valued' \subseteq seats,
           slice' \in [Bot -> Seq(Fill)], quiet' \subseteq Bot, faults' \in Nat,
           \A b \in Bot : slice'[b] = <<>> \/ slice'[b] = slice[b]
    PROVE  BookInv'
<1>1. /\ seats' = seats /\ base' = base /\ copies' = copies /\ settled' = settled
      /\ mirrored' = mirrored /\ seen' = seen /\ evicted' = evicted /\ at' = at
  BY DEF effect, dedupe
<1>2. \A b \in Bot : Fit(b, slice'[b], copies[b])
  <2>1. \A b \in Bot : Fit(b, slice[b], copies[b]) /\ Fit(b, <<>>, copies[b])
    <3>1. DOMAIN <<>> = {}
      OBVIOUS
    <3> QED
      BY <3>1, SlicesFit DEF Fit, Distinct, Elements
  <2> QED
    BY <2>1
<1>3. BookOK'
  BY <1>1 DEF BookInv, BookOK, Distinct
<1>4. Past'
  <2>1. (\A f \in Fill : at[f] <= now') /\ (\A b \in Bot : base[b] <= now')
    <3>1. (\A f \in Fill : at[f] <= now) /\ (\A b \in Bot : base[b] <= now)
      BY DEF BookInv, Past
    <3> QED
      BY <3>1 DEF BookInv, BookOK
  <2> QED
    BY <1>1, <1>2, <2>1 DEF BookInv, Past, Seen, Fit
<1>5. SeenIsSettled'
  BY <1>1 DEF BookInv, SeenIsSettled, New, SoleSeat, Seen
<1>6. Remembered'
  BY <1>1, <1>2 DEF BookInv, Remembered, Excused, Seen, Fit
<1> QED
  BY <1>3, <1>4, <1>5, <1>6 DEF BookInv

-----------------------------------------------------------------------------
(* The steps.  Those that settle nothing: *)

LEMMA LeadersStep ==
    ASSUME PInv, Tick \/ WsLose \/ \E f \in Fill : Trade(f)
    PROVE  PInv'
<1> USE DEF PInv
<1>1. /\ now \in Nat /\ now >= 1
      /\ at \in [Fill -> Nat] /\ place \in [Fill -> Nat] /\ ws \in Seq(Fill)
      /\ base \in [Bot -> Nat] /\ slice \in [Bot -> Seq(Fill)]
      /\ valued \subseteq seats /\ quiet \subseteq Bot /\ faults \in Nat
  BY DEF FeedInv, FeedOK, BookInv, BookOK
<1>2. CASE Tick
  <2>1. FeedInv'
    BY <1>1, <1>2, PolyAssumption DEF Tick, FeedInv, FeedOK, Sent, poll, sync, bounds, counts
  <2>2. BookInv'
    BY <1>1, <1>2, BookKept DEF Tick, book, seat, buffers, bounds
  <2> QED
    BY <2>1, <2>2
<1>3. CASE WsLose
  <2>1. ws # <<>> /\ ws' = Tail(ws)
    BY <1>3 DEF WsLose
  <2>2. ws' \in Seq(Fill) /\ Elements(ws') \subseteq Elements(ws)
    BY <1>1, <2>1, HeadTailProperties DEF Elements
  <2>3. FeedInv'
    BY <1>1, <1>3, <2>2 DEF WsLose, FeedInv, FeedOK, Sent, poll, sync, bounds, counts
  <2>4. BookInv'
    BY <1>1, <1>3, BookKept DEF WsLose, book, seat, buffers, bounds
  <2> QED
    BY <2>3, <2>4
<1>4. ASSUME NEW f \in Fill, Trade(f) PROVE PInv'
  <2>1. /\ at[f] = 0
        /\ at' = [at EXCEPT ![f] = now]
        /\ place' = [place EXCEPT ![f] = 1 + Cardinality({g \in Fill : at[g] > 0})]
        /\ ws' = Append(ws, f) \/ ws' = ws
        /\ UNCHANGED <<now, book, buffers, poll, sync, bounds>>
    BY <1>4 DEF Trade
  <2>2. at' \in [Fill -> Nat] /\ \A g \in Fill : (at[g] > 0 => at'[g] = at[g]) /\ at'[g] <= now
    BY <1>1, <2>1 DEF BookInv, Past
  <2>3. at'[f] > 0 /\ \A g \in Fill : g # f => at'[g] = at[g]
    BY <1>1, <2>1
  <2>4. Cardinality({g \in Fill : at[g] > 0}) \in Nat
    BY PolyAssumption, FS_Subset, FS_CardinalityType
  <2>5. place' \in [Fill -> Nat]
    BY <1>1, <2>1, <2>4
  <2>6. ws' \in Seq(Fill) /\ Elements(ws') \subseteq Elements(ws) \cup {f}
    <3>1. CASE ws' = Append(ws, f)
      BY <1>1, <3>1, AppendProperties DEF Elements
    <3>2. CASE ws' = ws
      BY <1>1, <3>2 DEF Elements
    <3> QED
      BY <2>1, <3>1, <3>2
  <2>7. FeedOK'
    BY <1>1, <2>1, <2>2, <2>5, <2>6 DEF FeedInv, FeedOK, poll, sync, bounds, counts
  <2>8. Sent'
    <3>1. Elements(ws) \subseteq Fill /\ rows \subseteq Fill
      BY <1>1, ElementsOfSeq DEF FeedInv, FeedOK
    <3> QED
      BY <2>1, <2>2, <2>3, <2>6, <3>1 DEF FeedInv, Sent, poll
  <2>9. Seen \subseteq Fill /\ \A b \in Bot : Elements(slice[b]) \subseteq Fill
    BY ElementsOfSeq DEF Seen, BookInv, BookOK
  <2>10. BookOK' /\ Remembered'
    BY <2>1 DEF BookInv, BookOK, Remembered, Excused, Seen, Distinct,
                book, seat, effect, dedupe, buffers, bounds
  <2>11. Past'
    BY <2>1, <2>2, <2>9 DEF BookInv, Past, Seen, book, seat, dedupe, buffers
  <2>12. SeenIsSettled'
    BY <2>1, <2>2, <2>9 DEF BookInv, SeenIsSettled, Past, New, SoleSeat, Seen,
                            book, seat, effect, dedupe
  <2> QED
    BY <2>7, <2>8, <2>10, <2>11, <2>12 DEF BookInv, FeedInv
<1> QED
  BY <1>2, <1>3, <1>4

LEMMA SeatStep ==
    ASSUME PInv, NEW b \in Bot,
           \/ GoQuiet(b) \/ Refresh(b) \/ RefreshToNothing(b)
           \/ SyncRead(b) \/ SyncVoid(b)
    PROVE  PInv'
<1> USE DEF PInv
<1>1. /\ now \in Nat /\ at \in [Fill -> Nat]
      /\ slice \in [Bot -> Seq(Fill)] /\ valued \subseteq seats
      /\ quiet \subseteq Bot /\ faults \in Nat
  BY DEF FeedInv, FeedOK, BookInv, BookOK
<1>2. CASE GoQuiet(b)
  <2>1. FeedInv'
    BY <1>2 DEF GoQuiet, FeedInv, FeedOK, Sent, market, poll, sync, bounds, counts
  <2> QED
    BY <1>1, <1>2, <2>1, BookKept DEF GoQuiet, market, book, seat, bounds
<1>3. CASE Refresh(b)
  <2>1. FeedInv'
    BY <1>3 DEF Refresh, FeedInv, FeedOK, Sent, market, poll, sync, bounds, counts
  <2> QED
    BY <1>1, <1>3, <2>1, BookKept DEF Refresh, market, buffers, bounds
<1>4. CASE RefreshToNothing(b)
  <2>1. FeedInv'
    BY <1>4 DEF RefreshToNothing, FeedInv, FeedOK, Sent, market, poll, sync, counts
  <2>2. faults' \in Nat
    BY <1>1, <1>4 DEF RefreshToNothing, Fine, Faulty
  <2> QED
    BY <1>1, <1>4, <2>1, <2>2, BookKept DEF RefreshToNothing, market, buffers
<1>5. CASE SyncRead(b)
  <2>1. Made(Addr[b]) \subseteq Fill
    BY DEF Made
  <2>2. FeedInv'
    BY <1>5, <2>1 DEF SyncRead, Requested, FeedInv, FeedOK, Sent, market, poll
  <2> QED
    BY <1>1, <1>5, <2>2, BookKept DEF SyncRead, Fine, market, book, seat, buffers
<1>6. CASE SyncVoid(b)
  <2>1. FeedInv'
    BY <1>6 DEF SyncVoid, SyncEnds, FeedInv, FeedOK, Sent, market, poll, counts
  <2>2. faults' \in Nat /\ valued' \subseteq valued
    BY <1>1, <1>6 DEF SyncVoid, Fine, Faulty
  <2> QED
    BY <1>1, <1>6, <2>1, <2>2, BookKept DEF SyncVoid, market, buffers
<1> QED
  BY <1>2, <1>3, <1>4, <1>5, <1>6

(* Those that empty seats or fill them with the positions of the leader: *)

LEMMA SeatsFilled ==
    ASSUME BookInv, SeatsForAll, now \in Nat, now' = now, faults' \in Nat,
           at \in [Fill -> Nat], at' = at, UNCHANGED <<valued, effect, dedupe, buffers>>
    PROVE  BookInv'
<1>1. /\ at \in [Fill -> Nat] /\ base \in [Bot -> Nat]
      /\ slice \in [Bot -> Seq(Fill)] /\ valued \subseteq seats /\ seats \subseteq Bot
  BY DEF BookInv, BookOK
<1>2. Seen \subseteq Fill /\ \A f \in Fill : at[f] <= now
  BY ElementsOfSeq DEF Seen, BookInv, BookOK, Past
<1>3. base' \in [Bot -> Nat] /\ \A b \in Bot : base'[b] = IF b \in seats THEN base[b] ELSE now
  BY <1>1 DEF SeatsForAll
<1>4. BookOK' /\ Remembered'
  BY <1>3 DEF SeatsForAll, BookInv, BookOK, Remembered, Excused, Seen, Distinct,
              effect, dedupe, buffers
<1>5. Past'
  BY <1>1, <1>3 DEF BookInv, Past, Seen, dedupe, buffers
<1>6. SeenIsSettled'
  <2> SUFFICES ASSUME NEW b \in Bot, SoleSeat(b), NEW f \in Seen,
                      Addr[b] = Of[f], at[f] > base'[b]
               PROVE  f \in settled[b]
    BY DEF SeatsForAll, SeenIsSettled, New, SoleSeat, Seen, effect, dedupe
  <2>1. b \in seats /\ base'[b] = base[b]
    BY <1>1, <1>2, <1>3
  <2> QED
    BY <2>1 DEF BookInv, SeenIsSettled, New
<1> QED
  BY <1>4, <1>5, <1>6 DEF BookInv

LEMMA ResetStep ==
    ASSUME PInv,
           \/ EnsureBots \/ SupervisorStarts \/ ResetAll \/ ResetUnsaved
           \/ \E b \in Bot : ResetBot(b)
    PROVE  PInv'
<1> USE DEF PInv
<1>1. /\ now \in Nat /\ at \in [Fill -> Nat] /\ base \in [Bot -> Nat]
      /\ slice \in [Bot -> Seq(Fill)] /\ valued \subseteq seats /\ seats \subseteq Bot
      /\ quiet \subseteq Bot /\ faults \in Nat
  BY DEF FeedInv, FeedOK, BookInv, BookOK
<1>2. <<>> \in Seq(Fill) /\ DOMAIN <<>> = {}
  OBVIOUS
<1>3. Seen \subseteq Fill /\ \A f \in Fill : at[f] <= now
  BY ElementsOfSeq DEF Seen, BookInv, BookOK, Past
<1>4. CASE EnsureBots
  <2>1. FeedInv'
    BY <1>4 DEF EnsureBots, FeedInv, FeedOK, Sent, market, poll, sync, bounds, counts
  <2> QED
    BY <1>1, <1>4, <2>1, SeatsFilled DEF EnsureBots, market, bounds
<1>5. CASE SupervisorStarts
  <2>1. FeedInv'
    BY <1>5 DEF SupervisorStarts, FeedInv, FeedOK, Sent, market, sync, counts
  <2>2. faults' \in Nat
    BY <1>1, <1>5 DEF SupervisorStarts, Fine, Faulty
  <2>3. CASE SeatsForAll
    <3>1. now' = now /\ at' = at /\ UNCHANGED <<valued, effect, dedupe, buffers>>
      BY <1>5 DEF SupervisorStarts, market
    <3>2. BookInv'
      BY <1>1, <2>2, <2>3, <3>1, SeatsFilled
    <3> QED
      BY <2>1, <3>2
  <2>4. CASE UNCHANGED <<seats, base>>
    BY <1>1, <1>5, <2>1, <2>2, <2>4, BookKept DEF SupervisorStarts, market, buffers
  <2> QED
    BY <1>5, <2>3, <2>4 DEF SupervisorStarts
<1>6. CASE ResetAll
  <2>1. FeedInv'
    BY <1>6 DEF ResetAll, Requested, FeedInv, FeedOK, Sent, market, poll, sync
  <2>2. seats' = {} /\ seen' = <<>> /\ DOMAIN seen' = {} /\ evicted' = {} /\ UNCHANGED <<base, faults, now, at>>
    BY <1>6, <1>2 DEF ResetAll, Fine, market
  <2>3. /\ slice' = [b \in Bot |-> <<>>]
        /\ quiet' \subseteq Bot
        /\ copies' = [b \in Bot |-> [f \in Fill |-> 0]]
    BY <1>1, <1>6 DEF ResetAll, DropSlices, None
  <2>4. BookOK'
    BY <1>1, <1>2, <1>6, <2>2, <2>3, PolyAssumption DEF ResetAll, BookOK, Distinct, Many
  <2>5. Past'
    BY <1>2, <2>2, <2>3 DEF BookInv, Past, Seen, Elements
  <2>6. SeenIsSettled' /\ Remembered'
    BY <1>2, <2>2, <2>3 DEF SeenIsSettled, Remembered, Distinct, Elements
  <2> QED
    BY <2>1, <2>4, <2>5, <2>6 DEF BookInv
<1>7. CASE ResetUnsaved
  <2>1. FeedInv'
    BY <1>7 DEF ResetUnsaved, Requested, FeedInv, FeedOK, Sent, market, poll, sync
  <2>2. PICK which : DropSlices(which)
    BY <1>7 DEF ResetUnsaved
  <2>3. slice' \in [Bot -> Seq(Fill)] /\ \A b \in Bot : slice'[b] = <<>> \/ slice'[b] = slice[b]
    BY <1>1, <1>2, <2>2 DEF DropSlices
  <2>4. faults' \in Nat /\ quiet' \subseteq Bot
    BY <1>1, <1>7, <2>2 DEF ResetUnsaved, Faulty, DropSlices
  <2> QED
    BY <1>1, <1>7, <2>1, <2>3, <2>4, BookKept DEF ResetUnsaved, market, book, seat
<1>8. ASSUME NEW b \in Bot, ResetBot(b) PROVE PInv'
  <2>1. FeedInv'
    BY <1>8 DEF ResetBot, Requested, FeedInv, FeedOK, Sent, market, poll, sync
  <2>2. UNCHANGED <<seats, valued, seen, evicted, faults, now, at>>
    BY <1>8 DEF ResetBot, Fine, dedupe, market
  <2>3. /\ base' = [base EXCEPT ![b] = now]
        /\ copies' = [copies EXCEPT ![b] = [f \in Fill |-> 0]]
        /\ settled' = [settled EXCEPT ![b] = {}]
        /\ mirrored' = [mirrored EXCEPT ![b] = {}]
        /\ slice' = [c \in Bot |-> IF c = b THEN <<>> ELSE slice[c]]
        /\ quiet' \subseteq Bot
    BY <1>1, <1>8 DEF ResetBot, EmptySeat, DropSlices, None
  <2>4. BookOK'
    BY <1>1, <1>2, <2>2, <2>3 DEF BookInv, BookOK, Distinct, Many
  <2>5. Past'
    BY <1>1, <1>2, <2>2, <2>3 DEF BookInv, Past, Seen, Elements
  <2>6. SeenIsSettled'
    <3> SUFFICES ASSUME NEW c \in seats, SoleSeat(c), NEW f \in Seen,
                        Addr[c] = Of[f], at[f] > base'[c]
                 PROVE  f \in settled'[c]
      BY <2>2 DEF SeenIsSettled, New, SoleSeat, Seen
    <3>1. c # b /\ base'[c] = base[c]
      BY <1>1, <1>3, <2>3
    <3>2. f \in settled[c]
      BY <3>1 DEF BookInv, SeenIsSettled, New
    <3> QED
      BY <2>3, <3>1, <3>2 DEF BookInv, BookOK
  <2>7. ASSUME NEW c \in Bot, c # b
        PROVE  slice'[c] = slice[c] /\ copies'[c] = copies[c] /\ mirrored'[c] = mirrored[c]
    BY <2>3, <2>7 DEF BookInv, BookOK
  <2>8. slice'[b] = <<>> /\ \A f \in Fill : copies'[b][f] = 0
    BY <2>3 DEF BookInv, BookOK
  <2>9. Remembered'
    BY <1>2, <2>2, <2>7, <2>8 DEF BookInv, Remembered, Excused, Seen, Distinct, Elements
  <2> QED
    BY <2>1, <2>4, <2>5, <2>6, <2>9 DEF BookInv
<1> QED
  BY <1>4, <1>6, <1>7, <1>8, <1>5

LEMMA SyncWriteStep ==
    ASSUME PInv, NEW b \in Bot, SyncWrite(b)
    PROVE  PInv'
<1> USE DEF PInv
<1>1. /\ now \in Nat /\ at \in [Fill -> Nat] /\ mirror \in [Bot -> SUBSET Fill]
      /\ slice \in [Bot -> Seq(Fill)] /\ valued \subseteq seats /\ quiet \subseteq Bot
      /\ faults \in Nat
  BY DEF FeedInv, FeedOK, BookInv, BookOK
<1>2. <<>> \in Seq(Fill) /\ DOMAIN <<>> = {}
  OBVIOUS
<1>3. FeedInv'
  BY DEF SyncWrite, SyncEnds, FeedInv, FeedOK, Sent, market, poll, counts
<1>4. /\ slice' = [c \in Bot |-> IF c = b THEN <<>> ELSE slice[c]]
      /\ quiet' \subseteq Bot
      /\ UNCHANGED <<now, at>>
      /\ b \in seats
  BY <1>1 DEF SyncWrite, DropSlices, market
<1>5. slice' \in [Bot -> Seq(Fill)] /\ \A c \in Bot : slice'[c] = <<>> \/ slice'[c] = slice[c]
  BY <1>1, <1>2, <1>4
<1>6. CASE Faulty /\ UNCHANGED book
  <2>1. faults' \in Nat
    BY <1>1, <1>6 DEF Faulty
  <2> QED
    BY <1>1, <1>3, <1>4, <1>5, <1>6, <2>1, BookKept DEF book, seat
<1>7. CASE /\ Fine
           /\ valued' = valued \cup {b}
           /\ copies' = [copies EXCEPT ![b] = [f \in Fill |-> IF f \in mirror[b] THEN 1 ELSE 0]]
           /\ mirrored' = [mirrored EXCEPT ![b] = mirror[b]]
           /\ UNCHANGED <<seats, base, settled, dedupe>>
  <2>1. UNCHANGED <<seen, evicted, faults>>
    BY <1>7 DEF Fine, dedupe
  <2>2. BookOK'
    BY <1>1, <1>4, <1>5, <1>7, <2>1 DEF BookInv, BookOK, Distinct, Many
  <2>3. Past'
    BY <1>2, <1>4, <1>5, <1>7, <2>1 DEF BookInv, Past, Seen, Elements
  <2>4. SeenIsSettled'
    BY <1>4, <1>7, <2>1 DEF BookInv, SeenIsSettled, New, SoleSeat, Seen
  <2>5. ASSUME NEW c \in Bot, c # b
        PROVE  slice'[c] = slice[c] /\ copies'[c] = copies[c] /\ mirrored'[c] = mirrored[c]
    BY <1>4, <1>7, <2>5 DEF BookInv, BookOK
  <2>6. /\ slice'[b] = <<>>
        /\ mirrored'[b] = mirror[b]
        /\ \A f \in Fill : copies'[b][f] = IF f \in mirror[b] THEN 1 ELSE 0
    BY <1>4, <1>7 DEF BookInv, BookOK
  <2>7. Remembered'
    BY <1>2, <2>1, <2>5, <2>6 DEF BookInv, Remembered, Excused, Seen, Distinct, Elements
  <2> QED
    BY <1>3, <2>2, <2>3, <2>4, <2>7 DEF BookInv
<1> QED
  BY <1>6, <1>7 DEF SyncWrite

(* Those that deliver, poll or flush, and the end of the process: *)

LEMMA PollStep ==
    ASSUME PInv, WsDeliver \/ Poll
    PROVE  PInv'
<1> USE DEF PInv
<1>1. /\ now \in Nat /\ at \in [Fill -> Nat] /\ ws \in Seq(Fill)
      /\ slice \in [Bot -> Seq(Fill)] /\ valued \subseteq seats
      /\ quiet \subseteq Bot /\ faults \in Nat /\ rows \subseteq Fill
  BY DEF FeedInv, FeedOK, BookInv, BookOK
<1>2. CASE WsDeliver
  <2>1. ws # <<>> /\ ws' = Tail(ws) /\ UNCHANGED <<now, at>>
    BY <1>2 DEF WsDeliver
  <2>2. ws' \in Seq(Fill) /\ Elements(ws') \subseteq Elements(ws)
    BY <1>1, <2>1, HeadTailProperties DEF Elements
  <2>3. Head(ws) \in Fill /\ Head(ws) \in Elements(ws)
    BY <1>1, <2>1, HeadTailProperties DEF Elements
  <2>4. at[Head(ws)] > 0
    BY <2>3 DEF FeedInv, Sent
  <2>5. FeedInv'
    BY <1>2, <2>2 DEF WsDeliver, FeedInv, FeedOK, Sent, poll, sync, counts
  <2>6. PICK saved \in BOOLEAN : Ingest(Head(ws), saved)
    BY <1>2 DEF WsDeliver
  <2>7. BookInv'
    BY <2>1, <2>3, <2>4, <2>6, IngestKeeps
  <2> QED
    BY <2>5, <2>7
<1>3. CASE PollStart
  <2>1. FeedInv'
    BY <1>3 DEF PollStart, FeedInv, FeedOK, Sent, market, sync, bounds, counts
  <2> QED
    BY <1>1, <1>3, <2>1, BookKept DEF PollStart, market, book, seat, buffers, bounds
<1>4. ASSUME NEW b \in Bot, PollFetch(b) PROVE PInv'
  <2>1. \A f \in Newest(b) : f \in Fill /\ at[f] > 0
    BY DEF Newest, Made
  <2>2. FeedInv'
    BY <1>4, <2>1 DEF PollFetch, FeedInv, FeedOK, Sent, market, sync, bounds, counts
  <2> QED
    BY <1>1, <1>4, <2>2, BookKept DEF PollFetch, market, book, seat, buffers, bounds
<1>5. CASE PollFails
  <2>1. polling' = FALSE /\ due' = {} /\ rows' = {} /\ faults' \in Nat
    BY <1>1, <1>5 DEF PollFails, EndCycle, Faulty
  <2>2. FeedOK' /\ Sent'
    BY <1>5, <2>1 DEF PollFails, FeedInv, FeedOK, Sent, market, sync, counts
  <2> QED
    BY <1>1, <1>5, <2>1, <2>2, BookKept DEF PollFails, FeedInv, market, book, seat, buffers
<1>6. CASE PollIngest
  <2>1. PICK f \in rows : \E saved \in BOOLEAN : Ingest(f, saved)
    BY <1>6 DEF PollIngest
  <2>2. f \in Fill /\ at[f] > 0
    BY <1>1 DEF FeedInv, Sent
  <2>3. BookInv'
    BY <1>6, <2>1, <2>2, IngestKeeps DEF PollIngest, market
  <2>4. polling' \in BOOLEAN /\ due' \subseteq due /\ rows' \subseteq rows
    BY <1>6 DEF PollIngest, EndCycle, FeedInv, FeedOK
  <2>5. FeedInv'
    BY <1>6, <2>4 DEF PollIngest, FeedInv, FeedOK, Sent, market, sync, counts
  <2> QED
    BY <2>3, <2>5
<1>7. CASE PollFlush
  <2>1. FeedInv'
    BY <1>7 DEF PollFlush, EndCycle, FeedInv, FeedOK, Sent, market, sync, counts
  <2>2. PICK saved \in BOOLEAN, verdict \in [Bot -> Verdict] :
            /\ FlushSettles({b \in Bot : Expired(b)}, verdict, saved)
            /\ slice' = [b \in Bot |->
                    IF b \notin seats \/ verdict[b] \in Applied THEN <<>> ELSE slice[b]]
            /\ quiet' = {b \in quiet : slice'[b] # <<>>}
    BY <1>7 DEF PollFlush, FlushExpired
  <2>3. <<>> \in Seq(Fill)
    OBVIOUS
  <2>4. /\ slice' \in [Bot -> Seq(Fill)]
        /\ quiet' \subseteq Bot
        /\ \A b \in Bot :
                \/ slice'[b] = <<>>
                \/ slice'[b] = slice[b] /\ verdict[b] \notin Applied
    BY <1>1, <2>2, <2>3
  <2>5. UNCHANGED <<now, at>>
    BY <1>7 DEF PollFlush, market
  <2>6. {b \in Bot : Expired(b)} \in SUBSET Bot
    OBVIOUS
  <2> QED
    BY <2>1, <2>2, <2>4, <2>5, <2>6, FlushKeeps
<1> QED
  BY <1>2, <1>3, <1>4, <1>5, <1>6, <1>7 DEF Poll

LEMMA EndOfProcess ==
    ASSUME PInv, Crash \/ Stop
    PROVE  PInv'
<1> USE DEF PInv
<1>1. /\ now \in Nat /\ at \in [Fill -> Nat] /\ valued \subseteq seats
      /\ faults \in Nat
  BY DEF FeedInv, FeedOK, BookInv, BookOK
<1>2. <<>> \in Seq(Fill) /\ DOMAIN <<>> = {}
  OBVIOUS
<1>3. Forget
  BY DEF Crash, Stop
<1>4. FeedInv'
  <2>1. FeedOK'
    <3>1. /\ UNCHANGED <<now, at, place, requests>>
          /\ ws' = <<>> /\ polling' = FALSE /\ due' = {} /\ rows' = {} /\ syncing' = {}
          /\ mirror' = [b \in Bot |-> {}]
          /\ crashes' = crashes + 1 /\ thread' = "starting"
      BY <1>3 DEF Forget, EndCycle
    <3>2. mirror' \in [Bot -> SUBSET Fill]
      BY <3>1
    <3>3. FeedOK
      BY DEF FeedInv
    <3>4. polling' \in BOOLEAN
      BY <3>1, Zenon
    <3>5. crashes' \in Nat
      BY <3>1, <3>3 DEF FeedOK
    <3>6. /\ now' \in 1 .. MaxTime + 1 /\ at' \in [Fill -> Nat] /\ place' \in [Fill -> Nat]
          /\ requests' \in Nat
      BY <3>1, <3>3 DEF FeedOK
    <3> QED
      BY <1>2, <3>1, <3>2, <3>4, <3>5, <3>6 DEF FeedOK
  <2>2. Sent'
    <3>1. ws' = <<>> /\ rows' = {} /\ Elements(<<>>) = {}
      BY <1>2, <1>3 DEF Forget, EndCycle, Elements
    <3> QED
      BY <3>1 DEF Sent, Elements
  <2> QED
    BY <2>1, <2>2 DEF FeedInv
<1>5. /\ slice' \in [Bot -> Seq(Fill)]
      /\ \A b \in Bot : slice'[b] = <<>>
      /\ quiet' \subseteq Bot
      /\ UNCHANGED <<now, at>>
  BY <1>2, <1>3 DEF Forget
<1>6. CASE Crash
  BY <1>1, <1>4, <1>5, <1>6, BookKept DEF Crash, Fine, book, seat
<1>7. CASE Stop
  <2>1. PICK saved \in BOOLEAN, verdict \in [Bot -> Verdict] : FlushSettles(Bot, verdict, saved)
    BY <1>7 DEF Stop
  <2> QED
    BY <1>4, <1>5, <2>1, FlushKeeps
<1> QED
  BY <1>6, <1>7

-----------------------------------------------------------------------------
(* The invariant and what follows from it. *)

LEMMA InitInvariant == Init => PInv
<1> SUFFICES ASSUME Init PROVE PInv
  OBVIOUS
<1>1. <<>> \in Seq(Fill) /\ DOMAIN <<>> = {} /\ Len(<<>>) = 0
  OBVIOUS
<1>2. BookOK
  BY <1>1, PolyAssumption DEF Init, BookOK, Distinct, None, Many
<1>3. FeedOK
  <2>1. polling \in BOOLEAN
    BY Zenon DEF Init
  <2>2. now \in 1 .. MaxTime + 1 /\ at \in [Fill -> Nat] /\ place \in [Fill -> Nat]
    BY PolyAssumption DEF Init, None
  <2> QED
    BY <1>1, <2>1, <2>2 DEF Init, FeedOK
<1>4. Past /\ Sent
  BY <1>1 DEF Init, Past, Sent, Seen, Elements, None
<1>5. SeenIsSettled
  BY <1>1 DEF Init, SeenIsSettled, Seen, Elements
<1>6. Remembered
  BY <1>1 DEF Init, Remembered, Distinct, Elements, None
<1> QED
  BY <1>2, <1>3, <1>4, <1>5, <1>6 DEF PInv, BookInv, FeedInv

LEMMA StepInvariant == PInv /\ [Next]_vars => PInv'
<1> SUFFICES ASSUME PInv, [Next]_vars PROVE PInv'
  OBVIOUS
<1>1. CASE UNCHANGED vars
  BY <1>1 DEF PInv, BookInv, FeedInv, BookOK, FeedOK, Past, Sent, SeenIsSettled, Remembered,
              Excused, Distinct, Seen, New, SoleSeat, vars, market, book, seat, effect,
              dedupe, buffers, poll, sync, bounds, counts
<1>2. CASE Next
  BY <1>2, LeadersStep, SeatStep, ResetStep, SyncWriteStep, PollStep, EndOfProcess DEF Next
<1> QED
  BY <1>1, <1>2

\* PInv holds in every reachable state.
THEOREM PInvariant == Spec => []PInv
<1> QED
  BY InitInvariant, StepInvariant, PTL DEF Spec

\* Every variable of the book, of the process and of the market keeps its type:
\* above all, the list that _mark_seen extends and trims never holds a key
\* twice and never outgrows its bound.
THEOREM PolyTypeCorrect == Spec => []TypeOK
<1>1. PInv => TypeOK
  BY DEF PInv, BookInv, FeedInv, BookOK, FeedOK, Distinct, TypeOK
<1> QED
  BY <1>1, PInvariant, PTL

\* A fill marked seen was settled for the sole seat of its leader, or made
\* before that seat's baseline, whatever ingest_trade, the flushes, the syncs,
\* the resets, failed saves and restarts did in between.
THEOREM PolySeenIsSettled == Spec => []SeenIsSettled
<1>1. PInv => SeenIsSettled
  BY DEF PInv, BookInv
<1> QED
  BY <1>1, PInvariant, PTL

\* Only a key dropped from the bounded list, or a sync that brought the fill in
\* with the leader's positions, lets ingest_trade or a flush put a fill into a
\* position a second time.
THEOREM PolyDoubleHasCause == Spec => []DoubleHasCause
<1>1. PInv => DoubleHasCause
  BY DEF PInv, BookInv, BookOK, Remembered, Excused, DoubleHasCause
<1> QED
  BY <1>1, PInvariant, PTL
=============================================================================
