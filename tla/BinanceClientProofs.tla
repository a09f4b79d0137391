------------------------ MODULE BinanceClientProofs ------------------------
(***************************************************************************)
(* The safety properties of BinanceClient for every number of retries,     *)
(* backoff, receive window, delay and threshold, in either position mode.  *)
(***************************************************************************)
EXTENDS BinanceClient, SequenceTheorems, TLAPS

Running == {"stamp", "send", "reply"}

\* Where the handler is and what it still has to do.
HandlerOK ==
    /\ outcome = "running" <=> pc \in Running
    /\ pc \in Running => plan # <<>> /\ Kind \in Call

\* What has been executed, against the attempts and what came back.
ExecutionOK ==
    /\ pc = "stamp" => executed = 0 /\ attempt = 0
    /\ pc = "send" => executed <= attempt /\ (executed > 0 => lossy)
    /\ pc = "reply" =>
        /\ executed <= attempt + 1
        /\ reply = "ok" => executed > 0
        /\ reply # "ok" /\ executed > 0 => lossy
        /\ reply \in {"busy", "lost"} => lossy

\* A later attempt that no loss and no failed synchronisation precedes has a
\* new timestamp and the right offset.
StampOK ==
    /\ pc = "stamp" => attempt = 0
    /\ pc = "send" /\ Signed /\ attempt > 0
        => lossy \/ unsynced \/ (synced /\ age = 0)
    /\ pc = "reply" /\ reply = "stale"
        => Signed /\ (lossy \/ unsynced \/ attempt = 0)
    /\ pc = "reply" /\ reply \in {"busy", "lost"} => lossy
    /\ StaleHasCause

\* The steps of an open: the row comes first, the gate next, and what comes
\* after the gate ends the open when it fails, but for the probe.
OpenPlan(p) ==
    \A i \in 1 .. Len(p) :
        /\ p[i] # "sweep"
        /\ p[i] = "row" => i = 1 /\ Len(p) > 1 /\ p[2] = "gate"
        /\ p[i] = "gate" /\ i > 1 => i = 2 /\ p[1] = "row"

GateOK ==
    who = "open" =>
        /\ OpenPlan(plan)
        /\ plan # <<>> /\ Kind \notin {"row", "gate"} => ~paused \/ tripped = "probe"

IInv == TypeOK /\ HandlerOK /\ ExecutionOK /\ StampOK /\ GateOK

-----------------------------------------------------------------------------
(* Lemmas about the steps of a request. *)

\* What is left of a request after its first step is a request.
LEMMA TailPlan ==
    ASSUME NEW p \in Seq(Step), p # <<>>
    PROVE  /\ Tail(p) \in Seq(Step)
           /\ Head(p) \in Step
           /\ Head(p) = p[1]
           /\ Len(p) \in Nat /\ Len(p) > 0
           /\ Len(Tail(p)) = Len(p) - 1
           /\ \A i \in 1 .. Len(Tail(p)) : Tail(p)[i] = p[i + 1]
OBVIOUS

\* The next attempt has a number, and its timestamp an age.
LEMMA AtMostBound ==
    ASSUME NEW n \in Nat, NEW bound \in Nat
    PROVE  AtMost(n, bound) \in 0 .. bound
BY DEF AtMost

\* A pending row puts one step before the others.
LEMMA RowsFirst ==
    ASSUME NEW q \in Seq(Step)
    PROVE  /\ Rows \o q \in Seq(Step)
           /\ ~pending => Rows \o q = q
           /\ pending => /\ Len(Rows \o q) = 1 + Len(q)
                         /\ (Rows \o q)[1] = "row"
                         /\ \A i \in 1 .. Len(q) : (Rows \o q)[i + 1] = q[i]
<1>1. CASE ~pending
    <2>1. Rows = <<>>
        BY <1>1 DEF Rows
    <2>2. <<>> \o q = q
        BY ConcatEmptySeq
    <2> QED
        BY <1>1, <2>1, <2>2
<1>2. CASE pending
    <2>1. Rows = <<"row">>
        BY <1>2 DEF Rows
    <2>2. "row" \in Step
        BY DEF Step, Call
    <2>3. <<"row">> \in Seq(Step) /\ Len(<<"row">>) = 1 /\ <<"row">>[1] = "row"
        BY <2>2
    <2> QED
        BY <1>2, <2>1, <2>3, ConcatProperties
<1> QED
    BY <1>1, <1>2

\* The plan of an open, with or without a row, is as OpenPlan has it.
LEMMA OpenSteps ==
    ASSUME NEW p,
           p = Rows \o <<"gate", "public", "setup", "setup", "probe", "public", "order">>
    PROVE  /\ p \in Seq(Step)
           /\ OpenPlan(p)
           /\ p # <<>> /\ Head(p) \in {"row", "gate"}
<1> DEFINE q == <<"gate", "public", "setup", "setup", "probe", "public", "order">>
<1>1. q \in Seq(Step)
    BY DEF Step, Call
<1>2. /\ Len(q) = 7
      /\ q[1] = "gate"
      /\ \A i \in 2 .. 7 : q[i] \in {"public", "setup", "probe", "order"}
    <2>1. /\ Len(q) = 7
          /\ q[1] = "gate" /\ q[2] = "public" /\ q[3] = "setup" /\ q[4] = "setup"
          /\ q[5] = "probe" /\ q[6] = "public" /\ q[7] = "order"
        OBVIOUS
    <2>2. \A i \in 2 .. 7 : i \in {2, 3, 4, 5, 6, 7}
        OBVIOUS
    <2> HIDE DEF q
    <2> QED
        BY <2>1, <2>2
<1>3. p = Rows \o q
    OBVIOUS
<1> HIDE DEF q
<1>4. p \in Seq(Step)
    BY <1>1, <1>3, RowsFirst
<1>5. CASE pending
    <2>1. /\ Len(p) = 8 /\ p[1] = "row"
          /\ \A i \in 1 .. 7 : p[i + 1] = q[i]
        BY <1>1, <1>2, <1>3, <1>5, RowsFirst
    <2>2. p[2] = "gate"
        BY <1>2, <2>1
    <2>3. ASSUME NEW i \in 3 .. 8
          PROVE  p[i] \in {"public", "setup", "probe", "order"}
        <3>1. i - 1 \in 2 .. 7 /\ i - 1 \in 1 .. 7 /\ (i - 1) + 1 = i
            OBVIOUS
        <3> QED
            BY <1>2, <2>1, <3>1
    <2>4. \A i \in 1 .. 8 : i = 1 \/ i = 2 \/ i \in 3 .. 8
        OBVIOUS
    <2>5. OpenPlan(p)
        BY <2>1, <2>2, <2>3, <2>4 DEF OpenPlan
    <2>6. p # <<>> /\ Head(p) = p[1]
        BY <1>4, <2>1
    <2> QED
        BY <1>4, <2>1, <2>5, <2>6
<1>6. CASE ~pending
    <2>1. p = q
        BY <1>1, <1>3, <1>6, RowsFirst
    <2>2. \A i \in 1 .. 7 : i = 1 \/ i \in 2 .. 7
        OBVIOUS
    <2>5. /\ Len(p) = 7 /\ p[1] = "gate"
          /\ \A i \in 2 .. 7 : p[i] \in {"public", "setup", "probe", "order"}
        BY <1>2, <2>1
    <2>3. OpenPlan(p)
        BY <2>2, <2>5 DEF OpenPlan
    <2>4. p # <<>> /\ Head(p) = p[1]
        BY <1>2, <1>4, <2>1
    <2> QED
        BY <1>2, <1>4, <2>1, <2>3, <2>4
<1> QED
    BY <1>5, <1>6

\* So are the plans of the other requests.
LEMMA OtherSteps ==
    /\ Rows \o <<"read", "sweep", "sweep">> \in Seq(Step)
    /\ Rows \o <<"read", "probe", "public", "sweep", "sweep", "sync", "order">> \in Seq(Step)
    /\ <<"read">> \in Seq(Step)
    /\ <<"row">> \in Seq(Step)
    /\ <<"row", "public", "probe", "order">> \in Seq(Step)
<1>1. /\ <<"read", "sweep", "sweep">> \in Seq(Step)
      /\ <<"read", "probe", "public", "sweep", "sweep", "sync", "order">> \in Seq(Step)
    BY DEF Step, Call
<1>2. <<"read">> \in Seq(Step) /\ <<"row">> \in Seq(Step)
    BY DEF Step, Call
<1>3. <<"row", "public", "probe", "order">> \in Seq(Step)
    BY DEF Step, Call
<1> QED
    BY <1>1, <1>2, <1>3, RowsFirst

\* What follows the first step of an open is still the plan of one.
LEMMA OpenPlanTail ==
    ASSUME NEW p \in Seq(Step), p # <<>>, OpenPlan(p)
    PROVE  /\ OpenPlan(Tail(p))
           /\ Head(p) # "sweep"
           /\ Head(p) = "row" => Tail(p) # <<>> /\ Head(Tail(p)) = "gate"
           /\ Head(p) # "row" /\ Tail(p) # <<>> => Head(Tail(p)) \notin {"row", "gate"}
<1> DEFINE t == Tail(p)
<1>1. /\ t \in Seq(Step) /\ Head(p) = p[1] /\ Len(p) \in Nat /\ Len(p) > 0
      /\ Len(t) = Len(p) - 1
      /\ \A i \in 1 .. Len(t) : t[i] = p[i + 1]
    BY TailPlan
<1>2. t # <<>> => Head(t) = p[2] /\ Len(p) > 1
    BY <1>1, TailPlan
<1> HIDE DEF t
<1>3. OpenPlan(t)
    <2> SUFFICES ASSUME NEW i \in 1 .. Len(t)
                 PROVE  /\ t[i] # "sweep" /\ t[i] # "row"
                        /\ t[i] = "gate" /\ i > 1 => i = 2 /\ t[1] = "row"
        BY DEF OpenPlan
    <2>1. t[i] = p[i + 1] /\ i + 1 \in 1 .. Len(p)
        BY <1>1
    <2>2. /\ p[i + 1] # "sweep"
          /\ p[i + 1] = "row" => i + 1 = 1
          /\ p[i + 1] = "gate" /\ i + 1 > 1 => i + 1 = 2
        BY <2>1 DEF OpenPlan
    <2> QED
        BY <2>1, <2>2
<1>4. /\ p[1] # "sweep"
      /\ p[1] = "row" => Len(p) > 1 /\ p[2] = "gate"
    BY <1>1 DEF OpenPlan
<1>5. ASSUME t # <<>>, p[1] # "row"
      PROVE  p[2] \notin {"row", "gate"}
    <2>1. 2 \in 1 .. Len(p)
        BY <1>1, <1>2, <1>5
    <2> QED
        BY <1>5, <2>1 DEF OpenPlan
<1>6. Len(p) > 1 => t # <<>>
    BY <1>1
<1> QED
    BY <1>1, <1>2, <1>3, <1>4, <1>5, <1>6 DEF t

-----------------------------------------------------------------------------
(* The invariant. *)

LEMMA InitIInv == Init => IInv
<1> SUFFICES ASSUME Init PROVE IInv
    OBVIOUS
<1>1. TypeOK
    <2>1. /\ plan \in Seq(Step)
          /\ attempt \in 0 .. MaxRetries /\ age \in 0 .. Window + 1
          /\ executed \in 0 .. MaxRetries + 1 /\ fails \in 0 .. Threshold
          /\ faults \in Nat /\ events \in Nat
        BY ClientAssumption DEF Init
    <2> QED
        BY <2>1 DEF Init, TypeOK, Reply, Outcome, Mode
<1>2. HandlerOK /\ ExecutionOK /\ StampOK /\ GateOK
    BY DEF Init, HandlerOK, ExecutionOK, StampOK, StaleHasCause, GateOK, Running
<1> QED
    BY <1>1, <1>2 DEF IInv

\* A request starts with a plan; only an open has its plan to keep.
LEMMA RequestIInv ==
    ASSUME IInv, NEW name \in {"open", "close", "status", "pass"},
           NEW steps \in Seq(Step), Request(name, steps), told' \in BOOLEAN,
           name = "open" =>
               OpenPlan(steps) /\ steps # <<>> /\ Head(steps) \in {"row", "gate"}
    PROVE  IInv'
<1> USE DEF Request, IInv, call, clock, breaker, account
<1>1. TypeOK'
    BY DEF TypeOK
<1>2. HandlerOK' /\ ExecutionOK' /\ StampOK'
    BY DEF HandlerOK, ExecutionOK, StampOK, StaleHasCause, Running
<1>3. GateOK'
    BY DEF GateOK, Kind
<1> QED
    BY <1>1, <1>2, <1>3

LEMMA RequestsIInv ==
    ASSUME IInv, OpenSignal \/ CloseSignal \/ StatusRequest \/ ReconcileTick
    PROVE  IInv'
<1>1. told \in BOOLEAN /\ paused \in BOOLEAN
    BY DEF IInv, TypeOK
<1>2. CASE OpenSignal
    BY <1>1, <1>2, OpenSteps, RequestIInv DEF OpenSignal
<1>3. CASE CloseSignal
    BY <1>1, <1>3, OtherSteps, RequestIInv DEF CloseSignal
<1>4. CASE StatusRequest
    BY <1>1, <1>4, OtherSteps, RequestIInv DEF StatusRequest
<1>5. CASE ReconcileTick
    BY <1>1, <1>5, OtherSteps, RequestIInv DEF ReconcileTick
<1> QED
    BY <1>2, <1>3, <1>4, <1>5

\* A step that calls nothing.
LEMMA GateOKTail ==
    ASSUME IInv, plan # <<>>, plan' \in {Tail(plan), <<>>}, who' = who,
           who = "open" /\ Kind # "row" => ~paused' \/ tripped' = "probe" \/ plan' = <<>>
    PROVE  plan' \in Seq(Step) /\ GateOK'
<1>1. plan \in Seq(Step)
    BY DEF IInv, TypeOK
<1>2. Tail(plan) \in Seq(Step)
    BY <1>1
<1>3. CASE plan' = <<>>
    BY <1>3 DEF GateOK, OpenPlan
<1>4. CASE plan' = Tail(plan) /\ plan' # <<>> /\ who = "open"
    <2>1. OpenPlan(plan)
        BY <1>4 DEF IInv, GateOK
    <2>2. /\ OpenPlan(plan')
          /\ Kind = "row" => Kind' = "gate"
        BY <1>1, <1>4, <2>1, OpenPlanTail DEF Kind
    <2> QED
        BY <1>2, <1>4, <2>2 DEF GateOK
<1>5. CASE who # "open"
    <2>1. GateOK'
        BY <1>5 DEF GateOK
    <2> QED
        BY <1>2, <1>3, <2>1
<1> QED
    BY <1>3, <1>4, <1>5

\* A synchronisation has either set the offset right or left its mark.
LEMMA SyncResult ==
    ASSUME TypeOK, Sync
    PROVE  /\ synced' \in BOOLEAN /\ due' \in BOOLEAN /\ unsynced' \in BOOLEAN
           /\ faults' \in Nat
           /\ synced' \/ unsynced'
           /\ unsynced => unsynced'
<1>1. CASE synced' = TRUE /\ due' = FALSE /\ Fine /\ UNCHANGED unsynced
    BY <1>1 DEF TypeOK, Fine
<1>2. CASE UNCHANGED clock /\ Faulty /\ unsynced' = TRUE
    <2>1. faults' = faults + 1 /\ faults \in Nat
        BY <1>2 DEF TypeOK, Faulty
    <2>2. synced' \in BOOLEAN /\ due' \in BOOLEAN /\ unsynced'
        BY <1>2 DEF TypeOK, clock
    <2> QED
        BY <2>1, <2>2
<1> QED
    BY <1>1, <1>2 DEF Sync

LEMMA LocalIInv ==
    ASSUME IInv, RequestDone \/ Gate \/ SyncBeforeClose \/ ProbeCached
    PROVE  IInv'
<1> USE DEF IInv
<1>1. CASE RequestDone
    BY <1>1 DEF RequestDone, TypeOK, HandlerOK, ExecutionOK, StampOK, StaleHasCause, GateOK, Running,
        call, clock, breaker, account
<1>2. CASE Gate \/ ProbeCached
    <2> USE <1>2 DEF Gate, ProbeCached, call, clock, breaker, account
    <2>1. plan' \in Seq(Step) /\ GateOK'
        <3>1. who = "open" /\ Kind # "row" => ~paused' \/ tripped' = "probe" \/ plan' = <<>>
            BY DEF GateOK, TypeOK, Kind
        <3> QED
            BY <3>1, GateOKTail
    <2>2. TypeOK'
        BY <2>1 DEF TypeOK
    <2>3. HandlerOK' /\ ExecutionOK' /\ StampOK'
        BY DEF HandlerOK, ExecutionOK, StampOK, StaleHasCause, Running
    <2> QED
        BY <2>1, <2>2, <2>3
<1>3. CASE SyncBeforeClose
    <2> USE <1>3 DEF SyncBeforeClose, breaker, account
    <2>1. plan' \in Seq(Step) /\ GateOK'
        <3>1. who = "open" /\ Kind # "row" => ~paused' \/ tripped' = "probe" \/ plan' = <<>>
            BY DEF GateOK, TypeOK, Kind
        <3> QED
            BY <3>1, GateOKTail
    <2>2. /\ synced' \in BOOLEAN /\ due' \in BOOLEAN /\ unsynced' \in BOOLEAN
          /\ faults' \in Nat
          /\ unsynced => unsynced'
        BY SyncResult
    <2>4. TypeOK'
        BY <2>1, <2>2 DEF TypeOK
    <2>3. HandlerOK' /\ ExecutionOK' /\ StampOK'
        BY <2>2 DEF HandlerOK, ExecutionOK, StampOK, StaleHasCause, Running
    <2> QED
        BY <2>1, <2>3, <2>4
<1> QED
    BY <1>1, <1>2, <1>3
\* The call goes out: the timestamp of the first attempt, and each attempt.
LEMMA BeginIInv ==
    ASSUME IInv, BeginCall \/ Stamp
    PROVE  IInv'
<1> USE DEF IInv, service, breaker, account
<1>1. CASE BeginCall
    <2> USE <1>1 DEF BeginCall, clock
    <2>1. TypeOK'
        <3>1. attempt' \in 0 .. MaxRetries /\ age' \in 0 .. Window + 1
              /\ executed' \in 0 .. MaxRetries + 1
            BY ClientAssumption
        <3> QED
            BY <3>1 DEF TypeOK, Reply, Outcome
    <2>2. HandlerOK' /\ GateOK'
        BY DEF HandlerOK, GateOK, Running, Kind
    <2>3. ExecutionOK' /\ StampOK'
        BY DEF ExecutionOK, StampOK, StaleHasCause
    <2> QED
        BY <2>1, <2>2, <2>3
<1>2. CASE Stamp
    <2> USE <1>2 DEF Stamp
    <2>1. /\ synced' \in BOOLEAN /\ due' \in BOOLEAN /\ unsynced' \in BOOLEAN
          /\ faults' \in Nat
          /\ unsynced => unsynced'
        BY SyncResult DEF TypeOK, clock
    <2>2. TypeOK'
        BY <2>1 DEF TypeOK
    <2>3. HandlerOK' /\ GateOK'
        BY DEF HandlerOK, GateOK, Running, Kind
    <2>4. ExecutionOK' /\ StampOK'
        BY <2>1 DEF ExecutionOK, StampOK, StaleHasCause, TypeOK
    <2> QED
        BY <2>2, <2>3, <2>4
<1> QED
    BY <1>1, <1>2

\* What comes back tells of an execution: "ok" of one, the other answers of
\* none in this attempt.
LEMMA SendResult ==
    ASSUME IInv, Send
    PROVE  /\ executed' \in {executed, executed + 1}
           /\ reply' \in Reply /\ lossy' \in BOOLEAN /\ faults' \in Nat
           /\ lossy => lossy'
           /\ reply' = "ok" => executed' = executed + 1
           /\ executed' = executed + 1 => reply' = "ok" \/ lossy'
           /\ reply' \in {"busy", "lost"} => lossy'
           /\ reply' = "stale" => Signed /\ ~(synced /\ age <= Window)
<1>1. faults \in Nat /\ lossy \in BOOLEAN /\ executed \in Nat
    BY ClientAssumption DEF IInv, TypeOK
<1>2. faults' \in Nat
    BY <1>1 DEF Send, Answered, Unanswered, Fine, Faulty
<1>3. CASE Answered
    BY <1>1, <1>2, <1>3 DEF Answered, Fresh, Reply
<1>4. CASE Unanswered
    BY <1>1, <1>2, <1>4 DEF Unanswered, Reply
<1> QED
    BY <1>3, <1>4 DEF Send

LEMMA SendIInv ==
    ASSUME IInv, Send
    PROVE  IInv'
<1> USE DEF service, clock, breaker, account
<1>1. /\ pc = "send" /\ pc' = "reply"
      /\ UNCHANGED <<service, attempt, outcome, unsynced, clock, breaker, hedge, account>>
    BY DEF Send
<1>2. PICK d \in Delay : age' = AtMost(age + d, Window + 1)
    BY DEF Send
<1>3. age' \in 0 .. Window + 1
    <2>1. age + d \in Nat /\ Window + 1 \in Nat
        BY ClientAssumption DEF IInv, TypeOK
    <2> QED
        BY <1>2, <2>1, AtMostBound
<1>4. executed' <= attempt + 1 /\ executed' \in 0 .. MaxRetries + 1
    BY <1>1, SendResult, ClientAssumption DEF IInv, TypeOK, ExecutionOK
<1>5. TypeOK'
    BY <1>1, <1>3, <1>4, SendResult DEF IInv, TypeOK
<1>6. HandlerOK' /\ GateOK'
    BY <1>1 DEF IInv, HandlerOK, GateOK, Running, Kind
<1>7. ExecutionOK'
    <2>1. executed > 0 => lossy
        BY <1>1 DEF IInv, ExecutionOK
    <2>2. executed \in Nat
        BY ClientAssumption DEF IInv, TypeOK
    <2>3. reply' = "ok" => executed' > 0
        BY <2>2, SendResult
    <2>4. reply' # "ok" /\ executed' > 0 => lossy'
        BY <2>1, <2>2, SendResult
    <2> QED
        BY <1>1, <1>4, <2>3, <2>4, SendResult DEF ExecutionOK
<1>8. StampOK'
    <2>1. reply' = "stale" => Signed /\ (lossy \/ unsynced \/ attempt = 0)
        <3>1. synced /\ age = 0 => synced /\ age <= Window
            BY ClientAssumption
        <3>2. attempt \in Nat
            BY ClientAssumption DEF IInv, TypeOK
        <3> QED
            BY <1>1, <3>1, <3>2, SendResult DEF IInv, StampOK
    <2>2. outcome' = "running"
        BY <1>1 DEF IInv, HandlerOK, Running
    <2>3. Signed' = Signed
        BY <1>1 DEF Signed, Kind
    <2> QED
        BY <1>1, <2>1, <2>2, <2>3, SendResult DEF StampOK, StaleHasCause
<1> QED
    BY <1>5, <1>6, <1>7, <1>8 DEF IInv
\* Another attempt.
LEMMA AgainIInv ==
    ASSUME IInv, pc = "reply", Resend \/ Resign
    PROVE  IInv'
<1> USE DEF service, breaker, account
<1>1. /\ attempt < MaxRetries /\ attempt' = attempt + 1 /\ pc' = "send"
      /\ reply # "ok"
      /\ UNCHANGED <<service, reply, outcome, executed, lossy, breaker, hedge, account>>
    BY DEF Resend, Resign
<1>2. age' \in 0 .. Window + 1
    <2>1. CASE Resend
        <3>1. age + Backoff[attempt] \in Nat /\ Window + 1 \in Nat
            BY <1>1, ClientAssumption DEF IInv, TypeOK
        <3> QED
            BY <2>1, <3>1, AtMostBound DEF Resend
    <2>2. CASE Resign
        BY <2>2, ClientAssumption DEF Resign, IInv, TypeOK
    <2> QED
        BY <2>1, <2>2
<1>3. /\ synced' \in BOOLEAN /\ due' \in BOOLEAN /\ unsynced' \in BOOLEAN
      /\ faults' \in Nat
      /\ Resign /\ Signed => age' = 0 /\ (synced' \/ unsynced')
      /\ unsynced => unsynced'
    <2>1. CASE Resend
        BY <2>1 DEF Resend, clock, IInv, TypeOK, Resign
    <2>2. CASE Resign /\ Signed
        BY <2>2, SyncResult DEF Resign, IInv
    <2>3. CASE Resign /\ ~Signed
        BY <2>3 DEF Resign, clock, IInv, TypeOK
    <2> QED
        BY <2>1, <2>2, <2>3
<1>4. TypeOK'
    <2>1. attempt' \in 0 .. MaxRetries
        BY <1>1, ClientAssumption DEF IInv, TypeOK
    <2> QED
        BY <1>1, <1>2, <1>3, <2>1 DEF IInv, TypeOK
<1>5. HandlerOK' /\ GateOK'
    BY <1>1 DEF IInv, HandlerOK, GateOK, Running, Kind
<1>6. ExecutionOK'
    <2>1. executed <= attempt + 1 /\ (executed > 0 => lossy)
        BY <1>1 DEF IInv, ExecutionOK
    <2> QED
        BY <1>1, <2>1 DEF ExecutionOK
<1>7. StampOK'
    <2>1. Signed' = Signed
        BY <1>1 DEF Signed, Kind
    <2>2. Signed => lossy \/ unsynced' \/ (synced' /\ age' = 0)
        <3>1. CASE Resend
            BY <3>1 DEF Resend, IInv, StampOK
        <3>2. CASE Resign
            BY <1>3, <3>2
        <3> QED
            BY <3>1, <3>2
    <2>3. outcome' # "stale"
        BY <1>1 DEF IInv, HandlerOK, Running
    <2> QED
        BY <1>1, <2>1, <2>2, <2>3 DEF StampOK, StaleHasCause
<1> QED
    BY <1>4, <1>5, <1>6, <1>7 DEF IInv

\* The call ends: what is left of the request, and the pause.
LEMMA EndIInv ==
    ASSUME IInv, pc = "reply", Succeed \/ AuthFails \/ Fails
    PROVE  IInv'
<1> USE DEF clock
<1>1. PICK result \in {"ok", "refused", "auth", "stale", "failed"} :
          /\ CallEnds(result)
          /\ result = "auth" \/ UNCHANGED breaker \/ (result = "ok" /\ ResetBreaker)
          /\ result = "auth" => AuthFails
          /\ result = "stale" => reply = "stale" /\ attempt = MaxRetries
    BY DEF Succeed, AuthFails, Fails
<1>2. /\ plan' \in Rest(result) /\ pc' = "next" /\ outcome' = result
      /\ UNCHANGED <<who, told, attempt, age, reply, executed, lossy, unsynced, synced,
                     due, keys, events, faults>>
    BY <1>1 DEF CallEnds
<1>3. plan # <<>> /\ Kind \in Call /\ plan \in Seq(Step)
    BY DEF IInv, HandlerOK, Running, TypeOK
<1>4. plan' \in {Tail(plan), <<>>}
    BY <1>2 DEF Rest, SkipRow
<1>5. /\ fails' \in 0 .. Threshold
      /\ paused' \in BOOLEAN /\ tripped' \in Call \cup {"none"}
    <2>1. CASE result = "auth"
        <3>1. fails + 1 \in Nat /\ Threshold \in Nat
            BY ClientAssumption DEF IInv, TypeOK
        <3>2. fails' \in 0 .. Threshold
            BY <1>1, <2>1, <3>1, AtMostBound DEF AuthFails
        <3>3. paused' \in BOOLEAN
            BY <1>1, <2>1 DEF AuthFails
        <3>4. tripped' \in Call \cup {"none"}
            BY <1>1, <1>3, <2>1 DEF AuthFails, IInv, TypeOK
        <3> QED
            BY <3>2, <3>3, <3>4
    <2>2. CASE UNCHANGED breaker
        BY <2>2 DEF breaker, IInv, TypeOK
    <2>3. CASE ResetBreaker
        <3>1. 0 \in 0 .. Threshold
            BY ClientAssumption
        <3> QED
            BY <2>3, <3>1 DEF ResetBreaker
    <2> QED
        BY <1>1, <2>1, <2>2, <2>3
<1>6. who = "open" /\ Kind # "row" => ~paused' \/ tripped' = "probe" \/ plan' = <<>>
    <2> SUFFICES ASSUME who = "open", Kind # "row"
                 PROVE  ~paused' \/ tripped' = "probe" \/ plan' = <<>>
        OBVIOUS
    <2>1. ~paused \/ tripped = "probe"
        BY <1>3 DEF IInv, GateOK, Call
    <2>2. CASE UNCHANGED breaker
        BY <2>1, <2>2 DEF breaker
    <2>3. CASE ResetBreaker
        BY <2>3 DEF ResetBreaker
    <2>4. CASE result = "auth"
        <3>1. Kind # "sweep"
            BY <1>3, OpenPlanTail DEF IInv, GateOK, Kind
        <3>2. CASE Kind = "probe"
            <4>1. fails + 1 >= Threshold => tripped' = "probe"
                BY <1>1, <2>4, <3>2 DEF AuthFails
            <4>2. ~(fails + 1 >= Threshold) => paused' = paused /\ tripped' = tripped
                BY <1>1, <2>4 DEF AuthFails, IInv, TypeOK
            <4> QED
                BY <2>1, <4>1, <4>2
        <3>3. CASE Kind # "probe"
            BY <1>2, <2>4, <3>1, <3>3 DEF Rest
        <3> QED
            BY <3>2, <3>3
    <2> QED
        BY <1>1, <2>2, <2>3, <2>4
<1>7. plan' \in Seq(Step) /\ GateOK'
    BY <1>2, <1>3, <1>4, <1>6, GateOKTail
<1>8. TypeOK'
    <2>1. pending' \in BOOLEAN
        BY <1>1 DEF CallEnds, PendingAfter, IInv, TypeOK
    <2>2. hedge' \in Mode
        BY <1>1 DEF CallEnds, CacheMode, Mode, IInv, TypeOK
    <2>3. outcome' \in Outcome
        BY <1>2 DEF Outcome
    <2> QED
        BY <1>2, <1>5, <1>7, <2>1, <2>2, <2>3 DEF IInv, TypeOK
<1>9. HandlerOK' /\ ExecutionOK'
    BY <1>2 DEF HandlerOK, ExecutionOK, Running
<1>10. StampOK'
    <2>1. result = "stale" => lossy \/ unsynced
        <3>1. MaxRetries # 0
            BY ClientAssumption
        <3> QED
            BY <1>1, <3>1 DEF IInv, StampOK
    <2> QED
        BY <1>2, <2>1 DEF StampOK, StaleHasCause
<1> QED
    BY <1>7, <1>8, <1>9, <1>10 DEF IInv

\* The account and the clock.
LEMMA OutsideIInv ==
    ASSUME IInv, KeysChange \/ TimePasses
    PROVE  IInv'
<1> USE DEF service, call, breaker
<1>1. CASE KeysChange
    BY <1>1 DEF KeysChange, clock, IInv, TypeOK, HandlerOK, ExecutionOK, StampOK,
        StaleHasCause, GateOK, Running, Kind, Signed
<1>2. CASE TimePasses
    <2> USE <1>2 DEF TimePasses
    <2>5. events \in Nat /\ synced \in BOOLEAN /\ due \in BOOLEAN
        BY DEF IInv, TypeOK
    <2>6. events' \in Nat
        BY <2>5
    <2>1. synced' \in BOOLEAN /\ due' \in BOOLEAN /\ events' \in Nat
        BY <2>5, <2>6
    <2>2. TypeOK'
        BY <2>1 DEF IInv, TypeOK
    <2>3. HandlerOK' /\ GateOK'
        BY DEF IInv, HandlerOK, GateOK, Running, Kind
    <2>4. ExecutionOK' /\ StampOK'
        BY DEF IInv, ExecutionOK, StampOK, StaleHasCause
    <2> QED
        BY <2>2, <2>3, <2>4 DEF IInv
<1> QED
    BY <1>1, <1>2

LEMMA NextIInv ==
    ASSUME IInv, [Next]_vars
    PROVE  IInv'
<1>1. CASE UNCHANGED vars
    BY <1>1 DEF vars, service, call, clock, breaker, account, IInv, TypeOK, HandlerOK,
        ExecutionOK, StampOK, StaleHasCause, GateOK, Running, Kind, Signed
<1>2. CASE OpenSignal \/ CloseSignal \/ StatusRequest \/ ReconcileTick
    BY <1>2, RequestsIInv
<1>3. CASE RequestDone \/ Gate \/ SyncBeforeClose \/ ProbeCached
    BY <1>3, LocalIInv
<1>4. CASE BeginCall \/ Stamp
    BY <1>4, BeginIInv
<1>5. CASE Send
    BY <1>5, SendIInv
<1>6. CASE Receive
    BY <1>6, AgainIInv, EndIInv DEF Receive
<1>7. CASE KeysChange \/ TimePasses
    BY <1>7, OutsideIInv
<1> QED
    BY <1>1, <1>2, <1>3, <1>4, <1>5, <1>6, <1>7 DEF Next, Handler

\* The invariant of the client holds in every state.
LEMMA ClientInvariant == Spec => []IInv
BY InitIInv, NextIInv, PTL DEF Spec
-----------------------------------------------------------------------------
(* The results. *)

\* Every state the client reaches is well formed; in particular no request
\* is executed more often than it may be sent.
THEOREM ClientTypeCorrect == Spec => []TypeOK
<1>1. IInv => TypeOK
    BY DEF IInv
<1> QED
    BY <1>1, ClientInvariant, PTL

\* The timestamp alone never defeats a call.
THEOREM StaleAlwaysHasCause == Spec => []StaleHasCause
<1>1. IInv => StaleHasCause
    BY DEF IInv, StampOK
<1> QED
    BY <1>1, ClientInvariant, PTL

\* No open posts its order in a pause, but for a pause by its own probe.
THEOREM BreakerAlwaysHolds == Spec => []BreakerHolds
<1>1. IInv => BreakerHolds
    BY DEF IInv, HandlerOK, Running, GateOK, BreakerHolds
<1> QED
    BY <1>1, ClientInvariant, PTL

-----------------------------------------------------------------------------
(* The refinement. *)

\* What no call is running for does not change what the contract sees.
LEMMA IdleStep ==
    ASSUME IInv, UNCHANGED <<executed, lossy, outcome>>
    PROVE  UNCHANGED Contract!rest
BY DEF Contract!rest

\* An attempt is an execution, a loss, or nothing.
LEMMA SendStep ==
    ASSUME IInv, Send
    PROVE  [Contract!Next]_(Contract!rest)
<1>1. /\ executed \in Nat /\ MaxRetries \in Nat /\ attempt <= MaxRetries
      /\ lossy \in BOOLEAN /\ lossy' \in BOOLEAN
    BY ClientAssumption, SendResult DEF IInv, TypeOK
<1>2. /\ outcome = "running" /\ outcome' = "running"
      /\ executed <= attempt /\ (executed > 0 => lossy)
    BY DEF Send, IInv, HandlerOK, Running, ExecutionOK
<1>3. executed < MaxRetries + 1 /\ attempt \in Nat
    BY <1>1, <1>2, ClientAssumption DEF IInv, TypeOK
<1>4. lossy => lossy'
    BY SendResult
<1>5. CASE executed' = executed + 1
    <2>1. lossy' \in {lossy, TRUE}
        BY <1>1, <1>4
    <2>2. Contract!Execute
        BY <1>2, <1>3, <1>5, <2>1 DEF Contract!Execute, Failed
    <2> QED
        BY <2>2 DEF Contract!Next
<1>6. CASE executed' = executed /\ lossy'
    <2>1. Contract!Lose
        BY <1>1, <1>2, <1>6 DEF Contract!Lose, Failed
    <2> QED
        BY <2>1 DEF Contract!Next
<1>7. CASE executed' = executed /\ ~lossy'
    BY <1>1, <1>2, <1>4, <1>7 DEF Contract!rest
<1> QED
    BY <1>5, <1>6, <1>7, SendResult

\* The end of a call is a success that is real, or a failure that hides
\* nothing.
LEMMA EndStep ==
    ASSUME IInv, pc = "reply", Succeed \/ AuthFails \/ Fails
    PROVE  Contract!Next
<1>1. /\ outcome = "running" /\ UNCHANGED <<executed, lossy>>
      /\ reply = "ok" => executed > 0
      /\ reply # "ok" /\ executed > 0 => lossy
    BY DEF IInv, HandlerOK, Running, ExecutionOK, Succeed, AuthFails, Fails, CallEnds
<1>2. CASE Succeed
    <2>1. outcome' = "ok" /\ executed > 0
        BY <1>1, <1>2 DEF Succeed, CallEnds
    <2>2. Contract!Succeed
        BY <1>1, <2>1 DEF Contract!Succeed, Failed
    <2> QED
        BY <2>2 DEF Contract!Next
<1>3. CASE AuthFails \/ Fails
    <2>1. outcome' \in Failed /\ reply # "ok"
        BY <1>3 DEF AuthFails, Fails, CallEnds, Failed
    <2>2. Contract!Fail
        BY <1>1, <2>1 DEF Contract!Fail, Failed
    <2> QED
        BY <2>2 DEF Contract!Next
<1> QED
    BY <1>2, <1>3

LEMMA ClientStep ==
    ASSUME IInv, [Next]_vars
    PROVE  [Contract!Next]_(Contract!rest)
<1>1. CASE UNCHANGED <<executed, lossy, outcome>>
    BY <1>1, IdleStep
<1>2. CASE BeginCall
    <2>1. outcome # "running" /\ outcome \in Outcome
        BY <1>2 DEF BeginCall, IInv, HandlerOK, Running, TypeOK
    <2>2. Contract!Begin
        BY <1>2, <2>1 DEF BeginCall, Contract!Begin, Failed
    <2> QED
        BY <2>2 DEF Contract!Next
<1>3. CASE Send
    BY <1>3, SendStep
<1>4. CASE Receive
    <2>1. CASE Resend \/ Resign
        BY <2>1, <1>1 DEF Resend, Resign
    <2>2. CASE pc = "reply" /\ (Succeed \/ AuthFails \/ Fails)
        BY <2>2, EndStep
    <2> QED
        BY <1>4, <2>1, <2>2 DEF Receive
<1>5. CASE OpenSignal \/ CloseSignal \/ StatusRequest \/ ReconcileTick
    BY <1>1, <1>5 DEF OpenSignal, CloseSignal, StatusRequest, ReconcileTick, Request, call
<1>6. CASE RequestDone \/ Gate \/ SyncBeforeClose \/ ProbeCached \/ Stamp
    BY <1>1, <1>6 DEF RequestDone, Gate, SyncBeforeClose, ProbeCached, Stamp, call
<1>7. CASE KeysChange \/ TimePasses
    BY <1>1, <1>7 DEF KeysChange, TimePasses, call
<1>8. CASE UNCHANGED vars
    BY <1>1, <1>8 DEF vars, call
<1> QED
    BY <1>2, <1>3, <1>4, <1>5, <1>6, <1>7, <1>8 DEF Next, Handler

\* BinanceClient.request keeps the contract SignalExecution relies on.
THEOREM ClientKeepsRestCall == Spec => KeepsRestCall
<1>1. Init => Contract!Init
    BY DEF Init, Contract!Init, Failed
<1>2. IInv /\ [Next]_vars => [Contract!Next]_(Contract!rest)
    BY ClientStep
<1> QED
    BY <1>1, <1>2, ClientInvariant, PTL DEF Spec, KeepsRestCall, Contract!Spec
=============================================================================
