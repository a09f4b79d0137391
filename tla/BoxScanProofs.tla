--------------------------- MODULE BoxScanProofs ---------------------------
(***************************************************************************)
(* The safety properties of BoxScan for every number of threads, scans,    *)
(* modes, keys and stocks and any faults.                                  *)
(***************************************************************************)
EXTENDS BoxScan, TLAPS

\* A worker that has yet to clear the mode is there beside a scan only if the
\* start of that scan has overtaken it.
ModeOK ==
    /\ ModeTold
    /\ \A t \in Thread : pc[t] = "spawn" => scan_mode = asked[t] \/ overtaken
    /\ Active # {} \/ Starting # {}
        => overtaken \/ \A s \in Scan : stage[s] # "cleared"

\* The error shown is that of the scan that ends; a start clears it.
ErrorOK ==
    /\ ErrorTold
    /\ \A t \in Thread : pc[t] = "spawn" => ~last_error
    /\ \A s \in Scan : stage[s] = "ended" => last_error = failed

Saving == {t \in Thread : pc[t] \in ConfigPlaces}
Updating == {t \in Thread : pc[t] \in PoolPlaces}

Truncating == {t \in Thread : pc[t] = "write_config"}
Emptying == {t \in Thread : pc[t] = "write_pool"}

\* A save that is alone is about to write the memory, which is the file with
\* the patch unless the file was spoiled; until it is opened the file is whole.
ConfigOK ==
    /\ Saving # {} \/ "config" \in spoiled => loaded
    /\ "config" \notin crowded =>
        /\ \A t1, t2 \in Saving : t1 = t2
        /\ \A t \in Saving :
            /\ copy[t] = config
            /\ pc[t] = "write_config" => config_file = Blank
            /\ "config" \notin spoiled => config = Patched(saved, asked[t])
    /\ "config" \notin spoiled =>
        /\ Truncating = {} => saved = Parsed(config_file, Default)
        /\ Saving = {} => config = IF loaded THEN saved ELSE Default

PoolOK ==
    /\ "pool" \notin crowded =>
        /\ \A t1, t2 \in Updating : t1 = t2
        /\ \A t \in Updating :
            /\ copy[t] = Changed(pooled, asked[t])
            /\ pc[t] = "write_pool" => pool_file = Blank
    /\ "pool" \notin spoiled /\ Emptying = {} => Stocks = pooled

ScanInv == TypeOK /\ OneScan /\ ModeOK /\ ErrorOK
FileInv == TypeOK /\ ConfigOK /\ PoolOK

-----------------------------------------------------------------------------
(* Types. *)

LEMMA PatchedType ==
    ASSUME NEW base \in Config, NEW p \in Patch
    PROVE  Patched(base, p) \in Config
<1>1. PICK ks \in SUBSET Key : p \in [ks -> Value]
    BY DEF Patch
<1> QED
    BY <1>1 DEF Patched, Config

LEMMA ChangedType ==
    ASSUME NEW stocks \in Pool, NEW c \in Change
    PROVE  Changed(stocks, c) \in Pool
BY DEF Changed, Change, Pool

LEMMA StocksType ==
    ASSUME TypeOK
    PROVE  Stocks \in Pool
BY DEF TypeOK, Stocks, Parsed, Readable, Text, Blank, Broken, Pool

LEMMA LoadedType ==
    ASSUME TypeOK
    PROVE  Loaded \in Config
BY DEF TypeOK, Loaded, Parsed, Readable, Text, Blank, Broken

\* What a file is after a write.
LEMMA WrittenIs ==
    ASSUME NEW content, NEW new, NEW after \in Written(content, new)
    PROVE  /\ after \in {Text(new), Broken}
           /\ content = Blank => after = Text(new)
BY DEF Written

LEMMA ParsedText ==
    ASSUME NEW x, NEW default
    PROVE  /\ Parsed(Text(x), default) = x
           /\ Parsed(Blank, default) = default
BY DEF Parsed, Readable, Text, Blank

LEMMA InitScan == Init => ScanInv /\ FileInv
<1> SUFFICES ASSUME Init PROVE ScanInv /\ FileInv
    OBVIOUS
<1>1. TypeOK
    BY BoxAssumption DEF Init, TypeOK, Pool, StartPlaces, ConfigPlaces, PoolPlaces
<1>2. OneScan /\ ModeOK /\ ErrorOK
    BY DEF Init, OneScan, ModeOK, ModeTold, ErrorOK, ErrorTold, Active, Starting, StartPlaces
<1>3. ConfigOK /\ PoolOK
    BY ParsedText DEF Init, ConfigOK, PoolOK, Saving, Updating, Truncating, Emptying,
        ConfigPlaces, PoolPlaces, Stocks
<1> QED
    BY <1>1, <1>2, <1>3 DEF ScanInv, FileInv

\* The threads of requests keep their types.
ThreadsOK ==
    /\ pc \in [Thread -> {"idle"} \cup StartPlaces \cup ConfigPlaces \cup PoolPlaces]
    /\ \A t \in Thread :
        /\ pc[t] \in StartPlaces => asked[t] \in Mode
        /\ pc[t] \in ConfigPlaces => asked[t] \in Patch /\ copy[t] \in Config
        /\ pc[t] \in PoolPlaces => asked[t] \in Change /\ copy[t] \in Pool
    /\ DOMAIN asked = Thread /\ DOMAIN copy = Thread

LEMMA DoneThreads ==
    ASSUME ThreadsOK, NEW t \in Thread, Done(t)
    PROVE  ThreadsOK'
BY DEF ThreadsOK, Done, StartPlaces, ConfigPlaces, PoolPlaces

LEMMA ReadyType ==
    ASSUME TypeOK, Ready
    PROVE  loaded' \in BOOLEAN /\ config' \in Config
BY LoadedType DEF Ready

LEMMA RequestType ==
    ASSUME TypeOK, NEW t \in Thread, Request(t)
    PROVE  TypeOK'
<1> USE DEF TypeOK, flags, workers, files, bounds
<1>1. ASSUME NEW m \in Mode, StartScan(t, m)
      PROVE  TypeOK'
    BY <1>1 DEF StartScan, history, StartPlaces, ConfigPlaces, PoolPlaces
<1>2. ASSUME NEW p \in Patch, SaveConfig(t, p)
      PROVE  TypeOK'
    <2>1. Patched(Loaded, p) \in Config
        BY LoadedType, PatchedType
    <2>2. crowded' \subseteq {"config", "pool"}
        BY <1>2 DEF SaveConfig, Begins
    <2> QED
        BY <1>2, <2>1, <2>2 DEF SaveConfig, StartPlaces, ConfigPlaces, PoolPlaces
<1>3. ASSUME NEW c \in Change, UpdatePool(t, c)
      PROVE  TypeOK'
    <2>1. Changed(Stocks, c) \in Pool
        BY StocksType, ChangedType
    <2>2. crowded' \subseteq {"config", "pool"} /\ pooled' \in Pool
        BY <1>3, StocksType DEF UpdatePool, Begins
    <2>3. loaded' \in BOOLEAN /\ config' \in Config
        BY <1>3, ReadyType DEF UpdatePool
    <2> QED
        BY <1>3, <2>1, <2>2, <2>3 DEF UpdatePool, StartPlaces, ConfigPlaces, PoolPlaces
<1> QED
    BY <1>1, <1>2, <1>3 DEF Request

LEMMA HandlerType ==
    ASSUME TypeOK, NEW t \in Thread, Handler(t)
    PROVE  TypeOK'
<1>0. ThreadsOK
    BY DEF TypeOK, ThreadsOK
<1> USE DEF flags, workers, files, history, bounds
<1>1. CASE Announce(t)
    BY <1>1 DEF Announce, Goes, TypeOK, StartPlaces, ConfigPlaces, PoolPlaces
<1>2. CASE Spawn(t)
    <2>1. ThreadsOK' /\ loaded' \in BOOLEAN /\ config' \in Config
        BY <1>0, <1>2, DoneThreads, ReadyType DEF Spawn
    <2>2. asked[t] \in Mode
        BY <1>2 DEF Spawn, TypeOK, StartPlaces
    <2> QED
        BY <1>2, <2>1, <2>2 DEF Spawn, TypeOK, ThreadsOK
<1>3. CASE SpawnFails(t)
    <2>1. ThreadsOK'
        BY <1>0, <1>3, DoneThreads DEF SpawnFails
    <2>2. faults' \in Nat /\ loaded' \in BOOLEAN /\ config' \in Config
        BY <1>3, ReadyType DEF SpawnFails, TypeOK
    <2> QED
        BY <1>3, <2>1, <2>2 DEF SpawnFails, TypeOK, ThreadsOK
<1>4. CASE OpenConfig(t)
    BY <1>4 DEF OpenConfig, Goes, TypeOK, StartPlaces, ConfigPlaces, PoolPlaces
<1>5. CASE WriteConfig(t)
    <2>1. ThreadsOK'
        BY <1>0, <1>5, DoneThreads DEF WriteConfig
    <2>2. asked[t] \in Patch /\ copy[t] \in Config
        BY <1>5 DEF WriteConfig, TypeOK, ConfigPlaces
    <2>3. config_file' \in {Text(copy[t]), Broken}
        BY <1>5, WrittenIs DEF WriteConfig
    <2>4. saved' \in Config /\ spoiled' \subseteq {"config", "pool"}
        BY <1>5, <2>2, PatchedType DEF WriteConfig, Ends, TypeOK
    <2> QED
        BY <1>5, <2>1, <2>2, <2>3, <2>4 DEF WriteConfig, TypeOK, ThreadsOK
<1>6. CASE OpenPool(t)
    BY <1>6 DEF OpenPool, Goes, TypeOK, StartPlaces, ConfigPlaces, PoolPlaces
<1>7. CASE WritePool(t)
    <2>1. ThreadsOK'
        BY <1>0, <1>7, DoneThreads DEF WritePool
    <2>2. asked[t] \in Change /\ copy[t] \in Pool
        BY <1>7 DEF WritePool, TypeOK, PoolPlaces
    <2>3. pool_file' \in {Text(copy[t]), Broken}
        BY <1>7, WrittenIs DEF WritePool
    <2>4. pooled' \in Pool /\ spoiled' \subseteq {"config", "pool"}
        BY <1>7, <2>2, ChangedType DEF WritePool, Ends, TypeOK
    <2> QED
        BY <1>7, <2>1, <2>2, <2>3, <2>4 DEF WritePool, TypeOK, ThreadsOK
<1>8. CASE ConfigFails(t)
    <2>1. ThreadsOK'
        BY <1>0, <1>8, DoneThreads DEF ConfigFails
    <2>2. /\ faults' \in Nat /\ spoiled' \subseteq {"config", "pool"}
          /\ config_file' \in {config_file, Broken}
        BY <1>8 DEF ConfigFails, Fails, TypeOK
    <2> QED
        BY <1>8, <2>1, <2>2 DEF ConfigFails, Fails, TypeOK, ThreadsOK
<1>9. CASE PoolFails(t)
    <2>1. ThreadsOK'
        BY <1>0, <1>9, DoneThreads DEF PoolFails
    <2>2. /\ faults' \in Nat /\ spoiled' \subseteq {"config", "pool"}
          /\ pool_file' \in {pool_file, Broken}
        <3>1. faults' \in Nat
            BY <1>9 DEF PoolFails, Fails, TypeOK
        <3>2. spoiled' = spoiled \/ spoiled' = spoiled \cup {"pool"}
            BY <1>9 DEF PoolFails
        <3>3. pool_file' \in {pool_file, Broken}
            BY <1>9 DEF PoolFails
        <3> QED
            BY <3>1, <3>2, <3>3 DEF TypeOK
    <2> QED
        BY <1>9, <2>1, <2>2 DEF PoolFails, Fails, TypeOK, ThreadsOK
<1> QED
    BY <1>1, <1>2, <1>3, <1>4, <1>5, <1>6, <1>7, <1>8, <1>9 DEF Handler

LEMMA WorkerType ==
    ASSUME TypeOK, NEW s \in Scan, Worker(s)
    PROVE  TypeOK'
<1> USE DEF threads, files, history, bounds
<1>1. CASE ScanEnds(s)
    <2>1. faults' \in Nat
        BY <1>1 DEF ScanEnds, TypeOK
    <2>2. failed' \in BOOLEAN /\ last_error' \in BOOLEAN
        BY <1>1 DEF ScanEnds, TypeOK
    <2> QED
        BY <1>1, <2>1, <2>2 DEF ScanEnds, TypeOK
<1>2. CASE ClearScanning(s)
    BY <1>2 DEF ClearScanning, TypeOK
<1>3. CASE ClearMode(s)
    BY <1>3 DEF ClearMode, TypeOK
<1> QED
    BY <1>1, <1>2, <1>3 DEF Worker

LEMMA CrashType ==
    ASSUME TypeOK, Crash
    PROVE  TypeOK'
<1>1. crashes' \in Nat
    BY DEF Crash, TypeOK
<1>2. spoiled' \subseteq {"config", "pool"} /\ saved' \in Config
    BY BoxAssumption DEF Crash, TypeOK, Parsed, Readable, Text, Blank, Broken
<1>3. config' \in Config
    BY BoxAssumption DEF Crash
<1> QED
    BY <1>1, <1>2, <1>3 DEF Crash, TypeOK, files, StartPlaces, ConfigPlaces, PoolPlaces

LEMMA TypeStep ==
    ASSUME TypeOK, [Next]_vars
    PROVE  TypeOK'
<1>1. CASE ReadRequest
    BY <1>1, ReadyType DEF ReadRequest, TypeOK, threads, flags, workers, files, history, bounds
<1>2. CASE UNCHANGED vars
    BY <1>2 DEF vars, TypeOK, threads, flags, workers, files, history, bounds
<1> QED
    BY <1>1, <1>2, RequestType, HandlerType, WorkerType, CrashType DEF Next

-----------------------------------------------------------------------------
(* Scans. *)

\* What a step leaves of the scans and their starts, it keeps right.
LEMMA ScanUntouched ==
    ASSUME ScanInv, UNCHANGED <<flags, workers>>, Starting' = Starting,
           \A t \in Thread : pc'[t] = "spawn" => pc[t] = "spawn" /\ asked'[t] = asked[t]
    PROVE  OneScan' /\ ModeOK' /\ ErrorOK'
<1>1. Active' = Active
    BY DEF Active, workers
<1> QED
    BY <1>1 DEF ScanInv, OneScan, ModeOK, ModeTold, ErrorOK, ErrorTold, flags, workers

\* A request other than a start begins, or a handler other than that of a
\* start goes on.
LEMMA OtherRequest ==
    ASSUME ScanInv, NEW t \in Thread, UNCHANGED <<flags, workers>>,
           pc[t] \notin StartPlaces, pc' = [pc EXCEPT ![t] = pc'[t]],
           pc'[t] \notin StartPlaces,
           \A u \in Thread : u # t => asked'[u] = asked[u]
    PROVE  OneScan' /\ ModeOK' /\ ErrorOK'
<1>1. \A u \in Thread : u # t => pc'[u] = pc[u]
    BY DEF ScanInv, TypeOK
<1>2. Starting' = Starting
    BY <1>1 DEF Starting
<1>3. \A u \in Thread : pc'[u] = "spawn" => pc[u] = "spawn" /\ asked'[u] = asked[u]
    BY <1>1 DEF StartPlaces
<1> QED
    BY <1>2, <1>3, ScanUntouched

LEMMA StartKeeps ==
    ASSUME ScanInv, NEW t \in Thread, NEW m \in Mode, StartScan(t, m)
    PROVE  OneScan' /\ ModeOK' /\ ErrorOK'
<1>1. Active = {} /\ Starting = {}
    BY DEF StartScan, ScanInv, OneScan
<1>2. Active' = {}
    BY <1>1 DEF StartScan, Active
<1>3. /\ pc'[t] = "announce"
      /\ \A u \in Thread : u # t => pc'[u] = pc[u]
    BY DEF StartScan, ScanInv, TypeOK
<1>4. Starting' = {t}
    BY <1>1, <1>3 DEF Starting, StartPlaces
<1>5. \A u \in Thread : pc'[u] # "spawn"
    BY <1>1, <1>3 DEF Starting, StartPlaces
<1>6. OneScan'
    BY <1>2, <1>4 DEF OneScan, StartScan
<1>7. ModeOK'
    BY <1>2, <1>5 DEF ModeOK, ModeTold, StartScan
<1>8. ErrorOK'
    BY <1>2, <1>5 DEF ErrorOK, ErrorTold, StartScan, ScanInv
<1> QED
    BY <1>6, <1>7, <1>8

LEMMA AnnounceKeeps ==
    ASSUME ScanInv, NEW t \in Thread, Announce(t)
    PROVE  OneScan' /\ ModeOK' /\ ErrorOK'
<1>1. t \in Starting
    BY DEF Announce, Starting, StartPlaces
<1>2. Active = {} /\ Starting = {t} /\ scanning
    BY <1>1 DEF ScanInv, OneScan
<1>3. Active' = Active /\ scanning'
    BY <1>2 DEF Announce, Active, workers
<1>4. /\ pc'[t] = "spawn" /\ asked' = asked
      /\ \A u \in Thread : u # t => pc'[u] = pc[u]
    BY DEF Announce, Goes, ScanInv, TypeOK
<1>5. Starting' = {t} /\ \A u \in Thread : pc'[u] = "spawn" => u = t
    BY <1>2, <1>4 DEF Starting, StartPlaces
<1>6. OneScan'
    BY <1>2, <1>3, <1>5 DEF OneScan
<1>7. ModeOK'
    <2>1. overtaken \/ \A s \in Scan : stage[s] # "cleared"
        BY <1>2 DEF ScanInv, ModeOK
    <2>2. scan_mode' = asked'[t]
        BY <1>4 DEF Announce
    <2> QED
        BY <1>2, <1>3, <1>5, <2>1, <2>2 DEF ModeOK, ModeTold, Announce, workers
<1>8. ErrorOK'
    BY <1>2, <1>3, <1>5 DEF ErrorOK, ErrorTold, Announce, workers, Active
<1> QED
    BY <1>6, <1>7, <1>8

\* Once the start has spawned its worker, the worker has the claim.
LEMMA SpawnKeeps ==
    ASSUME ScanInv, NEW t \in Thread, Spawn(t)
    PROVE  OneScan' /\ ModeOK' /\ ErrorOK'
<1>1. t \in Starting
    BY DEF Spawn, Starting, StartPlaces
<1>2. Active = {} /\ Starting = {t} /\ scanning
    BY <1>1 DEF ScanInv, OneScan
<1>3. PICK s \in Scan :
          /\ stage[s] = "none"
          /\ stage' = [stage EXCEPT ![s] = "running"]
          /\ mode' = [mode EXCEPT ![s] = asked[t]]
    BY DEF Spawn
<1>4. /\ stage'[s] = "running" /\ mode'[s] = asked[t]
      /\ \A r \in Scan : r # s => stage'[r] = stage[r] /\ mode'[r] = mode[r]
    BY <1>3 DEF ScanInv, TypeOK
<1>5. Active' = {s}
    BY <1>2, <1>4 DEF Active
<1>6. \A u \in Thread : pc'[u] = IF u = t THEN "idle" ELSE pc[u]
    BY DEF Spawn, Done, ScanInv, TypeOK
<1>7. Starting' = {} /\ \A u \in Thread : pc'[u] # "spawn"
    BY <1>2, <1>6 DEF Starting, StartPlaces
<1>8. OneScan'
    BY <1>2, <1>5, <1>7 DEF OneScan, Spawn, flags
<1>9. ModeOK'
    <2>1. overtaken \/ \A r \in Scan : stage[r] # "cleared"
        BY <1>2 DEF ScanInv, ModeOK
    <2>2. scan_mode = asked[t] \/ overtaken
        BY DEF Spawn, ScanInv, ModeOK
    <2>3. \A r \in Scan : stage[r] # "cleared" => stage'[r] # "cleared"
        BY <1>4
    <2>4. overtaken' = overtaken /\ scan_mode' = scan_mode
        BY DEF Spawn, flags
    <2>5. ModeTold'
        BY <1>4, <1>5, <2>2, <2>4 DEF ModeTold
    <2> QED
        BY <1>7, <2>1, <2>3, <2>4, <2>5 DEF ModeOK
<1>10. ErrorOK'
    <2>1. ~last_error
        BY DEF Spawn, ScanInv, ErrorOK
    <2>2. \A r \in Scan : stage'[r] # "ended"
        BY <1>2, <1>4 DEF Active
    <2>3. last_error' = last_error /\ scanning'
        BY <1>2 DEF Spawn, flags
    <2> QED
        BY <1>7, <2>1, <2>2, <2>3 DEF ErrorOK, ErrorTold
<1> QED
    BY <1>8, <1>9, <1>10

\* A start that fails leaves `scanning` set with no scan.
LEMMA SpawnFailsKeeps ==
    ASSUME ScanInv, NEW t \in Thread, SpawnFails(t)
    PROVE  OneScan' /\ ModeOK' /\ ErrorOK'
<1>1. t \in Starting
    BY DEF SpawnFails, Starting, StartPlaces
<1>2. Active = {} /\ Starting = {t} /\ scanning
    BY <1>1 DEF ScanInv, OneScan
<1>3. Active' = {} /\ scanning'
    BY <1>2 DEF SpawnFails, Active, workers, flags
<1>4. \A u \in Thread : pc'[u] = IF u = t THEN "idle" ELSE pc[u]
    BY DEF SpawnFails, Done, ScanInv, TypeOK
<1>5. Starting' = {} /\ \A u \in Thread : pc'[u] # "spawn"
    BY <1>2, <1>4 DEF Starting, StartPlaces
<1>6. stage' = stage
    BY DEF SpawnFails, workers
<1> QED
    BY <1>2, <1>3, <1>5, <1>6
       DEF OneScan, ModeOK, ModeTold, ErrorOK, ErrorTold, ScanInv, Active

LEMMA WorkerKeeps ==
    ASSUME ScanInv, NEW s \in Scan, Worker(s)
    PROVE  OneScan' /\ ModeOK' /\ ErrorOK'
<1>1. /\ Starting' = Starting /\ pc' = pc /\ asked' = asked
      /\ overtaken' = overtaken
    BY DEF Worker, ScanEnds, ClearScanning, ClearMode, Starting, threads
<1>2. CASE ScanEnds(s)
    <2>1. /\ stage[s] = "running" /\ stage'[s] = "ended"
          /\ \A r \in Scan : r # s => stage'[r] = stage[r]
          /\ scanning' = scanning /\ scan_mode' = scan_mode /\ mode' = mode
        BY <1>2 DEF ScanEnds, ScanInv, TypeOK
    <2>2. Active' = Active /\ s \in Active
        BY <2>1 DEF Active
    <2>3. Active = {s} /\ Starting = {} /\ scanning
        BY <2>2 DEF ScanInv, OneScan
    <2>4. OneScan'
        BY <1>1, <2>1, <2>2 DEF ScanInv, OneScan
    <2>5. ModeOK'
        BY <1>1, <2>1, <2>2 DEF ScanInv, ModeOK, ModeTold
    <2>6. last_error' = failed'
        <3>1. ~last_error
            BY <2>1, <2>2 DEF ScanInv, ErrorOK, ErrorTold
        <3>2. last_error \in BOOLEAN
            BY DEF ScanInv, TypeOK
        <3>3. last_error = FALSE
            BY <3>1, <3>2
        <3>4. \/ failed' = FALSE /\ last_error' = last_error
              \/ failed' = TRUE /\ last_error' = TRUE
            BY <1>2 DEF ScanEnds
        <3>5. CASE failed' = FALSE /\ last_error' = last_error
            <4>1. last_error' = FALSE
                BY <3>3, <3>5
            <4> QED
                BY <3>5, <4>1
        <3>6. CASE failed' = TRUE /\ last_error' = TRUE
            BY <3>6
        <3> QED
            BY <3>4, <3>5, <3>6
    <2>7. ErrorOK'
        <3>1. \A t \in Thread : pc[t] # "spawn"
            BY <2>3 DEF Starting, StartPlaces
        <3>2. \A r \in Scan : stage'[r] # "running"
            BY <2>1, <2>3 DEF Active
        <3> QED
            BY <1>1, <2>1, <2>2, <2>3, <2>6, <3>1, <3>2 DEF ErrorOK, ErrorTold
    <2> QED
        BY <2>4, <2>5, <2>7
<1>3. CASE ClearScanning(s)
    <2>1. /\ stage[s] = "ended" /\ stage'[s] = "cleared"
          /\ \A r \in Scan : r # s => stage'[r] = stage[r]
          /\ last_error' = last_error /\ failed' = failed
        BY <1>3 DEF ClearScanning, ScanInv, TypeOK
    <2>2. Active = {s} /\ Starting = {}
        BY <2>1 DEF ScanInv, OneScan, Active
    <2>3. Active' = {}
        BY <2>1, <2>2 DEF Active
    <2>4. \A t \in Thread : pc[t] # "spawn"
        BY <2>2 DEF Starting, StartPlaces
    <2>5. last_error = failed
        BY <2>1 DEF ScanInv, ErrorOK
    <2>6. \A r \in Scan : stage'[r] \notin {"running", "ended"}
        BY <2>3 DEF Active
    <2> QED
        BY <1>1, <2>1, <2>2, <2>3, <2>4, <2>5, <2>6
           DEF OneScan, ModeOK, ModeTold, ErrorOK, ErrorTold
<1>4. CASE ClearMode(s)
    <2>1. /\ stage[s] = "cleared" /\ stage'[s] = "none"
          /\ \A r \in Scan : r # s => stage'[r] = stage[r] /\ mode'[r] = mode[r]
          /\ last_error' = last_error /\ failed' = failed /\ scanning' = scanning
        BY <1>4 DEF ClearMode, ScanInv, TypeOK
    <2>2. Active' = Active
        BY <2>1 DEF Active
    <2>3. OneScan'
        BY <1>1, <2>1, <2>2 DEF ScanInv, OneScan
    <2>4. Active # {} \/ Starting # {} => overtaken
        BY <2>1 DEF ScanInv, ModeOK
    <2>5. ModeOK'
        <3>1. \A t \in Thread : pc[t] = "spawn" => t \in Starting
            BY DEF Starting, StartPlaces
        <3> QED
            BY <1>1, <2>2, <2>4, <3>1 DEF ModeOK, ModeTold
    <2>6. ErrorOK'
        BY <1>1, <2>1, <2>2 DEF ScanInv, ErrorOK, ErrorTold, Active
    <2> QED
        BY <2>3, <2>5, <2>6
<1> QED
    BY <1>2, <1>3, <1>4 DEF Worker

LEMMA ScanStep ==
    ASSUME ScanInv, [Next]_vars
    PROVE  ScanInv'
<1>1. TypeOK'
    BY TypeStep DEF ScanInv
<1>2. OneScan' /\ ModeOK' /\ ErrorOK'
    <2>1. CASE ReadRequest
        BY <2>1, ScanUntouched DEF ReadRequest, threads, Starting
    <2>2. CASE UNCHANGED vars
        BY <2>2, ScanUntouched DEF vars, threads, Starting
    <2>3. ASSUME NEW t \in Thread, Request(t)
          PROVE  OneScan' /\ ModeOK' /\ ErrorOK'
        <3>1. ASSUME NEW m \in Mode, StartScan(t, m)
              PROVE  OneScan' /\ ModeOK' /\ ErrorOK'
            BY <3>1, StartKeeps
        <3>2. ASSUME NEW p \in Patch, SaveConfig(t, p)
              PROVE  OneScan' /\ ModeOK' /\ ErrorOK'
            BY <3>2, OtherRequest DEF SaveConfig, ScanInv, TypeOK, StartPlaces
        <3>3. ASSUME NEW c \in Change, UpdatePool(t, c)
              PROVE  OneScan' /\ ModeOK' /\ ErrorOK'
            BY <3>3, OtherRequest DEF UpdatePool, ScanInv, TypeOK, StartPlaces
        <3> QED
            BY <2>3, <3>1, <3>2, <3>3 DEF Request
    <2>4. ASSUME NEW t \in Thread, Handler(t)
          PROVE  OneScan' /\ ModeOK' /\ ErrorOK'
        <3>1. CASE Announce(t) \/ Spawn(t) \/ SpawnFails(t)
            BY <3>1, AnnounceKeeps, SpawnKeeps, SpawnFailsKeeps
        <3>2. CASE OpenConfig(t) \/ OpenPool(t)
            BY <3>2, OtherRequest DEF OpenConfig, OpenPool, Goes, ScanInv, TypeOK, StartPlaces
        <3>3. CASE WriteConfig(t) \/ WritePool(t)
            BY <3>3, OtherRequest DEF WriteConfig, WritePool, Done, ScanInv, TypeOK, StartPlaces
        <3>4. CASE ConfigFails(t) \/ PoolFails(t)
            BY <3>4, OtherRequest DEF ConfigFails, PoolFails, Done, ScanInv, TypeOK, StartPlaces,
                ConfigPlaces, PoolPlaces
        <3> QED
            BY <2>4, <3>1, <3>2, <3>3, <3>4 DEF Handler
    <2>5. ASSUME NEW s \in Scan, Worker(s)
          PROVE  OneScan' /\ ModeOK' /\ ErrorOK'
        BY <2>5, WorkerKeeps
    <2>6. CASE Crash
        BY <2>6 DEF Crash, OneScan, ModeOK, ModeTold, ErrorOK, ErrorTold, Active, Starting,
            StartPlaces
    <2> QED
        BY <2>1, <2>2, <2>3, <2>4, <2>5, <2>6 DEF Next
<1> QED
    BY <1>1, <1>2 DEF ScanInv
LEMMA ScanInvariant == Spec => []ScanInv
BY InitScan, ScanStep, PTL DEF Spec

\* Every state of the scanner is well formed.
THEOREM BoxTypeCorrect == Spec => []TypeOK
<1>1. ScanInv => TypeOK
    BY DEF ScanInv
<1> QED
    BY <1>1, ScanInvariant, PTL

\* One scan at a time, under two locks.
THEOREM AlwaysOneScan == Spec => []OneScan
<1>1. ScanInv => OneScan
    BY DEF ScanInv
<1> QED
    BY <1>1, ScanInvariant, PTL

\* The mode shown is that of the scan, or its start has overtaken a worker.
THEOREM ModeAlwaysTold == Spec => []ModeTold
<1>1. ScanInv => ModeTold
    BY DEF ScanInv, ModeOK
<1> QED
    BY <1>1, ScanInvariant, PTL

\* The error shown between scans is that of the last one.
THEOREM ErrorAlwaysTold == Spec => []ErrorTold
<1>1. ScanInv => ErrorTold
    BY DEF ScanInv, ErrorOK
<1> QED
    BY <1>1, ScanInvariant, PTL

-----------------------------------------------------------------------------
(* Files. *)

\* A step that changes neither the file nor a save of it.
LEMMA ConfigUntouched ==
    ASSUME FileInv, Saving' = Saving,
           UNCHANGED <<config_file, saved>>,
           "config" \in crowded' <=> "config" \in crowded,
           "config" \in spoiled' <=> "config" \in spoiled,
           \A t \in Saving : pc'[t] = pc[t] /\ asked'[t] = asked[t] /\ copy'[t] = copy[t],
           (loaded' = loaded /\ config' = config) \/ Ready
    PROVE  ConfigOK'
<1>1. Truncating' = Truncating
    BY DEF Saving, Truncating, ConfigPlaces
<1>2. CASE loaded' = loaded /\ config' = config
    BY <1>1, <1>2 DEF FileInv, ConfigOK
<1>3. CASE Ready /\ loaded
    <2>1. loaded' /\ config' = config
        BY <1>3 DEF Ready, Loaded
    <2> QED
        BY <1>1, <1>3, <2>1 DEF FileInv, ConfigOK
<1>4. CASE Ready /\ ~loaded
    <2>1. Saving = {} /\ Truncating = {} /\ "config" \notin spoiled
        BY <1>4 DEF FileInv, ConfigOK, Saving, Truncating, ConfigPlaces
    <2>2. saved = Parsed(config_file, Default) /\ config = Default
        BY <1>4, <2>1 DEF FileInv, ConfigOK
    <2>3. loaded' /\ config' = saved
        BY <1>4, <2>2 DEF Ready, Loaded
    <2> QED
        BY <1>1, <2>1, <2>2, <2>3 DEF ConfigOK
<1> QED
    BY <1>2, <1>3, <1>4

LEMMA SaveConfigKeeps ==
    ASSUME FileInv, NEW t \in Thread, NEW p \in Patch, SaveConfig(t, p)
    PROVE  ConfigOK'
<1>1. /\ pc'[t] = "open_config" /\ asked'[t] = p /\ copy'[t] = config'
      /\ \A u \in Thread : u # t => pc'[u] = pc[u]
      /\ loaded' /\ config' = Patched(Loaded, p)
      /\ UNCHANGED <<saved, spoiled, config_file>>
    BY DEF SaveConfig, FileInv, TypeOK, files
<1>2. Saving' = Saving \cup {t} /\ Truncating' = Truncating
    BY <1>1 DEF SaveConfig, Saving, Truncating, ConfigPlaces
<1>3. ASSUME "config" \notin crowded'
      PROVE  Saving = {} /\ ("config" \notin spoiled => Loaded = saved)
    <2>1. Saving = {}
        BY <1>3 DEF SaveConfig, Begins, Saving
    <2>2. Truncating = {}
        BY <2>1 DEF Saving, Truncating, ConfigPlaces
    <2> QED
        BY <2>1, <2>2 DEF FileInv, ConfigOK, Loaded
<1> QED
    BY <1>1, <1>2, <1>3 DEF FileInv, ConfigOK

LEMMA OpenConfigKeeps ==
    ASSUME FileInv, NEW t \in Thread, OpenConfig(t)
    PROVE  ConfigOK'
<1>1. /\ pc'[t] = "write_config" /\ asked' = asked /\ copy' = copy
      /\ \A u \in Thread : u # t => pc'[u] = pc[u]
      /\ UNCHANGED <<loaded, config, saved, crowded, spoiled>>
      /\ config_file' = Blank
    BY DEF OpenConfig, Goes, FileInv, TypeOK, history
<1>2. Saving' = Saving /\ t \in Saving /\ t \in Truncating'
    BY <1>1 DEF OpenConfig, Saving, Truncating, ConfigPlaces
<1> QED
    BY <1>1, <1>2 DEF FileInv, ConfigOK

LEMMA WriteConfigKeeps ==
    ASSUME FileInv, NEW t \in Thread, WriteConfig(t)
    PROVE  ConfigOK'
<1>1. \A u \in Thread : pc'[u] = IF u = t THEN "idle" ELSE pc[u]
    BY DEF WriteConfig, Done, FileInv, TypeOK
<1>2. Saving' = Saving \ {t} /\ t \in Saving /\ Truncating' \subseteq Saving'
    BY <1>1 DEF WriteConfig, Saving, Truncating, ConfigPlaces
<1>3. loaded /\ UNCHANGED <<loaded, config, crowded>>
    BY <1>2 DEF WriteConfig, FileInv, ConfigOK
<1>4. CASE "config" \in crowded
    BY <1>3, <1>4 DEF WriteConfig, Ends, ConfigOK
<1>5. CASE "config" \notin crowded
    <2>1. (\A u \in Saving : u = t) /\ copy[t] = config /\ config_file = Blank
        BY <1>2, <1>5 DEF WriteConfig, FileInv, ConfigOK
    <2>2. saved' = config
        BY <1>2, <1>5 DEF WriteConfig, FileInv, ConfigOK
    <2>3. config_file' = Text(config)
        BY <2>1, WrittenIs DEF WriteConfig
    <2>4. Saving' = {}
        BY <1>2, <2>1
    <2> QED
        BY <1>2, <1>3, <2>2, <2>3, <2>4, ParsedText DEF ConfigOK
<1> QED
    BY <1>4, <1>5

LEMMA ConfigFailsKeeps ==
    ASSUME FileInv, NEW t \in Thread, ConfigFails(t)
    PROVE  ConfigOK'
<1>1. \A u \in Thread : pc'[u] = IF u = t THEN "idle" ELSE pc[u]
    BY DEF ConfigFails, Done, FileInv, TypeOK
<1>2. Saving' = Saving \ {t} /\ t \in Saving
    BY <1>1 DEF ConfigFails, Saving, ConfigPlaces
<1>3. loaded /\ UNCHANGED <<loaded, config, crowded>> /\ "config" \in spoiled'
    BY <1>2 DEF ConfigFails, FileInv, ConfigOK
<1>4. "config" \notin crowded => Saving' = {}
    BY <1>2 DEF FileInv, ConfigOK
<1> QED
    BY <1>3, <1>4 DEF ConfigOK

LEMMA PoolUntouched ==
    ASSUME FileInv, Updating' = Updating,
           UNCHANGED <<pool_file, pooled>>,
           "pool" \in crowded' <=> "pool" \in crowded,
           "pool" \in spoiled' <=> "pool" \in spoiled,
           \A t \in Updating : pc'[t] = pc[t] /\ asked'[t] = asked[t] /\ copy'[t] = copy[t]
    PROVE  PoolOK'
<1>1. Stocks' = Stocks /\ Emptying' = Emptying
    BY DEF Stocks, Updating, Emptying, PoolPlaces
<1> QED
    BY <1>1 DEF FileInv, PoolOK

LEMMA UpdatePoolKeeps ==
    ASSUME FileInv, NEW t \in Thread, NEW c \in Change, UpdatePool(t, c)
    PROVE  PoolOK'
<1>1. /\ pc'[t] = "open_pool" /\ asked'[t] = c /\ copy'[t] = Changed(Stocks, c)
      /\ \A u \in Thread : u # t => pc'[u] = pc[u]
      /\ Stocks' = Stocks /\ spoiled' = spoiled
      /\ pooled' = IF "pool" \in spoiled \ crowded' THEN Stocks ELSE pooled
    BY DEF UpdatePool, FileInv, TypeOK, files, Stocks
<1>2. Updating' = Updating \cup {t} /\ Emptying' = Emptying
    BY <1>1 DEF UpdatePool, Updating, Emptying, PoolPlaces
<1>3. ASSUME "pool" \notin crowded'
      PROVE  Updating = {} /\ pooled' = Stocks
    <2>1. Updating = {}
        BY <1>3 DEF UpdatePool, Begins, Updating
    <2>2. Emptying = {}
        BY <2>1 DEF Updating, Emptying, PoolPlaces
    <2> QED
        BY <1>1, <1>3, <2>1, <2>2 DEF FileInv, PoolOK
<1>4. "pool" \notin spoiled /\ Emptying = {} => Stocks = pooled'
    BY <1>1 DEF FileInv, PoolOK
<1> QED
    BY <1>1, <1>2, <1>3, <1>4 DEF PoolOK

LEMMA OpenPoolKeeps ==
    ASSUME FileInv, NEW t \in Thread, OpenPool(t)
    PROVE  PoolOK'
<1>1. /\ pc'[t] = "write_pool" /\ asked' = asked /\ copy' = copy
      /\ \A u \in Thread : u # t => pc'[u] = pc[u]
      /\ UNCHANGED <<pooled, crowded, spoiled>> /\ pool_file' = Blank
    BY DEF OpenPool, Goes, FileInv, TypeOK, history
<1>2. Updating' = Updating /\ t \in Updating /\ t \in Emptying'
    BY <1>1 DEF OpenPool, Updating, Emptying, PoolPlaces
<1> QED
    BY <1>1, <1>2 DEF FileInv, PoolOK

LEMMA WritePoolKeeps ==
    ASSUME FileInv, NEW t \in Thread, WritePool(t)
    PROVE  PoolOK'
<1>1. \A u \in Thread : pc'[u] = IF u = t THEN "idle" ELSE pc[u]
    BY DEF WritePool, Done, FileInv, TypeOK
<1>2. Updating' = Updating \ {t} /\ t \in Updating /\ crowded' = crowded
    BY <1>1 DEF WritePool, Updating, PoolPlaces
<1>3. CASE "pool" \in crowded
    BY <1>2, <1>3 DEF WritePool, Ends, PoolOK
<1>4. CASE "pool" \notin crowded
    <2>1. /\ \A u \in Updating : u = t
          /\ copy[t] = Changed(pooled, asked[t]) /\ pool_file = Blank
        BY <1>2, <1>4 DEF WritePool, FileInv, PoolOK
    <2>2. pool_file' = Text(copy[t]) /\ pooled' = copy[t]
        BY <2>1, WrittenIs DEF WritePool
    <2>3. Updating' = {} /\ Stocks' = pooled'
        BY <1>2, <2>1, <2>2, ParsedText DEF Stocks
    <2> QED
        BY <2>3 DEF PoolOK
<1> QED
    BY <1>3, <1>4

LEMMA PoolFailsKeeps ==
    ASSUME FileInv, NEW t \in Thread, PoolFails(t)
    PROVE  PoolOK'
<1>1. \A u \in Thread : pc'[u] = IF u = t THEN "idle" ELSE pc[u]
    BY DEF PoolFails, Done, FileInv, TypeOK
<1>2. Updating' = Updating \ {t} /\ t \in Updating /\ UNCHANGED <<crowded, pooled>>
    BY <1>1 DEF PoolFails, Updating, PoolPlaces
<1>3. "pool" \notin crowded => Updating' = {}
    BY <1>2 DEF FileInv, PoolOK
<1>4. CASE "pool" \in spoiled'
    BY <1>2, <1>3, <1>4 DEF PoolOK
<1>5. CASE pc[t] = "open_pool" /\ UNCHANGED <<pool_file, spoiled>>
    <2>1. Emptying' = Emptying /\ Stocks' = Stocks
        BY <1>1, <1>5 DEF Emptying, Stocks
    <2> QED
        BY <1>2, <1>3, <1>5, <2>1 DEF FileInv, PoolOK
<1> QED
    BY <1>4, <1>5 DEF PoolFails

\* A step that changes neither file nor any update of one.
LEMMA FilesUntouched ==
    ASSUME FileInv, UNCHANGED <<files, saved, pooled, crowded, spoiled>>,
           \A t \in Thread : pc[t] \in ConfigPlaces \cup PoolPlaces
               => pc'[t] = pc[t] /\ asked'[t] = asked[t] /\ copy'[t] = copy[t],
           \A t \in Thread : pc'[t] \in ConfigPlaces \cup PoolPlaces => pc'[t] = pc[t],
           (loaded' = loaded /\ config' = config) \/ Ready
    PROVE  ConfigOK' /\ PoolOK'
<1>1. Saving' = Saving /\ Updating' = Updating
    BY DEF Saving, Updating, ConfigPlaces, PoolPlaces
<1>2. /\ \A t \in Saving : pc'[t] = pc[t] /\ asked'[t] = asked[t] /\ copy'[t] = copy[t]
      /\ \A t \in Updating : pc'[t] = pc[t] /\ asked'[t] = asked[t] /\ copy'[t] = copy[t]
    BY DEF Saving, Updating
<1> QED
    BY <1>1, <1>2, ConfigUntouched, PoolUntouched DEF files

\* A request begins.
LEMMA RequestFiles ==
    ASSUME FileInv, NEW t \in Thread, Request(t)
    PROVE  ConfigOK' /\ PoolOK'
<1>1. ASSUME NEW m \in Mode, StartScan(t, m)
      PROVE  ConfigOK' /\ PoolOK'
    BY <1>1, FilesUntouched DEF StartScan, history, FileInv, TypeOK, ConfigPlaces, PoolPlaces
<1>2. ASSUME NEW p \in Patch, SaveConfig(t, p)
      PROVE  ConfigOK' /\ PoolOK'
    <2>1. Updating' = Updating
          /\ \A u \in Updating : pc'[u] = pc[u] /\ asked'[u] = asked[u] /\ copy'[u] = copy[u]
        BY <1>2 DEF SaveConfig, Updating, FileInv, TypeOK, PoolPlaces
    <2>2. "pool" \in crowded' <=> "pool" \in crowded
        BY <1>2 DEF SaveConfig, Begins
    <2>3. PoolOK'
        BY <1>2, <2>1, <2>2, PoolUntouched DEF SaveConfig, files
    <2> QED
        BY <1>2, <2>3, SaveConfigKeeps
<1>3. ASSUME NEW c \in Change, UpdatePool(t, c)
      PROVE  ConfigOK' /\ PoolOK'
    <2>1. Saving' = Saving
          /\ \A u \in Saving : pc'[u] = pc[u] /\ asked'[u] = asked[u] /\ copy'[u] = copy[u]
        BY <1>3 DEF UpdatePool, Saving, FileInv, TypeOK, ConfigPlaces
    <2>2. "config" \in crowded' <=> "config" \in crowded
        BY <1>3 DEF UpdatePool, Begins
    <2>3. ConfigOK'
        BY <1>3, <2>1, <2>2, ConfigUntouched DEF UpdatePool, files
    <2> QED
        BY <1>3, <2>3, UpdatePoolKeeps
<1> QED
    BY <1>1, <1>2, <1>3 DEF Request

\* A handler goes on.
LEMMA HandlerFiles ==
    ASSUME FileInv, NEW t \in Thread, Handler(t)
    PROVE  ConfigOK' /\ PoolOK'
<1> USE DEF history
<1>1. CASE Announce(t)
    BY <1>1, FilesUntouched DEF Announce, Goes, FileInv, TypeOK, ConfigPlaces, PoolPlaces
<1>2. CASE Spawn(t)
    <2>1. \A u \in Thread : /\ pc'[u] = IF u = t THEN "idle" ELSE pc[u]
                            /\ u # t => asked'[u] = asked[u] /\ copy'[u] = copy[u]
        BY <1>2 DEF Spawn, Done, FileInv, TypeOK
    <2> QED
        BY <1>2, <2>1, FilesUntouched DEF Spawn, ConfigPlaces, PoolPlaces
<1>3. CASE SpawnFails(t)
    <2>1. \A u \in Thread : /\ pc'[u] = IF u = t THEN "idle" ELSE pc[u]
                            /\ u # t => asked'[u] = asked[u] /\ copy'[u] = copy[u]
        BY <1>3 DEF SpawnFails, Done, FileInv, TypeOK
    <2> QED
        BY <1>3, <2>1, FilesUntouched DEF SpawnFails, ConfigPlaces, PoolPlaces
<1>4. CASE OpenConfig(t) \/ WriteConfig(t) \/ ConfigFails(t)
    <2>1. Updating' = Updating
          /\ \A u \in Updating : pc'[u] = pc[u] /\ asked'[u] = asked[u] /\ copy'[u] = copy[u]
        BY <1>4 DEF OpenConfig, WriteConfig, ConfigFails, Goes, Done, Updating, FileInv, TypeOK,
            ConfigPlaces, PoolPlaces
    <2>2. PoolOK'
        BY <1>4, <2>1, PoolUntouched DEF OpenConfig, WriteConfig, ConfigFails, Ends
    <2> QED
        BY <1>4, <2>2, OpenConfigKeeps, WriteConfigKeeps, ConfigFailsKeeps
<1>5. CASE OpenPool(t) \/ WritePool(t) \/ PoolFails(t)
    <2>1. Saving' = Saving
          /\ \A u \in Saving : pc'[u] = pc[u] /\ asked'[u] = asked[u] /\ copy'[u] = copy[u]
        BY <1>5 DEF OpenPool, WritePool, PoolFails, Goes, Done, Saving, FileInv, TypeOK,
            ConfigPlaces, PoolPlaces
    <2>2. ConfigOK'
        BY <1>5, <2>1, ConfigUntouched DEF OpenPool, WritePool, PoolFails, Ends
    <2> QED
        BY <1>5, <2>2, OpenPoolKeeps, WritePoolKeeps, PoolFailsKeeps
<1> QED
    BY <1>1, <1>2, <1>3, <1>4, <1>5 DEF Handler

\* A crash between updates leaves the files as they are.
LEMMA CrashFiles ==
    ASSUME FileInv, Crash
    PROVE  ConfigOK' /\ PoolOK'
<1>1. Saving' = {} /\ Updating' = {}
    BY DEF Crash, Saving, Updating, ConfigPlaces, PoolPlaces
<1>2. ConfigOK'
    <2>1. config_file' = config_file /\ config' = Default /\ ~loaded' /\ "config" \notin spoiled'
        BY DEF Crash, files
    <2>2. saved' = Parsed(config_file, Default)
        BY DEF Crash, FileInv, ConfigOK, Truncating
    <2> QED
        BY <1>1, <2>1, <2>2 DEF ConfigOK
<1>3. PoolOK'
    <2>1. "pool" \notin spoiled' => "pool" \notin spoiled /\ Emptying = {}
        BY DEF Crash, Emptying
    <2>2. Stocks' = Stocks /\ pooled' = pooled
        BY DEF Crash, files, Stocks
    <2> QED
        BY <1>1, <2>1, <2>2 DEF FileInv, PoolOK
<1> QED
    BY <1>2, <1>3

LEMMA FileStep ==
    ASSUME FileInv, [Next]_vars
    PROVE  FileInv'
<1>1. TypeOK'
    BY TypeStep DEF FileInv
<1>2. CASE ReadRequest
    BY <1>1, <1>2, FilesUntouched DEF ReadRequest, threads, history, FileInv
<1>3. CASE UNCHANGED vars
    BY <1>1, <1>3, FilesUntouched DEF vars, threads, history, FileInv
<1>4. ASSUME NEW s \in Scan, Worker(s)
      PROVE  ConfigOK' /\ PoolOK'
    BY <1>4, FilesUntouched DEF Worker, ScanEnds, ClearScanning, ClearMode, threads, history
<1> QED
    BY <1>1, <1>2, <1>3, <1>4, RequestFiles, HandlerFiles, CrashFiles DEF Next, FileInv

LEMMA FileInvariant == Spec => []FileInv
BY InitScan, FileStep, PTL DEF Spec

\* The configuration file keeps every patch, and gets back what an overlap or a
\* failed write took, unless a crash comes first.
THEOREM ConfigAlwaysKept == Spec => []ConfigKept
<1>1. FileInv => ConfigKept
    BY DEF FileInv, ConfigOK, ConfigKept, Saving, Truncating
<1> QED
    BY <1>1, FileInvariant, PTL

\* The file of the pool keeps every update, but for what an overlap, a failed
\* write or a crash took.
THEOREM PoolAlwaysKept == Spec => []PoolKept
<1>1. FileInv => PoolKept
    BY DEF FileInv, PoolOK, PoolKept, Emptying
<1> QED
    BY <1>1, FileInvariant, PTL
=============================================================================
