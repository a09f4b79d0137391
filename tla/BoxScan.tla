------------------------------- MODULE BoxScan -------------------------------
(***************************************************************************)
(* The box breakout scanner (utils/box_breakout_runtime.py behind          *)
(* routers/box.py): scans in the background, a configuration kept in       *)
(* memory and in a file, and a pool of stocks kept in a file.              *)
(*                                                                         *)
(* The handlers run in the thread pool and each scan on a thread of its    *)
(* own, so their steps interleave.  `_scan_lock` guards the start of a     *)
(* scan, `_lock` the state in memory; no lock guards the files.  The scans *)
(* themselves are vendored code and only end, well or badly.  The log      *)
(* lines and the caches of quotes and bars are left out.                   *)
(***************************************************************************)
EXTENDS Naturals

CONSTANTS
    Thread,         \* threads of the pool that serve requests
    Scan,           \* threads of scans
    Mode,           \* modes of a scan
    Ashare,         \* the modes that need ashare_enabled() ...
    AshareEnabled,  \* ... and whether it is
    Key,            \* configuration keys, their values and the default
    Value,
    Default,
    Code,           \* stock codes
    NoMode,         \* None
    MaxFaults,      \* bound on failed starts, scans and writes
    MaxCrashes      \* bound on restarts of the process

Config == [Key -> Value]
Pool == SUBSET Code

ASSUME BoxAssumption ==
    /\ Ashare \subseteq Mode
    /\ AshareEnabled \in BOOLEAN
    /\ Default \in Config
    /\ NoMode \notin Mode
    /\ MaxFaults \in Nat
    /\ MaxCrashes \in Nat

VARIABLES
    \* the requests, one a thread
    pc,             \* where the handler is
    asked,          \* a mode, a patch of the configuration, or a stock to add or remove
    copy,           \* what the handler is about to write
    \* the process
    loaded,         \* _scanner is set
    scanning,       \* STATE["scanning"]
    scan_mode,      \* STATE["scan_mode"]
    last_error,     \* STATE["last_error"] is set
    config,         \* STATE["config"]
    holder,         \* the start that holds _scan_lock
    stage,          \* where each worker is
    mode,           \* the mode each worker was started with
    \* the files
    config_file,
    pool_file,
    \* history
    saved,          \* the configuration with every patch written so far
    pooled,         \* the stocks after every update written so far
    crowded,        \* the files two updates of which overlap, or did the last time
    spoiled,        \* the files such updates, a failed write or a crash have spoiled
    overtaken,      \* the last start came between the two assignments of a worker
    stranded,       \* a start failed after it had set `scanning`
    failed,         \* the last scan that ended had failed
    faults,
    crashes

threads == <<pc, asked, copy>>
flags == <<scanning, scan_mode, last_error, holder>>
workers == <<stage, mode, overtaken, failed>>
files == <<config_file, pool_file>>
history == <<saved, pooled, crowded, spoiled, stranded>>
bounds == <<faults, crashes>>
vars == <<threads, loaded, config, flags, workers, files, history, bounds>>
\* A file that is not there or was truncated, one that is not JSON, and one
\* that is.
Blank == [kind |-> "blank"]
Broken == [kind |-> "broken"]
Text(x) == [kind |-> "text", is |-> x]

Patch == UNION {[ks -> Value] : ks \in SUBSET Key}
Change == [add : BOOLEAN, code : Code]

StartPlaces == {"announce", "spawn"}
ConfigPlaces == {"open_config", "write_config"}
PoolPlaces == {"open_pool", "write_pool"}

\* The workers of a scan that has not ended its claim on `scanning`.
Active == {s \in Scan : stage[s] \in {"running", "ended"}}
Starting == {t \in Thread : pc[t] \in StartPlaces}

TypeOK ==
    /\ pc \in [Thread -> {"idle"} \cup StartPlaces \cup ConfigPlaces \cup PoolPlaces]
    /\ \A t \in Thread :
        /\ pc[t] \in StartPlaces => asked[t] \in Mode
        /\ pc[t] \in ConfigPlaces => asked[t] \in Patch /\ copy[t] \in Config
        /\ pc[t] \in PoolPlaces => asked[t] \in Change /\ copy[t] \in Pool
    /\ DOMAIN asked = Thread /\ DOMAIN copy = Thread
    /\ loaded \in BOOLEAN
    /\ scanning \in BOOLEAN
    /\ scan_mode \in Mode \cup {NoMode}
    /\ last_error \in BOOLEAN
    /\ holder \subseteq Thread
    /\ config \in Config
    /\ stage \in [Scan -> {"none", "running", "ended", "cleared"}]
    /\ mode \in [Scan -> Mode \cup {NoMode}]
    /\ config_file \in {Text(c) : c \in Config} \cup {Blank, Broken}
    /\ pool_file \in {Text(p) : p \in Pool} \cup {Blank, Broken}
    /\ saved \in Config
    /\ pooled \in Pool
    /\ crowded \subseteq {"config", "pool"}
    /\ spoiled \subseteq {"config", "pool"}
    /\ overtaken \in BOOLEAN
    /\ stranded \in BOOLEAN
    /\ failed \in BOOLEAN
    /\ faults \in Nat
    /\ crashes \in Nat

Init ==
    /\ pc = [t \in Thread |-> "idle"]
    /\ asked = [t \in Thread |-> NoMode]
    /\ copy = [t \in Thread |-> NoMode]
    /\ loaded = FALSE
    /\ scanning = FALSE
    /\ scan_mode = NoMode
    /\ last_error = FALSE
    /\ holder = {}
    /\ config = Default
    /\ stage = [s \in Scan |-> "none"]
    /\ mode = [s \in Scan |-> NoMode]
    /\ config_file = Blank
    /\ pool_file = Text({})
    /\ saved = Default
    /\ pooled = {}
    /\ crowded = {}
    /\ spoiled = {}
    /\ overtaken = FALSE
    /\ stranded = FALSE
    /\ failed = FALSE
    /\ faults = 0
    /\ crashes = 0

\* json.loads of a file, or what is used in its place.
Readable(content) == content.kind = "text"
Parsed(content, default) == IF Readable(content) THEN content.is ELSE default

\* _load_scanner: the first to need the scanner loads it, and with it the
\* configuration from its file; a file that cannot be read is passed over.
Loaded == IF loaded THEN config ELSE Parsed(config_file, config)

Ready ==
    /\ loaded' = TRUE
    /\ config' = Loaded

\* A handler moves on; one that is done forgets its request.
Goes(t, place) ==
    /\ pc' = [pc EXCEPT ![t] = place]
    /\ UNCHANGED <<asked, copy>>

Done(t) ==
    /\ pc' = [pc EXCEPT ![t] = "idle"]
    /\ asked' = [asked EXCEPT ![t] = NoMode]
    /\ copy' = [copy EXCEPT ![t] = NoMode]

\* Any request that only reads: status, watchlist, config and the like.
ReadRequest ==
    /\ Ready
    /\ UNCHANGED <<threads, flags, workers, files, history, bounds>>

-----------------------------------------------------------------------------
(* start_scan.  A start that finds `scanning` set changes nothing.           *)

\* Mutant: a start does not look at `scanning`.
StartScanBlindly(t, m) ==
    /\ pc[t] = "idle"
    /\ m \in Ashare => AshareEnabled
    /\ holder = {}
    /\ scanning' = TRUE
    /\ holder' = {t}
    /\ pc' = [pc EXCEPT ![t] = "announce"]
    /\ asked' = [asked EXCEPT ![t] = m]
    /\ overtaken' = \E s \in Scan : stage[s] = "cleared"
    /\ UNCHANGED <<copy, loaded, config, scan_mode, last_error, stage, mode, failed,
                   files, history, bounds>>

StartScan(t, m) ==
    /\ pc[t] = "idle"
    /\ m \in Ashare => AshareEnabled
    /\ holder = {}
    /\ ~scanning
    /\ scanning' = TRUE
    /\ holder' = {t}
    /\ pc' = [pc EXCEPT ![t] = "announce"]
    /\ asked' = [asked EXCEPT ![t] = m]
    /\ overtaken' = \E s \in Scan : stage[s] = "cleared"
    /\ UNCHANGED <<copy, loaded, config, scan_mode, last_error, stage, mode, failed,
                   files, history, bounds>>

\* Mutant: the mode is not set.
AnnounceNoMode(t) ==
    /\ pc[t] = "announce"
    /\ last_error' = FALSE
    /\ holder' = {}
    /\ Goes(t, "spawn")
    /\ UNCHANGED <<loaded, config, scanning, scan_mode, workers, files, history, bounds>>

\* Mutant: the error of the last scan stays.
AnnounceKeepingError(t) ==
    /\ pc[t] = "announce"
    /\ scan_mode' = asked[t]
    /\ holder' = {}
    /\ Goes(t, "spawn")
    /\ UNCHANGED <<loaded, config, scanning, last_error, workers, files, history, bounds>>

\* The rest of what _scan_lock guards.
Announce(t) ==
    /\ pc[t] = "announce"
    /\ scan_mode' = asked[t]
    /\ last_error' = FALSE
    /\ holder' = {}
    /\ Goes(t, "spawn")
    /\ UNCHANGED <<loaded, config, scanning, workers, files, history, bounds>>

\* _log loads the scanner if no request has; then the worker starts.
Spawn(t) ==
    /\ pc[t] = "spawn"
    /\ Ready
    /\ \E s \in Scan :
        /\ stage[s] = "none"
        /\ stage' = [stage EXCEPT ![s] = "running"]
        /\ mode' = [mode EXCEPT ![s] = asked[t]]
    /\ Done(t)
    /\ UNCHANGED <<flags, overtaken, failed, files, history, bounds>>

\* The load fails, or no thread can be started, after `scanning` was set, and
\* nothing takes it back.
SpawnFails(t) ==
    /\ pc[t] = "spawn"
    /\ Ready \/ UNCHANGED <<loaded, config>>
    /\ faults < MaxFaults
    /\ faults' = faults + 1
    /\ stranded' = TRUE
    /\ Done(t)
    /\ UNCHANGED <<flags, workers, files, saved, pooled, crowded, spoiled, crashes>>

-----------------------------------------------------------------------------
(* _scan_worker *)

\* Mutant: a scan that raises leaves the worker without its `finally`.
ScanEndsUncaught(s) ==
    /\ stage[s] = "running"
    /\ \/ /\ stage' = [stage EXCEPT ![s] = "ended"]
          /\ failed' = FALSE
          /\ UNCHANGED <<last_error, faults>>
       \/ /\ faults < MaxFaults
          /\ faults' = faults + 1
          /\ stage' = [stage EXCEPT ![s] = "none"]
          /\ failed' = TRUE
          /\ last_error' = TRUE
    /\ UNCHANGED <<threads, loaded, config, scanning, scan_mode, holder, mode, overtaken,
                   files, history, crashes>>

\* The vendored scan returns or raises.
ScanEnds(s) ==
    /\ stage[s] = "running"
    /\ stage' = [stage EXCEPT ![s] = "ended"]
    /\ \/ failed' = FALSE /\ UNCHANGED <<last_error, faults>>
       \/ /\ faults < MaxFaults
          /\ faults' = faults + 1
          /\ failed' = TRUE
          /\ last_error' = TRUE
    /\ UNCHANGED <<threads, loaded, config, scanning, scan_mode, holder, mode, overtaken,
                   files, history, crashes>>

\* The `finally` holds _lock, which no start takes: two steps.
ClearScanning(s) ==
    /\ stage[s] = "ended"
    /\ stage' = [stage EXCEPT ![s] = "cleared"]
    /\ scanning' = FALSE
    /\ UNCHANGED <<threads, loaded, config, scan_mode, last_error, holder, mode,
                   overtaken, failed, files, history, bounds>>

ClearMode(s) ==
    /\ stage[s] = "cleared"
    /\ stage' = [stage EXCEPT ![s] = "none"]
    /\ mode' = [mode EXCEPT ![s] = NoMode]
    /\ scan_mode' = NoMode
    /\ UNCHANGED <<threads, loaded, config, scanning, last_error, holder, overtaken,
                   failed, files, history, bounds>>

-----------------------------------------------------------------------------
(* save_config *)

\* Mutant: the keys that are not in the patch are dropped.
PatchedOnly(base, p) == [k \in DOMAIN p |-> p[k]]

Patched(base, p) == [k \in Key |-> IF k \in DOMAIN p THEN p[k] ELSE base[k]]

\* An update of a file is alone unless another is between its first and last
\* step on it at some time.
Begins(name, places) ==
    crowded' = IF \E t \in Thread : pc[t] \in places
               THEN crowded \cup {name} ELSE crowded \ {name}

\* One that was alone to the end leaves the file whole.
Ends(name) ==
    spoiled' = IF name \in crowded THEN spoiled \cup {name} ELSE spoiled \ {name}

Fails ==
    /\ faults < MaxFaults
    /\ faults' = faults + 1
    /\ UNCHANGED crashes

\* Mutant: the patch is laid over the default.
SaveConfigAnew(t, p) ==
    /\ pc[t] = "idle"
    /\ loaded' = TRUE
    /\ config' = Patched(Default, p)
    /\ copy' = [copy EXCEPT ![t] = Patched(Default, p)]
    /\ asked' = [asked EXCEPT ![t] = p]
    /\ pc' = [pc EXCEPT ![t] = "open_config"]
    /\ Begins("config", ConfigPlaces)
    /\ UNCHANGED <<flags, workers, files, saved, pooled, spoiled, stranded, bounds>>

\* The patch is merged and copied under _lock.
SaveConfig(t, p) ==
    /\ pc[t] = "idle"
    /\ loaded' = TRUE
    /\ config' = Patched(Loaded, p)
    /\ copy' = [copy EXCEPT ![t] = Patched(Loaded, p)]
    /\ asked' = [asked EXCEPT ![t] = p]
    /\ pc' = [pc EXCEPT ![t] = "open_config"]
    /\ Begins("config", ConfigPlaces)
    /\ UNCHANGED <<flags, workers, files, saved, pooled, spoiled, stranded, bounds>>

\* write_text truncates the file, then writes.
OpenConfig(t) ==
    /\ pc[t] = "open_config"
    /\ config_file' = Blank
    /\ Goes(t, "write_config")
    /\ UNCHANGED <<loaded, config, flags, workers, pool_file, history, bounds>>

\* A copy written over a longer one leaves the end of that.
Written(content, new) == IF content = Blank THEN {Text(new)} ELSE {Text(new), Broken}

\* One that ends alone repairs the file: it writes the whole of the memory.
WriteConfig(t) ==
    /\ pc[t] = "write_config"
    /\ config_file' \in Written(config_file, copy[t])
    /\ Ends("config")
    /\ saved' = IF "config" \in spoiled \ crowded THEN config ELSE Patched(saved, asked[t])
    /\ Done(t)
    /\ UNCHANGED <<loaded, config, flags, workers, pool_file, pooled, crowded, stranded,
                   bounds>>

\* The directory or the file cannot be opened, or, with the file truncated, the
\* text cannot be encoded or written in full.  The patch stays in memory.
ConfigFails(t) ==
    /\ pc[t] \in ConfigPlaces
    /\ Fails
    /\ \/ UNCHANGED config_file
       \/ pc[t] = "write_config" /\ config_file' = Broken
    /\ spoiled' = spoiled \cup {"config"}
    /\ Done(t)
    /\ UNCHANGED <<loaded, config, flags, workers, pool_file, saved, pooled, crowded,
                   stranded>>

-----------------------------------------------------------------------------
(* update_pool: the pool is read, changed and written without a lock.  An    *)
(* unreadable file is an empty pool.                                         *)

Stocks == Parsed(pool_file, {})

Changed(stocks, c) == IF c.add THEN stocks \cup {c.code} ELSE stocks \ {c.code}

\* Mutant: the pool is written without the stocks it held.
UpdatePoolAnew(t, c) ==
    /\ pc[t] = "idle"
    /\ AshareEnabled
    /\ c.add => c.code \notin Stocks
    /\ Ready
    /\ copy' = [copy EXCEPT ![t] = Changed({}, c)]
    /\ asked' = [asked EXCEPT ![t] = c]
    /\ pc' = [pc EXCEPT ![t] = "open_pool"]
    /\ Begins("pool", PoolPlaces)
    /\ pooled' = IF "pool" \in spoiled \ crowded' THEN Stocks ELSE pooled
    /\ UNCHANGED <<flags, workers, files, saved, spoiled, stranded, bounds>>

\* To add a stock that is there writes nothing.  Before it is written the name
\* of the stock may be fetched.  What a spoiled pool has left is what an update
\* that is alone starts from.
UpdatePool(t, c) ==
    /\ pc[t] = "idle"
    /\ AshareEnabled
    /\ c.add => c.code \notin Stocks
    /\ Ready
    /\ copy' = [copy EXCEPT ![t] = Changed(Stocks, c)]
    /\ asked' = [asked EXCEPT ![t] = c]
    /\ pc' = [pc EXCEPT ![t] = "open_pool"]
    /\ Begins("pool", PoolPlaces)
    /\ pooled' = IF "pool" \in spoiled \ crowded' THEN Stocks ELSE pooled
    /\ UNCHANGED <<flags, workers, files, saved, spoiled, stranded, bounds>>

OpenPool(t) ==
    /\ pc[t] = "open_pool"
    /\ pool_file' = Blank
    /\ Goes(t, "write_pool")
    /\ UNCHANGED <<loaded, config, flags, workers, config_file, history, bounds>>

WritePool(t) ==
    /\ pc[t] = "write_pool"
    /\ pool_file' \in Written(pool_file, copy[t])
    /\ Ends("pool")
    /\ pooled' = Changed(pooled, asked[t])
    /\ Done(t)
    /\ UNCHANGED <<loaded, config, flags, workers, config_file, saved, crowded, stranded,
                   bounds>>

\* As of the configuration; a file that could not be opened is as it was.
PoolFails(t) ==
    /\ pc[t] \in PoolPlaces
    /\ Fails
    /\ \/ pc[t] = "open_pool" /\ UNCHANGED <<pool_file, spoiled>>
       \/ /\ pc[t] = "write_pool"
          /\ pool_file' \in {pool_file, Broken}
          /\ spoiled' = spoiled \cup {"pool"}
    /\ Done(t)
    /\ UNCHANGED <<loaded, config, flags, workers, config_file, saved, pooled, crowded,
                   stranded>>

-----------------------------------------------------------------------------
\* The process ends and starts again: the files are what remains, and of a
\* configuration that was spoiled what its file still holds.
Crash ==
    /\ crashes < MaxCrashes
    /\ crashes' = crashes + 1
    /\ saved' = IF "config" \in spoiled \/ \E t \in Thread : pc[t] = "write_config"
                THEN Parsed(config_file, Default) ELSE saved
    /\ spoiled' = {f \in {"pool"} : f \in spoiled \/ \E t \in Thread : pc[t] = "write_pool"}
    /\ pc' = [t \in Thread |-> "idle"]
    /\ asked' = [t \in Thread |-> NoMode]
    /\ copy' = [t \in Thread |-> NoMode]
    /\ loaded' = FALSE
    /\ scanning' = FALSE
    /\ scan_mode' = NoMode
    /\ last_error' = FALSE
    /\ holder' = {}
    /\ config' = Default
    /\ stage' = [s \in Scan |-> "none"]
    /\ mode' = [s \in Scan |-> NoMode]
    /\ overtaken' = FALSE
    /\ stranded' = FALSE
    /\ failed' = FALSE
    /\ UNCHANGED <<files, pooled, crowded, faults>>

Handler(t) ==
    \/ Announce(t) \/ Spawn(t) \/ SpawnFails(t)
    \/ OpenConfig(t) \/ WriteConfig(t) \/ ConfigFails(t)
    \/ OpenPool(t) \/ WritePool(t) \/ PoolFails(t)

Worker(s) == ScanEnds(s) \/ ClearScanning(s) \/ ClearMode(s)

Request(t) ==
    \/ \E m \in Mode : StartScan(t, m)
    \/ \E p \in Patch : SaveConfig(t, p)
    \/ \E c \in Change : UpdatePool(t, c)

Next ==
    \/ ReadRequest
    \/ \E t \in Thread : Request(t) \/ Handler(t)
    \/ \E s \in Scan : Worker(s)
    \/ Crash

Spec == Init /\ [][Next]_vars

\* Every thread that has begun goes on; the requests of a scan time out.
FairSpec ==
    /\ Spec
    /\ \A t \in Thread : WF_vars(Handler(t))
    /\ \A s \in Scan : WF_vars(Worker(s))

-----------------------------------------------------------------------------
(* Properties. *)

\* No two scans run at once, nor does one start while another runs, and
\* `scanning` tells of it, although it is set under one lock and cleared under
\* another.
OneScan ==
    /\ \A s1, s2 \in Active : s1 = s2
    /\ \A t1, t2 \in Starting : t1 = t2
    /\ Active = {} \/ Starting = {}
    /\ Active # {} \/ Starting # {} => scanning

\* A running scan is shown with its own mode, unless its start came between the
\* two assignments with which an earlier worker ended.
ModeTold == \A s \in Active : scan_mode = mode[s] \/ overtaken

\* Between scans the error shown is that of the last scan, and a scan that
\* runs shows none.
ErrorTold ==
    /\ ~scanning => last_error = failed
    /\ \A s \in Active : stage[s] = "running" => ~last_error

\* The file holds every patch written, and so does the memory between saves.
\* Only saves that overlap, a write that fails and a crash that catches the file
\* truncated spoil that.  The next save that is alone repairs the file from the
\* memory, where no patch was lost; after a crash the file is what there is.
ConfigKept ==
    "config" \notin spoiled =>
        /\ \/ \E t \in Thread : pc[t] = "write_config"
           \/ saved = Parsed(config_file, Default)
        /\ \/ \E t \in Thread : pc[t] \in ConfigPlaces
           \/ config = IF loaded THEN saved ELSE Default

\* The same of the pool, which is kept in its file only: what is spoiled is gone,
\* and the next update that is alone keeps what is left.
PoolKept ==
    "pool" \notin spoiled =>
        (\E t \in Thread : pc[t] = "write_pool") \/ Stocks = pooled

\* A scan ends, unless its start failed to load the scanner or to start a thread:
\* then `scanning` stays set until the process is restarted.
ScanEndsOrStrands == scanning ~> ~scanning \/ stranded
=============================================================================
