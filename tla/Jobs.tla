-------------------------------- MODULE Jobs --------------------------------
(* Durable background jobs (crates/rness-tools/src/jobs.rs): processes share *)
(* one root with a directory per process run, locked by its owner.  A run    *)
(* starts jobs, settles them, tells the owning session about each, removes   *)
(* old ones, and at startup takes over what dead runs left.  Processes are   *)
(* killed and the power fails between any two of these steps.                *)
(*                                                                           *)
(* The session is the code's SessionService seen from the poller: one writer *)
(* at a time, notices parked in the inbox while a turn runs, appends that    *)
(* are written, then synced or rolled back.                                  *)
EXTENDS Integers, FiniteSets

CONSTANTS
    Inst,       \* process runs, numbered as they start; a directory has its run's number
    Job,
    Kinds,      \* the kinds of jobs started
    MaxAlive,   \* bound: runs at the same time
    MaxTurns,   \* bound: turns the user starts
    MaxFaults   \* bound: writes that fail, processes killed, power failures

ASSUME Bounds == {MaxAlive, MaxTurns, MaxFaults} \subseteq Nat
ASSUME InstNumbers == Inst \subseteq Nat \ {0}

Nobody == 0
Kind == {"owned", "unowned", "capture"}
ASSUME KindsKnown == Kinds \subseteq Kind

VARIABLES
    boot,       \* where a run's startup is
    todo,       \* the stale directories it still has to recover
    scan,       \* the directory it is recovering
    dirs,       \* directories that exist
    lockFile,   \* directory -> generation of its owner.lock, 0 if absent
    made,       \* directory -> generations made so far
    held,       \* <<run, directory, generation>> of the locks held
    mem,        \* run -> the jobs in its registry and their state
    removing,   \* run -> the job it is removing and how far it is
    file,       \* job -> its record, tombstone and output as seen now
    disk,       \* the same after a power failure
    kind, home, \* job -> what it is, the directory it is in
    log,        \* job -> its notice in the session log
    parked,     \* run -> notices in its session's inbox
    pend,       \* run -> job_pending
    writer,     \* the run whose turn has the session log
    peeked,     \* jobs acknowledged by a line that was not synced yet
    turns, faults

locks == <<dirs, lockFile, made, held>>
startup == <<boot, todo, scan>>
store == <<file, disk, kind, home>>
registry == <<mem, removing>>
session == <<log, parked, pend, writer, peeked>>
bounds == <<turns, faults>>
vars == <<startup, locks, registry, store, session, bounds>>

NoScan == [dir |-> Nobody, gen |-> 0, step |-> "idle", names |-> {}, left |-> 0, pending |-> FALSE]
NoRemoval == [job |-> "none", step |-> 0]
NoFile == [rec |-> "none", tomb |-> FALSE, out |-> FALSE]
Empty == [j \in {} |-> "none"]

Init ==
    /\ boot = [i \in Inst |-> "new"] /\ todo = [i \in Inst |-> {}]
    /\ scan = [i \in Inst |-> NoScan]
    /\ dirs = {} /\ held = {}
    /\ lockFile = [d \in Inst |-> 0] /\ made = [d \in Inst |-> 0]
    /\ mem = [i \in Inst |-> Empty] /\ removing = [i \in Inst |-> NoRemoval]
    /\ file = [j \in Job |-> NoFile] /\ disk = [j \in Job |-> NoFile]
    /\ kind = [j \in Job |-> "none"] /\ home = [j \in Job |-> Nobody]
    /\ log = [j \in Job |-> "none"]
    /\ parked = [i \in Inst |-> {}] /\ pend = [i \in Inst |-> {}]
    /\ writer = Nobody /\ peeked = {}
    /\ turns = 0 /\ faults = 0
-----------------------------------------------------------------------------
(* Files and locks.                                                          *)

With(f, x, v) == [y \in DOMAIN f \cup {x} |-> IF y = x THEN v ELSE f[y]]
Without(f, x) == [y \in DOMAIN f \ {x} |-> f[y]]
In(d) == {j \in Job : home[j] = d}

(* sync_directory: what the directory lists now is what a power failure      *)
(* leaves.                                                                   *)
Synced(d, f) == [j \in Job |-> IF home[j] = d THEN f[j] ELSE disk[j]]

(* persist: replace the record; only a settled record of a background job is *)
(* synced, with its directory.                                               *)
Persist(j, state) ==
    IF home[j] \in dirs
    THEN /\ file' = [file EXCEPT ![j].rec = state]
         /\ disk' = IF kind[j] # "capture" /\ state # "running"
                    THEN Synced(home[j], file') ELSE disk
    ELSE UNCHANGED <<file, disk>>

Locked(d, gen) == \E i \in Inst : <<i, d, gen>> \in held
Opened(d) == IF lockFile[d] = 0 THEN made[d] + 1 ELSE lockFile[d]
Releasable(j, state) == state = "delivered" \/ kind[j] # "owned"
Owed(j, state) == kind[j] = "owned" /\ state = "settled"
Free(i) == removing[i] = NoRemoval
-----------------------------------------------------------------------------
(* enable_persistence.                                                       *)

ListRoot(i) ==
    /\ boot[i] = "new" /\ \A k \in Inst : k < i => boot[k] # "new"
    /\ Cardinality({k \in Inst : boot[k] \notin {"new", "failed", "dead"}}) < MaxAlive
    /\ boot' = [boot EXCEPT ![i] = "listed"]
    /\ todo' = [todo EXCEPT ![i] = dirs]
    /\ UNCHANGED <<scan, locks, registry, store, session, bounds>>

MakeDirectory(i) ==
    /\ boot[i] = "listed"
    /\ boot' = [boot EXCEPT ![i] = "made"]
    /\ dirs' = dirs \cup {i}
    /\ UNCHANGED <<todo, scan, lockFile, made, held, registry, store, session, bounds>>

(* create_new fails on a file that is there, and without its directory.      *)
CreateLock(i) ==
    /\ boot[i] = "made"
    /\ IF i \in dirs /\ lockFile[i] = 0
       THEN /\ boot' = [boot EXCEPT ![i] = "created"]
            /\ lockFile' = [lockFile EXCEPT ![i] = made[i] + 1]
            /\ made' = [made EXCEPT ![i] = @ + 1]
            /\ scan' = [scan EXCEPT ![i] = [NoScan EXCEPT !.gen = made[i] + 1]]
       ELSE /\ boot' = [boot EXCEPT ![i] = "failed"]
            /\ UNCHANGED <<lockFile, made, scan>>
    /\ UNCHANGED <<todo, dirs, held, registry, store, session, bounds>>

(* try_lock is on the file that was opened, wherever it is linked now.       *)
TakeLock(i) ==
    /\ boot[i] = "created"
    /\ LET gen == scan[i].gen
       IN  IF Locked(i, gen)
           THEN boot' = [boot EXCEPT ![i] = "failed"] /\ UNCHANGED held
           ELSE boot' = [boot EXCEPT ![i] = "up"] /\ held' = held \cup {<<i, i, gen>>}
    /\ scan' = [scan EXCEPT ![i] = NoScan]
    /\ UNCHANGED <<todo, dirs, lockFile, made, registry, store, session, bounds>>
-----------------------------------------------------------------------------
(* recover_stale_jobs: one directory after the other.                        *)

Taken(i, d) == todo' = [todo EXCEPT ![i] = @ \ {d}]

RecoverOpen(i, d) ==
    /\ boot[i] = "up" /\ scan[i] = NoScan /\ d \in todo[i]
    /\ Taken(i, d)
    /\ IF d \in dirs
       THEN /\ lockFile' = [lockFile EXCEPT ![d] = Opened(d)]
            /\ made' = [made EXCEPT ![d] = IF @ < Opened(d) THEN Opened(d) ELSE @]
            /\ scan' = [scan EXCEPT ![i] = [NoScan EXCEPT !.dir = d, !.gen = Opened(d), !.step = "lock"]]
       ELSE UNCHANGED <<lockFile, made, scan>>
    /\ UNCHANGED <<boot, dirs, held, registry, store, session, bounds>>

(* Bug: recovers without the owner's lock.                                   *)
RecoverUnlocked(i) ==
    LET s == scan[i]
    IN  /\ s.step = "lock"
        /\ scan' = [scan EXCEPT ![i].step = "list"]
        /\ held' = held \cup {<<i, s.dir, s.gen>>}
        /\ UNCHANGED <<boot, todo, dirs, lockFile, made, registry, store, session, bounds>>

RecoverLock(i) ==
    LET s == scan[i]
    IN  /\ s.step = "lock"
        /\ IF Locked(s.dir, s.gen)
           THEN scan' = [scan EXCEPT ![i] = NoScan] /\ UNCHANGED held
           ELSE /\ scan' = [scan EXCEPT ![i].step = "list"]
                /\ held' = held \cup {<<i, s.dir, s.gen>>}
        /\ UNCHANGED <<boot, todo, dirs, lockFile, made, registry, store, session, bounds>>

(* Read the names, finish interrupted removals, drop outputs without record. *)
RecoverList(i) ==
    LET s == scan[i]
        here == In(s.dir)
        tombs == {j \in here : file[j].tomb}
        names == {j \in here : file[j].rec # "none"} \ tombs
        clean == [j \in Job |->
                     CASE j \in tombs -> NoFile
                       [] j \in here \ (tombs \cup names) -> [file[j] EXCEPT !.out = FALSE]
                       [] OTHER -> file[j]]
    IN  /\ s.step = "list"
        /\ IF s.dir \in dirs
           THEN /\ file' = clean
                /\ disk' = IF tombs # {} THEN Synced(s.dir, clean) ELSE disk
                /\ scan' = [scan EXCEPT ![i] =
                       [s EXCEPT !.step = "load", !.names = names,
                                 !.left = Cardinality(names)
                                          + Cardinality({j \in names : file[j].out})]]
                /\ UNCHANGED held
           ELSE /\ held' = held \ {<<i, s.dir, s.gen>>}
                /\ scan' = [scan EXCEPT ![i] = NoScan]
                /\ UNCHANGED <<file, disk>>
        /\ UNCHANGED <<boot, todo, dirs, lockFile, made, registry, kind, home, session, bounds>>

Loaded(i, j, s) == scan' = [scan EXCEPT ![i] = [s EXCEPT !.names = @ \ {j}]]

(* A record that cannot be read, or has no output, stays where it is.        *)
LoadNothing(i, j) ==
    /\ scan[i].step = "load" /\ j \in scan[i].names
    /\ file[j].rec = "none" \/ ~file[j].out
    /\ Loaded(i, j, scan[i])
    /\ UNCHANGED <<boot, todo, locks, registry, store, session, bounds>>

(* Bug: expiry looks at the age only.                                        *)
LoadExpiredAny(i, j) ==
    /\ scan[i].step = "load" /\ j \in scan[i].names
    /\ file[j].rec \in {"settled", "delivered"} /\ file[j].out
    /\ file' = [file EXCEPT ![j] = [@ EXCEPT !.rec = "none", !.out = FALSE]]
    /\ Loaded(i, j, [scan[i] EXCEPT !.left = @ - 2])
    /\ UNCHANGED <<boot, todo, locks, registry, disk, kind, home, session, bounds>>

LoadExpired(i, j) ==
    /\ scan[i].step = "load" /\ j \in scan[i].names
    /\ file[j].rec \in {"settled", "delivered"} /\ file[j].out
    /\ Releasable(j, file[j].rec)
    /\ file' = [file EXCEPT ![j] = [@ EXCEPT !.rec = "none", !.out = FALSE]]
    /\ Loaded(i, j, [scan[i] EXCEPT !.left = @ - 2])
    /\ UNCHANGED <<boot, todo, locks, registry, disk, kind, home, session, bounds>>

(* A record left running is interrupted: settled, and written again.         *)
LoadRecord(i, j) ==
    LET state == IF file[j].rec = "running" THEN "settled" ELSE file[j].rec
    IN  /\ scan[i].step = "load" /\ j \in scan[i].names
        /\ file[j].rec # "none" /\ file[j].out
        /\ mem' = [mem EXCEPT ![i] = With(@, j, state)]
        /\ IF file[j].rec = "running" THEN Persist(j, state) ELSE UNCHANGED <<file, disk>>
        /\ Loaded(i, j, [scan[i] EXCEPT !.pending = @ \/ Owed(j, state)])
        /\ UNCHANGED <<boot, todo, locks, removing, kind, home, session, bounds>>

(* Nothing left: the lock file and the directory go.  The lock itself is     *)
(* kept only while completions are owed.                                     *)
RecoverUnlink(i) ==
    LET s == scan[i]
    IN  /\ s.step = "load" /\ s.names = {} /\ s.left = 0
        /\ lockFile' = [lockFile EXCEPT ![s.dir] = 0]
        /\ scan' = [scan EXCEPT ![i].step = "rmdir"]
        /\ UNCHANGED <<boot, todo, dirs, made, held, registry, store, session, bounds>>

Bare(d) == lockFile[d] = 0 /\ \A j \in In(d) : file[j] = NoFile

RecoverRmdir(i) ==
    LET s == scan[i]
    IN  /\ s.step = "rmdir"
        /\ dirs' = IF Bare(s.dir) THEN dirs \ {s.dir} ELSE dirs
        /\ held' = held \ {<<i, s.dir, s.gen>>}
        /\ scan' = [scan EXCEPT ![i] = NoScan]
        /\ UNCHANGED <<boot, todo, lockFile, made, registry, store, session, bounds>>

RecoverEnd(i) ==
    LET s == scan[i]
    IN  /\ s.step = "load" /\ s.names = {} /\ s.left > 0
        /\ held' = IF s.pending THEN held ELSE held \ {<<i, s.dir, s.gen>>}
        /\ scan' = [scan EXCEPT ![i] = NoScan]
        /\ UNCHANGED <<boot, todo, dirs, lockFile, made, registry, store, session, bounds>>
-----------------------------------------------------------------------------
(* Jobs.                                                                     *)

(* start_job: the output file, then the record of a background job.          *)
StartJob(i, j, k) ==
    /\ boot[i] = "up" /\ Free(i) /\ home[j] = Nobody
    /\ home' = [home EXCEPT ![j] = i] /\ kind' = [kind EXCEPT ![j] = k]
    /\ mem' = [mem EXCEPT ![i] = With(@, j, "running")]
    /\ file' = IF i \in dirs
               THEN [file EXCEPT ![j] = [rec |-> IF k = "capture" THEN "none" ELSE "running",
                                         tomb |-> FALSE, out |-> TRUE]]
               ELSE file
    /\ UNCHANGED <<startup, locks, removing, disk, session, bounds>>

(* settle: a capture owes no notice.                                         *)
SettleJob(i, j) ==
    LET state == IF kind[j] = "capture" THEN "delivered" ELSE "settled"
    IN  /\ j \in DOMAIN mem[i] /\ mem[i][j] = "running"
        /\ mem' = [mem EXCEPT ![i][j] = state]
        /\ Persist(j, state)
        /\ UNCHANGED <<startup, locks, removing, kind, home, session, bounds>>

(* A read stores the record again for its cursor.                            *)
ReadJob(i, j) ==
    /\ Free(i) /\ j \in DOMAIN mem[i] /\ (kind[j] # "capture" \/ mem[i][j] = "delivered")
    /\ Persist(j, mem[i][j])
    /\ UNCHANGED <<startup, locks, registry, kind, home, session, bounds>>

(* cleanup, evict: age, the cap and the quota are left open.                 *)
Remove(i, j) ==
    /\ Free(i) /\ j \in DOMAIN mem[i]
    /\ mem[i][j] # "running" /\ Releasable(j, mem[i][j])
    /\ removing' = [removing EXCEPT ![i] = [job |-> j, step |-> 1]]
    /\ UNCHANGED <<startup, locks, mem, store, session, bounds>>

Removed(i, j) ==
    /\ mem' = [mem EXCEPT ![i] = Without(@, j)]
    /\ removing' = [removing EXCEPT ![i] = NoRemoval]
Step(i, n) == removing' = [removing EXCEPT ![i].step = n]

RemoveStep(i) ==
    LET j == removing[i].job
        n == removing[i].step
        d == home[j]
    IN  /\ ~Free(i)
        /\ \/ /\ kind[j] = "capture" /\ n = 1
              /\ file' = [file EXCEPT ![j].rec = "none"]
              /\ Step(i, 2) /\ UNCHANGED <<disk, mem>>
           \/ /\ kind[j] = "capture" /\ n = 2
              /\ file' = [file EXCEPT ![j].out = FALSE]
              /\ Removed(i, j) /\ UNCHANGED disk
           \/ /\ kind[j] # "capture" /\ n = 1
              /\ IF d \in dirs
                 THEN LET stored == [file EXCEPT ![j].rec = mem[i][j]]
                      IN  /\ disk' = Synced(d, stored)
                          /\ file' = [stored EXCEPT ![j].rec = "none", ![j].tomb = TRUE]
                 ELSE UNCHANGED <<file, disk>>
              /\ Step(i, 2) /\ UNCHANGED mem
           \/ /\ kind[j] # "capture" /\ n \in {2, 4}
              /\ disk' = IF d \in dirs THEN Synced(d, file) ELSE disk
              /\ Step(i, n + 1) /\ UNCHANGED <<file, mem>>
           \/ /\ kind[j] # "capture" /\ n = 3
              /\ file' = [file EXCEPT ![j].out = FALSE]
              /\ Step(i, 4) /\ UNCHANGED <<disk, mem>>
           \/ /\ kind[j] # "capture" /\ n = 5
              /\ file' = [file EXCEPT ![j].tomb = FALSE]
              /\ Removed(i, j) /\ UNCHANGED disk
        /\ UNCHANGED <<startup, locks, kind, home, session, bounds>>

(* A failed sync or unlink leaves the job registered; an output that is gone *)
(* takes the job with it.                                                    *)
RemoveFails(i) ==
    LET j == removing[i].job
        n == removing[i].step
    IN  /\ ~Free(i) /\ kind[j] # "capture" /\ n \in 2..4
        /\ faults < MaxFaults /\ faults' = faults + 1
        /\ IF n = 4 THEN Removed(i, j)
                    ELSE removing' = [removing EXCEPT ![i] = NoRemoval] /\ UNCHANGED mem
        /\ file' = IF n = 3 /\ file[j].tomb
                   THEN [file EXCEPT ![j].rec = mem[i][j], ![j].tomb = FALSE] ELSE file
        /\ UNCHANGED <<startup, locks, disk, kind, home, session, turns>>
-----------------------------------------------------------------------------
(* The poller and the session.                                               *)

Pending(i, j) == j \in DOMAIN mem[i] /\ Owed(j, mem[i][j])
Unsynced == {j \in Job : log[j] = "written"}
Commit(new) == [j \in Job |-> IF j \in new \cup Unsynced THEN "synced" ELSE log[j]]

(* Bug: the job counts as delivered once its notice is in the inbox.         *)
AcknowledgeParked(i, j) ==
    /\ boot[i] = "up" /\ Free(i) /\ Pending(i, j)
    /\ log[j] # "none" \/ j \in parked[i]
    /\ mem' = [mem EXCEPT ![i][j] = "delivered"]
    /\ peeked' = IF log[j] = "written" THEN peeked \cup {j} ELSE peeked
    /\ \/ Persist(j, "delivered") /\ UNCHANGED faults
       \/ /\ faults < MaxFaults /\ faults' = faults + 1 /\ UNCHANGED <<file, disk>>
    /\ UNCHANGED <<startup, locks, removing, kind, home, log, parked, pend, writer,
                   turns>>

(* notice_once finds the notice in the history: the job is delivered.        *)
Acknowledge(i, j) ==
    /\ boot[i] = "up" /\ Free(i) /\ Pending(i, j) /\ log[j] # "none"
    /\ mem' = [mem EXCEPT ![i][j] = "delivered"]
    /\ peeked' = IF log[j] = "written" THEN peeked \cup {j} ELSE peeked
    /\ \/ Persist(j, "delivered") /\ UNCHANGED faults
       \/ /\ faults < MaxFaults /\ faults' = faults + 1 /\ UNCHANGED <<file, disk>>
    /\ UNCHANGED <<startup, locks, removing, kind, home, log, parked, pend, writer,
                   turns>>

(* Bug: what was parked once stays pending when the session is idle.         *)
NotifyForgotten(i, j) ==
    /\ boot[i] = "up" /\ Pending(i, j) /\ log[j] = "none" /\ writer # i
    /\ j \notin pend[i]
    /\ writer = Nobody
    /\ writer' = i /\ log' = Commit({j})
    /\ pend' = [pend EXCEPT ![i] = @ \cup {j}]
    /\ UNCHANGED <<startup, locks, registry, store, parked, peeked, bounds>>

(* An idle session forgets what it was told and starts a turn with the       *)
(* notice, unless another process is writing or the append fails.            *)
NotifyIdle(i, j) ==
    /\ boot[i] = "up" /\ Pending(i, j) /\ log[j] = "none" /\ writer # i
    /\ \/ /\ writer = Nobody
          /\ writer' = i /\ log' = Commit({j})
          /\ pend' = [pend EXCEPT ![i] = @ \cup {j}]
          /\ UNCHANGED faults
       \/ /\ writer # Nobody \/ faults < MaxFaults
          /\ faults' = IF writer = Nobody THEN faults + 1 ELSE faults
          /\ pend' = [pend EXCEPT ![i] = @ \ {j}]
          /\ UNCHANGED <<writer, log>>
    /\ UNCHANGED <<startup, locks, registry, store, parked, peeked, turns>>

(* A running one parks it for the next boundary, once.                       *)
NotifyRunning(i, j) ==
    /\ boot[i] = "up" /\ Pending(i, j) /\ log[j] = "none" /\ writer = i
    /\ j \notin pend[i]
    /\ parked' = [parked EXCEPT ![i] = @ \cup {j}]
    /\ pend' = [pend EXCEPT ![i] = @ \cup {j}]
    /\ UNCHANGED <<startup, locks, registry, store, log, writer, peeked, bounds>>

(* A step boundary, or the drain at the end of a turn.                       *)
Boundary(i) ==
    /\ writer = i /\ parked[i] # {} /\ Unsynced = {}
    /\ log' = [j \in Job |-> IF j \in parked[i] /\ log[j] = "none" THEN "written" ELSE log[j]]
    /\ parked' = [parked EXCEPT ![i] = {}]
    /\ UNCHANGED <<startup, locks, registry, store, pend, writer, peeked, bounds>>

BoundarySynced(i) ==
    /\ writer = i /\ Unsynced # {}
    /\ log' = Commit({})
    /\ UNCHANGED <<startup, locks, registry, store, parked, pend, writer, peeked, bounds>>

(* A failed append is rolled back; the turn fails with it.                   *)
BoundaryFails(i) ==
    /\ writer = i /\ Unsynced # {}
    /\ faults < MaxFaults /\ faults' = faults + 1
    /\ log' = [j \in Job |-> IF j \in Unsynced THEN "none" ELSE log[j]]
    /\ writer' = Nobody
    /\ UNCHANGED <<startup, locks, registry, store, parked, pend, peeked, turns>>

(* The user starts turns.  One that is cancelled or fails leaves what is     *)
(* parked.                                                                   *)
TurnBegins(i) ==
    /\ boot[i] = "up" /\ writer = Nobody /\ turns < MaxTurns
    /\ turns' = turns + 1
    /\ writer' = i /\ log' = Commit({})
    /\ UNCHANGED <<startup, locks, registry, store, parked, pend, peeked, faults>>

TurnEnds(i) ==
    /\ writer = i /\ Unsynced = {}
    /\ writer' = Nobody
    /\ UNCHANGED <<startup, locks, registry, store, log, parked, pend, peeked, bounds>>
-----------------------------------------------------------------------------
(* Faults.                                                                   *)

(* What a process had in memory is gone and its locks are released.          *)
Dead(runs) ==
    /\ boot' = [i \in Inst |-> IF i \in runs THEN "dead" ELSE boot[i]]
    /\ todo' = [i \in Inst |-> IF i \in runs THEN {} ELSE todo[i]]
    /\ scan' = [i \in Inst |-> IF i \in runs THEN NoScan ELSE scan[i]]
    /\ held' = {h \in held : h[1] \notin runs}
    /\ mem' = [i \in Inst |-> IF i \in runs THEN Empty ELSE mem[i]]
    /\ removing' = [i \in Inst |-> IF i \in runs THEN NoRemoval ELSE removing[i]]
    /\ parked' = [i \in Inst |-> IF i \in runs THEN {} ELSE parked[i]]
    /\ pend' = [i \in Inst |-> IF i \in runs THEN {} ELSE pend[i]]
    /\ writer' = IF writer \in runs THEN Nobody ELSE writer

Kill(i) ==
    /\ boot[i] \notin {"new", "dead"} /\ faults < MaxFaults
    /\ faults' = faults + 1
    /\ Dead({i})
    /\ UNCHANGED <<dirs, lockFile, made, store, log, peeked, turns>>

(* A job's record and its output may each be as last synced or as last       *)
(* written; so may the session's last lines.                                 *)
PowerFails(old, cut) ==
    /\ faults < MaxFaults /\ faults' = faults + 1
    /\ Dead({i \in Inst : boot[i] # "new"})
    /\ file' = [j \in Job |->
           LET names == IF j \in old THEN disk[j] ELSE file[j]
           IN  [names EXCEPT !.out = IF j \in cut THEN disk[j].out ELSE file[j].out]]
    /\ disk' = file'
    /\ log' \in {Commit({}), [j \in Job |-> IF j \in Unsynced THEN "none" ELSE log[j]]}
    /\ UNCHANGED <<dirs, lockFile, made, kind, home, peeked, turns>>
-----------------------------------------------------------------------------
Startup(i) == ListRoot(i) \/ MakeDirectory(i) \/ CreateLock(i) \/ TakeLock(i)
Recover(i) ==
    \/ \E d \in Inst : RecoverOpen(i, d)
    \/ RecoverLock(i) \/ RecoverList(i)
    \/ \E j \in Job : LoadNothing(i, j) \/ LoadExpired(i, j) \/ LoadRecord(i, j)
    \/ RecoverUnlink(i) \/ RecoverRmdir(i) \/ RecoverEnd(i)
Work(i) ==
    \/ \E j \in Job : \/ \E k \in Kinds : StartJob(i, j, k)
                      \/ SettleJob(i, j) \/ ReadJob(i, j) \/ Remove(i, j)
    \/ RemoveStep(i) \/ RemoveFails(i)
Poll(i) == \E j \in Job : Acknowledge(i, j) \/ NotifyIdle(i, j) \/ NotifyRunning(i, j)
Turn(i) == Boundary(i) \/ BoundarySynced(i) \/ TurnEnds(i)

Next ==
    \/ \E i \in Inst : \/ Startup(i) \/ Recover(i) \/ Work(i) \/ Poll(i) \/ Turn(i)
                       \/ BoundaryFails(i) \/ TurnBegins(i) \/ Kill(i)
    \/ \E old, cut \in SUBSET Job : PowerFails(old, cut)

Spec == Init /\ [][Next]_vars

(* The poller ticks every second for every pending job and turns end.        *)
FairSpec ==
    /\ Spec
    /\ \A i \in Inst : WF_vars(Turn(i)) /\ WF_vars(RemoveStep(i))
    /\ \A i \in Inst, j \in Job :
           WF_vars(Acknowledge(i, j)) /\ WF_vars(NotifyIdle(i, j) /\ writer' = i)
           /\ WF_vars(NotifyRunning(i, j))
-----------------------------------------------------------------------------
(* Properties.                                                               *)

State == {"running", "settled", "delivered"}
Registry == UNION {[S -> State] : S \in SUBSET Job}
Scan == [dir : Inst \cup {Nobody}, gen : Nat, step : {"idle", "lock", "list", "load", "rmdir"},
         names : SUBSET Job, left : Int, pending : BOOLEAN]
Files == [rec : State \cup {"none"}, tomb : BOOLEAN, out : BOOLEAN]

TypeStartup ==
    /\ boot \in [Inst -> {"new", "listed", "made", "created", "up", "failed", "dead"}]
    /\ todo \in [Inst -> SUBSET Inst] /\ scan \in [Inst -> Scan]
TypeLocks ==
    /\ dirs \subseteq Inst /\ lockFile \in [Inst -> Nat] /\ made \in [Inst -> Nat]
    /\ held \subseteq Inst \X Inst \X Nat
TypeRegistry ==
    /\ mem \in [Inst -> Registry]
    /\ removing \in [Inst -> [job : Job \cup {"none"}, step : 0..5]]
TypeStore ==
    /\ file \in [Job -> Files] /\ disk \in [Job -> Files]
    /\ kind \in [Job -> Kind \cup {"none"}] /\ home \in [Job -> Inst \cup {Nobody}]
TypeSession ==
    /\ log \in [Job -> {"none", "written", "synced"}]
    /\ parked \in [Inst -> SUBSET Job] /\ pend \in [Inst -> SUBSET Job]
    /\ writer \in Inst \cup {Nobody} /\ peeked \subseteq Job
    /\ turns \in Nat /\ faults \in Nat
TypeOK == TypeStartup /\ TypeLocks /\ TypeRegistry /\ TypeStore /\ TypeSession

(* A run that is up holds the lock that is in its directory.                 *)
OwnsDirectory(i) == i \in dirs /\ <<i, i, lockFile[i]>> \in held

(* "Never touch another live instance's artifacts" (jobs.rs:940): a run that *)
(* has started keeps its directory and its lock.                             *)
DirectoryKept == \A i \in Inst : boot[i] = "up" => OwnsDirectory(i)

(* The directory still has the lock file its owner made.                     *)
LockIntact(j) == home[j] # Nobody /\ lockFile[home[j]] = 1 /\ made[home[j]] = 1

(* "no other instance delivers them as well" (jobs.rs:908): a completion is  *)
(* owed by one live run.                                                     *)
SingleDeliverer ==
    \A i, k \in Inst, j \in Job :
        Pending(i, j) /\ Pending(k, j) /\ LockIntact(j) => i = k

(* "they drive exactly-once completion notices" (jobs.rs:22): a job recorded *)
(* as delivered has its notice on disk in the session log, unless the        *)
(* history had it before it was synced.                                      *)
NoticeKept ==
    \A j \in Job : kind[j] = "owned" /\ file[j].rec = "delivered" /\ j \notin peeked
                   => log[j] = "synced"

(* "never active or pending output" (jobs.rs:669): the record of a settled   *)
(* job is neither lost nor undone, whatever is removed, recovered or         *)
(* crashes, before its notice is in the session log.                         *)
OwedKept ==
    [][\A j \in Job :
           Owed(j, file[j].rec) /\ LockIntact(j) /\ log[j] = "none" /\ j \notin peeked
           => file'[j].rec \in {"settled", "delivered"}]_vars

(* A completion a live run owes reaches the session log.                     *)
EventuallyTold ==
    \A i \in Inst, j \in Job : Pending(i, j) ~> ~Pending(i, j)
-----------------------------------------------------------------------------
(* The inductive invariant.                                                  *)

Holds(i, d) == \E h \in held : h[1] = i /\ h[2] = d
Recovering(i) == scan[i].step \in {"list", "load", "rmdir"}

(* One run holds a generation of a lock, and only generations that were      *)
(* made; one that is up holds its own directory's, one that recovers the     *)
(* directory's it recovers, which is never its own.                          *)
LockInv ==
    /\ \A g, h \in held : g[2] = h[2] /\ g[3] = h[3] => g = h
    /\ \A h \in held : 1 <= h[3] /\ h[3] <= made[h[2]]
    /\ \A d \in Inst : lockFile[d] <= made[d]
    /\ \A d \in dirs : boot[d] \notin {"new", "listed"}
    /\ \A i \in Inst : boot[i] = "up" => Holds(i, i)
ScanOf(i) ==
    /\ i \notin todo[i] /\ scan[i].dir # i /\ scan[i].dir \notin todo[i]
    /\ boot[i] \in {"new", "listed", "made", "failed", "dead"} => scan[i] = NoScan
    /\ boot[i] = "created" => /\ scan[i].gen \in 1..made[i] /\ scan[i].step = "idle"
                              /\ scan[i].dir = Nobody /\ scan[i].names = {}
    /\ scan[i].step = "idle" => boot[i] = "created" \/ scan[i] = NoScan
    /\ scan[i].step # "idle" => /\ scan[i].dir \in Inst
                                /\ scan[i].gen \in 1..made[scan[i].dir]
    /\ Recovering(i) => <<i, scan[i].dir, scan[i].gen>> \in held
    /\ \A j \in scan[i].names : home[j] = scan[i].dir
ScanInv == \A i \in Inst : ScanOf(i)

(* Jobs are known to the run that started them and to those that loaded      *)
(* their record, each from a directory it listed once; while it may still    *)
(* tell of one, a run holds the lock of the job's directory.                 *)
HomeInv ==
    /\ \A j \in Job : home[j] = Nobody => /\ kind[j] = "none"
                                          /\ file[j] = NoFile /\ disk[j] = NoFile
    /\ \A j \in Job : home[j] # Nobody => boot[home[j]] \in {"up", "dead"} /\ 1 <= made[home[j]]
    /\ IsFiniteSet({j \in Job : home[j] # Nobody})
    /\ \A i \in Inst : boot[i] # "up" => mem[i] = Empty
KnownInv ==
    \A i \in Inst : \A j \in DOMAIN mem[i] :
        /\ home[j] # Nobody /\ home[j] \notin todo[i] /\ j \notin scan[i].names
        /\ scan[i].dir = home[j] => scan[i].step = "load"
        /\ mem[i][j] = "running" => home[j] = i
DebtInv ==
    \A i \in Inst : \A j \in DOMAIN mem[i] :
        kind[j] = "owned" /\ mem[i][j] # "delivered" =>
            /\ Holds(i, home[j])
            /\ scan[i].dir = home[j] => scan[i].pending

(* What is left in a directory under recovery covers the names to come and   *)
(* the jobs taken over.                                                      *)
LeftBy(i, kept, outs) ==
    /\ scan[i].left = Cardinality(kept) + Cardinality(outs)
    /\ scan[i].names \subseteq kept
    /\ {j \in scan[i].names : file[j].out} \subseteq outs
    /\ {j \in DOMAIN mem[i] : home[j] = scan[i].dir} \subseteq kept
LeftInv ==
    \A i \in Inst : scan[i].step = "load" =>
        \E kept \in SUBSET {j \in Job : home[j] # Nobody} :
            \E outs \in SUBSET kept : LeftBy(i, kept, outs)

(* A job is removed, or known as delivered anywhere, once its notice is in   *)
(* the log.                                                                  *)
RemovingInv ==
    \A i \in Inst : ~Free(i) =>
        /\ removing[i].job \in DOMAIN mem[i]
        /\ mem[i][removing[i].job] # "running"
        /\ Releasable(removing[i].job, mem[i][removing[i].job])
Told(j) == j \in peeked \/ log[j] = "synced"
ToldInv ==
    \A j \in Job : kind[j] = "owned" =>
        /\ file[j].rec = "delivered" \/ file[j].tomb => Told(j)
        /\ disk[j].rec = "delivered" \/ disk[j].tomb => Told(j)
        /\ \A i \in Inst : j \in DOMAIN mem[i] /\ mem[i][j] = "delivered" => Told(j)

(* While the lock its owner made is there, nobody else knows a job before    *)
(* its owner is dead, nobody settles a job its owner runs, and a settled     *)
(* record is on the disk.                                                    *)
OwnerInv ==
    \A j \in Job : LockIntact(j) =>
        /\ \A i \in Inst : j \in DOMAIN mem[i] /\ home[j] # i => boot[home[j]] = "dead"
        /\ \A i \in Inst : j \in DOMAIN mem[i] /\ mem[i][j] = "running"
                           => file[j].rec \in {"none", "running"}
        /\ Owed(j, file[j].rec) /\ ~Told(j) => disk[j].rec \in {"settled", "delivered"}

IInv == /\ TypeOK /\ LockInv /\ ScanInv /\ HomeInv /\ KnownInv /\ DebtInv /\ LeftInv
        /\ RemovingInv /\ ToldInv /\ OwnerInv
=============================================================================
