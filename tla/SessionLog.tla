----------------------------- MODULE SessionLog -----------------------------
(* One session's JSONL log file and the handles that write it                *)
(* (crates/rness-engine/src/session/log.rs).                                 *)
(*                                                                           *)
(* The file is a sequence of cells.  An event is `of` consecutive cells, the *)
(* last of which carries its newline, so that a write can stop in the middle *)
(* of a line and a power loss can keep a newline without its payload.  The   *)
(* system calls of the code that change the file (write, set_len, sync) are  *)
(* steps of their own: a process can be killed, or the power can fail,       *)
(* between any two of them.                                                  *)
EXTENDS Integers, Sequences, FiniteSets, SeqSelect

CONSTANTS
    Proc,                 \* processes that open the session for writing
    Width,                \* cells an event may take
    Batching,             \* is append_batch called with more than one event?
    MaxQuarantineLines,   \* MAX_QUARANTINE_LINES
    Reorder,              \* may a power loss keep a later line, lose an earlier one?
    WriteErrors,          \* may a write or the sync after it fail?
    MaxId,                \* bound: ids handed out to events and sidecars
    None

ASSUME ConstantsAssumption ==
    /\ Width \subseteq Nat \ {0}
    /\ Batching \in BOOLEAN
    /\ MaxQuarantineLines \in Nat
    /\ Reorder \in BOOLEAN
    /\ WriteErrors \in BOOLEAN
    /\ MaxId \in Nat
    /\ None \notin Proc

VARIABLES
    exists,     \* has the log file been created?
    file,       \* its cells, as every process reads them (page cache)
    stable,     \* its cells as of the last sync or writeback
    lock,       \* the process holding the advisory lock, or None
    pc,         \* per process: the step its handle is at
    buf,        \* cells the lock holder has still to write
    base,       \* length to roll the file back to, or to cut it to
    purpose,    \* what the lock holder writes: "header", "event", "repair"
    batch,      \* ids of the events it writes
    nextId,     \* next id of an event or of a sidecar
    sidecars,   \* the quarantine files
    committed,  \* history: cells of the file acknowledged by a returned Ok
    refused     \* history: events whose append failed and was rolled back

handle == <<lock, pc, buf, base, purpose, batch>>
disk == <<exists, file, stable, sidecars>>
history == <<committed, refused>>
vars == <<disk, handle, nextId, history>>

-----------------------------------------------------------------------------
(* Cells, lines and what heal_tail and the readers make of them.             *)

Zero == [ev |-> 0, part |-> 0, of |-> 1]     \* a NUL-filled hole

EventCell == [ev : Nat \ {0}, part : Nat \ {0}, of : Nat \ {0}]
Cell == EventCell \cup {Zero}

Newline(c) == c.part = c.of

Cells(e, w) == [i \in 1..w |-> [ev |-> e, part |-> i, of |-> w]]

(* The line that ends at cell n is exactly one event: it starts the file or  *)
(* follows a newline, and every cell of it is there.                         *)
ValidLine(f, n) ==
    /\ n \in 1..Len(f)
    /\ Newline(f[n])
    /\ f[n].of <= n
    /\ \A i \in 1..f[n].of :
          f[n - f[n].of + i] = [ev |-> f[n].ev, part |-> i, of |-> f[n].of]
    /\ \/ f[n].of = n
       \/ Newline(f[n - f[n].of])

LineEnds(f) == {n \in 1..Len(f) : Newline(f[n])}
ValidEnds(f) == {n \in LineEnds(f) : ValidLine(f, n)}

(* The events of the complete lines of f.                                    *)
EventsIn(f) == {f[n].ev : n \in ValidEnds(f)}

(* Where the events of the file's first n cells end.                         *)
EndsBelow(n) == {m \in ValidEnds(file) : m <= n}

(* Every complete line parses: a read returns no Corrupt.                    *)
Readable(f) == LineEnds(f) \subseteq ValidEnds(f)

(* The first complete line is an event: check_header accepts the log.        *)
HeaderOk(f) == \E n \in ValidEnds(f) : \A m \in LineEnds(f) : n <= m

Torn(f) == Len(f) > 0 /\ ~Newline(f[Len(f)])

(* n is where a torn last line starts.                                       *)
IsTornStart(f, n) == /\ n \in LineEnds(f)
                     /\ \A m \in LineEnds(f) : m <= n

(* Bug: the trailing run is looked for from the front.                       *)
RegionFromFront(f, n) == /\ n \in ValidEnds(f)
                         /\ \A m \in ValidEnds(f) : n <= m

(* n is where the trailing run of invalid lines starts.                      *)
IsRegionStart(f, n) == /\ n \in ValidEnds(f)
                       /\ \A m \in ValidEnds(f) : m <= n

Prefix(f, n) == SubSeq(f, 1, n)
Suffix(f, n) == SubSeq(f, n + 1, Len(f))
-----------------------------------------------------------------------------
Sidecar == [id : Nat, cells : Seq(Cell), synced : BOOLEAN, cut : BOOLEAN,
            audit : Nat]       \* audit: id of its Repair event, 0 if none yet

PC == {"closed", "created", "checking", "healing", "tornsync", "scanning",
       "sidecar", "cutting", "cutsync", "writing", "syncing", "rollback",
       "rbsync", "open", "poisoned"}

TypeOK ==
    /\ exists \in BOOLEAN
    /\ file \in Seq(Cell)
    /\ stable \in Seq(Cell)
    /\ sidecars \subseteq Sidecar
    /\ lock \in Proc \cup {None}
    /\ pc \in [Proc -> PC]
    /\ buf \in Seq(Cell)
    /\ base \in Nat
    /\ purpose \in {"header", "event", "repair"}
    /\ batch \subseteq Nat
    /\ nextId \in Nat \ {0}
    /\ committed \in Nat
    /\ refused \subseteq Nat

Init ==
    /\ exists = FALSE
    /\ file = <<>>
    /\ stable = <<>>
    /\ sidecars = {}
    /\ lock = None
    /\ pc = [p \in Proc |-> "closed"]
    /\ buf = <<>>
    /\ base = 0
    /\ purpose = "event"
    /\ batch = {}
    /\ nextId = 1
    /\ committed = 0
    /\ refused = {}

Goto(p, here, there) == pc[p] = here /\ pc' = [pc EXCEPT ![p] = there]

(* The handle of p goes away, and with it the lock it may hold.              *)
Release(p) == /\ pc' = [pc EXCEPT ![p] = "closed"]
              /\ lock' = IF lock = p THEN None ELSE lock
-----------------------------------------------------------------------------
(* write_durable, the one way bytes reach the log.                           *)

(* The envelopes of the batch are serialized; the length to roll back to is  *)
(* read.  An event that nests too deep is refused here and nothing changes.  *)
BeginWrite(p, here, what) ==
    /\ Goto(p, here, "writing")
    /\ purpose' = what
    /\ base' = Len(file)
    /\ \E w \in Width :
          \/ /\ nextId <= MaxId
             /\ buf' = Cells(nextId, w)
             /\ batch' = {nextId}
             /\ nextId' = nextId + 1
          \/ /\ what = "event" /\ Batching
             /\ nextId < MaxId
             /\ \E w2 \in Width :
                   buf' = Cells(nextId, w) \o Cells(nextId + 1, w2)
             /\ batch' = {nextId, nextId + 1}
             /\ nextId' = nextId + 2

(* The kernel accepts some of the bytes write_all still has to hand over.    *)
WriteSome(p) ==
    /\ pc[p] = "writing"
    /\ \E k \in 1..Len(buf) :
          /\ file' = file \o Prefix(buf, k)
          /\ buf' = Suffix(buf, k)
          /\ pc' = [pc EXCEPT ![p] = IF k = Len(buf) THEN "syncing" ELSE "writing"]
    /\ UNCHANGED <<exists, stable, sidecars, lock, base, purpose, batch,
                   nextId, history>>

(* sync_data returned Ok: so does the append, and the handle is usable.      *)
SyncOk(p) ==
    /\ Goto(p, "syncing", "open")
    /\ stable' = file
    /\ committed' = Len(file)
    /\ UNCHANGED <<exists, file, sidecars, lock, buf, base, purpose, batch,
                   nextId, refused>>

(* write_all or sync_data failed.                                            *)
WriteFails(p) ==
    /\ WriteErrors
    /\ \/ Goto(p, "writing", "rollback")
       \/ Goto(p, "syncing", "rollback")
    /\ UNCHANGED <<disk, lock, buf, base, purpose, batch, nextId, history>>

(* Bug: the file is emptied instead of cut back.                             *)
RollBackToNothing(p) ==
    /\ Goto(p, "rollback", "rbsync")
    /\ file' = <<>>
    /\ UNCHANGED <<exists, stable, sidecars, lock, buf, base, purpose, batch,
                   nextId, history>>

RollBack(p) ==
    /\ Goto(p, "rollback", "rbsync")
    /\ file' = Prefix(file, base)
    /\ UNCHANGED <<exists, stable, sidecars, lock, buf, base, purpose, batch,
                   nextId, history>>

(* Bug: the cut is not synced.                                               *)
RollBackUnsynced(p) ==
    /\ pc[p] = "rbsync"
    /\ refused' = refused \cup batch
    /\ \/ /\ purpose = "event"
          /\ Goto(p, "rbsync", "open")
          /\ UNCHANGED lock
       \/ purpose # "event" /\ Release(p)
    /\ UNCHANGED <<disk, buf, base, purpose, batch, nextId, committed>>

(* An append returns its error with the handle usable; create and open give  *)
(* the handle up.                                                            *)
RollBackSynced(p) ==
    /\ pc[p] = "rbsync"
    /\ stable' = file
    /\ refused' = refused \cup batch
    /\ \/ /\ purpose = "event"
          /\ Goto(p, "rbsync", "open")
          /\ UNCHANGED lock
       \/ purpose # "event" /\ Release(p)
    /\ UNCHANGED <<exists, file, sidecars, buf, base, purpose, batch, nextId,
                   committed>>

(* Bug: the handle is not poisoned.                                          *)
RollBackFailsUnnoticed(p) ==
    /\ pc[p] \in {"rollback", "rbsync"}
    /\ \/ /\ purpose = "event"
          /\ pc' = [pc EXCEPT ![p] = "open"]
          /\ UNCHANGED lock
       \/ purpose # "event" /\ Release(p)
    /\ UNCHANGED <<disk, buf, base, purpose, batch, nextId, history>>

(* Neither could the file be cut back (or the cut synced).                   *)
RollBackFails(p) ==
    /\ pc[p] \in {"rollback", "rbsync"}
    /\ \/ /\ purpose = "event"
          /\ pc' = [pc EXCEPT ![p] = "poisoned"]
          /\ UNCHANGED lock
       \/ purpose # "event" /\ Release(p)
    /\ UNCHANGED <<disk, buf, base, purpose, batch, nextId, history>>
-----------------------------------------------------------------------------
(* SessionLog::create and the first half of open.                            *)

CreateNew(p) ==
    /\ ~exists
    /\ Goto(p, "closed", "created")
    /\ exists' = TRUE
    /\ UNCHANGED <<file, stable, sidecars, lock, buf, base, purpose, batch,
                   nextId, history>>

(* Another process may have opened the empty file first: Locked.             *)
LockNew(p) ==
    /\ pc[p] = "created"
    /\ \/ /\ lock = None
          /\ lock' = p
          /\ BeginWrite(p, "created", "header")
       \/ /\ lock # None
          /\ Release(p)
          /\ UNCHANGED <<buf, base, purpose, batch, nextId>>
    /\ UNCHANGED <<disk, history>>

(* While the lock is taken an open returns Locked and changes nothing.       *)
OpenLock(p) ==
    /\ exists /\ lock = None
    /\ Goto(p, "closed", "checking")
    /\ lock' = p
    /\ UNCHANGED <<disk, buf, base, purpose, batch, nextId, history>>

CheckHeader(p) ==
    /\ pc[p] = "checking"
    /\ \/ HeaderOk(file) /\ Goto(p, "checking", "healing") /\ UNCHANGED lock
       \/ ~HeaderOk(file) /\ Release(p)
    /\ UNCHANGED <<disk, buf, base, purpose, batch, nextId, history>>
-----------------------------------------------------------------------------
(* heal_tail.                                                                *)

CutTorn(p) ==
    /\ Torn(file)
    /\ Goto(p, "healing", "tornsync")
    /\ \E n \in LineEnds(file) : IsTornStart(file, n) /\ file' = Prefix(file, n)
    /\ UNCHANGED <<exists, stable, sidecars, lock, buf, base, purpose, batch,
                   nextId, history>>

NoTorn(p) ==
    /\ ~Torn(file)
    /\ Goto(p, "healing", "scanning")
    /\ UNCHANGED <<disk, lock, buf, base, purpose, batch, nextId, history>>

SyncTorn(p) ==
    /\ Goto(p, "tornsync", "scanning")
    /\ stable' = file
    /\ UNCHANGED <<exists, file, sidecars, lock, buf, base, purpose, batch,
                   nextId, history>>

LinesAfter(n) == Cardinality({m \in LineEnds(file) : m > n})

(* Nothing to quarantine, or more of it than the bound: left in place.       *)
NoRegion(p) ==
    /\ Goto(p, "scanning", "open")
    /\ \E n \in ValidEnds(file) :
          /\ IsRegionStart(file, n)
          /\ n = Len(file) \/ LinesAfter(n) > MaxQuarantineLines
    /\ UNCHANGED <<disk, lock, buf, base, purpose, batch, nextId, history>>

WriteSidecar(p) ==
    /\ Goto(p, "scanning", "sidecar")
    /\ nextId <= MaxId
    /\ \E n \in ValidEnds(file) :
          /\ IsRegionStart(file, n)
          /\ n < Len(file)
          /\ LinesAfter(n) <= MaxQuarantineLines
          /\ sidecars' = sidecars \cup {[id |-> nextId, cells |-> Suffix(file, n),
                                         synced |-> FALSE, cut |-> FALSE, audit |-> 0]}
          /\ base' = n
    /\ batch' = {nextId}
    /\ nextId' = nextId + 1
    /\ UNCHANGED <<exists, file, stable, lock, buf, purpose, history>>

(* Bug: the sidecar is not synced before the cut.                            *)
SidecarUnsynced(p) ==
    /\ Goto(p, "sidecar", "cutting")
    /\ UNCHANGED <<disk, lock, buf, base, purpose, batch, nextId, history>>

(* out.sync_data() and sync_dir(dir).                                        *)
SyncSidecar(p) ==
    /\ Goto(p, "sidecar", "cutting")
    /\ sidecars' = {IF s.id \in batch THEN [s EXCEPT !.synced = TRUE] ELSE s : s \in sidecars}
    /\ UNCHANGED <<exists, file, stable, lock, buf, base, purpose, batch,
                   nextId, history>>

CutRegion(p) ==
    /\ Goto(p, "cutting", "cutsync")
    /\ file' = Prefix(file, base)
    /\ sidecars' = {IF s.id \in batch THEN [s EXCEPT !.cut = TRUE] ELSE s : s \in sidecars}
    /\ UNCHANGED <<exists, stable, lock, buf, base, purpose, batch, nextId,
                   history>>

(* The cut is synced and the Repair event's append begins.                   *)
BeginRepair(p) ==
    /\ BeginWrite(p, "cutsync", "repair")
    /\ stable' = file
    /\ sidecars' = {IF s.id \in batch THEN [s EXCEPT !.audit = nextId] ELSE s : s \in sidecars}
    /\ UNCHANGED <<exists, file, lock, history>>
-----------------------------------------------------------------------------
(* What callers and the world do.                                            *)

AppendBatch(p) ==
    /\ BeginWrite(p, "open", "event")
    /\ UNCHANGED <<disk, lock, history>>

(* The handle is dropped: closed by its owner, given up by open on an i/o    *)
(* error, or gone with its process at any step.                              *)
Drop(p) == /\ pc[p] # "closed"
           /\ Release(p)
           /\ UNCHANGED <<disk, buf, base, purpose, batch, nextId, history>>

(* The kernel flushes the page cache on its own.                             *)
Writeback == /\ stable # file
             /\ stable' = file
             /\ UNCHANGED <<exists, file, sidecars, handle, nextId, history>>

(* What a power loss makes of the cells written or cut since the last sync:  *)
(* - with Reorder, each of them has its old content or its new one, and the  *)
(*   file its old length or up to its new one (a hole reads as NULs);        *)
(* - otherwise the writes reach the disk in order: whole lines, and holes    *)
(*   only in the last one.                                                   *)
Newer(i) == IF i <= Len(file) THEN file[i] ELSE stable[i]
Older(i) == IF i <= Len(stable) THEN stable[i] ELSE Zero
Mixed(n, kept) == [i \in 1..n |-> IF i \in kept THEN Newer(i) ELSE Older(i)]
WithHoles(n, holes) == [i \in 1..n |-> IF i \in holes THEN Zero ELSE file[i]]
LastLine(n) == {i \in (Len(stable) + 1)..n : \A j \in i..(n - 1) : ~Newline(file[j])}

PowerLoss ==
    /\ exists
    /\ \/ file' = stable
       \/ file' = file
       \/ /\ Reorder
          /\ \E n \in (0..Len(file)) \cup {Len(stable)} :
                /\ n >= Len(stable) \/ n >= Len(file)
                /\ \E kept \in SUBSET {i \in 1..n : Newer(i) # Older(i)} :
                      file' = Mixed(n, kept)
       \/ /\ ~Reorder
          /\ \A i \in 1..Len(stable) : i <= Len(file) /\ file[i] = stable[i]
          /\ \E n \in Len(stable)..Len(file) :
                \E holes \in SUBSET LastLine(n) : file' = WithHoles(n, holes)
    /\ stable' = file'
    /\ sidecars' = {s \in sidecars : s.synced}
    /\ lock' = None
    /\ pc' = [p \in Proc |-> "closed"]
    /\ UNCHANGED <<exists, buf, base, purpose, batch, nextId, history>>

Step(p) ==
    \/ CreateNew(p) \/ LockNew(p) \/ OpenLock(p) \/ CheckHeader(p)
    \/ CutTorn(p) \/ NoTorn(p) \/ SyncTorn(p)
    \/ NoRegion(p) \/ WriteSidecar(p) \/ SyncSidecar(p) \/ CutRegion(p)
    \/ BeginRepair(p)
    \/ AppendBatch(p) \/ WriteSome(p) \/ SyncOk(p) \/ WriteFails(p)
    \/ RollBack(p) \/ RollBackSynced(p) \/ RollBackFails(p)
    \/ Drop(p)

Next == Writeback \/ PowerLoss \/ \E p \in Proc : Step(p)

Spec == Init /\ [][Next]_vars
-----------------------------------------------------------------------------
(* Properties.                                                               *)

(* What an append acknowledged is on the disk and in the file, cell for      *)
(* cell, and ends with a complete valid line, whatever write, rollback, heal *)
(* or crash is under way ("committed lines are never touched", log.rs:4).    *)
CommittedIntact ==
    /\ committed <= Len(file) /\ committed <= Len(stable)
    /\ \A i \in 1..committed : file[i] = stable[i]
    /\ committed > 0 => committed \in ValidEnds(file)

(* No step, a power loss included, changes or shortens the acknowledged      *)
(* prefix (invariant #2, append-only).                                       *)
CommittedNeverRewritten ==
    [][/\ committed <= Len(file')
       /\ \A i \in 1..committed : file'[i] = file[i]]_vars

(* An event whose append returned an error and was rolled back never shows   *)
(* up in the log later, not after a crash either.                            *)
RefusedNeverResurfaces == refused \cap EventsIn(file) = {}

(* A complete line that was on the disk leaves the file only when its own    *)
(* failed append is rolled back, or into a sidecar that is already durable   *)
(* ("never loses them silently", log.rs:6).                                  *)
NoLineLostSilently ==
    [][\A n \in LineEnds(file) :
          \/ n <= Len(file') /\ Prefix(file', n) = Prefix(file, n)
          \/ ~(n <= Len(stable) /\ Prefix(stable, n) = Prefix(file, n))
          \/ \E p \in Proc : pc[p] = "rollback" /\ n > base
          \/ \E s \in sidecars :
                /\ s.synced
                /\ \E m \in 0..(n - 1) : s.cells = Suffix(file, m)]_vars

(* "moved to a quarantine sidecar and a session/repair audit event is        *)
(* appended" (log.rs:9-12): the log a handle appends to names every region   *)
(* that was cut out of it.                                                   *)
QuarantineAudited ==
    \A p \in Proc : pc[p] = "open" =>
        \A s \in sidecars : s.cut => s.audit \in EventsIn(file)

(* What every step preserves, and what CommittedIntact rests on: the lock is *)
(* held by the one process whose handle is past it; a half-created log is    *)
(* empty; a write starts behind a complete line at or behind the             *)
(* acknowledged prefix and will end with a complete line; a cut leaves the   *)
(* acknowledged prefix alone.                                                *)
Holding == PC \ {"closed", "created"}
Writing == {"writing", "syncing", "rollback", "rbsync"}
AtLine(n) == n = 0 \/ n \in LineEnds(file)

LockInv == \A p \in Proc : pc[p] \in Holding <=> lock = p
CreateInv ==
    /\ ~exists => file = <<>> /\ \A p \in Proc : pc[p] = "closed"
    /\ \A p \in Proc : pc[p] = "created" =>
          /\ file = <<>>
          /\ \A q \in Proc \ {p} : pc[q] \in {"closed", "checking"}
BaseAt(p) ==
    /\ pc[p] \in Writing => committed <= base /\ base <= Len(file) /\ AtLine(base)
    /\ pc[p] = "rbsync" => base = Len(file)
    /\ pc[p] \in {"sidecar", "cutting"} => committed <= base /\ base \in LineEnds(file)
TailAt(p) ==
    /\ pc[p] \in {"open", "tornsync", "scanning", "cutsync"} => AtLine(Len(file))
    /\ pc[p] = "writing" =>
          /\ buf # <<>>
          /\ ValidLine(file \o buf, Len(file) + Len(buf))
    /\ pc[p] = "syncing" => ValidLine(file, Len(file))
BaseInv == \A p \in Proc : BaseAt(p)
TailInv == \A p \in Proc : TailAt(p)

IInv == /\ TypeOK /\ LockInv /\ CreateInv /\ BaseInv /\ TailInv
        /\ CommittedIntact

(* What RefusedNeverResurfaces and NoLineLostSilently rest on: no cell of    *)
(* the file or of the disk carries the id of a refused event, or an id not   *)
(* yet handed out; what is being written carries ids of its own, behind      *)
(* base only; the sidecar of the region about to be cut holds all of it.     *)
IdsBelow(f) == \A i \in 1..Len(f) : f[i].ev < nextId
NoneRefused(f) == \A i \in 1..Len(f) : f[i].ev \notin refused

IdInv ==
    /\ nextId <= MaxId + 1
    /\ batch \subseteq 1..(nextId - 1)
    /\ refused \subseteq 1..(nextId - 1)
    /\ IdsBelow(file) /\ IdsBelow(stable)
    /\ NoneRefused(file) /\ NoneRefused(stable)
BatchAt(p) ==
    pc[p] \in Writing =>
        /\ \A i \in 1..Len(buf) : buf[i].ev \in batch
        /\ \A i \in 1..base : file[i].ev \notin batch
        /\ batch \cap refused = {}
SidecarAt(p) ==
    pc[p] \in {"sidecar", "cutting"} =>
        \E s \in sidecars : /\ s.id \in batch
                            /\ s.cells = Suffix(file, base)
                            /\ pc[p] = "cutting" => s.synced
BatchInv == \A p \in Proc : BatchAt(p)
SidecarInv == \A p \in Proc : SidecarAt(p)

LineInv == IInv /\ IdInv /\ BatchInv /\ SidecarInv

(* The log, while every line of it parses, is the durable log of DurableLog. *)
EventAt(f) == [n \in 1..Len(f) |-> IF ValidLine(f, n) THEN f[n].ev ELSE 0]

(* Those that end in the first n cells, or in all there are.                 *)
Visible(n) == Selection(EventAt(file), 1..MaxId)[IF n <= Len(file) THEN n ELSE Len(file)]

Durable == INSTANCE DurableLog WITH
              Event <- 1..MaxId,
              log <- Select(EventAt(file), 1..MaxId),
              acked <- Len(Visible(committed))
ImplementsDurableLog == Durable!Spec
=============================================================================
