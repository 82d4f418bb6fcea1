# A TLA+ verification project for rness

rness is a coding agent: a Rust engine that keeps each conversation (a
*session*) in an append-only log, drives a model and its tools in *turns*, and
composes everything from plugins.  This directory holds TLA+ modules of the
parts where order, concurrency and failure decide whether it is correct, the
TLC configurations that check them on small instances, and proofs of the facts
that matter most for every instance.

Paths below are relative to `src/crates/`; `engine/` stands for
`rness-engine/src/`, `kernel/` for `rness-kernel/src/`.

## 1. Inventory

| Component | State it keeps | Operations | What is hard |
|---|---|---|---|
| **Session log** (`engine/session/log.rs`) | one JSONL file per session, an advisory lock, a poisoned flag, quarantine sidecars | create, open (check the header, heal the tail), append, append_batch, drop | crash between any two system calls, torn and garbled lines, failing writes and failing rollbacks, two processes |
| **Session reader** (same file) | offset and parsed events, kept across reads | refresh | no lock: runs beside writers that roll back and heal |
| **Session store** (`engine/session/branch.rs`, `replay.rs`, `hints.rs`) | directory of logs, reader cache, delegation index | create, fork, history over a lineage, descendants | fork points in a log being written, freshness of the index by mtime |
| **Projection** (`engine/session/projection.rs`, `engine/turn/compaction.rs`) | none (derived) | model_context, compaction_plan, repair_tool_pairs, reduce, recover | what checkpoints and prunes shadow, dangling tool calls |
| **Inbox** (`engine/inbox.rs`) | phase, followups, steers | submit, drain_steers, pop/peek/push_followup | a critical section per step: everything interesting is between them |
| **Session service** (`engine/service.rs`) | per session: inbox, operation lock, cancel token, queued titles, pending job ids; per process: lifecycle lock, teardown markers | send, retry, notices, external delivery, titles, compact, cancel, teardown, maintenance, the burst task | all of these run at once and meet at four locks and one log |
| **Turn loop** (`engine/turn/mod.rs`) | turn and step counters | run_turn, drive | cancellation against a model that need not answer; failing appends |
| **Kernel** (`kernel/plugin.rs`, `services.rs`, `context.rs`, `effects.rs`) | plugin slots, service registry | mount, unmount, reload | fixpoint activation, reverse cascade, failing applies |
| **Tool dispatch and approvals** (`engine/tools/mod.rs`, `approval.rs`, `questions.rs`) | pending calls and approvals | dispatch_batch, settle_or_abandon | parallel tools, cancel against approval, results in model order |
| **Background jobs** (`rness-tools/src/jobs.rs`) | per process run a directory with a lock; per job a record, a tombstone, output, an entry of the registry | start, settle, deliver, evict, remove, take over what dead runs left | a completion is told exactly once although processes are killed, restart and run side by side |
| **Workflows** (`engine/workflow/*`) | tasks, joins, a queue of agents, slots, the rows of a card | drive, spawn, admit, settle, cancel, dispose | the loop waits on a channel its children feed; C calls that do not return; a host future that is dropped |
| **MCP connections** (`rness-mcp/src/lib.rs`, `rness-lua/src/api/mcp.rs`) | per server a slot with its connection and a token; per connection pending requests, registered tools, a reader, a watcher | connect, bridge, watch, request, disconnect, reconnect, supervise | six tasks that open, refresh and close the same thing; a server that stops at any step |
| **Subagents** (`engine/subagent.rs`) | children and their settlement | spawn, settle, cancel | teardown of a tree of sessions |
| Providers, authentication, Lua, ACP, HTTP server, CLI, TUI, protocol types | | | the environment of the above |

How they interact: front ends call the service; the service submits to the
inbox; an idle submission opens the log and spawns the burst, which owns the log
until the session is idle again and calls the turn loop; the turn loop appends
to the log, derives the model's context from the store and dispatches tools;
tools start jobs and subagents whose completions come back as notices through
the service.  `PROJECT.json` lists every component with what is modelled of it,
and the hazards, each at its line.

What makes each of them correct, in one sentence: the log never changes or loses
what it acknowledged; a reader hands out what the log holds; a fork points at a
committed event of its parent; the context derived is the log minus what was
folded; an accepted input reaches the log once and in order; a cancelled or torn
down session stops; a plugin runs exactly while what it injects exists; tool
results follow the order of the calls; a job completion is delivered once; a
workflow slot comes back; a disconnected server leaves no tool and no process.

## 2. Modules

| Module | Models | Checked by | Proved in |
|---|---|---|---|
| `DurableLog` | what a session log promises (abstract) | `ImplementsDurableLog` | `SessionLog_proofs` |
| `SessionLog` | the log file and its handles | `MCSessionLog` | `SessionLog_proofs` |
| `LogReader` (extends `SessionLog`) | incremental readers beside the writers | `MCSessionStore` | `SessionLog_proofs` |
| `SessionStore` (extends `LogReader`) | forks, lineage and history over the log and its readers | `MCSessionStore` | `SessionLog_proofs` |
| `SessionService` | one live session: inbox, locks, burst, titles, compact, teardown | `MCSessionService` | `SessionService_proofs` |
| `Compaction` | what the model is shown of a log, how a log is folded, recovery | `MCCompaction` | `Turn_proofs` |
| `CallSchedule` | what the tool dispatcher promises (abstract) | `KeepsSchedule` | `Turn_proofs` |
| `ToolDispatch` | one block of tool calls and its approvals | `MCToolDispatch` | `Turn_proofs` |
| `Jobs` | durable background jobs of several processes | `MCJobs` | `Jobs_proofs` |
| `Workflow` | a workflow run: its loop, children, host and card | `MCWorkflow` | `Workflow_proofs` |
| `Kernel` | plugins and services | `MCKernel` | `Kernel_proofs` |
| `McpConnection` | one MCP server, its connections and the tasks around it | `MCMcpConnection` | `McpConnection_proofs` |
| `SeqSelect` | no part of the program: what a log holds of one kind, for the modules on logs | | `SeqSelect_proofs` |

Operators under a comment that begins with *Bug* are mutated forms of the
operator that follows: they belong to no specification, and each shows that a
property is lost when the code is changed that way.

### SessionLog

The file is a sequence of *cells*; an event is one or more cells, the last of
which carries its newline.  That is the least in which a write can stop inside a
line, a power loss can keep a newline without its payload, and a line can be
glued to a torn one.  A garbled line (a NUL run, a mix of old and new bytes) is
a line some cell of which is not the event's; `ValidLine` is `classify_line`.
`file` is what processes read (the page cache), `stable` what a power loss is
sure to leave.  `pc[p]` is the step a process's handle is at, one per system
call of `write_durable_with`, `create`, `open` and `heal_tail`: `RollBack` is
`set_len(before)`, `RollBackSynced` the sync after it, and so on.  `Drop` covers
both a closed handle and a killed process, at every step; `PowerLoss` covers all
processes, and keeps of the unsynced cells any mixture (`Reorder`), or a prefix
with holes in its last line.  A handle never writes without the advisory lock,
so `buf`, `base`, `purpose` and `batch` are those of the lock holder.

Abstracted: the bytes and ids of events (an id is a counter), blank lines, lines
that look like events but do not parse (never repaired, so never changed), the
byte bounds (the line bound is `MaxQuarantineLines`), the 8 MiB chunks (a write
stops anywhere), failures of calls other than the write, its sync and the
rollback (they return an error before they change anything, and are `Drop`).
The directory entries of a new log are assumed durable, which the code does not
ensure (see the hazards).

### LogReader

`Read` is `refresh`: start over if the file is shorter than the offset, parse
complete lines from the offset, stop at the first that does not parse.  Reading
is one step, since a line appended meanwhile is read by this or the next one.

### SessionStore

The root is the log of `SessionLog`, with all its crashes; forks are made of it
and of forks, at any event a reader of the store shows or at the tip.  An event
is a session and a position.  `Inherited` is `history`: the prefixes of the
ancestors up to the first event that is the fork point (`UpTo`), each without its
header; `Hops` is `ancestry`, and both are what `Along` collects on the way from
the root; `Owner` is the search for the log that owns an event.  A fork is two steps, the
read of the parent and the write of the child's header, with the writers going
on in between.  `seen` is history: the transcript the fork was made from.  Left
out: the delegation index (its freshness is a matter of clock time), search,
usage sums, `hints`, the pages of `history_after`.

### Compaction

The log is a sequence of events and an event is named by its position.
`Shadow`, `Live` and `Shadowed` are `shadowed_by_checkpoints`; `Raw`,
`Repair` and `Context` are `model_context` before and after
`repair_tool_pairs`.  The actions are the steps of a turn that write (the
prompt, an answer with its calls, each result), prunes, the three reductions
(in a turn, of a region, `/compact`), each of which begins, is answered and
commits its checkpoint, a crash anywhere, and `recover`.  How many tokens
something has, and so where a cut falls, is any choice the code could make.
`NothingForgottenInPlace` assumes of a reduction that the messages and earlier
summaries it folds are ones it read, which counting does not ensure (section 6,
2), and of `/compact` nothing.
Left out: text, images, the retry of an interrupted turn (it adds a turn and no
message), and blocks that are injected more than once a turn.

### ToolDispatch and CallSchedule

A call is its position in the block.  `Cut` is the split into batches; a call
then goes through the stages of `execute_call` in the order of the code, each
an action, and `Collect` takes the results of the batch in order.  Hooks, the
user who is asked and the tools answer anything, or never.  `CallSchedule` is
the module comment of `tools/mod.rs`: calls that are marked safe may overlap
with their neighbours, every other one is a barrier, and results come in the
order of the calls.  `KeepsSchedule` is the refinement, by the mapping of
stages to *waiting*, *running* and *over*.

### Jobs

A process run has a number, which is also the name of its directory; `made`,
`lockFile` and `held` tell apart the inodes that a lock file may have had.
`file` is what processes see of a job's record, tombstone and output, `disk`
what a power failure is sure to leave.  Startup is taken apart into listing,
making the directory, making and taking its lock, and then, per stale directory,
opening its lock, taking it, loading each job, and removing what is empty.
`removing` takes the removal of a job apart into its unlinks.  The session is
`SessionService` as the poller sees it: one writer at a time, parked notices,
an append that is written, then synced.  Time (the age at which a job may be
removed) is a free choice.

### Workflow

The Lua script is arbitrary: a task that is resumed asks for an agent, for
`parallel` or `pipeline` of some items, for a phase, returns or raises.  The
loop is `drive`: `at` says whether it is at its top, admitting, in `recv`, in a
C call, disposing or returned.  Children run beside it and report through
`channel`; the guard that reports for a child that is dropped or panics is part
of `ChildEnds`.  The host future may be cancelled or dropped at any step, and
the rows of the card follow the events of the run in `Show`.

### McpConnection

`pc` has a program counter for each task that works on connections: the VM (one
call at a time), the background handshake, the supervisor, and a watcher for
each connection.  They share `Connect`, the three steps of `bridge_tools` (list,
look for conflicts, install) and the two of `disconnect`: `closed` is set
first, and what was made goes once the sync lock is free.  `op` says what
happens next.  Requests, of those tasks and of tool calls, are the steps of
`request_with_id`: the look at `closed`, the entry in the map, the write, the
wait.  `permit` is the permit of the `Notify`, `holder` the lock of the slot.
The registry is one function from names to owners, in which another plugin
takes and frees a contested name.  Assumed: only a connection replaces its own
tools; the VM makes one call at a time.  Left out: the HTTP transport, pages,
duplicates and names of a catalog, deferred tools, what a result says, the
cancel notification (sent with no answer awaited).

### SessionService

Messages are identities; the entry point each goes through (`kind`) decides its
intent and what is looked at before it is submitted.  A critical section of the
inbox lock is one step, except `SetTitle`/`WriteTitle`, where the lock is held
while the log is open (`inboxHeld`).  `operation` is the per-session operation
lock, `writer` who has the log open, `closing` the teardown markers as this
session sees them, `maintenance` the lifecycle lock held for writing.

| Code | Actions |
|---|---|
| `send_admitted` up to the inbox, `deliver_external_once`, `notice_once` | `Admit`, `Busy`, `CheckTeardown` |
| `notify_subagent_settled_as` | `SettleMayPass`, `SubmitIntent`, `CancelForSettle` |
| `Inbox::submit_sourced` and what `send_admitted` does with its answer | `SubmitQueued`; `SubmitLogOnly`, `OpenLogOnly`, `AppendLogOnly`; `SubmitStart`, `SubmitRetry`, `Spawn` |
| `burst` and `run_turn`/`drive` | the `Burst...` actions, in the order of the code |
| `commit_title`, `drain_titles` | `SetTitle`, `WriteTitle`, `DrainedTo` |
| `compact` | `CompactRead`, `CompactOpen`, `CompactCommit`, `CompactClose` |
| `cancel`, `close_tree`, `try_extension_maintenance` | `Cancel`, `CloseRoot`, `CloseAncestor`, `CancelDescendant`, `Maintain` |
| the process is killed | `Crash` |

A model request, its retries, tools and hooks are the step `"model"`: it may
last for ever, be followed by another step, complete, fail or be cancelled.  Not
modelled: slash commands, configuration, admission of images, instructions and
hook audit events in the log, prune and region compaction (they take the locks
of `compact`), reads that fail, a log locked by another process, several
sessions (a delegation tree appears as the teardown of an ancestor).

### Kernel

An operation of the kernel runs alone (`&mut self`) but calls into plugins at
each activation and disposal; those calls are the steps.  `settle` is a sequence
of passes over the mounted plugins, `deactivate` a stack of plugins whose
consumers unwind first.  The order of registration is abstracted to any order,
and the order of a plugin's services with it.  A plugin whose service has a
provider already is taken to return the error of `provide`, as the one in
this repository does.  `since`, `clock`, `before` and
`hiccup` are history.

## 3. Runs

| Run | Question | Bounds | States |
|---|---|---|---|
| `session_log` | is the log durable, and does it implement `DurableLog`? | 2 processes, lines of 1-2 cells, batches of 2, 4 ids | 147 k |
| `store` | do readers and forks show what they should, while the log is written, torn and lost? | 1 writer, 1 reader, 2 forks (of each other too), two-cell lines, 4 ids, power losses that keep the order of writes | 1.1 M |
| `service` | is input accepted once and in order, are torn down sessions left alone, who owns the log? | 3 messages in 16 mixes of entry points, compact; 2 titles beside 2 of the messages | 2.9 M |
| `service_faults` | failing appends and a crash; liveness | 2 messages in 9 mixes, 1 crash, compact | 0.65 M |
| `compaction` | is what the model sees well formed, complete and told once? | every log of 8 events, 2 reductions, answers with 0, 1 or 2 calls | 0.19 M |
| `tools` | do barriers, order and cap hold, does a cancelled block end? | 5 calls (unknown, three safe, exclusive), 2 permits, 2 changes of policy | 77 k |
| `jobs` | has a completion one deliverer, is it told, is its record kept? | 3 process runs, 2 at a time, 1 job of either of two kinds, 1 turn, 1 fault | 0.37 M |
| `workflow` | can the loop wait for nothing, does a run leave anybody behind? | 2 item tasks, 3 agents, 2 at a time, stuck C calls, dropped hosts | 1.2 M |
| `kernel` | is activation grounded, exact, reversible, finite? | 5 plugins, 3 services: a chain, a rival, a cycle, a plugin that may fail; no operation starts after 5 activations | 0.3 M |
| `mcp` | does a disconnect leave nothing, is no request or change forgotten? | 1 managed server, 2 connections, 2 tools one of which is contested, 1 reconnect, 1 change of the list, 1 fault, 1 tool call | 2.5 M |
| `store_fork`, `compaction_region` | does the code do what its comments say here? No: one counterexample each (section 6) | the smallest that shows it | |

Why these bounds show the interesting cases.  *Log*: four ids are a header, an
acknowledged event, a sidecar or a batch and a repair event; two-cell lines are
the smallest that tear; two processes are what a lock needs.  *Store*: two forks
are a chain or siblings; the run has neither `Reorder` nor failing writes: with
the first a heal leaves invalid lines where a reader stops with `Corrupt`, with
the second a file is cut below an offset, which is a known disagreement (section
6).  *Service*: three messages are one that runs, one that is parked or queued,
and one that meets both; each mix fixes the entry points, and every kind meets a
parked followup and a parked steer.  Titles and a third message at once give
nothing but size: `TitlesApart` stops such behaviours.  *Compaction*: eight
events are two turns, one of which is cut off between its calls, and two
reductions on top of each other.  *Jobs*: two runs at once are an owner and one
that starts; a third starts over what both left.  *Workflow*: three agents on
two slots queue; two items of one call finish in either order.  *Kernel*: the
chain is three deep, so that a cascade recurses; the cycle and the rival are
what a fixpoint could trip over.  *MCP*: a second connection is a reconnect; the
fault is a server that stops, a broken write, a timeout or a refusal, each at
every step.  `MaxId`, `MaxClock`, `Crashes`, `MaxFaults`, `MaxTurns`, `MaxLog`,
`MaxFolds`, `MaxPolicies`, `MaxTasks`, `MaxManaged`, `MaxConns` and
`MaxChanges` are bounds of the instances; the other limits are the program's.

Deadlock is checked in the runs of the log, the store, the service and MCP.  In
`kernel`, `jobs`, `compaction`, `tools` and `workflow` the system really stops:
a bound is reached, or the block or the run is over.

### Fairness

`SessionService!Fairness` has weak fairness for the burst task, for each
sender from the moment it has been admitted, for a title being written and for
compact once it has read: threads and tasks the runtime schedules.  It has none
for the model (`Model`), for users, cancel, teardown, maintenance or crashes.
`CancelStops` therefore says that a cancelled session gets to idle even if the
model never answers; `SettleGetsThrough` that a settle notice which waits for a
burst is let through, the inbox and the log permitting.
`Workflow` is fair to the loop, the watcher of the token and the host future,
which have threads or a runtime of their own, and neither to C calls of the
script nor to children: `CancelReturns` says that a cancelled run returns
whatever they do.  `ToolDispatch` is fair to the dispatcher, to gates that are
decided without anybody (and the guard, which has a timeout), and to what
abandons a cancelled call; to no hook, user or tool.  `Jobs` is fair to the
poller, which ticks every second, and to turns, which is the session's promise:
`EventuallyTold` is about the delivery, not about the model.  `McpConnection` has
no fairness: what should happen there in the end is stated as an invariant, that
nobody sleeps while there is something left to do.  In `Kernel` an
operation that has begun runs on (`WF_vars(Work)`): it is a function that is
executing.

## 4. What is proved

TLAPS checks the proofs in the eight `_proofs` modules for all values of the
constants that satisfy the named assumptions, which are types, bounds that are
natural numbers, limits that are not zero, and that markers are told apart:
`ConstantsAssumption` (`SessionLog`), `ServiceAssumption`, `KernelAssumption`,
`CallCount` to `Limits` (`ToolDispatch`), `McpBounds` and `McpTools`,
`LimitsPositive` and `SwitchesBoolean` (`Workflow`), `Bounds`, `InstNumbers` and
`KindsKnown` (`Jobs`).  Every inductive invariant is written at the end of the
module it is about, as a conjunction of named parts (a proof may split a part
further), and TLC agrees with each on the instance of that module's run (with
`LineageInv`, when depths are bounded by the number of forks).

In each module the parts come first, then one lemma per action, or per action
and part, then the theorems.  Where actions share most of their steps (the
bursts of the service, the tasks of MCP) a lemma says what such a step may
change, and most actions are instances of it.

### `SessionLog_proofs`: the log

`Invariance`: `IInv` is inductive.  `CommittedIntact` is not inductive on its
own: that a rollback spares the acknowledged prefix needs where `base` was read
and that nobody else wrote since (`LockInv`, `BaseInv`); that a new event is a
line of its own needs that every handle which may write stands behind a newline
(`TailInv`); that `create` may write into an empty file needs that nobody got
past the header check meanwhile (`CreateInv`).  The lemmas on lines
(`ValidLine` and prefixes, a heal cuts behind a valid line) come before the
lemmas on actions.  From it: `AcknowledgedIntact`, `TypeCorrect`, and
`AppendOnly`, the action property.

`LinesKept`: `LineInv` adds where ids are.  No cell on the disk or in the
file, and so none of what a power loss keeps of the two, carries the id of a
refused event (`IdInv`); what a handle is writing has ids that are behind `base`
only and were not refused (`BatchInv`); a region is cut only when all of it is in
a sidecar that was synced (`SidecarInv`).  From it: `RefusedStaysAway`; `NothingLostSilently`, the
action property, for which each step that shortens the file is told apart by
what it cuts; and `Refinement`, that the log implements `DurableLog`: the initial
states map to initial states, and each step changes what a reader sees only
behind what was acknowledged, because the events below the first `n` cells are a
prefix of the events below all of them.

### `SessionLog_proofs`: the readers

`ReadersBehindLines`: `ReaderInv` is inductive where no write fails.  A reader
stands behind a complete line that parses (`BehindLine`) and has what the file
holds up to there; no such line is behind the cut of a region (`RegionInv`),
which is the case because a region begins at the first line that does not parse,
and the reader's boundary and the healer's are the same.  `CachesMatch` and
`ReadsComplete` follow.  That no write fails (`~WriteErrors`) is an hypothesis
and not an omission: with failing writes the code breaks both properties (section
6), and the lemma that fails is the one about `RollBack`.

### `SessionLog_proofs`: the forks

`StoreInvariance`: `StoreInv` is inductive where no write fails and power losses
keep the order of writes.  No two lines that parse have the same id (`UniqueInv`),
and such a line on the disk is in the file, with all that is before it
(`StableInv`), so that an event never moves.  A fork is made of what was there
before it: sessions have ranks that go down from a fork to its parent
(`LineageInv`).  A fork point is an event the log it names has, or will not have
again (`Final`), because its id is spent; and what is inherited up to it, where
every fork point of the lineage is shown, is what the fork was made from
(`ForkInv`).

The argument is about two functions that are defined by recursion over a lineage,
`Hops` and `Inherited`: that they exist and have the steps one expects (`Along`)
is proved by the least element of the ranks.  Then: the events before a final
one do not change (`Follows`), so a fork point that is shown after a step was
shown before it, with the same events up to it; so what is kept stays kept; and a
new fork, of what a reader shows, is kept because its reader has what the file
holds up to its offset (`ReaderInv`).  `ForksKeepPrefix` follows: an acknowledged
event is in the file, and an event names the session that owns it, whose part of
the lineage is one hop.

Both hypotheses are needed: with failing writes a fork point may be rolled back
(section 6); and where a power loss may keep a later line and garble an earlier
one, a line that was not acknowledged yet can be spoiled after a fork has shown
it.  The fork point behind it parses, so a heal, which looks at the end of the
file, leaves both, and the next append acknowledges what is before it: the
fork then shows less than what it was made from.  TLC finds this with
`Reorder = TRUE`, one fork, one-cell lines and five ids.

### `SessionService_proofs`

`OwnershipInvariance`: whoever has the log, the inbox lock or the operation lock
is at the step of its code where it should be.  `StartNeverContends` follows:
the burst is gone when the phase is idle, a title would hold the inbox, compact
and other senders the operation lock.  So the submission that starts a turn is
never refused because of another one.

`Invariance` is the conjunction of the invariants below, each a theorem of its
own, because each needs only some of those before it.

* `BaseInvariance`: types, owners, what the burst has in its hands (`HandInv`),
  what a sender that starts a burst has put in place (`StarterInv`), and that
  maintenance excludes both (`QuietInv`).  `MaintenanceIsQuiet` and
  `SettleSleeps` follow.
* `SnapshotInvariance`: from compact's read to its checkpoint the conversation
  is what was read.  `CheckpointFresh` is the action property.
* `TurnInvariance`: the last marker in the log agrees with where the burst is
  (`TurnInv`); `TurnsAlternate` is what it says of the log alone.
* `OnceInvariance`: an input has as many copies in the log, the two queues and
  the hands as its state allows, counted with `Count` (`OnceInv`).
  `AcceptedOnce` follows.
* `TitleInvariance`: announced titles are in the log, queued or being written, in
  one order, and an offered one never behind a user's.  `TitlesOrdered`.
* `QueueInvariance`: for two accepted followups, where each of them is and in
  which order (`QueueInv`), which rests on which intent an entry point can have
  by now (`IntentInv`).  `FollowupsOrdered`.

### `Kernel_proofs`

`KernelInvariance`: the inductive invariant orders active plugins by when they
were last activated (`AliveGrounded`): a plugin runs longer than those that
inject from it, so there is no cycle among the active ones although dependencies
may be cyclic, and the stack of a cascade is ordered likewise.  `AlwaysGrounded`,
`RegistryExact` and `ConsumersUnwindFirst` follow.

`ReloadComplete`, `ReloadRestores` for any dependencies.  During a reload
nothing comes up that did not run before it, so nobody finds a rival in its
place; each plugin that ran waits only for such as ran longer, or run again
(`Sustained`).  Of those still missing at the end, take the one that was
activated first: all it injects is there, so it is due, and `settle` would not
have ended (`ReloadInv`).

### `Turn_proofs`: tool calls

`ConcurrencyCapped` and `ScheduleKept`, for any number of calls, permits and
policies.  That the dispatcher implements `CallSchedule` needs where a batch
ends and what is behind it (`BatchInv`): a call of a batch may run because all of
the batch is safe and everything before it is done; the cap needs that whoever is
at a gate or in its body has a permit (`PermitInv`).  One lemma per action shows
that it preserves both, and one that it maps to a step of `CallSchedule` or to
none.

### `Turn_proofs`: folds

What `Compaction` says is computed by recursion over a log.  For each recursive
function (`Shadow`, `Raw`, `FlattenSeq`, `Counted`, `Told`) a lemma shows that it has a solution
and another what its steps are, both by the principle of the least element
(`SeqSelect_proofs`); the rest is about sets and sequences.

`PairsKept` holds of `Repaired` for any sequence of turns: after each position, what
has been kept ends in a call exactly when the results that follow will be kept
too (`PairsTo`).

`OneEnd` needs that a reduction has at most one end, that its checkpoint is in the
log before the next reduction begins, and that an open one is the last
(`SpansInv`); so `recover`, which takes a checkpoint before the next reduction for
that of the open one, is never wrong in the direction that matters: an end
always knows of its checkpoint.

`FoldsOnce` rests on `FoldedInv`: a fold is of something, of what precedes it, and of
what no live checkpoint has folded; where a prune is folded, so is its result
for the first time.  It is inductive because what is folded are sources, found
by counting (`FoldedSources`) or by position, every source may be folded
(`FromUnfolded`), and each is cited once (`SourcesAre`).  Counting stays inside the
sources even where it is shifted by a repaired turn (section 6, 2), since a turn
that survives cites at least as many sources as it is counted for
(`RepairedBound`): the wrong message may be folded, but never twice.

`NoneForgotten` is about logs in which the reductions of turns and regions folded
messages and summaries they had read; that counting does not ensure this is a finding
(section 6, 2), and the theorem says that it is the only way to lose one.  It
needs that a summary is made from what precedes it, and that of `/compact` from all
it folds (`ReadInv`).  The latter is `CompactReads`: what `/compact` folds are
sources of the whole log, what it reads is shown of the log before the cut, and no
message or summary is in the first and not in the second, since what is folded before
the cut stays folded and a checkpoint that is live is so in each prefix that has it.
`Shown` says that a message which is not folded, and the summary of a live checkpoint,
is in a turn that no later event and no repair takes away; `ShadowTold`, by
induction over the log, that what a checkpoint stands for was read by its summary
or by one that it read.

### `McpConnection_proofs`

`Invariance`: each task is at a step of the operation it is in (`PlaceInv`); a
connection that was made is gone, in its slot, or in the hands of the one actor
that works on it (`LiveInv`, `HoldInv`); `closed` is set before anything goes, and
the sync lock is held while tools are looked at (`ConnInv`, `CloseInv`); a server
whose disconnect has returned has its token cancelled and its slot empty, and
whoever may still fill a slot holds the lock that the disconnect needed
(`TokenInv`), but for the VM's first connect, which nobody else has heard of.
The three properties are conjuncts of the invariant: `NothingStays` rests on
these, `EverybodyTold` on how requests and the end of a reader meet at the map,
`NoWakeupLost` on what a refresh has seen (`WatchInv`).

### `Workflow_proofs`

`Invariance`: each live task is at one place, in the ready list, waiting for one
agent or for one join (`TaskInv`); a join has as many live items as remain, all
younger than its waiter and numbered in order (`JoinInv`, `OrderInv`); the queue
has the youngest agents, in order (`AgentInv`); an agent in flight has a child
that runs or exactly one message (`ReportInv`).  `LoopAdvances` takes the youngest
live task: it cannot wait for a join, whose items would be younger, so it is
ready or waits for an agent, and a queued agent has free slots ahead of it or
others in flight.  `CompletesClean` takes the oldest: when the root has its value,
whoever is left would be an item of a join that waits for it.  `CapKept`
follows from the invariant.

### `Jobs_proofs`

`Invariance`: one process run at most holds a generation of a lock file
(`LockInv`); what a starting run has listed, loaded and has still to do
(`ScanInv`); a job is known only to who may deliver it (`HomeInv`, `KnownInv`); and
an argument by counting for the step that unlinks a directory at startup: each
record that is in it is still among what is to be loaded, or known and owed
(`DebtInv`, `LeftInv`).  A removal is behind the delivery (`RemovingInv`), a
delivery behind the append (`ToldInv`).  `OneDeliverer`, `DeliveredWasTold` and
`OwedNotLost`, the action property, follow.

### `SeqSelect_proofs`

What the proofs on logs need of `Select` and `Count`: they are functions on all
sequences, how they grow with an element or a sequence appended, that a prefix
selects a prefix, and that what is there is found.  `Select` is a recursive function; that it exists and what
its steps are is proved by the principle of the least element, because the
library's theorems on induction cannot be applied (section 5).  The modules use
it in place of `SelectSeq`, which takes its test as an operator.

## 5. What is only model-checked

* Liveness (`CancelStops`, `SettleGetsThrough`, `OperationsEnd`,
  `CancelSettles`, `CancelReturns`, `EventuallyTold`): fairness and ENABLED are out
  of the prover's reach.

Every other property of a passing run is stated by a theorem.

The properties of `Jobs` are stated for jobs whose directory still has the lock
its owner made (`LockIntact`), and for notices whose line was synced before it
was taken as proof (`peeked`): the code does not ensure either (section 6).

## 6. Where code and comments disagree

Two have a run that ends in a counterexample and an entry in `PROJECT.json`:

1. `store_fork`: a session without events is forked at its tip, which is its
   header; the fork then shows whatever the session logs later
   (`branch.rs:443`, `594`, `608`).
2. `compaction_region`: after a crash left a call without a result, a region
   folds the sources before those it summarised, and a message that no summary
   read is gone (`turn/compaction.rs:208`, `592`).

The others are stated next to the modules.  Each is violated by TLC when it is
checked as an invariant with the constants named, everything else as in the
`.cfg` of that module's run:

| Property | Module, constants | What the code does |
|---|---|---|
| `QuarantineAudited` | `SessionLog`, as in the run | the audit event of a quarantine (`log.rs:9-12`) is lost by a crash between the cut and the append |
| `CacheMatchesFile`, `ReadsSeeCommitted` | `LogReader`, `WriteErrors = TRUE` | a reader keeps an event whose append was rolled back (`log.rs:903`) |
| `ForkPointsCommitted` | `SessionStore`, `WriteErrors = TRUE` | a fork point may be an event that is rolled back afterwards (`docs/invariants.md`, 4) |
| `FollowupNeverStranded` | `SessionService`, `Mixes <- Stranded` | a followup queued while leftovers are appended stays parked in an idle session (`service.rs:3032`) |
| `JobNeverWakesTornDown` | `SessionService`, `Mixes <- Job`, `Msg = {m1}`, without `TitlesApart` | a job notice wakes a session whose teardown began after the notice looked (`service.rs:1669`) |
| `NoticeLoggedOnce` | `SessionService`, `Mixes <- NoticeMix`, `Msg = {m1, m2}` | a job notice parked by a cancelled burst is logged twice (`service.rs:1814`) |
| `ExternalTrueMeansDurable` | `SessionService`, `Mixes <- External` | an external prompt is acknowledged while it is only in memory (`service.rs:1758`) |
| `DirectoryKept` | `Jobs`, as in the run | a run that starts unlinks the lock of another one that has made it and not yet taken it (`jobs.rs:871`, `940`) |
| `ContextsInOrder` | `ToolDispatch`, `Speaking = {2, 3}` | contexts of post hooks come in the order in which calls finish (`tools/mod.rs:729`, `1127`) |

Three more were met on the way and have no property.  `notice_once` takes a line
that is written and not synced as proof of delivery (`service.rs:1837`).
`/compact` appends its checkpoint without `recover`, so that a later recovery may
report a span as committed because of it.  `service.compact` folds the context of
the history up to its cut, where its comment says "projected exactly as the model
saw it" (`service.rs:2349`): a checkpoint behind the cut is not looked at.

## 7. Plan

What is left, in order:

1. **Subagents**: settlement and teardown of a tree of sessions, composed with
   `SessionService`.
2. **Credential store**: the refresh of a token under a lock between processes.
3. **Terminals**: reaping of processes that outlive their tool call.

Not modelled, and why: the kernel's event bus (synchronous dispatch, no state of
its own); providers, ACP, the HTTP server, the CLI and the TUI (translations
between protocols and calls of the components above, or drawing); built-in tools
and sandboxes (operating-system I/O); Lua bindings (an API surface; a reload
takes the maintenance lock, which is in `SessionService`); plans, tasks,
instructions, images and search (helpers over the log or a file, one thread at a
time); protocol types (data).  Together they are most of the lines of the
repository, and hold little of its concurrency.
