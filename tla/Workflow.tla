------------------------------ MODULE Workflow ------------------------------
(* A workflow run (crates/rness-engine/src/workflow): a Lua script whose     *)
(* coroutines are driven by one event loop (scheduler.rs), the children its  *)
(* agent() calls start (children.rs), the host future that waits for the run *)
(* (mod.rs) and the card that shows it (activity.rs).                        *)
(*                                                                           *)
(* The script is arbitrary: whenever a task is resumed it asks for an agent, *)
(* for a parallel or pipeline of some items, for a phase or log line, it     *)
(* returns or it raises.  A task's value is its id, an agent's its number.   *)
EXTENDS Integers, Sequences, FiniteSets

CONSTANTS
    MaxTasks,       \* bound: item tasks a run starts
    MaxAgents,      \* max_total_agents
    MaxConcurrent,  \* max_concurrent_agents
    MaxItems,       \* max_items_per_call
    Stuck,          \* whether a slice may stay inside one C call
    Drops           \* whether the tool body may be dropped

ASSUME LimitsPositive ==
    /\ MaxTasks \in Nat /\ MaxAgents \in Nat /\ MaxItems \in Nat
    /\ MaxConcurrent \in Nat \ {0}
ASSUME SwitchesBoolean == Stuck \in BOOLEAN /\ Drops \in BOOLEAN

Root == 0
Nil == 0
Task == 0..MaxTasks
Agent == 1..MaxAgents
Outcome == {"completed", "unstructured", "failed", "cancelled", "fatal"}
End == {"none", "value", "error", "stalled", "cancelled"}

VARIABLES
    at,         \* the loop: at its top, in recv, in a C call, disposing, returned
    end,        \* what drive returned
    tasks,      \* live task -> the join and index it answers to
    nextTask,
    joins,      \* open join -> the task that waits, how many remain, results
    nextJoin,
    ready,      \* <<task, kind, values>> in FIFO order
    waiting,    \* agent -> the task that waits for it
    queue,      \* agents not admitted yet, FIFO
    inFlight,
    started,    \* agent() calls accepted
    channel,    \* messages to the loop
    child,      \* agent -> where its child is
    cancelled,  \* the run's token
    watched,    \* the watcher has told the loop
    disposed,   \* the token the children hold
    host,       \* what run() returned, or how its future ended
    member,     \* agent -> its row of the card
    frozen      \* the card has ended

script == <<tasks, nextTask, joins, nextJoin, ready>>
agents == <<waiting, queue, inFlight, started>>
card == <<member, frozen>>
tokens == <<cancelled, watched, disposed>>
vars == <<at, end, script, agents, channel, child, tokens, host, card>>

Init ==
    /\ at = "top" /\ end = "none"
    /\ tasks = [t \in {Root} |-> [join |-> -1, index |-> 0]]
    /\ nextTask = Root + 1
    /\ joins = [j \in {} |-> 0] /\ nextJoin = 0
    /\ ready = <<[task |-> Root, kind |-> "go", values |-> <<>>]>>
    /\ waiting = [a \in {} |-> Root]
    /\ queue = <<>> /\ inFlight = 0 /\ started = 0
    /\ channel = <<>>
    /\ child = [a \in Agent |-> "none"]
    /\ cancelled = FALSE /\ watched = FALSE /\ disposed = FALSE
    /\ host = "running"
    /\ member = [a \in Agent |-> "none"] /\ frozen = FALSE

Without(f, x) == [y \in DOMAIN f \ {x} |-> f[y]]
With(f, x, v) == [y \in DOMAIN f \cup {x} |-> IF y = x THEN v ELSE f[y]]
Resume(t, kind, values) == [task |-> t, kind |-> kind, values |-> values]

(* WorkflowActivity::apply: the observer folds an event into the card.       *)
Show(a, status) == member' = [member EXCEPT ![a] = status]
Finish(e) == at' = "dispose" /\ end' = e
-----------------------------------------------------------------------------
(* Script steps.                                                             *)

(* A slice runs from the top of the loop, where cancellation was looked at,  *)
(* or comes back from a C call however long that took.                       *)
Slice == \/ at = "top" /\ ~cancelled
         \/ at = "call"
Current == Head(ready).task

(* No hook fires inside a C call.                                            *)
EnterCall ==
    /\ Stuck
    /\ at = "top" /\ ~cancelled /\ ready # <<>>
    /\ at' = "call"
    /\ UNCHANGED <<end, script, agents, channel, child, tokens, host, card>>

(* phase and log: the task goes on before any other.                         *)
Note ==
    /\ Slice /\ ready # <<>>
    /\ ready' = <<Resume(Current, "go", <<>>)>> \o Tail(ready)
    /\ at' = "top"
    /\ UNCHANGED <<end, tasks, nextTask, joins, nextJoin, agents, channel, child,
                   tokens, host, card>>

AgentCall ==
    /\ Slice /\ ready # <<>>
    /\ started < MaxAgents
    /\ LET seq == started + 1
       IN  /\ started' = seq
           /\ waiting' = With(waiting, seq, Current)
           /\ queue' = Append(queue, seq)
           /\ Show(seq, "queued")
    /\ ready' = Tail(ready)
    /\ at' = "top"
    /\ UNCHANGED <<end, tasks, nextTask, joins, nextJoin, inFlight, channel, child,
                   tokens, host, frozen>>

(* One task per item, in item order, and the join they answer to.            *)
SpawnItems(n) ==
    LET first == nextTask
        new == first..(first + n - 1)
    IN  /\ joins' = With(joins, nextJoin, [waiter |-> Current, remaining |-> n,
                                           results |-> [i \in 1..n |-> Nil]])
        /\ nextJoin' = nextJoin + 1
        /\ tasks' = [t \in DOMAIN tasks \cup new |->
                        IF t \in new THEN [join |-> nextJoin, index |-> t - first + 1]
                                     ELSE tasks[t]]
        /\ nextTask' = first + n
        /\ ready' = Tail(ready) \o [i \in 1..n |-> Resume(first + i - 1, "go", <<>>)]

(* spawn: no items resume the caller with an empty array.                    *)
Spawn(n) ==
    IF n = 0
    THEN /\ ready' = Append(Tail(ready), Resume(Current, "array", <<>>))
         /\ UNCHANGED <<tasks, nextTask, joins, nextJoin>>
    ELSE SpawnItems(n)

(* parallel and pipeline.                                                    *)
Items ==
    /\ Slice /\ ready # <<>>
    /\ \E n \in 0..MaxItems :
          /\ nextTask + n <= MaxTasks + 1
          /\ Spawn(n)
    /\ at' = "top"
    /\ UNCHANGED <<end, agents, channel, child, tokens, host, card>>

(* Too many agents or items, bad arguments or options: fatal, and no pcall   *)
(* of the script sees it.                                                    *)
Violation ==
    /\ Slice /\ ready # <<>>
    /\ ready' = Tail(ready)
    /\ Finish("error")
    /\ UNCHANGED <<tasks, nextTask, joins, nextJoin, agents, channel, child,
                   tokens, host, card>>

(* The hook found the budget or the memory used up, or the run cancelled,    *)
(* and left the sticky flag no pcall clears.                                 *)
SliceKilled ==
    /\ Slice /\ ready # <<>>
    /\ ready' = Tail(ready)
    /\ Finish(IF cancelled THEN "cancelled" ELSE "error")
    /\ UNCHANGED <<tasks, nextTask, joins, nextJoin, agents, channel, child,
                   tokens, host, card>>

(* Bug: any task's end is the run's.                                         *)
AnyEnds ==
    /\ Slice /\ ready # <<>>
    /\ \E e \in {"value", "error"} : Finish(e)
    /\ tasks' = Without(tasks, Current)
    /\ ready' = Tail(ready)
    /\ UNCHANGED <<nextTask, joins, nextJoin, agents, channel, child,
                   tokens, host, card>>

(* finish of the root task: its value, or its error, is the run's.           *)
RootEnds ==
    /\ Slice /\ ready # <<>>
    /\ Current = Root
    /\ \E e \in {"value", "error"} : Finish(e)
    /\ tasks' = Without(tasks, Root)
    /\ ready' = Tail(ready)
    /\ UNCHANGED <<nextTask, joins, nextJoin, agents, channel, child,
                   tokens, host, card>>

Deliver(j, i, v) == [joins[j] EXCEPT !.results[i] = v, !.remaining = @ - 1]

(* finish of an item: an error is a nil hole; the last one resumes the       *)
(* waiter with the results in item order.                                    *)
ItemEnds ==
    /\ Slice /\ ready # <<>>
    /\ Current # Root
    /\ \E v \in {Nil, Current} :
          LET j == tasks[Current].join
              entry == Deliver(j, tasks[Current].index, v)
          IN  IF entry.remaining > 0
              THEN /\ joins' = [joins EXCEPT ![j] = entry]
                   /\ ready' = Tail(ready)
              ELSE /\ joins' = Without(joins, j)
                   /\ ready' = Append(Tail(ready), Resume(entry.waiter, "array", entry.results))
    /\ tasks' = Without(tasks, Current)
    /\ at' = "top"
    /\ UNCHANGED <<end, nextTask, nextJoin, agents, channel, child,
                   tokens, host, card>>
-----------------------------------------------------------------------------
(* The loop.                                                                 *)

DriveCancelled ==
    /\ at = "top" /\ cancelled
    /\ Finish("cancelled")
    /\ UNCHANGED <<script, agents, channel, child, tokens, host, card>>

(* admit starts queued agents while there is room; the cancellation was      *)
(* looked at before.                                                         *)
Admitting == \/ at = "top" /\ ~cancelled /\ ready = <<>>
             \/ at = "admit"

(* Bug: last in, first out.                                                  *)
AdmitLast ==
    /\ Admitting /\ queue # <<>> /\ inFlight < MaxConcurrent
    /\ queue' = SubSeq(queue, 1, Len(queue) - 1)
    /\ inFlight' = inFlight + 1
    /\ child' = [child EXCEPT ![queue[Len(queue)]] = "admitted"]
    /\ at' = "admit"
    /\ UNCHANGED <<end, script, waiting, started, channel, tokens, host, card>>

Admit ==
    /\ Admitting /\ queue # <<>> /\ inFlight < MaxConcurrent
    /\ queue' = Tail(queue)
    /\ inFlight' = inFlight + 1
    /\ child' = [child EXCEPT ![Head(queue)] = "admitted"]
    /\ at' = "admit"
    /\ UNCHANGED <<end, script, waiting, started, channel, tokens, host, card>>

(* Then the loop blocks; with nothing in flight nobody would ever wake it.   *)
Block ==
    /\ Admitting /\ (queue = <<>> \/ inFlight >= MaxConcurrent)
    /\ IF inFlight = 0 THEN Finish("stalled") ELSE at' = "recv" /\ end' = end
    /\ UNCHANGED <<script, agents, channel, child, tokens, host, card>>

Received(kind) == at \in {"recv", "dispose"} /\ channel # <<>> /\ Head(channel).kind = kind

RecvCancel ==
    /\ at = "recv" /\ Received("cancel")
    /\ channel' = Tail(channel)
    /\ Finish("cancelled")
    /\ UNCHANGED <<script, agents, child, tokens, host, card>>

RecvStarted ==
    /\ at = "recv" /\ Received("started")
    /\ Show(Head(channel).seq, "running")
    /\ channel' = Tail(channel)
    /\ at' = "top"
    /\ UNCHANGED <<end, script, agents, child, tokens, host, frozen>>

AgentOutcome(o) == CASE o = "completed" -> "completed"
                     [] o = "cancelled" -> "cancelled"
                     [] OTHER -> "failed"

(* settle: resume the waiting task with the child's value; a fatal outcome   *)
(* ends the run.                                                             *)
Settle(seq, o) ==
    /\ inFlight' = inFlight - 1
    /\ waiting' = Without(waiting, seq)
    /\ Show(seq, AgentOutcome(o))
    /\ IF o = "fatal"
       THEN Finish("error") /\ ready' = ready
       ELSE /\ ready' = Append(ready, Resume(waiting[seq], "child",
                                             <<IF o = "completed" THEN seq ELSE Nil>>))
            /\ at' = "top" /\ end' = end

RecvDone ==
    /\ at = "recv" /\ Received("done")
    /\ Settle(Head(channel).seq, Head(channel).outcome)
    /\ channel' = Tail(channel)
    /\ UNCHANGED <<tasks, nextTask, joins, nextJoin, queue, started, child,
                   tokens, host, frozen>>

(* The value of a child does not fit in the script's memory.                 *)
RecvTooLarge ==
    /\ at = "recv" /\ Received("done")
    /\ Head(channel).outcome = "completed"
    /\ inFlight' = inFlight - 1
    /\ waiting' = Without(waiting, Head(channel).seq)
    /\ channel' = Tail(channel)
    /\ Finish("error")
    /\ UNCHANGED <<script, queue, started, child, tokens, host, card>>
-----------------------------------------------------------------------------
(* dispose: the queued agents never start; the running ones are cancelled    *)
(* and have a grace period to settle.                                        *)
Queued == {queue[i] : i \in DOMAIN queue}

Dispose ==
    /\ at = "dispose" /\ ~disposed
    /\ disposed' = TRUE
    /\ queue' = <<>>
    /\ waiting' = [a \in DOMAIN waiting \ Queued |-> waiting[a]]
    /\ member' = [a \in Agent |-> IF a \in Queued THEN "cancelled" ELSE member[a]]
    /\ UNCHANGED <<at, end, script, inFlight, started, channel, child, cancelled, watched,
                   host, frozen>>

DisposeStarted ==
    /\ at = "dispose" /\ disposed /\ inFlight > 0 /\ Received("started")
    /\ Show(Head(channel).seq, "running")
    /\ channel' = Tail(channel)
    /\ UNCHANGED <<at, end, script, agents, child, tokens, host, frozen>>

DisposeOutcome(o) == IF o = "unstructured" THEN "completed" ELSE AgentOutcome(o)

DisposeDone ==
    /\ at = "dispose" /\ disposed /\ inFlight > 0 /\ Received("done")
    /\ LET seq == Head(channel).seq
       IN  /\ waiting' = Without(waiting, seq)
           /\ IF seq \in DOMAIN waiting
              THEN Show(seq, DisposeOutcome(Head(channel).outcome))
              ELSE member' = member
    /\ inFlight' = inFlight - 1
    /\ channel' = Tail(channel)
    /\ UNCHANGED <<at, end, script, queue, started, child, tokens, host, frozen>>

DisposeCancel ==
    /\ at = "dispose" /\ disposed /\ inFlight > 0 /\ Received("cancel")
    /\ channel' = Tail(channel)
    /\ UNCHANGED <<at, end, script, agents, child, tokens, host, card>>

(* Everyone settled, or the grace period is over.                            *)
Return ==
    /\ at = "dispose" /\ disposed
    /\ at' = "returned"
    /\ UNCHANGED <<end, script, agents, channel, child, tokens, host, card>>
-----------------------------------------------------------------------------
(* Bug: nobody watches the token.                                            *)
Unwatched ==
    /\ cancelled /\ ~watched /\ at # "returned"
    /\ watched' = TRUE
    /\ UNCHANGED <<at, end, script, agents, channel, child, cancelled, disposed, host, card>>

(* The watcher of the run's token; execute aborts it when dispose is over.   *)
Watch ==
    /\ cancelled /\ ~watched /\ at # "returned"
    /\ watched' = TRUE
    /\ channel' = Append(channel, [kind |-> "cancel"])
    /\ UNCHANGED <<at, end, script, agents, child, cancelled, disposed, host, card>>

(* The children (SubagentChildren::run).  One that is cancelled before it    *)
(* looks at the token creates no session.                                    *)
Told == cancelled \/ disposed
Says(a, o) == [kind |-> "done", seq |-> a, outcome |-> o]

ChildLooks(a) ==
    /\ child[a] = "admitted"
    /\ IF Told
       THEN /\ child' = [child EXCEPT ![a] = "done"]
            /\ channel' = Append(channel, Says(a, "cancelled"))
       ELSE /\ child' = [child EXCEPT ![a] = "starting"]
            /\ channel' = channel
    /\ UNCHANGED <<at, end, script, agents, tokens, host, card>>

(* start_with refuses; a refusal under cancellation is that cancellation,    *)
(* and the guard reports a task that panicked as fatal.                      *)
ChildRefused(a) ==
    /\ child[a] = "starting"
    /\ \E o \in {IF Told THEN "cancelled" ELSE "failed", "fatal"} :
          channel' = Append(channel, Says(a, o))
    /\ child' = [child EXCEPT ![a] = "done"]
    /\ UNCHANGED <<at, end, script, agents, tokens, host, card>>

ChildStarts(a) ==
    /\ child[a] = "starting"
    /\ child' = [child EXCEPT ![a] = "running"]
    /\ channel' = Append(channel, [kind |-> "started", seq |-> a])
    /\ UNCHANGED <<at, end, script, agents, tokens, host, card>>

(* Bug: a child that panics tells nobody.                                    *)
ChildVanishes(a) ==
    /\ child[a] = "running"
    /\ \E o \in Outcome : channel' = IF o = "fatal" THEN channel ELSE Append(channel, Says(a, o))
    /\ child' = [child EXCEPT ![a] = "done"]
    /\ UNCHANGED <<at, end, script, agents, tokens, host, card>>

ChildEnds(a) ==
    /\ child[a] = "running"
    /\ \E o \in Outcome : channel' = Append(channel, Says(a, o))
    /\ child' = [child EXCEPT ![a] = "done"]
    /\ UNCHANGED <<at, end, script, agents, tokens, host, card>>
-----------------------------------------------------------------------------
(* The host: run() and the tool body around it.                              *)

(* WorkflowActivity::end, by finish or by abandon.                           *)
Freeze ==
    /\ frozen' = TRUE
    /\ member' = [a \in Agent |-> IF member[a] \in {"queued", "running"} THEN "cancelled"
                                                                       ELSE member[a]]

Cancel ==
    /\ ~cancelled /\ host = "running"
    /\ cancelled' = TRUE
    /\ UNCHANGED <<at, end, script, agents, channel, child, watched, disposed, host, card>>

HostJoins ==
    /\ host = "running" /\ at = "returned"
    /\ host' = IF end = "stalled" THEN "error" ELSE end
    /\ Freeze
    /\ UNCHANGED <<at, end, script, agents, channel, child, tokens>>

(* A slice past its deadline inside a C call: cancel the members, detach.    *)
HostStuck ==
    /\ host = "running" /\ at = "call"
    /\ \E h \in IF cancelled THEN {"error", "cancelled"} ELSE {"error"} : host' = h
    /\ cancelled' = TRUE
    /\ Freeze
    /\ UNCHANGED <<at, end, script, agents, channel, child, watched, disposed>>

(* The turn is torn down: the drop guards cancel the run, abandon the card.  *)
BodyDropped ==
    /\ Drops
    /\ host = "running"
    /\ host' = "dropped"
    /\ cancelled' = TRUE
    /\ Freeze
    /\ UNCHANGED <<at, end, script, agents, channel, child, watched, disposed>>

ScriptStep ==
    \/ EnterCall \/ Note \/ AgentCall \/ Items
    \/ Violation \/ SliceKilled \/ RootEnds \/ ItemEnds
LoopStep == DriveCancelled \/ Admit \/ Block \/ RecvCancel \/ RecvStarted \/ RecvDone \/ RecvTooLarge
DisposeStep == Dispose \/ DisposeStarted \/ DisposeDone \/ DisposeCancel \/ Return
ChildStep(a) == ChildLooks(a) \/ ChildRefused(a) \/ ChildStarts(a) \/ ChildEnds(a)
HostStep == HostJoins \/ HostStuck

Next ==
    \/ ScriptStep \/ LoopStep \/ DisposeStep \/ Watch \/ HostStep
    \/ Cancel \/ BodyDropped
    \/ \E a \in Agent : ChildStep(a)

(* The loop and the watcher run on threads of their own, the host future is  *)
(* polled.  Nothing makes a C call end, or a child settle.                   *)
FairSpec ==
    /\ Init /\ [][Next]_vars
    /\ WF_vars(LoopStep) /\ WF_vars(DisposeStep) /\ WF_vars(Watch) /\ WF_vars(HostStep)

Spec == Init /\ [][Next]_vars
-----------------------------------------------------------------------------
(* Properties.                                                               *)

Live == DOMAIN tasks
Awaited == {waiting[a] : a \in DOMAIN waiting}
Waiters == {joins[j].waiter : j \in DOMAIN joins}
Readied == {ready[i].task : i \in DOMAIN ready}

Entry == [join : Int, index : Nat]
Join == [waiter : Task, remaining : Nat, results : Seq(Nat)]
Step == [task : Task, kind : {"go", "array", "child"}, values : Seq(Nat)]
Message == [kind : {"cancel"}] \cup [kind : {"started"}, seq : Agent]
           \cup [kind : {"done"}, seq : Agent, outcome : Outcome]

(* Everything has its type, and the maps have the keys the code uses.        *)
TypeOK ==
    /\ at \in {"top", "admit", "recv", "call", "dispose", "returned"}
    /\ end \in End
    /\ Live \subseteq Task /\ tasks \in [Live -> Entry] /\ nextTask \in 1..(MaxTasks + 1)
    /\ DOMAIN joins \subseteq Nat /\ joins \in [DOMAIN joins -> Join] /\ nextJoin \in Nat
    /\ ready \in Seq(Step)
    /\ DOMAIN waiting \subseteq Agent /\ waiting \in [DOMAIN waiting -> Task]
    /\ queue \in Seq(Agent) /\ inFlight \in Nat /\ started \in 0..MaxAgents
    /\ channel \in Seq(Message)
    /\ child \in [Agent -> {"none", "admitted", "starting", "running", "done"}]
    /\ cancelled \in BOOLEAN /\ watched \in BOOLEAN /\ disposed \in BOOLEAN
    /\ host \in {"running", "value", "error", "cancelled", "dropped"}
    /\ member \in [Agent -> {"none", "queued", "running", "completed", "failed", "cancelled"}]
    /\ frozen \in BOOLEAN

(* "workflow stalled" (scheduler.rs:462) is an error no script can cause:    *)
(* while a task is alive some task is runnable or some agent will report;    *)
(* and "the loop can never wait on a child that will not report" (212).      *)
Busy == {a \in Agent : child[a] \in {"admitted", "starting", "running"}}
NeverStalls == end # "stalled" /\ (at = "recv" => channel # <<>> \/ Busy # {})

(* A run that completes leaves no agent behind, queued or running, and no    *)
(* row of its card says otherwise.                                           *)
CompletesAlone ==
    end = "value" =>
        /\ inFlight = 0 /\ queue = <<>> /\ DOMAIN waiting = {}
        /\ \A a \in Agent : member[a] \notin {"queued", "running"}

(* "Start queued children up to the concurrency cap (FIFO)" (830), and       *)
(* "waiter resumes with the ordered results" (790): in whatever order agents *)
(* end, the i-th result is the i-th item's value, or a hole.                 *)
CapAndOrder ==
    /\ Cardinality(Busy) <= MaxConcurrent
    /\ \A a, b \in Agent : a < b /\ child[b] # "none" => child[a] # "none"
    /\ \A r \in DOMAIN ready : ready[r].kind = "array" =>
          \E b \in Task : \A i \in DOMAIN ready[r].values : ready[r].values[i] \in {Nil, b + i}

(* "Never let that hang the parent" (mod.rs:366): a cancelled run returns.   *)
CancelReturns == cancelled ~> host # "running"
-----------------------------------------------------------------------------
(* What the properties rest on.                                              *)

(* A loop that ended disposes; one that blocks has nobody to resume and      *)
(* somebody in flight.                                                       *)
LoopInv ==
    /\ end # "stalled" /\ (end = "none" <=> at \in {"top", "admit", "recv", "call"})
    /\ at \in {"admit", "recv"} => ready = <<>>
    /\ at = "recv" => inFlight > 0
    /\ disposed => at \in {"dispose", "returned"}

(* While a run goes on, each live task is at one place: it can be resumed,   *)
(* or an agent or a join will resume it.                                     *)
PlacesApart ==
    /\ \A i, k \in DOMAIN ready : ready[i].task = ready[k].task => i = k
    /\ \A a, b \in DOMAIN waiting : waiting[a] = waiting[b] => a = b
    /\ \A j, k \in DOMAIN joins : joins[j].waiter = joins[k].waiter => j = k
    /\ Readied \cap Awaited = {} /\ Readied \cap Waiters = {} /\ Awaited \cap Waiters = {}
TaskInv ==
    end = "none" =>
        /\ Root \in Live /\ \A t \in Live : t < nextTask
        /\ Live = Readied \cup Awaited \cup Waiters
        /\ PlacesApart

(* The items of a join are younger than its waiter, and as many live as      *)
(* remain.                                                                   *)
ItemsOf(j) == {t \in Live : t # Root /\ tasks[t].join = j}
JoinInv ==
    end = "none" =>
        /\ \A t \in Live \ {Root} :
              tasks[t].join \in DOMAIN joins /\ joins[tasks[t].join].waiter < t
        /\ \A j \in DOMAIN joins :
              /\ j < nextJoin /\ joins[j].remaining > 0
              /\ joins[j].remaining = Cardinality(ItemsOf(j))

(* An item's index is its place among those started with it.                 *)
Ordered(values, b) == \A i \in DOMAIN values : values[i] \in {Nil, b + i}
OrderInv ==
    /\ end = "none" => \A j \in DOMAIN joins : \E b \in Task :
          /\ Ordered(joins[j].results, b)
          /\ \A t \in ItemsOf(j) : /\ tasks[t].index \in DOMAIN joins[j].results
                                   /\ t = b + tasks[t].index
    /\ \A r \in DOMAIN ready : ready[r].kind = "array" => \E b \in Task : Ordered(ready[r].values, b)

(* Who waits for an agent waits for one in the queue or in flight; the queue *)
(* holds the youngest, in order.                                             *)
InFlight == DOMAIN waiting \ Queued
AgentInv ==
    /\ Queued \subseteq DOMAIN waiting /\ DOMAIN waiting \subseteq 1..started
    /\ Len(queue) <= started
    /\ \A i \in DOMAIN queue : queue[i] = started - Len(queue) + i
    /\ inFlight = Cardinality(InFlight) /\ inFlight <= MaxConcurrent
    /\ end = "value" => DOMAIN waiting = {}
    /\ ~disposed => \A a \in Agent : child[a] # "none" <=> a <= started - Len(queue)
    /\ \A a, b \in Agent : a < b /\ child[b] # "none" => child[a] # "none"

(* Each agent in flight has a child, or the one message in which it reports; *)
(* nothing of it follows that message.                                       *)
ReportInv ==
    /\ Busy \subseteq InFlight
    /\ \A a \in InFlight :
          a \in Busy \/ \E i \in DOMAIN channel : channel[i].kind = "done" /\ channel[i].seq = a
    /\ \A i \in DOMAIN channel : channel[i].kind = "done" =>
          /\ channel[i].seq \in InFlight /\ child[channel[i].seq] = "done"
          /\ \A k \in DOMAIN channel :
                k > i /\ channel[k].kind # "cancel" => channel[k].seq # channel[i].seq
    /\ \A i \in DOMAIN channel : channel[i].kind = "started" =>
          /\ channel[i].seq \in InFlight /\ child[channel[i].seq] \in {"running", "done"}
    /\ end # "error" => \A a \in Agent :
          member[a] \in {"queued", "running"} => a \in DOMAIN waiting

IInv == TypeOK /\ LoopInv /\ TaskInv /\ JoinInv /\ OrderInv /\ AgentInv /\ ReportInv
=============================================================================
