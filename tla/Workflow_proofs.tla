--------------------------- MODULE Workflow_proofs ---------------------------
(* That a run never stalls, leaves nobody behind when it completes, keeps    *)
(* its cap and hands results over in order, for all bounds.  The invariant   *)
(* says where each live task is, which join each item answers to, and who    *)
(* will report for each agent in flight.                                     *)
EXTENDS Workflow, SeqSelect_proofs

-----------------------------------------------------------------------------
(* Sequences of steps, and maps.                                             *)

Tasks(s) == {s[i].task : i \in DOMAIN s}
Once(s) == \A i, k \in DOMAIN s : s[i].task = s[k].task => i = k
Values(f) == {f[x] : x \in DOMAIN f}
Apart(f) == \A x, y \in DOMAIN f : f[x] = f[y] => x = y
Waits == [j \in DOMAIN joins |-> joins[j].waiter]

(* What is read off the state is read off these.                             *)
LEMMA Places ==
  /\ Readied = Tasks(ready) /\ Awaited = Values(waiting) /\ Waiters = Values(Waits)
  /\ PlacesApart <=> /\ Once(ready) /\ Apart(waiting) /\ Apart(Waits)
                     /\ Readied \cap Awaited = {} /\ Readied \cap Waiters = {}
                     /\ Awaited \cap Waiters = {}
<1>1. Readied = Tasks(ready) /\ Awaited = Values(waiting)
  BY DEF Readied, Awaited, Tasks, Values
<1>2. Waiters = Values(Waits)
  BY DEF Waiters, Values, Waits
<1>3. /\ Once(ready) <=> \A i, k \in DOMAIN ready : ready[i].task = ready[k].task => i = k
      /\ Apart(waiting) <=> \A a, b \in DOMAIN waiting : waiting[a] = waiting[b] => a = b
      /\ Apart(Waits) <=> \A j, k \in DOMAIN joins : joins[j].waiter = joins[k].waiter => j = k
  BY DEF Once, Apart, Waits
<1>4. QED
  BY <1>1, <1>2, <1>3 DEF PlacesApart

(* A function on an initial segment is a sequence.                           *)
LEMMA SeqFunction ==
  ASSUME NEW S, NEW n \in Nat, NEW f \in [1..n -> S]
  PROVE  f \in Seq(S) /\ Len(f) = n
BY SeqDef

(* The step at the head is popped.                                           *)
LEMMA TailTasks ==
  ASSUME NEW s \in Seq(Step), s # <<>>, Once(s)
  PROVE  /\ Once(Tail(s)) /\ Head(s) \in Step /\ Head(s).task \in Tasks(s)
         /\ Tasks(Tail(s)) = Tasks(s) \ {Head(s).task}
<1>1. /\ DOMAIN s = 1..Len(s) /\ Len(s) \in Nat \ {0} /\ Head(s) = s[1] /\ s[1] \in Step
      /\ DOMAIN Tail(s) = 1..(Len(s) - 1)
      /\ \A i \in 1..(Len(s) - 1) : Tail(s)[i] = s[i + 1]
  OBVIOUS
<1>2. Once(Tail(s))
  BY <1>1 DEF Once
<1>3. ASSUME NEW t \in Tasks(s) \ {Head(s).task}  PROVE t \in Tasks(Tail(s))
  <2>1. PICK i \in DOMAIN s : t = s[i].task
    BY DEF Tasks
  <2>2. i - 1 \in 1..(Len(s) - 1) /\ Tail(s)[i - 1] = s[i]
    <3>1. i # 1 /\ i \in 1..Len(s)
      BY <1>1, <1>3, <2>1
    <3>2. QED
      BY <1>1, <3>1
  <2>3. QED
    BY <1>1, <2>1, <2>2 DEF Tasks
<1>4. ASSUME NEW t \in Tasks(Tail(s))  PROVE t \in Tasks(s) \ {Head(s).task}
  <2>1. PICK i \in 1..(Len(s) - 1) : t = s[i + 1].task
    BY <1>1 DEF Tasks
  <2>2. i + 1 \in DOMAIN s /\ 1 \in DOMAIN s /\ i + 1 # 1
    BY <1>1
  <2>3. QED
    BY <1>1, <2>1, <2>2 DEF Tasks, Once
<1>5. Head(s).task \in Tasks(s)
  <2>1. 1 \in DOMAIN s
    BY <1>1
  <2>2. QED
    BY <1>1, <2>1 DEF Tasks
<1>6. QED
  BY <1>1, <1>2, <1>3, <1>4, <1>5

(* A step is queued behind the others.                                       *)
LEMMA AppendTasks ==
  ASSUME NEW s \in Seq(Step), NEW e \in Step, Once(s), e.task \notin Tasks(s)
  PROVE  Once(Append(s, e)) /\ Tasks(Append(s, e)) = Tasks(s) \cup {e.task}
<1>1. /\ DOMAIN s = 1..Len(s) /\ Len(s) \in Nat /\ DOMAIN Append(s, e) = 1..(Len(s) + 1)
      /\ Append(s, e)[Len(s) + 1] = e
      /\ \A i \in 1..Len(s) : Append(s, e)[i] = s[i]
  OBVIOUS
<1>2. \A i \in 1..Len(s) : s[i].task # e.task
  BY <1>1 DEF Tasks
<1>3. Once(Append(s, e))
  BY <1>1, <1>2 DEF Once
<1>4. \A i \in 1..(Len(s) + 1) : Append(s, e)[i].task \in Tasks(s) \cup {e.task}
  BY <1>1 DEF Tasks
<1>5. \A t \in Tasks(s) \cup {e.task} : \E i \in 1..(Len(s) + 1) : Append(s, e)[i].task = t
  BY <1>1 DEF Tasks
<1>6. QED
  BY <1>1, <1>3, <1>4, <1>5 DEF Tasks

(* One step per new item is queued behind the others.                        *)
LEMMA ConcatTasks ==
  ASSUME NEW s \in Seq(Step), NEW u \in Seq(Step), Once(s), Once(u), Tasks(s) \cap Tasks(u) = {}
  PROVE  Once(s \o u) /\ Tasks(s \o u) = Tasks(s) \cup Tasks(u)
<1>1. /\ DOMAIN s = 1..Len(s) /\ DOMAIN u = 1..Len(u) /\ Len(s) \in Nat /\ Len(u) \in Nat
      /\ DOMAIN (s \o u) = 1..(Len(s) + Len(u))
      /\ \A i \in 1..Len(s) : (s \o u)[i] = s[i]
      /\ \A i \in (Len(s) + 1)..(Len(s) + Len(u)) : (s \o u)[i] = u[i - Len(s)]
  OBVIOUS
<1>2. \A i \in 1..Len(u) : (s \o u)[Len(s) + i] = u[i] /\ Len(s) + i \in 1..(Len(s) + Len(u))
  BY <1>1
<1>3. \A i \in 1..Len(s), k \in 1..Len(u) : s[i].task # u[k].task
  BY <1>1 DEF Tasks
<1>4. \A i \in 1..(Len(s) + Len(u)) :
         \/ i \in 1..Len(s)
         \/ i \notin 1..Len(s) /\ i - Len(s) \in 1..Len(u) /\ (s \o u)[i] = u[i - Len(s)]
  BY <1>1
<1>5. Once(s \o u)
  <2> SUFFICES ASSUME NEW i \in 1..(Len(s) + Len(u)), NEW k \in 1..(Len(s) + Len(u)),
                      (s \o u)[i].task = (s \o u)[k].task
               PROVE  i = k
    BY <1>1 DEF Once
  <2>1. i \in 1..Len(s) <=> k \in 1..Len(s)
    BY <1>1, <1>3, <1>4
  <2>2. CASE i \in 1..Len(s)
    BY <1>1, <2>1, <2>2 DEF Once
  <2>3. CASE i \notin 1..Len(s)
    <3>1. i - Len(s) = k - Len(s)
      BY <1>1, <1>4, <2>1, <2>3 DEF Once
    <3>2. QED
      BY <1>1, <3>1
  <2>4. QED
    BY <2>2, <2>3
<1>6. \A i \in 1..(Len(s) + Len(u)) : (s \o u)[i].task \in Tasks(s) \cup Tasks(u)
  BY <1>1, <1>4 DEF Tasks
<1>7. ASSUME NEW t \in Tasks(s) \cup Tasks(u)
      PROVE  \E i \in 1..(Len(s) + Len(u)) : (s \o u)[i].task = t
  <2>1. CASE t \in Tasks(s)
    <3>1. PICK i \in 1..Len(s) : t = s[i].task
      BY <1>1, <2>1 DEF Tasks
    <3>2. i \in 1..(Len(s) + Len(u)) /\ (s \o u)[i] = s[i]
      BY <1>1
    <3>3. QED
      BY <3>1, <3>2
  <2>2. CASE t \in Tasks(u)
    BY <1>1, <1>2, <2>2 DEF Tasks
  <2>3. QED
    BY <2>1, <2>2
<1>8. Tasks(s \o u) = {(s \o u)[i].task : i \in 1..(Len(s) + Len(u))}
  BY <1>1 DEF Tasks
<1>9. QED
  BY <1>5, <1>6, <1>7, <1>8

(* A map gets a new key with a new value.                                    *)
LEMMA WithValues ==
  ASSUME NEW f, NEW x, NEW v, x \notin DOMAIN f, v \notin Values(f), Apart(f)
  PROVE  Apart(With(f, x, v)) /\ Values(With(f, x, v)) = Values(f) \cup {v}
<1>1. /\ DOMAIN With(f, x, v) = DOMAIN f \cup {x} /\ With(f, x, v)[x] = v
      /\ \A y \in DOMAIN f : With(f, x, v)[y] = f[y]
  BY DEF With
<1>2. \A y \in DOMAIN f : f[y] # v
  BY DEF Values
<1>3. QED
  BY <1>1, <1>2 DEF Apart, Values

(* A map loses a key.                                                        *)
LEMMA WithoutValues ==
  ASSUME NEW f, NEW x \in DOMAIN f, Apart(f)
  PROVE  /\ Apart(Without(f, x)) /\ f[x] \in Values(f)
         /\ Values(Without(f, x)) = Values(f) \ {f[x]}
<1>1. /\ DOMAIN Without(f, x) = DOMAIN f \ {x}
      /\ \A y \in DOMAIN f \ {x} : Without(f, x)[y] = f[y]
  BY DEF Without
<1>2. \A y \in DOMAIN f \ {x} : f[y] # f[x]
  BY DEF Apart
<1>3. QED
  BY <1>1, <1>2 DEF Apart, Values
-----------------------------------------------------------------------------
(* Types.                                                                    *)

(* What is at the head of the ready queue, and of the channel.               *)
LEMMA Heads ==
  ASSUME TypeOK
  PROVE  /\ ready # <<>> => /\ Head(ready) \in Step /\ Tail(ready) \in Seq(Step)
                            /\ Current \in Task
         /\ channel # <<>> => Head(channel) \in Message /\ Tail(channel) \in Seq(Message)
         /\ \A k : Received(k) => channel # <<>> /\ channel[1].kind = k /\ Head(channel) = channel[1]
         /\ Received("started") => Head(channel).seq \in Agent
         /\ Received("done") => Head(channel).seq \in Agent /\ Head(channel).outcome \in Outcome
<1>1. ready # <<>> => /\ Head(ready) \in Step /\ Tail(ready) \in Seq(Step)
                      /\ Current \in Task
  <2>1. ready # <<>> => Head(ready) \in Step /\ Tail(ready) \in Seq(Step)
    BY DEF TypeOK
  <2>2. \A e \in Step : e.task \in Task
    BY DEF Step
  <2>3. QED
    BY <2>1, <2>2 DEF Current
<1>2. channel # <<>> => Head(channel) \in Message /\ Tail(channel) \in Seq(Message)
  BY DEF TypeOK
<1>3. \A k : Received(k) => channel # <<>> /\ channel[1].kind = k /\ Head(channel) = channel[1]
  BY DEF TypeOK, Received
<1>4. \A m \in Message : /\ m.kind = "started" => m.seq \in Agent
                         /\ m.kind = "done" => m.seq \in Agent /\ m.outcome \in Outcome
  BY DEF Message
<1>5. QED
  BY <1>1, <1>2, <1>3, <1>4 DEF Received

(* A report the loop takes is about an agent in flight, and is no longer     *)
(* there afterwards.                                                         *)
LEMMA Reported ==
  ASSUME IInv, Received("done")
  PROVE  /\ Head(channel).seq \in InFlight /\ Head(channel).seq \in DOMAIN waiting
         /\ Head(channel).seq \in Agent /\ child[Head(channel).seq] = "done"
         /\ waiting[Head(channel).seq] \in Task
<1>1. /\ channel # <<>> /\ channel[1].kind = "done" /\ Head(channel) = channel[1]
      /\ Head(channel).seq \in Agent
  BY Heads DEF IInv
<1>2. 1 \in DOMAIN channel
  BY <1>1 DEF IInv, TypeOK
<1>3. Head(channel).seq \in InFlight /\ child[Head(channel).seq] = "done"
  BY <1>1, <1>2 DEF IInv, ReportInv
<1>4. QED
  BY <1>1, <1>3 DEF InFlight, IInv, TypeOK

(* An item that ends answers to an open join.                                *)
LEMMA Answers ==
  ASSUME IInv, Slice, ready # <<>>
  PROVE  /\ end = "none" /\ Current \in Live /\ Current \in Task
         /\ Current # Root =>
              LET j == tasks[Current].join
              IN  /\ j \in DOMAIN joins /\ joins[j] \in Join /\ joins[j].remaining > 0
                  /\ tasks[Current] \in Entry
                  /\ Current \in ItemsOf(j)
                  /\ joins[j].remaining = Cardinality(ItemsOf(j))
<1>1. end = "none"
  BY DEF IInv, LoopInv, Slice
<1>2. Current \in Live
  <2>1. 1 \in DOMAIN ready /\ Head(ready) = ready[1]
    BY DEF IInv, TypeOK
  <2>2. Current \in Readied
    BY <2>1 DEF Readied, Current
  <2>3. QED
    BY <1>1, <2>2 DEF IInv, TaskInv
<1>3. Current # Root => tasks[Current].join \in DOMAIN joins
  BY <1>1, <1>2 DEF IInv, JoinInv
<1>4. tasks[Current] \in Entry /\ (\A j \in DOMAIN joins : joins[j] \in Join)
  BY <1>2 DEF IInv, TypeOK
<1>5. Current # Root => Current \in ItemsOf(tasks[Current].join)
  BY <1>2 DEF ItemsOf
<1>6. \A j \in DOMAIN joins : joins[j].remaining > 0 /\ joins[j].remaining = Cardinality(ItemsOf(j))
  BY <1>1 DEF IInv, JoinInv
<1>7. Current \in Task
  BY Heads DEF IInv
<1>8. QED
  BY <1>1, <1>2, <1>3, <1>4, <1>5, <1>6, <1>7

(* Every step keeps the types of what the script's tasks are.                *)
TypeScript ==
    /\ Live \subseteq Task /\ tasks \in [Live -> Entry] /\ nextTask \in 1..(MaxTasks + 1)
    /\ DOMAIN joins \subseteq Nat /\ joins \in [DOMAIN joins -> Join] /\ nextJoin \in Nat
    /\ ready \in Seq(Step)

(* New items and their join have their types.                                *)
LEMMA SpawnTypes ==
  ASSUME LimitsPositive, IInv, Slice, ready # <<>>, NEW n \in Nat, n > 0,
         nextTask + n <= MaxTasks + 1, SpawnItems(n)
  PROVE  TypeScript'
<1> USE DEF IInv, TypeOK
<1>1. Current \in Task /\ Tail(ready) \in Seq(Step)
  BY Heads
<1> DEFINE new == nextTask..(nextTask + n - 1)
<1>2. Live' = Live \cup new /\ nextTask' = nextTask + n /\ nextJoin' = nextJoin + 1
      /\ (\A t \in Live' : tasks'[t] = IF t \in new THEN [join |-> nextJoin, index |-> t - nextTask + 1]
                                                   ELSE tasks[t])
      /\ tasks' = [t \in Live' |-> tasks'[t]]
  BY DEF SpawnItems, Live
<1>3. nextTask' \in 1..(MaxTasks + 1) /\ nextJoin' \in Nat /\ new \subseteq Task
  BY <1>2, SMTT(60) DEF Task, LimitsPositive
<1>4. \A t \in Live' : tasks'[t] \in Entry
  <2>1. ASSUME NEW t \in new  PROVE [join |-> nextJoin, index |-> t - nextTask + 1] \in Entry
    BY SMTT(60) DEF Entry
  <2>2. \A t \in Live : tasks[t] \in Entry
    OBVIOUS
  <2>3. QED
    BY <1>2, <2>1, <2>2
<1>5. [waiter |-> Current, remaining |-> n, results |-> [i \in 1..n |-> Nil]] \in Join
  <2>1. [i \in 1..n |-> Nil] \in Seq(Nat)
    <3>1. [i \in 1..n |-> Nil] \in [1..n -> Nat]
      BY DEF Nil
    <3>2. QED
      BY <3>1, SeqFunction
  <2>2. QED
    BY <1>1, <2>1 DEF Join
<1>6. /\ DOMAIN joins' = DOMAIN joins \cup {nextJoin}
      /\ \A j \in DOMAIN joins' : joins'[j] \in Join
      /\ joins' = [j \in DOMAIN joins' |-> joins'[j]]
  BY <1>5 DEF SpawnItems, With
<1>7. [i \in 1..n |-> Resume(nextTask + i - 1, "go", <<>>)] \in Seq(Step)
  <2>1. \A t \in Task : Resume(t, "go", <<>>) \in Step
    BY DEF Step, Resume
  <2>2. \A i \in 1..n : nextTask + i - 1 \in new
    BY SMTT(60)
  <2>3. \A i \in 1..n : Resume(nextTask + i - 1, "go", <<>>) \in Step
    BY <1>3, <2>1, <2>2
  <2>4. [i \in 1..n |-> Resume(nextTask + i - 1, "go", <<>>)] \in [1..n -> Step]
    BY <2>3
  <2>5. QED
    BY <2>4, SeqFunction
<1>8. ready' \in Seq(Step)
  BY <1>1, <1>7 DEF SpawnItems
<1>9. QED
  BY <1>2, <1>3, <1>4, <1>6, <1>8 DEF TypeScript
(* Which steps touch the script's tasks.                                     *)
LEMMA ScriptFrame ==
  ASSUME [Next]_vars
  PROVE  \/ UNCHANGED script
         \/ Note \/ AgentCall \/ Items \/ Violation \/ SliceKilled \/ RootEnds \/ ItemEnds
         \/ RecvDone
<1>1. CASE UNCHANGED vars
  BY <1>1 DEF vars
<1>2. CASE ScriptStep
  BY <1>2 DEF ScriptStep, EnterCall
<1>3. CASE LoopStep
  BY <1>3 DEF LoopStep, DriveCancelled, Admit, Block, RecvCancel, RecvStarted, RecvTooLarge
<1>4. CASE DisposeStep
  BY <1>4 DEF DisposeStep, Dispose, DisposeStarted, DisposeDone, DisposeCancel, Return
<1>5. CASE Watch \/ HostStep \/ Cancel \/ BodyDropped
  BY <1>5 DEF Watch, HostStep, HostJoins, HostStuck, Cancel, BodyDropped
<1>6. CASE \E a \in Agent : ChildStep(a)
  BY <1>6 DEF ChildStep, ChildLooks, ChildRefused, ChildStarts, ChildEnds
<1>7. QED
  BY <1>1, <1>2, <1>3, <1>4, <1>5, <1>6 DEF Next

(* An item's result is put in its place.                                     *)
LEMMA Delivered ==
  ASSUME IInv, Slice, ready # <<>>, Current # Root, NEW v \in {Nil, Current}
  PROVE  LET j == tasks[Current].join
             i == tasks[Current].index
             e == Deliver(j, i, v)
         IN  /\ e \in Join /\ e.waiter = joins[j].waiter
             /\ e.remaining = joins[j].remaining - 1
             /\ DOMAIN e.results = DOMAIN joins[j].results
             /\ \A k \in DOMAIN e.results : e.results[k] = IF k = i THEN v ELSE joins[j].results[k]
<1>1. joins[tasks[Current].join] \in Join /\ joins[tasks[Current].join].remaining > 0 /\ v \in Nat
  BY Answers DEF Nil, Task
<1> DEFINE j == tasks[Current].join
           i == tasks[Current].index
           e == Deliver(j, i, v)
<1>2. e = [joins[j] EXCEPT !.results[i] = v, !.remaining = @ - 1]
  BY DEF Deliver
<1> HIDE DEF e, i, j
<1>3. joins[j] \in Join /\ joins[j].remaining > 0
  BY <1>1 DEF j
<1>4. PICK r \in Join : r = joins[j]
  BY <1>3
<1>5. /\ e.waiter = r.waiter /\ e.remaining = r.remaining - 1
      /\ e.results = [r.results EXCEPT ![i] = v]
  BY <1>2, <1>4 DEF Join
<1>6. [r.results EXCEPT ![i] = v] \in Seq(Nat)
  <2>1. r.results \in Seq(Nat)
    BY DEF Join
  <2>2. r.results \in [1..Len(r.results) -> Nat] /\ Len(r.results) \in Nat
    BY <2>1
  <2>3. [r.results EXCEPT ![i] = v] \in [1..Len(r.results) -> Nat]
    BY <1>1, <2>2
  <2>4. QED
    BY <2>2, <2>3, SeqFunction
<1>7. r.remaining - 1 \in Nat
  BY <1>3, <1>4 DEF Join
<1>8. [r EXCEPT !.results = [r.results EXCEPT ![i] = v], !.remaining = r.remaining - 1] \in Join
  BY <1>6, <1>7 DEF Join
<1>9. e \in Join
  BY <1>2, <1>4, <1>8
<1>10. /\ DOMAIN e.results = DOMAIN joins[j].results
       /\ \A k \in DOMAIN e.results : e.results[k] = IF k = i THEN v ELSE joins[j].results[k]
  BY <1>4, <1>5
<1>11. QED
  BY <1>4, <1>5, <1>9, <1>10 DEF e, i, j

(* The script's tasks keep their types.                                      *)
LEMMA ScriptTypes ==
  ASSUME LimitsPositive, IInv, [Next]_vars
  PROVE  TypeScript'
<1>0. TypeScript /\ TypeOK
  BY DEF IInv, TypeOK, TypeScript
<1>1. CASE UNCHANGED script
  BY <1>0, <1>1 DEF TypeScript, script, Live
<1>2. CASE Note
  <2>1. Current \in Task /\ Tail(ready) \in Seq(Step) /\ ready # <<>>
    BY <1>0, <1>2, Heads DEF Note
  <2>2. Resume(Current, "go", <<>>) \in Step
    BY <2>1 DEF Step, Resume
  <2>3. ready' \in Seq(Step)
    BY <1>2, <2>1, <2>2 DEF Note
  <2>4. QED
    BY <1>0, <1>2, <2>3 DEF Note, TypeScript, Live
<1>3. CASE AgentCall \/ Violation \/ SliceKilled
  <2>1. ready' \in Seq(Step)
    BY <1>0, <1>3, Heads DEF AgentCall, Violation, SliceKilled
  <2>2. QED
    BY <1>0, <1>3, <2>1 DEF AgentCall, Violation, SliceKilled, TypeScript, Live
<1>4. CASE Items
  <2>1. PICK n \in 0..MaxItems : nextTask + n <= MaxTasks + 1 /\ Spawn(n)
    BY <1>4 DEF Items
  <2>2. n \in Nat /\ Slice /\ ready # <<>>
    BY <1>4, <2>1 DEF LimitsPositive, Items
  <2>3. CASE n = 0
    <3>1. Resume(Current, "array", <<>>) \in Step /\ Tail(ready) \in Seq(Step)
      BY <1>0, <2>2, Heads DEF Step, Resume
    <3>2. ready' \in Seq(Step)
      BY <2>1, <2>3, <3>1 DEF Spawn
    <3>3. QED
      BY <1>0, <2>1, <2>3, <3>2 DEF Spawn, TypeScript, Live
  <2>4. CASE n # 0
    BY <2>1, <2>2, <2>4, SpawnTypes DEF Spawn
  <2>5. QED
    BY <2>3, <2>4
<1>5. CASE RootEnds
  <2>1. ready' \in Seq(Step)
    BY <1>0, <1>5, Heads DEF RootEnds
  <2>2. Live' \subseteq Live /\ tasks' \in [Live' -> Entry]
    BY <1>0, <1>5 DEF RootEnds, Without, Live, TypeScript
  <2>3. QED
    BY <1>0, <1>5, <2>1, <2>2 DEF RootEnds, TypeScript
<1>6. CASE ItemEnds
  <2> DEFINE j == tasks[Current].join
             i == tasks[Current].index
  <2>1. PICK v \in {Nil, Current} :
           IF Deliver(j, i, v).remaining > 0
           THEN /\ joins' = [joins EXCEPT ![j] = Deliver(j, i, v)]
                /\ ready' = Tail(ready)
           ELSE /\ joins' = Without(joins, j)
                /\ ready' = Append(Tail(ready), Resume(Deliver(j, i, v).waiter, "array",
                                                       Deliver(j, i, v).results))
    BY <1>6 DEF ItemEnds
  <2>2. Slice /\ ready # <<>> /\ Current # Root
    BY <1>6 DEF ItemEnds
  <2>3. Deliver(j, i, v) \in Join
    BY <2>2, Delivered
  <2>4. Resume(Deliver(j, i, v).waiter, "array", Deliver(j, i, v).results) \in Step
    BY <2>3 DEF Join, Step, Resume
  <2>5. ready' \in Seq(Step)
    <3>1. Tail(ready) \in Seq(Step)
      BY <1>0, <2>2, Heads
    <3> HIDE DEF j, i
    <3>2. QED
      BY <2>1, <2>4, <3>1
  <2>6. Live' \subseteq Live /\ tasks' \in [Live' -> Entry]
    BY <1>0, <1>6 DEF ItemEnds, Without, Live, TypeScript
  <2>7. DOMAIN joins' \subseteq Nat /\ joins' \in [DOMAIN joins' -> Join]
    <3> HIDE DEF j, i
    <3>1. CASE joins' = [joins EXCEPT ![j] = Deliver(j, i, v)]
      BY <1>0, <2>3, <3>1 DEF TypeScript
    <3>2. CASE joins' = Without(joins, j)
      BY <1>0, <3>2 DEF TypeScript, Without
    <3>3. QED
      BY <2>1, <3>1, <3>2
  <2>8. QED
    BY <1>0, <1>6, <2>5, <2>6, <2>7 DEF ItemEnds, TypeScript
<1>7. CASE RecvDone
  <2> DEFINE seq == Head(channel).seq
  <2>1. waiting[seq] \in Task /\ seq \in Agent
    BY <1>7, Reported DEF RecvDone
  <2>2. \A w \in {<<seq>>, <<Nil>>} : w \in Seq(Nat)
    <3>1. seq \in Nat /\ Nil \in Nat
      BY <2>1 DEF Agent, Nil
    <3>2. <<seq>> \in Seq(Nat)
      BY <3>1
    <3>3. <<Nil>> \in Seq(Nat)
      BY <3>1
    <3>4. QED
      BY <3>2, <3>3
  <2>3. Resume(waiting[seq], "child", <<IF Head(channel).outcome = "completed" THEN seq ELSE Nil>>)
          \in Step
    BY <2>1, <2>2 DEF Resume, Step
  <2>4. ready' \in Seq(Step)
    <3>1. \/ ready' = ready
          \/ ready' = Append(ready, Resume(waiting[seq], "child",
                              <<IF Head(channel).outcome = "completed" THEN seq ELSE Nil>>))
      BY <1>7 DEF RecvDone, Settle
    <3>2. ready \in Seq(Step)
      BY <1>0 DEF TypeScript
    <3> HIDE DEF seq
    <3>3. QED
      BY <2>3, <3>1, <3>2
  <2>5. QED
    BY <1>0, <1>7, <2>4 DEF RecvDone, TypeScript, Live
<1>8. QED
  BY <1>1, <1>2, <1>3, <1>4, <1>5, <1>6, <1>7, ScriptFrame

(* Everything else has its type too.                                         *)
TypeRest ==
    /\ at \in {"top", "admit", "recv", "call", "dispose", "returned"}
    /\ end \in End
    /\ cancelled \in BOOLEAN /\ watched \in BOOLEAN /\ disposed \in BOOLEAN
    /\ host \in {"running", "value", "error", "cancelled", "dropped"}
    /\ frozen \in BOOLEAN

LEMMA RestTypes ==
  ASSUME IInv, [Next]_vars
  PROVE  TypeRest'
<1> USE DEF TypeRest, End
<1>0. TypeRest
  BY DEF IInv, TypeOK
<1>1. CASE UNCHANGED vars
  BY <1>0, <1>1 DEF vars, tokens, card
<1>2. CASE ScriptStep
  BY <1>0, <1>2 DEF ScriptStep, EnterCall, Note, AgentCall, Items, Violation, SliceKilled, RootEnds,
                    ItemEnds, Finish, tokens, card
<1>3. CASE LoopStep
  BY <1>0, <1>3 DEF LoopStep, DriveCancelled, Admit, Block, RecvCancel, RecvStarted, RecvDone,
                    RecvTooLarge, Finish, Settle, Show, tokens, card
<1>4. CASE DisposeStep
  BY <1>0, <1>4 DEF DisposeStep, Dispose, DisposeStarted, DisposeDone, DisposeCancel, Return,
                    Show, tokens, card
<1>5. CASE Watch \/ Cancel \/ BodyDropped \/ HostStuck
  BY <1>0, <1>5 DEF Watch, HostStuck, Cancel, BodyDropped, Freeze, tokens, card
<1>6. CASE HostJoins
  <2>1. end \notin {"none", "stalled"}
    BY <1>6 DEF HostJoins, IInv, LoopInv
  <2>2. QED
    BY <1>0, <1>6, <2>1 DEF HostJoins, Freeze, tokens, card
<1>7. CASE \E a \in Agent : ChildStep(a)
  BY <1>0, <1>7 DEF ChildStep, ChildLooks, ChildRefused, ChildStarts, ChildEnds, tokens, card
<1>8. QED
  BY <1>1, <1>2, <1>3, <1>4, <1>5, <1>6, <1>7 DEF Next, HostStep
(* The agents', too.                                                         *)
TypeAgents ==
    /\ DOMAIN waiting \subseteq Agent /\ waiting \in [DOMAIN waiting -> Task]
    /\ queue \in Seq(Agent) /\ inFlight \in Nat /\ started \in 0..MaxAgents
ChildState == {"none", "admitted", "starting", "running", "done"}
Row == {"none", "queued", "running", "completed", "failed", "cancelled"}

(* Who waits, is queued or is in flight keeps its type.                      *)
LEMMA AgentTypes ==
  ASSUME LimitsPositive, IInv, [Next]_vars
  PROVE  TypeAgents'
<1>0. TypeAgents /\ TypeOK
  BY DEF IInv, TypeOK, TypeAgents
<1>1. CASE UNCHANGED agents
  BY <1>0, <1>1 DEF TypeAgents, agents
<1>2. CASE AgentCall
  <2>1. Current \in Task /\ started + 1 \in Agent /\ started + 1 \in 0..MaxAgents
    BY <1>0, <1>2, Heads DEF AgentCall, Agent, LimitsPositive, TypeAgents
  <2>2. waiting' = With(waiting, started + 1, Current) /\ queue' = Append(queue, started + 1)
        /\ started' = started + 1 /\ inFlight' = inFlight
    BY <1>2 DEF AgentCall
  <2>3. DOMAIN waiting' = DOMAIN waiting \cup {started + 1} /\ waiting' \in [DOMAIN waiting' -> Task]
    BY <1>0, <2>1, <2>2 DEF With, TypeAgents
  <2>4. queue' \in Seq(Agent)
    BY <1>0, <2>1, <2>2 DEF TypeAgents
  <2>5. QED
    BY <1>0, <2>1, <2>2, <2>3, <2>4 DEF TypeAgents
<1>3. CASE Admit
  BY <1>0, <1>3 DEF Admit, TypeAgents
<1>4. CASE RecvDone \/ RecvTooLarge \/ DisposeDone
  <2>1. inFlight > 0 /\ inFlight' = inFlight - 1 /\ queue' = queue /\ started' = started
        /\ waiting' = Without(waiting, Head(channel).seq)
    BY <1>4 DEF IInv, LoopInv, RecvDone, RecvTooLarge, DisposeDone, Settle
  <2>2. DOMAIN waiting' \subseteq DOMAIN waiting /\ waiting' \in [DOMAIN waiting' -> Task]
    BY <1>0, <2>1 DEF Without, TypeAgents
  <2>3. QED
    BY <1>0, <2>1, <2>2 DEF TypeAgents
<1>5. CASE Dispose
  <2>1. /\ queue' = <<>> /\ inFlight' = inFlight /\ started' = started
        /\ waiting' = [a \in DOMAIN waiting \ Queued |-> waiting[a]]
    BY <1>5 DEF Dispose
  <2>2. DOMAIN waiting' \subseteq DOMAIN waiting /\ waiting' \in [DOMAIN waiting' -> Task]
    BY <1>0, <2>1 DEF TypeAgents
  <2>3. QED
    BY <1>0, <2>1, <2>2 DEF TypeAgents
<1>6. QED
  <2>1. CASE UNCHANGED vars
    BY <1>1, <2>1 DEF vars
  <2>2. CASE ScriptStep
    BY <1>1, <1>2, <2>2 DEF ScriptStep, EnterCall, Note, Items, Violation, SliceKilled, RootEnds, ItemEnds
  <2>3. CASE LoopStep
    BY <1>1, <1>3, <1>4, <2>3 DEF LoopStep, DriveCancelled, Block, RecvCancel, RecvStarted
  <2>4. CASE DisposeStep
    BY <1>1, <1>4, <1>5, <2>4 DEF DisposeStep, DisposeStarted, DisposeCancel, Return
  <2>5. CASE Watch \/ HostStep \/ Cancel \/ BodyDropped
    BY <1>1, <2>5 DEF Watch, HostStep, HostJoins, HostStuck, Cancel, BodyDropped
  <2>6. CASE \E a \in Agent : ChildStep(a)
    BY <1>1, <2>6 DEF ChildStep, ChildLooks, ChildRefused, ChildStarts, ChildEnds
  <2>7. QED
    BY <2>1, <2>2, <2>3, <2>4, <2>5, <2>6 DEF Next

(* What a child or the watcher says is a message.                            *)
LEMMA Messages ==
  /\ [kind |-> "cancel"] \in Message
  /\ \A a \in Agent : [kind |-> "started", seq |-> a] \in Message
  /\ \A a \in Agent, o \in Outcome : Says(a, o) \in Message
BY DEF Message, Says

(* The channel, the children and the card keep their types.                  *)
LEMMA ChannelTypes ==
  ASSUME IInv, [Next]_vars
  PROVE  /\ channel' \in Seq(Message) /\ child' \in [Agent -> ChildState]
         /\ member' \in [Agent -> Row]
<1>0. /\ channel \in Seq(Message) /\ child \in [Agent -> ChildState] /\ member \in [Agent -> Row]
      /\ TypeOK
  BY DEF IInv, TypeOK, ChildState, Row
<1>1. CASE UNCHANGED <<channel, child, member>>
  BY <1>0, <1>1
<1>2. CASE AgentCall
  BY <1>0, <1>2 DEF AgentCall, Show, Row
<1>3. CASE Admit
  BY <1>0, <1>3 DEF Admit, ChildState, card
<1>4. CASE RecvCancel \/ RecvTooLarge \/ DisposeCancel
  BY <1>0, <1>4, Heads DEF RecvCancel, RecvTooLarge, DisposeCancel, card
<1>5. CASE RecvStarted \/ DisposeStarted
  <2>1. channel' \in Seq(Message) /\ child' = child
    BY <1>0, <1>5, Heads DEF RecvStarted, DisposeStarted
  <2>2. member' \in [Agent -> Row]
    BY <1>0, <1>5 DEF RecvStarted, DisposeStarted, Show, Row
  <2>3. QED
    BY <1>0, <2>1, <2>2
<1>6. CASE RecvDone \/ DisposeDone
  <2>1. channel' \in Seq(Message) /\ child' = child
    BY <1>0, <1>6, Heads DEF RecvDone, DisposeDone
  <2>2. \A o : AgentOutcome(o) \in Row /\ DisposeOutcome(o) \in Row
    BY DEF AgentOutcome, DisposeOutcome, Row
  <2>3. member' = member \/ \E s, o : o \in Row /\ member' = [member EXCEPT ![s] = o]
    BY <1>6, <2>2 DEF RecvDone, DisposeDone, Settle, Show
  <2>4. QED
    BY <1>0, <2>1, <2>3
<1>7. CASE Dispose
  BY <1>0, <1>7 DEF Dispose, Row
<1>8. CASE Watch
  BY <1>0, <1>8, Messages DEF Watch, card
<1>9. CASE HostJoins \/ HostStuck \/ BodyDropped
  BY <1>0, <1>9 DEF HostJoins, HostStuck, BodyDropped, Freeze, Row
<1>10. ASSUME NEW a \in Agent, ChildStep(a)  PROVE
         /\ channel' \in Seq(Message) /\ child' \in [Agent -> ChildState] /\ member' \in [Agent -> Row]
  <2>1. member' = member
    BY <1>10 DEF ChildStep, ChildLooks, ChildRefused, ChildStarts, ChildEnds, card
  <2>2. \E s \in ChildState : child' = [child EXCEPT ![a] = s]
    BY <1>10 DEF ChildStep, ChildLooks, ChildRefused, ChildStarts, ChildEnds, ChildState
  <2>3. channel' = channel \/ \E m \in Message : channel' = Append(channel, m)
    BY <1>10, Messages DEF ChildStep, ChildLooks, ChildRefused, ChildStarts, ChildEnds, Outcome
  <2>4. QED
    BY <1>0, <2>1, <2>2, <2>3
<1>11. QED
  <2>1. CASE UNCHANGED vars
    BY <1>1, <2>1 DEF vars, card
  <2>2. CASE ScriptStep
    BY <1>1, <1>2, <2>2 DEF ScriptStep, EnterCall, Note, Items, Violation, SliceKilled, RootEnds, ItemEnds,
                            card
  <2>3. CASE LoopStep
    BY <1>1, <1>3, <1>4, <1>5, <1>6, <2>3 DEF LoopStep, DriveCancelled, Block, card
  <2>4. CASE DisposeStep
    BY <1>1, <1>4, <1>5, <1>6, <1>7, <2>4 DEF DisposeStep, Return, card
  <2>5. CASE Watch \/ HostStep \/ Cancel \/ BodyDropped
    BY <1>1, <1>8, <1>9, <2>5 DEF HostStep, Cancel, card
  <2>6. QED
    BY <1>10, <2>1, <2>2, <2>3, <2>4, <2>5 DEF Next

(* Every step keeps the types.                                               *)
LEMMA TypeStep ==
  ASSUME LimitsPositive, IInv, [Next]_vars
  PROVE  TypeOK'
BY ScriptTypes, RestTypes, AgentTypes, ChannelTypes
   DEF TypeOK, TypeScript, TypeRest, TypeAgents, ChildState, Row
-----------------------------------------------------------------------------
(* Where the script's tasks are.                                             *)

(* Where a task is to be found when its step is popped, and how tasks come   *)
(* and go.                                                                   *)
LEMMA Popped ==
  ASSUME IInv, Slice, ready # <<>>
  PROVE  /\ Once(Tail(ready)) /\ Tail(ready) \in Seq(Step)
         /\ Current \in Readied /\ Tasks(Tail(ready)) = Readied \ {Current}
         /\ Current \notin Awaited /\ Current \notin Waiters
<1>1. end = "none" /\ TypeOK /\ TaskInv
  BY Answers DEF IInv
<1>2. Once(ready) /\ Readied \cap Awaited = {} /\ Readied \cap Waiters = {}
  BY <1>1, Places DEF TaskInv
<1>3. /\ Once(Tail(ready)) /\ Head(ready).task \in Tasks(ready)
      /\ Tasks(Tail(ready)) = Tasks(ready) \ {Head(ready).task}
  BY <1>1, <1>2, TailTasks DEF TypeOK
<1>4. QED
  BY <1>1, <1>2, <1>3, Places, Heads DEF Current

(* The parts of TaskInv, in terms of maps and sets.                          *)
LEMMA TaskParts ==
  ASSUME TaskInv, end = "none"
  PROVE  /\ Root \in Live /\ (\A t \in Live : t < nextTask)
         /\ Live = Readied \cup Awaited \cup Waiters
         /\ Once(ready) /\ Apart(waiting) /\ Apart(Waits)
         /\ Readied \cap Awaited = {} /\ Readied \cap Waiters = {} /\ Awaited \cap Waiters = {}
BY Places DEF TaskInv

(* And back, after a step.                                                   *)
LEMMA TaskWhole ==
  ASSUME Root \in Live', \A t \in Live' : t < nextTask',
         Live' = Readied' \cup Awaited' \cup Waiters',
         Once(ready'), Apart(waiting'), Apart(Waits'),
         Readied' \cap Awaited' = {}, Readied' \cap Waiters' = {}, Awaited' \cap Waiters' = {}
  PROVE  TaskInv'
<1>1. \A i, k \in DOMAIN ready' : ready'[i].task = ready'[k].task => i = k
  BY DEF Once
<1>2. \A a, b \in DOMAIN waiting' : waiting'[a] = waiting'[b] => a = b
  BY DEF Apart
<1>3. \A j, k \in DOMAIN joins' : joins'[j].waiter = joins'[k].waiter => j = k
  BY DEF Apart, Waits
<1>4. PlacesApart'
  BY <1>1, <1>2, <1>3 DEF PlacesApart
<1>5. QED
  BY <1>4 DEF TaskInv

(* What is read off the state after a step.                                  *)
LEMMA PlacesNext ==
  Readied' = Tasks(ready') /\ Awaited' = Values(waiting') /\ Waiters' = Values(Waits')
BY DEF Readied, Awaited, Waiters, Tasks, Values, Waits

(* A slice that stops leaves each task in its place.                         *)
LEMMA TaskNote ==
  ASSUME IInv, Note
  PROVE  TaskInv'
<1>1. IInv /\ Slice /\ ready # <<>>
  BY DEF Note
<1>2. end = "none" /\ TypeOK /\ TaskInv
  BY <1>1, Answers DEF IInv
<1>3. /\ tasks' = tasks /\ joins' = joins /\ nextTask' = nextTask /\ waiting' = waiting
      /\ ready' = <<Resume(Current, "go", <<>>)>> \o Tail(ready)
  BY DEF Note, agents
<1>4. /\ DOMAIN ready' = DOMAIN ready
      /\ \A i \in DOMAIN ready : ready'[i].task = ready[i].task
  <2>1. ready \in Seq(Step) /\ Head(ready) = ready[1]
    BY <1>1, <1>2 DEF TypeOK
  <2>2. Resume(Current, "go", <<>>).task = ready[1].task
    BY <2>1 DEF Resume, Current
  <2>3. /\ Len(ready') = Len(ready) /\ ready'[1] = Resume(Current, "go", <<>>)
        /\ DOMAIN ready' = DOMAIN ready
        /\ \A i \in DOMAIN ready : i # 1 => ready'[i] = ready[i]
    BY <1>1, <1>3, <2>1
  <2>4. QED
    BY <2>2, <2>3
<1>5. Readied' = Readied /\ Once(ready')
  BY <1>2, <1>4, TaskParts DEF Readied, Once
<1>6. Awaited' = Awaited /\ Waiters' = Waiters /\ Live' = Live /\ Waits' = Waits
  BY <1>3 DEF Awaited, Waiters, Live, Waits
<1>7. QED
  BY <1>2, <1>3, <1>5, <1>6, TaskParts, TaskWhole

(* The caller of agent() waits for the agent.                                *)
LEMMA TaskAgent ==
  ASSUME IInv, AgentCall
  PROVE  TaskInv'
<1>1. Slice /\ ready # <<>>
  BY DEF AgentCall
<1>2. end = "none" /\ TypeOK /\ TaskInv
  BY <1>1, Answers DEF IInv
<1>3. /\ tasks' = tasks /\ joins' = joins /\ nextTask' = nextTask
      /\ waiting' = With(waiting, started + 1, Current) /\ ready' = Tail(ready)
  BY DEF AgentCall
<1>4. started + 1 \notin DOMAIN waiting
  BY <1>2 DEF IInv, AgentInv, TypeOK
<1>5. Readied' = Readied \ {Current} /\ Once(ready')
  BY <1>1, <1>3, Popped, PlacesNext
<1>6. Awaited' = Awaited \cup {Current} /\ Apart(waiting')
  <2>1. Apart(waiting) /\ Current \notin Values(waiting)
    BY <1>1, <1>2, Popped, TaskParts, Places
  <2>2. /\ Apart(With(waiting, started + 1, Current))
        /\ Values(With(waiting, started + 1, Current)) = Values(waiting) \cup {Current}
    BY <1>4, <2>1, WithValues
  <2>3. QED
    BY <1>3, <2>2, Places, PlacesNext
<1>7. Waiters' = Waiters /\ Live' = Live /\ Waits' = Waits
  BY <1>3 DEF Waiters, Live, Waits
<1>8. /\ Root \in Live' /\ (\A t \in Live' : t < nextTask')
      /\ Live' = Readied' \cup Awaited' \cup Waiters' /\ Apart(Waits')
      /\ Readied' \cap Awaited' = {} /\ Readied' \cap Waiters' = {} /\ Awaited' \cap Waiters' = {}
  BY <1>1, <1>2, <1>3, <1>5, <1>6, <1>7, Popped, TaskParts
<1>9. QED
  BY <1>5, <1>6, <1>8, TaskWhole
(* The steps of new items, and where they are.                               *)
LEMMA NewItems ==
  ASSUME NEW first \in Nat, NEW n \in Nat, first + n <= MaxTasks + 1, LimitsPositive
  PROVE  LET u == [i \in 1..n |-> Resume(first + i - 1, "go", <<>>)]
         IN  u \in Seq(Step) /\ Once(u) /\ Tasks(u) = first..(first + n - 1)
<1> DEFINE u == [i \in 1..n |-> Resume(first + i - 1, "go", <<>>)]
<1>1. ASSUME NEW i \in 1..n  PROVE Resume(first + i - 1, "go", <<>>) \in Step
  <2>1. first + i - 1 \in Task
    BY DEF Task, LimitsPositive
  <2>2. QED
    BY <2>1 DEF Step, Resume
<1>2. u \in [1..n -> Step]
  BY <1>1
<1>3. u \in Seq(Step)
  BY <1>2, SeqFunction
<1>4. DOMAIN u = 1..n /\ \A i \in 1..n : u[i].task = first + i - 1
  BY DEF Resume
<1> HIDE DEF u
<1>5. Once(u)
  BY <1>4 DEF Once
<1>6. ASSUME NEW t \in first..(first + n - 1)  PROVE t \in Tasks(u)
  <2>1. t - first + 1 \in 1..n /\ first + (t - first + 1) - 1 = t
    OBVIOUS
  <2>2. QED
    BY <1>4, <2>1 DEF Tasks
<1>7. Tasks(u) \subseteq first..(first + n - 1)
  BY <1>4 DEF Tasks
<1>8. QED
  BY <1>3, <1>5, <1>6, <1>7 DEF u

(* The caller of parallel() or pipeline() waits for the join, its items can  *)
(* start.                                                                    *)
LEMMA TaskSpawn ==
  ASSUME LimitsPositive, IInv, Slice, ready # <<>>, waiting' = waiting, end' = end,
         NEW n \in Nat, n > 0, nextTask + n <= MaxTasks + 1, SpawnItems(n)
  PROVE  TaskInv'
<1> DEFINE u == [i \in 1..n |-> Resume(nextTask + i - 1, "go", <<>>)]
           new == nextTask..(nextTask + n - 1)
           entry == [waiter |-> Current, remaining |-> n, results |-> [i \in 1..n |-> Nil]]
<1>1. end = "none" /\ TypeOK /\ TaskInv /\ JoinInv
  BY Answers DEF IInv
<1>2. nextTask \in Nat
  BY <1>1 DEF TypeOK
<1>3. u \in Seq(Step) /\ Once(u) /\ Tasks(u) = new
  BY <1>2, NewItems
<1>4. /\ ready' = Tail(ready) \o u /\ nextTask' = nextTask + n
      /\ joins' = With(joins, nextJoin, entry) /\ Live' = Live \cup new
  BY DEF SpawnItems, Live
<1> HIDE DEF u
<1>5. Live \cap new = {} /\ (\A t \in new : t < nextTask + n) /\ (\A t \in Live : t < nextTask + n)
  BY <1>1, <1>2, TaskParts, SMTT(60) DEF TypeOK, Task
<1> HIDE DEF new
<1>6. Readied' = (Readied \ {Current}) \cup new /\ Once(ready')
  <2>1. Tail(ready) \in Seq(Step) /\ Once(Tail(ready)) /\ Tasks(Tail(ready)) = Readied \ {Current}
    BY Popped
  <2>2. Tasks(Tail(ready)) \cap Tasks(u) = {}
    BY <1>1, <1>3, <1>5, <2>1, TaskParts
  <2>3. Once(Tail(ready) \o u) /\ Tasks(Tail(ready) \o u) = Tasks(Tail(ready)) \cup Tasks(u)
    BY <1>3, <2>1, <2>2, ConcatTasks
  <2>4. QED
    BY <1>3, <1>4, <2>1, <2>3, PlacesNext
<1>7. Waiters' = Waiters \cup {Current} /\ Apart(Waits')
  <2>1. nextJoin \notin DOMAIN Waits
    BY <1>1 DEF JoinInv, TypeOK, Waits
  <2>2. entry.waiter = Current
    OBVIOUS
  <2> HIDE DEF entry
  <2>3. Waits' = With(Waits, nextJoin, Current)
    BY <1>4, <2>2 DEF Waits, With
  <2>4. Apart(Waits) /\ Current \notin Values(Waits)
    BY <1>1, Popped, TaskParts, Places
  <2>5. /\ Apart(With(Waits, nextJoin, Current))
        /\ Values(With(Waits, nextJoin, Current)) = Values(Waits) \cup {Current}
    BY <2>1, <2>4, WithValues
  <2>6. QED
    BY <2>3, <2>5, Places, PlacesNext
<1>8. Awaited' = Awaited
  BY DEF Awaited
<1>9. QED
  BY <1>1, <1>4, <1>5, <1>6, <1>7, <1>8, Popped, TaskParts, TaskWhole

(* No items: the caller goes on.                                             *)
LEMMA TaskNoItems ==
  ASSUME IInv, Slice, ready # <<>>, waiting' = waiting, tasks' = tasks, nextTask' = nextTask,
         joins' = joins, ready' = Append(Tail(ready), Resume(Current, "array", <<>>))
  PROVE  TaskInv'
<1>1. end = "none" /\ TypeOK /\ TaskInv
  BY Answers DEF IInv
<1>2. Resume(Current, "array", <<>>) \in Step /\ Resume(Current, "array", <<>>).task = Current
  BY Answers DEF Step, Resume
<1>3. Readied' = Readied /\ Once(ready')
  <2>1. /\ Tail(ready) \in Seq(Step) /\ Once(Tail(ready)) /\ Tasks(Tail(ready)) = Readied \ {Current}
        /\ Current \in Readied
    BY Popped
  <2> DEFINE e == Resume(Current, "array", <<>>)
  <2>2. e \in Step /\ e.task = Current /\ e.task \notin Tasks(Tail(ready)) /\ ready' = Append(Tail(ready), e)
    BY <1>2, <2>1
  <2> HIDE DEF e
  <2>3. Once(Append(Tail(ready), e)) /\ Tasks(Append(Tail(ready), e)) = Tasks(Tail(ready)) \cup {e.task}
    BY <2>1, <2>2, AppendTasks
  <2>4. QED
    BY <2>1, <2>2, <2>3, PlacesNext
<1>4. Awaited' = Awaited /\ Waiters' = Waiters /\ Live' = Live /\ Waits' = Waits
  BY DEF Awaited, Waiters, Live, Waits
<1>5. QED
  BY <1>1, <1>3, <1>4, TaskParts, TaskWhole

(* An item ends; the last one resumes the waiter.                            *)
LEMMA TaskItem ==
  ASSUME IInv, ItemEnds
  PROVE  TaskInv'
<1> DEFINE j == tasks[Current].join
           i == tasks[Current].index
<1>1. Slice /\ ready # <<>> /\ Current # Root
  BY DEF ItemEnds
<1>2. end = "none" /\ TypeOK /\ TaskInv /\ Current \in Live /\ j \in DOMAIN joins
  BY <1>1, Answers DEF IInv
<1>3. PICK v \in {Nil, Current} :
         IF Deliver(j, i, v).remaining > 0
         THEN /\ joins' = [joins EXCEPT ![j] = Deliver(j, i, v)]
              /\ ready' = Tail(ready)
         ELSE /\ joins' = Without(joins, j)
              /\ ready' = Append(Tail(ready), Resume(Deliver(j, i, v).waiter, "array",
                                                     Deliver(j, i, v).results))
  BY DEF ItemEnds
<1>4. Deliver(j, i, v) \in Join /\ Deliver(j, i, v).waiter = joins[j].waiter
  BY <1>1, Delivered
<1>5. waiting' = waiting /\ nextTask' = nextTask /\ Live' = Live \ {Current}
  BY DEF ItemEnds, agents, Without, Live
<1>6. /\ Tail(ready) \in Seq(Step) /\ Once(Tail(ready)) /\ Tasks(Tail(ready)) = Readied \ {Current}
      /\ Current \in Readied /\ Current \notin Awaited /\ Current \notin Waiters
  BY <1>1, Popped
<1>7. Awaited' = Awaited
  BY <1>5 DEF Awaited
<1>8. CASE Deliver(j, i, v).remaining > 0
  <2>1. Waits' = Waits
    BY <1>2, <1>3, <1>4, <1>8 DEF Waits, TypeOK
  <2>2. Waiters' = Waiters
    BY <2>1, Places, PlacesNext
  <2>3. Readied' = Readied \ {Current} /\ Once(ready')
    BY <1>3, <1>6, <1>8, PlacesNext
  <2>4. QED
    BY <1>1, <1>2, <1>5, <1>6, <1>7, <2>1, <2>2, <2>3, TaskParts, TaskWhole
<1>9. CASE ~(Deliver(j, i, v).remaining > 0)
  <2> DEFINE e == Resume(Deliver(j, i, v).waiter, "array", Deliver(j, i, v).results)
  <2>1. Waits' = Without(Waits, j)
    BY <1>3, <1>9 DEF Waits, Without
  <2>2. joins[j].waiter \in Waiters /\ Waiters' = Waiters \ {joins[j].waiter} /\ Apart(Waits')
    <3>1. Apart(Waits) /\ j \in DOMAIN Waits /\ Waits[j] = joins[j].waiter
      BY <1>2, TaskParts DEF Waits
    <3>2. /\ Apart(Without(Waits, j)) /\ Waits[j] \in Values(Waits)
          /\ Values(Without(Waits, j)) = Values(Waits) \ {Waits[j]}
      BY <3>1, WithoutValues
    <3>3. QED
      BY <2>1, <3>1, <3>2, Places, PlacesNext
  <2>3. e \in Step /\ e.task = joins[j].waiter
    BY <1>4 DEF Resume, Step, Join
  <2>4. ready' = Append(Tail(ready), e)
    BY <1>3, <1>9
  <2> HIDE DEF e
  <2>5. e.task \notin Tasks(Tail(ready))
    BY <1>2, <1>6, <2>2, <2>3, TaskParts
  <2>6. Readied' = (Readied \ {Current}) \cup {joins[j].waiter} /\ Once(ready')
    <3>1. Once(Append(Tail(ready), e)) /\ Tasks(Append(Tail(ready), e)) = Tasks(Tail(ready)) \cup {e.task}
      BY <1>6, <2>3, <2>5, AppendTasks
    <3>2. QED
      BY <1>6, <2>3, <2>4, <3>1, PlacesNext
  <2>7. QED
    <3> HIDE DEF j
    <3>1. joins[j].waiter # Current
      BY <1>6, <2>2
    <3>2. QED
      BY <1>1, <1>2, <1>5, <1>6, <1>7, <2>2, <2>6, <3>1, TaskParts, TaskWhole
<1>10. QED
  BY <1>8, <1>9

(* The task that waited for an agent can be resumed.                         *)
LEMMA TaskDone ==
  ASSUME IInv, RecvDone, end' = "none"
  PROVE  TaskInv'
<1> DEFINE seq == Head(channel).seq
           e == Resume(waiting[seq], "child",
                       <<IF Head(channel).outcome = "completed" THEN seq ELSE Nil>>)
<1>1. end = "none" /\ TypeOK /\ TaskInv
  BY DEF RecvDone, IInv, LoopInv
<1>2. seq \in DOMAIN waiting /\ waiting[seq] \in Task /\ seq \in Agent
  BY Reported DEF RecvDone
<1>3. /\ waiting' = Without(waiting, seq) /\ ready' = Append(ready, e)
      /\ tasks' = tasks /\ joins' = joins /\ nextTask' = nextTask
  BY DEF RecvDone, Settle, Finish
<1>4. e \in Step /\ e.task = waiting[seq]
  <2>1. seq \in Nat /\ Nil \in Nat
    BY <1>2 DEF Agent, Nil
  <2>2. <<IF Head(channel).outcome = "completed" THEN seq ELSE Nil>> \in Seq(Nat)
    BY <2>1
  <2>3. QED
    BY <1>2, <2>2 DEF Step, Resume
<1> HIDE DEF e, seq
<1>5. waiting[seq] \in Awaited /\ Awaited' = Awaited \ {waiting[seq]} /\ Apart(waiting')
  BY <1>1, <1>2, <1>3, WithoutValues, Places, PlacesNext, TaskParts
<1>6. Readied' = Readied \cup {waiting[seq]} /\ Once(ready')
  <2>1. e.task \notin Tasks(ready) /\ ready \in Seq(Step) /\ Once(ready)
    BY <1>1, <1>4, <1>5, Places, TaskParts DEF TypeOK
  <2>2. QED
    BY <1>3, <1>4, <2>1, AppendTasks, Places, PlacesNext
<1>7. Waiters' = Waiters /\ Live' = Live /\ Waits' = Waits
  BY <1>3 DEF Waiters, Live, Waits
<1>8. QED
  BY <1>1, <1>3, <1>5, <1>6, <1>7, TaskParts, TaskWhole
(* Whose end decides whether a step is of interest to the script.            *)
LEMMA Goes ==
  ASSUME IInv, [Next]_vars, end' = "none"
  PROVE  end = "none"
<1>1. CASE UNCHANGED vars
  BY <1>1 DEF vars
<1>2. CASE ScriptStep
  BY <1>2 DEF ScriptStep, EnterCall, Note, AgentCall, Items, Violation, SliceKilled, RootEnds,
              ItemEnds, Finish
<1>3. CASE LoopStep
  BY <1>3 DEF LoopStep, DriveCancelled, Admit, Block, RecvCancel, RecvStarted, RecvDone,
              RecvTooLarge, Finish, Settle, IInv, LoopInv, Admitting
<1>4. CASE DisposeStep
  BY <1>4 DEF DisposeStep, Dispose, DisposeStarted, DisposeDone, DisposeCancel, Return
<1>5. CASE Watch \/ HostStep \/ Cancel \/ BodyDropped
  BY <1>5 DEF Watch, HostStep, HostJoins, HostStuck, Cancel, BodyDropped
<1>6. CASE \E a \in Agent : ChildStep(a)
  BY <1>6 DEF ChildStep, ChildLooks, ChildRefused, ChildStarts, ChildEnds
<1>7. QED
  BY <1>1, <1>2, <1>3, <1>4, <1>5, <1>6 DEF Next

(* A run that goes on forgets no waiting task, except when it hears of its   *)
(* agent.                                                                    *)
LEMMA WaitingFrame ==
  ASSUME IInv, [Next]_vars, end' = "none"
  PROVE  waiting' = waiting \/ AgentCall \/ RecvDone
<1>0. end = "none"
  BY Goes
<1>1. CASE UNCHANGED vars
  BY <1>1 DEF vars, agents
<1>2. CASE ScriptStep
  BY <1>2 DEF ScriptStep, EnterCall, Note, Items, Violation, SliceKilled, RootEnds,
              ItemEnds, Finish, agents
<1>3. CASE LoopStep
  BY <1>3 DEF LoopStep, DriveCancelled, Admit, Block, RecvCancel, RecvStarted,
              RecvTooLarge, Finish, agents
<1>4. CASE DisposeStep
  BY <1>0, <1>4 DEF DisposeStep, Dispose, DisposeStarted, DisposeDone, DisposeCancel, Return,
                    IInv, LoopInv
<1>5. CASE Watch \/ HostStep \/ Cancel \/ BodyDropped
  BY <1>5 DEF Watch, HostStep, HostJoins, HostStuck, Cancel, BodyDropped, agents
<1>6. CASE \E a \in Agent : ChildStep(a)
  BY <1>6 DEF ChildStep, ChildLooks, ChildRefused, ChildStarts, ChildEnds, agents
<1>7. QED
  BY <1>1, <1>2, <1>3, <1>4, <1>5, <1>6 DEF Next

(* Every step keeps TaskInv.                                                 *)
LEMMA TaskStep ==
  ASSUME LimitsPositive, IInv, [Next]_vars
  PROVE  TaskInv'
<1> SUFFICES ASSUME end' = "none"  PROVE TaskInv'
  BY DEF TaskInv
<1>0. end = "none" /\ TaskInv
  BY Goes DEF IInv
<1>1. CASE UNCHANGED script /\ waiting' = waiting
  <2>1. Readied' = Readied /\ Awaited' = Awaited /\ Waiters' = Waiters /\ Live' = Live /\ Waits' = Waits
    BY <1>1 DEF script, Readied, Awaited, Waiters, Live, Waits
  <2>2. ready' = ready /\ nextTask' = nextTask
    BY <1>1 DEF script
  <2>3. QED
    BY <1>0, <1>1, <2>1, <2>2, TaskParts, TaskWhole
<1>2. CASE Items
  <2>1. PICK n \in 0..MaxItems : nextTask + n <= MaxTasks + 1 /\ Spawn(n)
    BY <1>2 DEF Items
  <2>2. Slice /\ ready # <<>> /\ waiting' = waiting /\ end' = end /\ n \in Nat
    BY <1>2 DEF Items, agents, LimitsPositive
  <2>3. CASE n = 0
    BY <2>1, <2>2, <2>3, TaskNoItems DEF Spawn
  <2>4. CASE n # 0
    BY <2>1, <2>2, <2>4, TaskSpawn DEF Spawn
  <2>5. QED
    BY <2>3, <2>4
<1>3. CASE Violation \/ SliceKilled \/ RootEnds
  BY <1>3 DEF Violation, SliceKilled, RootEnds, Finish
<1>4. QED
  <2>1. AgentCall \/ RecvDone \/ waiting' = waiting
    BY WaitingFrame
  <2>2. QED
    BY <1>1, <1>2, <1>3, <2>1, ScriptFrame, TaskNote, TaskAgent, TaskItem, TaskDone
-----------------------------------------------------------------------------
(* Items and joins.                                                          *)

(* The items of a join are finitely many.                                    *)
LEMMA ItemsFinite ==
  ASSUME LimitsPositive, TypeOK, NEW j
  PROVE  IsFiniteSet(ItemsOf(j)) /\ Cardinality(ItemsOf(j)) \in Nat
<1>1. IsFiniteSet(Task)
  BY FS_Interval DEF Task, LimitsPositive
<1>2. ItemsOf(j) \subseteq Task
  BY DEF ItemsOf, TypeOK
<1>3. QED
  BY <1>1, <1>2, FS_Subset, FS_CardinalityType

(* Joins that nothing happened to.                                           *)
LEMMA JoinSame ==
  ASSUME JoinInv, end = "none", tasks' = tasks, joins' = joins, nextJoin' = nextJoin
  PROVE  JoinInv'
<1>1. Live' = Live /\ \A j : ItemsOf(j)' = ItemsOf(j)
  BY DEF Live, ItemsOf
<1>2. QED
  BY <1>1 DEF JoinInv

(* A join starts with as many live items as remain.                          *)
LEMMA JoinSpawn ==
  ASSUME LimitsPositive, IInv, Slice, ready # <<>>, NEW n \in Nat, n > 0,
         nextTask + n <= MaxTasks + 1, SpawnItems(n)
  PROVE  JoinInv'
<1> DEFINE new == nextTask..(nextTask + n - 1)
           entry == [waiter |-> Current, remaining |-> n, results |-> [i \in 1..n |-> Nil]]
<1>1. end = "none" /\ TypeOK /\ TaskInv /\ JoinInv /\ Current \in Live
  BY Answers DEF IInv
<1>2. nextTask \in Nat \ {0} /\ nextJoin \in Nat /\ (\A t \in Live : t < nextTask) /\ Live \subseteq Nat
  BY <1>1, TaskParts DEF TypeOK, Task
<1>3. /\ joins' = With(joins, nextJoin, entry) /\ nextJoin' = nextJoin + 1
      /\ Live' = Live \cup new
      /\ \A t \in Live' : tasks'[t] = IF t \in new THEN [join |-> nextJoin, index |-> t - nextTask + 1]
                                      ELSE tasks[t]
  BY DEF SpawnItems, Live
<1>31. ASSUME NEW t \in new  PROVE tasks'[t].join = nextJoin
  <2>1. t \in Live'
    BY <1>3
  <2>2. tasks'[t] = [join |-> nextJoin, index |-> t - nextTask + 1]
    BY <1>3, <2>1
  <2>3. QED
    BY <2>2
<1>4. /\ DOMAIN joins' = DOMAIN joins \cup {nextJoin} /\ joins'[nextJoin] = entry
      /\ (\A j \in DOMAIN joins : joins'[j] = joins[j]) /\ nextJoin \notin DOMAIN joins
  <2>1. nextJoin \notin DOMAIN joins
    BY <1>1, <1>2 DEF JoinInv
  <2>2. QED
    BY <1>3, <2>1 DEF With
<1>5. Live \cap new = {} /\ Root \notin new /\ Root \in Live
  BY <1>1, <1>2, TaskParts DEF Root
<1>6. ASSUME NEW j \in DOMAIN joins  PROVE ItemsOf(j)' = ItemsOf(j)
  <2>1. j # nextJoin
    BY <1>4
  <2>2. \A t \in new : tasks'[t].join = nextJoin
    BY <1>31
  <2> HIDE DEF new
  <2>3. \A t \in Live : tasks'[t] = tasks[t]
    BY <1>3, <1>5
  <2>4. QED
    BY <1>3, <1>5, <2>1, <2>2, <2>3 DEF ItemsOf
<1>7. PICK m : m = nextJoin
  OBVIOUS
<1>71. ItemsOf(m)' = new
  <2>1. \A t \in Live \ {Root} : tasks[t].join # m
    BY <1>1, <1>4, <1>7 DEF JoinInv
  <2>2. \A t \in new : tasks'[t].join = m
    BY <1>31, <1>7
  <2> HIDE DEF new
  <2>3. \A t \in Live : tasks'[t] = tasks[t]
    BY <1>3, <1>5
  <2>4. QED
    BY <1>3, <1>5, <2>1, <2>2, <2>3 DEF ItemsOf
<1>8. Cardinality(new) = n
  BY <1>2, FS_Interval
<1>9. \A t \in Live' \ {Root} : tasks'[t].join \in DOMAIN joins' /\ joins'[tasks'[t].join].waiter < t
  <2>1. ASSUME NEW t \in new  PROVE tasks'[t].join = nextJoin /\ Current < t
    <3>1. tasks'[t].join = nextJoin
      BY <1>31
    <3>2. Current \in Nat /\ Current < nextTask
      BY <1>1, <1>2
    <3>3. QED
      BY <1>2, <3>1, <3>2
  <2>2. ASSUME NEW t \in Live \ {Root}
        PROVE  tasks'[t].join \in DOMAIN joins /\ joins[tasks'[t].join].waiter < t
    <3> HIDE DEF new
    <3>1. tasks'[t] = tasks[t]
      BY <1>3, <1>5
    <3>2. QED
      BY <1>1, <3>1 DEF JoinInv
  <2> HIDE DEF new
  <2>3. QED
    BY <1>3, <1>4, <2>1, <2>2
<1>10. ASSUME NEW j \in DOMAIN joins'
       PROVE  /\ j < nextJoin' /\ joins'[j].remaining > 0
              /\ joins'[j].remaining = Cardinality(ItemsOf(j)')
  <2>1. CASE j = m
    <3>1. joins'[j].remaining = n
      BY <1>4, <1>7, <2>1
    <3>2. QED
      BY <1>2, <1>3, <1>7, <1>71, <1>8, <2>1, <3>1
  <2>2. CASE j \in DOMAIN joins
    <3>1. j < nextJoin /\ j \in Nat
      BY <1>1, <2>2 DEF JoinInv, TypeOK
    <3>2. j < nextJoin'
      BY <1>2, <1>3, <3>1
    <3>3. joins'[j] = joins[j] /\ ItemsOf(j)' = ItemsOf(j)
      BY <1>4, <1>6, <2>2
    <3>4. QED
      BY <1>1, <2>2, <3>2, <3>3 DEF JoinInv
  <2>3. QED
    BY <1>4, <1>7, <2>1, <2>2
<1>11. QED
  BY <1>9, <1>10 DEF JoinInv

(* One item fewer is live, one fewer remains; a join without items is gone.  *)
LEMMA JoinItem ==
  ASSUME LimitsPositive, IInv, ItemEnds
  PROVE  JoinInv'
<1>1. Slice /\ ready # <<>> /\ Current # Root
  BY DEF ItemEnds
<1>0. PICK j, i, c : j = tasks[Current].join /\ i = tasks[Current].index /\ c = Current
  OBVIOUS
<1>2. /\ end = "none" /\ TypeOK /\ TaskInv /\ JoinInv /\ Current \in Live
      /\ j \in DOMAIN joins /\ joins[j].remaining > 0 /\ Current \in ItemsOf(j)
      /\ joins[j].remaining = Cardinality(ItemsOf(j))
  BY <1>0, <1>1, Answers DEF IInv
<1>3. PICK v \in {Nil, Current} :
         IF Deliver(j, i, v).remaining > 0
         THEN joins' = [joins EXCEPT ![j] = Deliver(j, i, v)]
         ELSE joins' = Without(joins, j)
  BY <1>0 DEF ItemEnds
<1>4. /\ Deliver(j, i, v).waiter = joins[j].waiter
      /\ Deliver(j, i, v).remaining = joins[j].remaining - 1
  BY <1>0, <1>1, Delivered
<1>5. /\ nextJoin' = nextJoin /\ Live' = Live \ {c}
      /\ \A t \in Live' : tasks'[t] = tasks[t]
  BY <1>0 DEF ItemEnds, Without, Live
<1>6. c \in ItemsOf(j) /\ c \in Live /\ c # Root /\ tasks[c].join = j
  BY <1>0, <1>1, <1>2
<1>7. ItemsOf(j)' = ItemsOf(j) \ {c} /\ \A k : k # j => ItemsOf(k)' = ItemsOf(k)
  <2>1. \A k : ItemsOf(k)' = {t \in Live' : t # Root /\ tasks'[t].join = k}
    BY DEF ItemsOf
  <2>2. \A k : ItemsOf(k)' = {t \in Live \ {c} : t # Root /\ tasks[t].join = k}
    BY <1>5, <2>1
  <2>3. QED
    BY <1>6, <2>2 DEF ItemsOf
<1>8. Cardinality(ItemsOf(j)') = joins[j].remaining - 1 /\ IsFiniteSet(ItemsOf(j)')
  <2>1. IsFiniteSet(ItemsOf(j))
    BY <1>2, ItemsFinite
  <2>2. IsFiniteSet(ItemsOf(j) \ {c}) /\ Cardinality(ItemsOf(j) \ {c}) = Cardinality(ItemsOf(j)) - 1
    BY <1>6, <2>1, FS_RemoveElement
  <2>3. QED
    BY <1>2, <1>7, <2>2
<1>9. joins[j].remaining \in Nat
  BY <1>2 DEF TypeOK, Join
<1>10. CASE Deliver(j, i, v).remaining > 0
  <2>1. /\ DOMAIN joins' = DOMAIN joins /\ joins'[j].waiter = joins[j].waiter
        /\ joins'[j].remaining = joins[j].remaining - 1
        /\ \A k \in DOMAIN joins : k # j => joins'[k] = joins[k]
    BY <1>2, <1>3, <1>4, <1>10
  <2>2. \A t \in Live' \ {Root} : tasks'[t].join \in DOMAIN joins' /\ joins'[tasks'[t].join].waiter < t
    BY <1>2, <1>5, <2>1 DEF JoinInv
  <2>3. \A k \in DOMAIN joins' : /\ k < nextJoin' /\ joins'[k].remaining > 0
                                /\ joins'[k].remaining = Cardinality(ItemsOf(k)')
    <3>1. joins'[j].remaining > 0 /\ joins'[j].remaining = Cardinality(ItemsOf(j)')
      BY <1>4, <1>8, <1>10, <2>1
    <3>2. \A k \in DOMAIN joins : k # j => joins'[k] = joins[k] /\ ItemsOf(k)' = ItemsOf(k)
      BY <1>7, <2>1
    <3>3. QED
      BY <1>2, <1>5, <2>1, <3>1, <3>2 DEF JoinInv
  <2>4. QED
    BY <2>2, <2>3 DEF JoinInv
<1>11. CASE ~(Deliver(j, i, v).remaining > 0)
  <2>1. DOMAIN joins' = DOMAIN joins \ {j} /\ \A k \in DOMAIN joins' : joins'[k] = joins[k]
    BY <1>3, <1>11 DEF Without
  <2>2. ItemsOf(j)' = {}
    <3>1. Cardinality(ItemsOf(j)') = 0
      BY <1>2, <1>4, <1>8, <1>9, <1>11
    <3>2. QED
      BY <1>8, <3>1, FS_EmptySet
  <2>3. \A t \in Live' \ {Root} : tasks'[t].join \in DOMAIN joins' /\ joins'[tasks'[t].join].waiter < t
    <3>1. \A t \in Live' \ {Root} : tasks'[t].join # j
      <4>1. ItemsOf(j)' = {t \in Live' : t # Root /\ tasks'[t].join = j}
        BY DEF ItemsOf
      <4>2. QED
        BY <2>2, <4>1
    <3>2. QED
      BY <1>2, <1>5, <2>1, <3>1 DEF JoinInv
  <2>4. \A k \in DOMAIN joins' : /\ k < nextJoin' /\ joins'[k].remaining > 0
                                /\ joins'[k].remaining = Cardinality(ItemsOf(k)')
    BY <1>2, <1>5, <1>7, <2>1 DEF JoinInv
  <2>5. QED
    BY <2>3, <2>4 DEF JoinInv
<1>12. QED
  BY <1>10, <1>11

(* Every step keeps JoinInv.                                                 *)
LEMMA JoinStep ==
  ASSUME LimitsPositive, IInv, [Next]_vars
  PROVE  JoinInv'
<1> SUFFICES ASSUME end' = "none"  PROVE JoinInv'
  BY DEF JoinInv
<1>0. end = "none" /\ JoinInv
  BY Goes DEF IInv
<1>1. CASE UNCHANGED script \/ Note \/ AgentCall \/ RecvDone
  BY <1>0, <1>1, JoinSame DEF script, Note, AgentCall, RecvDone
<1>2. CASE Items
  <2>1. PICK n \in 0..MaxItems : nextTask + n <= MaxTasks + 1 /\ Spawn(n)
    BY <1>2 DEF Items
  <2>2. Slice /\ ready # <<>> /\ n \in Nat
    BY <1>2 DEF Items, LimitsPositive
  <2>3. CASE n = 0
    BY <1>0, <2>1, <2>2, <2>3, JoinSame DEF Spawn
  <2>4. CASE n # 0
    BY <2>1, <2>2, <2>4, JoinSpawn DEF Spawn
  <2>5. QED
    BY <2>3, <2>4
<1>3. CASE Violation \/ SliceKilled \/ RootEnds
  BY <1>3 DEF Violation, SliceKilled, RootEnds, Finish
<1>4. QED
  BY <1>1, <1>2, <1>3, ScriptFrame, JoinItem
-----------------------------------------------------------------------------
(* The order of results.                                                     *)

InOrder(e) == e.kind = "array" => \E b \in Task : Ordered(e.values, b)
AllInOrder(s) == \A r \in DOMAIN s : InOrder(s[r])
JoinOrder(j) == \E b \in Task :
    /\ Ordered(joins[j].results, b)
    /\ \A t \in ItemsOf(j) : tasks[t].index \in DOMAIN joins[j].results /\ t = b + tasks[t].index

(* OrderInv in terms of these, now and after a step.                         *)
LEMMA OrderParts ==
  /\ OrderInv <=> (end = "none" => \A j \in DOMAIN joins : JoinOrder(j)) /\ AllInOrder(ready)
  /\ OrderInv' <=> (end' = "none" => \A j \in DOMAIN joins' : JoinOrder(j)') /\ AllInOrder(ready')
BY DEF OrderInv, JoinOrder, AllInOrder, InOrder

(* How a queue of steps in order stays one.                                  *)
LEMMA OrderedQueues ==
  ASSUME NEW s \in Seq(Step), AllInOrder(s)
  PROVE  /\ s # <<>> => AllInOrder(Tail(s))
         /\ \A e \in Step : InOrder(e) => AllInOrder(Append(s, e)) /\ AllInOrder(<<e>> \o s)
         /\ \A u \in Seq(Step) : AllInOrder(u) => AllInOrder(s \o u)
<1>1. s # <<>> => AllInOrder(Tail(s))
  BY DEF AllInOrder
<1>2. ASSUME NEW e \in Step, InOrder(e)  PROVE AllInOrder(Append(s, e))
  <2>1. \A r \in DOMAIN Append(s, e) : \/ r \in DOMAIN s /\ Append(s, e)[r] = s[r]
                                       \/ Append(s, e)[r] = e
    OBVIOUS
  <2>2. QED
    BY <1>2, <2>1 DEF AllInOrder
<1>3. ASSUME NEW e \in Step, InOrder(e)  PROVE AllInOrder(<<e>> \o s)
  <2>1. \A r \in DOMAIN (<<e>> \o s) : \/ r - 1 \in DOMAIN s /\ (<<e>> \o s)[r] = s[r - 1]
                                       \/ (<<e>> \o s)[r] = e
    OBVIOUS
  <2>2. QED
    BY <1>3, <2>1 DEF AllInOrder
<1>4. ASSUME NEW u \in Seq(Step), AllInOrder(u)  PROVE AllInOrder(s \o u)
  <2>1. \A r \in DOMAIN (s \o u) : \/ r \in DOMAIN s /\ (s \o u)[r] = s[r]
                                   \/ r - Len(s) \in DOMAIN u /\ (s \o u)[r] = u[r - Len(s)]
    OBVIOUS
  <2>2. QED
    BY <1>4, <2>1 DEF AllInOrder
<1>5. QED
  BY <1>1, <1>2, <1>3, <1>4

(* Joins and items that nothing happened to are as they were.                *)
LEMMA OrderSame ==
  ASSUME OrderInv, end = "none", tasks' = tasks, joins' = joins
  PROVE  \A j \in DOMAIN joins' : JoinOrder(j)'
<1>1. \A j : JoinOrder(j)' <=> JoinOrder(j)
  BY DEF JoinOrder, ItemsOf, Live
<1>2. QED
  BY <1>1, OrderParts

(* New items are numbered from one.                                          *)
LEMMA OrderSpawn ==
  ASSUME LimitsPositive, IInv, Slice, ready # <<>>, NEW n \in Nat, n > 0,
         nextTask + n <= MaxTasks + 1, SpawnItems(n)
  PROVE  AllInOrder(ready') /\ \A j \in DOMAIN joins' : JoinOrder(j)'
<1> DEFINE new == nextTask..(nextTask + n - 1)
           entry == [waiter |-> Current, remaining |-> n, results |-> [i \in 1..n |-> Nil]]
           u == [i \in 1..n |-> Resume(nextTask + i - 1, "go", <<>>)]
<1>1. end = "none" /\ TypeOK /\ TaskInv /\ JoinInv /\ OrderInv
  BY Answers DEF IInv
<1>2. nextTask \in Nat \ {0} /\ (\A t \in Live : t < nextTask) /\ Live \subseteq Nat
  BY <1>1, TaskParts DEF TypeOK, Task
<1>3. /\ joins' = With(joins, nextJoin, entry) /\ Live' = Live \cup new
      /\ \A t \in Live' : tasks'[t] = IF t \in new THEN [join |-> nextJoin, index |-> t - nextTask + 1]
                                      ELSE tasks[t]
      /\ ready' = Tail(ready) \o u
  BY DEF SpawnItems, Live
<1>4. AllInOrder(ready')
  <2>1. u \in Seq(Step)
    BY <1>2, NewItems
  <2>2. AllInOrder(u)
    BY DEF AllInOrder, InOrder, Resume
  <2> HIDE DEF u
  <2>3. AllInOrder(Tail(ready)) /\ Tail(ready) \in Seq(Step)
    BY <1>1, OrderParts, OrderedQueues, Heads DEF TypeOK
  <2>4. QED
    BY <1>3, <2>1, <2>2, <2>3, OrderedQueues
<1>5. nextJoin \notin DOMAIN joins
  BY <1>1 DEF JoinInv, TypeOK
<1>6. PICK m : m = nextJoin
  OBVIOUS
<1>7. DOMAIN joins' = DOMAIN joins \cup {m} /\ joins'[m] = entry
      /\ \A j \in DOMAIN joins : joins'[j] = joins[j] /\ j # m
  <2> HIDE DEF entry
  <2>1. QED
    BY <1>3, <1>5, <1>6 DEF With
<1>8. ASSUME NEW t \in new
      PROVE  tasks'[t].join = m /\ tasks'[t].index = t - nextTask + 1 /\ t \notin Live
  <2>1. t \in Live'
    BY <1>3
  <2>2. tasks'[t] = [join |-> nextJoin, index |-> t - nextTask + 1]
    BY <1>3, <2>1
  <2>3. QED
    BY <1>2, <1>6, <2>2
<1>9. \A k : ItemsOf(k)' = {t \in Live' : t # Root /\ tasks'[t].join = k}
  BY DEF ItemsOf
<1>10. ASSUME NEW j \in DOMAIN joins  PROVE JoinOrder(j)'
  <2>1. PICK b \in Task :
           /\ Ordered(joins[j].results, b)
           /\ \A t \in ItemsOf(j) : tasks[t].index \in DOMAIN joins[j].results /\ t = b + tasks[t].index
    BY <1>1, OrderParts DEF JoinOrder
  <2>2. \A t \in ItemsOf(j)' : t \in ItemsOf(j) /\ tasks'[t] = tasks[t]
    <3> HIDE DEF new
    <3>1. QED
      BY <1>3, <1>7, <1>8, <1>9 DEF ItemsOf
  <2>3. QED
    BY <1>7, <2>1, <2>2 DEF JoinOrder
<1>11. JoinOrder(m)'
  <2>1. nextTask - 1 \in Task
    BY <1>2 DEF Task, LimitsPositive
  <2>2. joins'[m].results = [i \in 1..n |-> Nil]
    BY <1>7
  <2>3. Ordered(joins'[m].results, nextTask - 1)
    BY <2>2 DEF Ordered
  <2>4. ASSUME NEW t \in ItemsOf(m)'  PROVE t \in new
    <3>1. \A x \in Live \ {Root} : tasks[x].join # m
      BY <1>1, <1>5, <1>6 DEF JoinInv
    <3> HIDE DEF new
    <3>2. QED
      BY <1>3, <1>8, <1>9, <3>1
  <2>5. ASSUME NEW t \in ItemsOf(m)'
        PROVE  tasks'[t].index \in DOMAIN joins'[m].results /\ t = (nextTask - 1) + tasks'[t].index
    <3>1. t \in new
      BY <2>4
    <3>2. tasks'[t].index = t - nextTask + 1 /\ t - nextTask + 1 \in 1..n
      BY <1>2, <1>8, <3>1
    <3>3. QED
      BY <1>2, <2>2, <3>1, <3>2
  <2>6. PICK b \in Task : b = nextTask - 1
    BY <2>1
  <2>7. QED
    BY <2>3, <2>5, <2>6 DEF JoinOrder
<1>12. QED
  BY <1>4, <1>7, <1>10, <1>11

(* An item's result goes to its place; the array a join ends with is in      *)
(* order.                                                                    *)
LEMMA OrderItem ==
  ASSUME IInv, ItemEnds
  PROVE  AllInOrder(ready') /\ \A j \in DOMAIN joins' : JoinOrder(j)'
<1>1. Slice /\ ready # <<>> /\ Current # Root
  BY DEF ItemEnds
<1>0. PICK j, i, c : j = tasks[Current].join /\ i = tasks[Current].index /\ c = Current
  OBVIOUS
<1>2. /\ end = "none" /\ TypeOK /\ OrderInv /\ c \in Live
      /\ j \in DOMAIN joins /\ c \in ItemsOf(j)
  BY <1>0, <1>1, Answers DEF IInv
<1>3. PICK v \in {Nil, c} :
         IF Deliver(j, i, v).remaining > 0
         THEN joins' = [joins EXCEPT ![j] = Deliver(j, i, v)] /\ ready' = Tail(ready)
         ELSE /\ joins' = Without(joins, j)
              /\ ready' = Append(Tail(ready), Resume(Deliver(j, i, v).waiter, "array",
                                                     Deliver(j, i, v).results))
  BY <1>0 DEF ItemEnds
<1>4. PICK d : d = Deliver(j, i, v)
  OBVIOUS
<1>5. /\ d \in Join /\ DOMAIN d.results = DOMAIN joins[j].results
      /\ \A k \in DOMAIN d.results : d.results[k] = IF k = i THEN v ELSE joins[j].results[k]
  BY <1>0, <1>1, <1>4, Delivered
<1>6. Live' = Live \ {c} /\ \A t \in Live' : tasks'[t] = tasks[t]
  BY <1>0 DEF ItemEnds, Without, Live
<1>7. PICK b \in Task :
         /\ Ordered(joins[j].results, b)
         /\ \A t \in ItemsOf(j) : tasks[t].index \in DOMAIN joins[j].results /\ t = b + tasks[t].index
  BY <1>2, OrderParts DEF JoinOrder
<1>8. c = b + i
  BY <1>0, <1>2, <1>7
<1>9. Ordered(d.results, b)
  BY <1>3, <1>5, <1>7, <1>8 DEF Ordered
<1>10. AllInOrder(Tail(ready)) /\ Tail(ready) \in Seq(Step)
  BY <1>1, <1>2, OrderParts, OrderedQueues, Heads DEF TypeOK
<1>11. AllInOrder(ready')
  <2> DEFINE e == Resume(d.waiter, "array", d.results)
  <2>1. e \in Step
    BY <1>5 DEF Resume, Step, Join
  <2>2. InOrder(e)
    BY <1>9 DEF InOrder, Resume
  <2>3. ready' = Tail(ready) \/ ready' = Append(Tail(ready), e)
    BY <1>3, <1>4
  <2> HIDE DEF e
  <2>4. QED
    BY <1>10, <2>1, <2>2, <2>3, OrderedQueues
<1>12. ASSUME NEW k \in DOMAIN joins'  PROVE JoinOrder(k)'
  <2>1. k \in DOMAIN joins /\ (k # j => joins'[k] = joins[k]) /\ (k = j => joins'[k] = d)
    BY <1>2, <1>3, <1>4 DEF Without
  <2>2. ItemsOf(k)' = {t \in Live' : t # Root /\ tasks'[t].join = k}
    BY DEF ItemsOf
  <2>3. \A t \in ItemsOf(k)' : t \in ItemsOf(k) /\ tasks'[t] = tasks[t]
    BY <1>6, <2>2 DEF ItemsOf
  <2>4. CASE k = j
    BY <1>5, <1>7, <1>9, <2>1, <2>3, <2>4 DEF JoinOrder
  <2>5. CASE k # j
    <3>1. PICK b2 \in Task :
             /\ Ordered(joins[k].results, b2)
             /\ \A t \in ItemsOf(k) : /\ tasks[t].index \in DOMAIN joins[k].results
                                      /\ t = b2 + tasks[t].index
      BY <1>2, <2>1, OrderParts DEF JoinOrder
    <3>2. QED
      BY <2>1, <2>3, <2>5, <3>1 DEF JoinOrder
  <2>6. QED
    BY <2>4, <2>5
<1>13. QED
  BY <1>11, <1>12

(* Every step keeps OrderInv.                                                *)
LEMMA OrderStep ==
  ASSUME LimitsPositive, IInv, [Next]_vars
  PROVE  OrderInv'
<1>0. OrderInv /\ AllInOrder(ready) /\ ready \in Seq(Step) /\ TypeOK
  BY OrderParts DEF IInv, TypeOK
<1>1. CASE UNCHANGED script
  <2>1. end' = "none" => \A j \in DOMAIN joins' : JoinOrder(j)'
    BY <1>0, <1>1, OrderSame, Goes DEF script
  <2>2. QED
    BY <1>0, <1>1, <2>1, OrderParts DEF script
<1>2. CASE Note \/ AgentCall \/ Violation \/ SliceKilled
  <2>1. /\ tasks' = tasks /\ joins' = joins /\ ready # <<>>
        /\ ready' = Tail(ready) \/ ready' = <<Resume(Current, "go", <<>>)>> \o Tail(ready)
    BY <1>2 DEF Note, AgentCall, Violation, SliceKilled
  <2>2. Resume(Current, "go", <<>>) \in Step /\ InOrder(Resume(Current, "go", <<>>))
    BY <1>0, <2>1, Heads DEF Step, Resume, InOrder
  <2>3. AllInOrder(Tail(ready)) /\ Tail(ready) \in Seq(Step)
    BY <1>0, <2>1, OrderedQueues, Heads
  <2>4. AllInOrder(ready')
    <3> DEFINE e == Resume(Current, "go", <<>>)
    <3>1. e \in Step /\ InOrder(e) /\ (ready' = Tail(ready) \/ ready' = <<e>> \o Tail(ready))
      BY <2>1, <2>2
    <3> HIDE DEF e
    <3>2. QED
      BY <2>3, <3>1, OrderedQueues
  <2>5. end' = "none" => \A j \in DOMAIN joins' : JoinOrder(j)'
    BY <1>0, <2>1, OrderSame, Goes
  <2>6. QED
    BY <2>4, <2>5, OrderParts
<1>3. CASE Items
  <2>1. PICK n \in 0..MaxItems : nextTask + n <= MaxTasks + 1 /\ Spawn(n)
    BY <1>3 DEF Items
  <2>2. Slice /\ ready # <<>> /\ n \in Nat
    BY <1>3 DEF Items, LimitsPositive
  <2>3. CASE n = 0
    <3> DEFINE e == Resume(Current, "array", <<>>)
    <3>1. e \in Step /\ ready' = Append(Tail(ready), e) /\ tasks' = tasks /\ joins' = joins
      BY <1>0, <2>1, <2>2, <2>3, Heads DEF Step, Resume, Spawn
    <3>2. InOrder(e)
      <4>1. Root \in Task /\ Ordered(<<>>, Root)
        BY DEF Root, Task, Ordered, LimitsPositive
      <4>2. QED
        BY <4>1 DEF InOrder, Resume
    <3> HIDE DEF e
    <3>3. AllInOrder(Tail(ready)) /\ Tail(ready) \in Seq(Step)
      BY <1>0, <2>2, OrderedQueues, Heads
    <3>4. AllInOrder(ready')
      BY <3>1, <3>2, <3>3, OrderedQueues
    <3>5. end' = "none" => \A j \in DOMAIN joins' : JoinOrder(j)'
      BY <1>0, <3>1, OrderSame, Goes
    <3>6. QED
      BY <3>4, <3>5, OrderParts
  <2>4. CASE n # 0
    BY <2>1, <2>2, <2>4, OrderSpawn, OrderParts DEF Spawn
  <2>5. QED
    BY <2>3, <2>4
<1>4. CASE RootEnds
  <2>1. end' # "none" /\ ready' = Tail(ready) /\ ready # <<>>
    BY <1>4 DEF RootEnds, Finish
  <2>2. QED
    BY <1>0, <2>1, OrderedQueues, OrderParts
<1>5. CASE ItemEnds
  BY <1>5, OrderItem, OrderParts
<1>6. CASE RecvDone
  <2> DEFINE seq == Head(channel).seq
             e == Resume(waiting[seq], "child", <<IF Head(channel).outcome = "completed" THEN seq ELSE Nil>>)
  <2>1. waiting[seq] \in Task /\ seq \in Nat /\ Nil \in Nat
    BY <1>6, Reported DEF RecvDone, Agent, Nil
  <2>2. <<IF Head(channel).outcome = "completed" THEN seq ELSE Nil>> \in Seq(Nat)
    BY <2>1
  <2>3. e \in Step /\ InOrder(e)
    BY <2>1, <2>2 DEF Step, Resume, InOrder
  <2>4. tasks' = tasks /\ joins' = joins /\ (ready' = ready \/ ready' = Append(ready, e))
    BY <1>6 DEF RecvDone, Settle
  <2> HIDE DEF e
  <2>5. AllInOrder(ready')
    BY <1>0, <2>3, <2>4, OrderedQueues
  <2>6. end' = "none" => \A j \in DOMAIN joins' : JoinOrder(j)'
    BY <1>0, <2>4, OrderSame, Goes
  <2>7. QED
    BY <2>5, <2>6, OrderParts
<1>7. QED
  BY <1>1, <1>2, <1>3, <1>4, <1>5, <1>6, ScriptFrame
-----------------------------------------------------------------------------
(* The loop never waits for nothing.                                         *)

(* Some live task is the youngest.                                           *)
LEMMA Youngest ==
  ASSUME LimitsPositive, TypeOK, NEW T, T \subseteq Live, T # {}
  PROVE  \E t \in T : \A x \in T : x <= t
<1> DEFINE D == {MaxTasks - t : t \in T}
<1>1. T \subseteq 0..MaxTasks /\ MaxTasks \in Nat
  BY DEF LimitsPositive, TypeOK, Task
<1>2. D \subseteq Nat /\ D # {}
  <2>1. \A t \in T : MaxTasks - t \in Nat
    BY <1>1
  <2>2. QED
    BY <2>1
<1>3. PICK d \in D : \A y \in D : d <= y
  <2> HIDE DEF D
  <2>1. QED
    BY <1>2, LeastNat
<1>4. PICK t \in T : d = MaxTasks - t
  BY <1>3
<1>5. \A x \in T : MaxTasks - t <= MaxTasks - x
  BY <1>3, <1>4
<1>6. QED
  BY <1>1, <1>5

(* Agents in flight are finitely many.                                       *)
LEMMA FlightFinite ==
  ASSUME LimitsPositive, TypeOK
  PROVE  IsFiniteSet(InFlight) /\ Cardinality(InFlight) \in Nat
<1>1. IsFiniteSet(Agent)
  BY FS_Interval DEF Agent, LimitsPositive
<1>2. InFlight \subseteq Agent
  BY DEF InFlight, TypeOK
<1>3. QED
  BY <1>1, <1>2, FS_Subset, FS_CardinalityType

(* When the loop is about to block, somebody is in flight: else every live   *)
(* task would wait for a join, the youngest one for a younger item.          *)
LEMMA NotStalled ==
  ASSUME LimitsPositive, IInv, Block
  PROVE  inFlight > 0
<1> SUFFICES ASSUME inFlight = 0  PROVE FALSE
  BY DEF IInv, TypeOK
<1>1. end = "none" /\ ready = <<>> /\ TypeOK /\ TaskInv /\ JoinInv
  BY DEF Block, Admitting, IInv, LoopInv
<1>2. queue = <<>>
  BY DEF Block, LimitsPositive
<1>3. Queued = {}
  BY <1>2 DEF Queued
<1>4. InFlight = {}
  BY <1>1, FlightFinite, FS_EmptySet DEF IInv, AgentInv
<1>5. Awaited = {}
  BY <1>3, <1>4 DEF InFlight, Awaited
<1>6. Readied = {}
  BY <1>1 DEF Readied
<1>7. Root \in Live /\ Live = Waiters
  BY <1>1, <1>5, <1>6, TaskParts
<1>8. PICK t \in Live : \A x \in Live : x <= t
  BY <1>1, <1>7, Youngest
<1>9. PICK j \in DOMAIN joins : joins[j].waiter = t
  BY <1>7 DEF Waiters
<1>10. Cardinality(ItemsOf(j)) > 0
  BY <1>1 DEF JoinInv
<1>11. ItemsOf(j) # {}
  BY <1>10, FS_EmptySet
<1>12. PICK x \in Live \ {Root} : tasks[x].join = j
  BY <1>11 DEF ItemsOf
<1>13. t < x /\ x <= t /\ x \in Nat /\ t \in Nat
  BY <1>1, <1>8, <1>9, <1>12 DEF JoinInv, TypeOK, Task
<1>14. QED
  BY <1>13

(* Every step keeps LoopInv.                                                 *)
LEMMA LoopInvStep ==
  ASSUME LimitsPositive, IInv, [Next]_vars
  PROVE  LoopInv'
<1>0. LoopInv /\ TypeOK
  BY DEF IInv
<1>1. CASE UNCHANGED <<at, end, ready, inFlight, disposed>>
  BY <1>0, <1>1 DEF LoopInv
<1>2. CASE EnterCall \/ Note \/ AgentCall \/ Items \/ Violation \/ SliceKilled \/ RootEnds \/ ItemEnds
  <2>1. at \in {"top", "call"} /\ disposed' = disposed /\ end = "none"
    BY <1>0, <1>2 DEF EnterCall, Note, AgentCall, Items, Violation, SliceKilled, RootEnds, ItemEnds,
                      Slice, tokens, LoopInv
  <2>2. \/ at' \in {"top", "call"} /\ end' = end
        \/ at' = "dispose" /\ end' \in {"value", "error", "cancelled"}
    BY <1>2 DEF EnterCall, Note, AgentCall, Items, Violation, SliceKilled, RootEnds, ItemEnds, Finish
  <2>3. QED
    BY <1>0, <2>1, <2>2 DEF LoopInv
<1>3. CASE DriveCancelled \/ RecvCancel \/ RecvStarted \/ RecvDone \/ RecvTooLarge
  <2>1. at \in {"top", "recv"} /\ disposed' = disposed /\ end = "none"
    BY <1>0, <1>3 DEF DriveCancelled, RecvCancel, RecvStarted, RecvDone, RecvTooLarge, tokens, LoopInv
  <2>2. \/ at' = "top" /\ end' = end
        \/ at' = "dispose" /\ end' \in {"error", "cancelled"}
    BY <1>3 DEF DriveCancelled, RecvCancel, RecvStarted, RecvDone, RecvTooLarge, Finish, Settle
  <2>3. QED
    BY <1>0, <2>1, <2>2 DEF LoopInv
<1>4. CASE Admit
  BY <1>0, <1>4 DEF LoopInv, Admit, Admitting, script, tokens
<1>5. CASE Block
  BY <1>0, <1>5, NotStalled DEF LoopInv, Block, Admitting, Finish, script, tokens, agents
<1>6. CASE DisposeStep
  BY <1>0, <1>6 DEF LoopInv, DisposeStep, Dispose, DisposeStarted, DisposeDone, DisposeCancel, Return,
                    script, tokens
<1>7. CASE Watch \/ HostStep \/ Cancel \/ BodyDropped
  BY <1>1, <1>7 DEF Watch, HostStep, HostJoins, HostStuck, Cancel, BodyDropped, script, agents, tokens
<1>8. CASE \E a \in Agent : ChildStep(a)
  BY <1>1, <1>8 DEF ChildStep, ChildLooks, ChildRefused, ChildStarts, ChildEnds, script, agents, tokens
<1>9. CASE UNCHANGED vars
  BY <1>1, <1>9 DEF vars, script, agents, tokens
<1>10. QED
  BY <1>2, <1>3, <1>4, <1>5, <1>6, <1>7, <1>8, <1>9 DEF Next, ScriptStep, LoopStep
-----------------------------------------------------------------------------
(* Agents: the queue, the cap.                                               *)

(* Who waits and who is queued did not change.                               *)
LEMMA AgentSame ==
  ASSUME AgentInv, UNCHANGED agents, UNCHANGED disposed,
         end' = "value" => DOMAIN waiting = {},
         \A a \in Agent : child'[a] = "none" <=> child[a] = "none"
  PROVE  AgentInv'
<1>1. /\ waiting' = waiting /\ queue' = queue /\ inFlight' = inFlight /\ started' = started
      /\ Queued' = Queued /\ InFlight' = InFlight
  BY DEF agents, Queued, InFlight
<1>2. QED
  BY <1>1 DEF AgentInv

(* A run that completes has nobody else: another live task would answer to a *)
(* join, the oldest one to a join of the root's, which waits for none.       *)
LEMMA NobodyElse ==
  ASSUME LimitsPositive, IInv, RootEnds
  PROVE  DOMAIN waiting = {}
<1>1. Slice /\ ready # <<>> /\ Current = Root
  BY DEF RootEnds
<1>2. end = "none" /\ TypeOK /\ TaskInv /\ JoinInv
  BY <1>1, Answers DEF IInv
<1>3. Root \notin Waiters /\ Root \notin Awaited
  BY <1>1, Popped
<1>4. Live = {Root}
  <2> SUFFICES ASSUME Live \ {Root} # {}  PROVE FALSE
    BY <1>2, TaskParts
  <2>1. Live \ {Root} \subseteq Nat
    BY <1>2 DEF TypeOK, Task
  <2>2. PICK t \in Live \ {Root} : \A x \in Live \ {Root} : t <= x
    BY <2>1, LeastNat
  <2>3. PICK j \in DOMAIN joins : joins[j].waiter < t
    BY <1>2 DEF JoinInv
  <2>4. joins[j].waiter \in Waiters
    BY DEF Waiters
  <2>5. joins[j].waiter \in Live \ {Root}
    BY <1>2, <1>3, <2>4, TaskParts
  <2>6. QED
    BY <2>1, <2>2, <2>3, <2>5
<1>5. Awaited = {}
  BY <1>2, <1>3, <1>4, TaskParts
<1>6. QED
  BY <1>5 DEF Awaited

(* The next agent goes to the end of the queue.                              *)
LEMMA AgentCalled ==
  ASSUME LimitsPositive, IInv, AgentCall
  PROVE  AgentInv'
<1> DEFINE s == started + 1
<1>1. /\ waiting' = With(waiting, s, Current) /\ queue' = Append(queue, s) /\ started' = s
      /\ inFlight' = inFlight /\ child' = child /\ end' = end /\ disposed' = disposed
  BY DEF AgentCall, tokens
<1>2. AgentInv /\ TypeOK /\ ~disposed /\ end = "none"
  BY DEF IInv, AgentCall, Slice, LoopInv
<1>3. started \in Nat /\ queue \in Seq(Agent) /\ Len(queue) \in Nat /\ DOMAIN queue = 1..Len(queue)
  BY <1>2 DEF TypeOK
<1>4. DOMAIN waiting' = DOMAIN waiting \cup {s} /\ s \notin DOMAIN waiting /\ s \notin Queued
  BY <1>1, <1>2, <1>3 DEF With, AgentInv
<1>5. /\ DOMAIN queue' = 1..(Len(queue) + 1) /\ Len(queue') = Len(queue) + 1
      /\ queue'[Len(queue) + 1] = s /\ \A i \in DOMAIN queue : queue'[i] = queue[i]
  BY <1>1, <1>3
<1>6. Queued' = Queued \cup {s}
  <2>1. \A x : x \in Queued' <=> \E i \in 1..(Len(queue) + 1) : queue'[i] = x
    BY <1>5 DEF Queued
  <2>2. \A x : x \in Queued <=> \E i \in 1..Len(queue) : queue[i] = x
    BY <1>3 DEF Queued
  <2>3. \A i \in 1..(Len(queue) + 1) : i = Len(queue) + 1 \/ i \in 1..Len(queue)
    BY <1>3
  <2>4. 1..Len(queue) \subseteq 1..(Len(queue) + 1) /\ Len(queue) + 1 \in 1..(Len(queue) + 1)
    BY <1>3
  <2>5. QED
    BY <1>3, <1>5, <2>1, <2>2, <2>3, <2>4
<1>7. InFlight' = InFlight
  BY <1>4, <1>6 DEF InFlight
<1>8. Queued' \subseteq DOMAIN waiting' /\ DOMAIN waiting' \subseteq 1..started' /\ Len(queue') <= started'
  BY <1>1, <1>2, <1>3, <1>4, <1>5, <1>6 DEF AgentInv
<1>9. \A i \in DOMAIN queue' : queue'[i] = started' - Len(queue') + i
  BY <1>1, <1>2, <1>3, <1>5 DEF AgentInv
<1>10. \A a \in Agent : child'[a] # "none" <=> a <= started' - Len(queue')
  <2>1. started' - Len(queue') = started - Len(queue)
    BY <1>1, <1>3, <1>5
  <2>2. QED
    BY <1>1, <1>2, <2>1 DEF AgentInv
<1>11. inFlight' = Cardinality(InFlight') /\ inFlight' <= MaxConcurrent
  BY <1>1, <1>2, <1>7 DEF AgentInv
<1>12. \A a, b \in Agent : a < b /\ child'[b] # "none" => child'[a] # "none"
  BY <1>1, <1>2 DEF AgentInv
<1>13. QED
  BY <1>1, <1>2, <1>8, <1>9, <1>10, <1>11, <1>12 DEF AgentInv

(* What the head of the queue is.                                            *)
LEMMA QueueHead ==
  ASSUME IInv, queue # <<>>
  PROVE  /\ Head(queue) \in Queued /\ Head(queue) \in Agent /\ Head(queue) = started - Len(queue) + 1
         /\ DOMAIN Tail(queue) = 1..(Len(queue) - 1) /\ Len(Tail(queue)) = Len(queue) - 1
         /\ \A i \in 1..(Len(queue) - 1) : Tail(queue)[i] = queue[i + 1]
         /\ {Tail(queue)[i] : i \in DOMAIN Tail(queue)} = Queued \ {Head(queue)}
<1>1. queue \in Seq(Agent) /\ started \in Nat /\ AgentInv
  BY DEF IInv, TypeOK
<1>2. /\ Len(queue) \in Nat \ {0} /\ DOMAIN queue = 1..Len(queue) /\ Head(queue) = queue[1]
      /\ queue[1] \in Agent
      /\ DOMAIN Tail(queue) = 1..(Len(queue) - 1) /\ Len(Tail(queue)) = Len(queue) - 1
      /\ \A i \in 1..(Len(queue) - 1) : Tail(queue)[i] = queue[i + 1]
  BY <1>1
<1>3. 1 \in DOMAIN queue
  BY <1>2
<1>4. Head(queue) \in Queued /\ Head(queue) = started - Len(queue) + 1
  BY <1>1, <1>2, <1>3 DEF Queued, AgentInv
<1>5. ASSUME NEW x \in Queued \ {Head(queue)}
      PROVE  x \in {Tail(queue)[i] : i \in DOMAIN Tail(queue)}
  <2>1. PICK i \in 1..Len(queue) : queue[i] = x
    BY <1>2 DEF Queued
  <2>2. i # 1 /\ i - 1 \in 1..(Len(queue) - 1)
    BY <1>2, <1>5, <2>1
  <2>3. Tail(queue)[i - 1] = x
    BY <1>2, <2>1, <2>2
  <2>4. QED
    BY <1>2, <2>2, <2>3
<1>6. ASSUME NEW i \in DOMAIN Tail(queue)  PROVE Tail(queue)[i] \in Queued \ {Head(queue)}
  <2>1. i + 1 \in DOMAIN queue /\ Tail(queue)[i] = queue[i + 1] /\ i \in Nat \ {0}
    BY <1>2
  <2>2. queue[i + 1] = started - Len(queue) + (i + 1)
    BY <1>1, <2>1 DEF AgentInv
  <2>3. queue[i + 1] # Head(queue)
    BY <1>1, <1>2, <1>4, <2>1, <2>2
  <2>4. QED
    BY <2>1, <2>3 DEF Queued
<1>7. QED
  BY <1>2, <1>4, <1>5, <1>6

(* The head of the queue is in flight, room permitting.                      *)
LEMMA AgentAdmitted ==
  ASSUME LimitsPositive, IInv, Admit
  PROVE  AgentInv'
<1>1. PICK h : h = Head(queue)
  OBVIOUS
<1>2. /\ waiting' = waiting /\ queue' = Tail(queue) /\ started' = started /\ queue # <<>>
      /\ inFlight < MaxConcurrent /\ inFlight' = inFlight + 1 /\ end' = end /\ disposed' = disposed
      /\ child' = [child EXCEPT ![h] = "admitted"]
  BY <1>1 DEF Admit, tokens
<1>3. AgentInv /\ TypeOK /\ ~disposed /\ end = "none"
  BY DEF IInv, Admit, Admitting, LoopInv
<1>4. started \in Nat /\ Len(queue) \in Nat /\ inFlight \in Nat /\ MaxConcurrent \in Nat
      /\ child \in [Agent -> ChildState] /\ h \in Agent /\ Agent \subseteq Nat
      /\ DOMAIN queue = 1..Len(queue) /\ Len(queue) <= started /\ Len(queue) # 0
  BY <1>1, <1>2, <1>3, QueueHead, SMTT(60) DEF TypeOK, ChildState, Agent, LimitsPositive, AgentInv
<1>5. Queued' = Queued \ {h} /\ h \in Queued /\ h \in DOMAIN waiting
  <2>1. Queued' = {Tail(queue)[i] : i \in DOMAIN Tail(queue)}
    BY <1>2 DEF Queued
  <2>2. Queued' = Queued \ {h} /\ h \in Queued
    BY <1>1, <1>2, <2>1, QueueHead
  <2>3. QED
    BY <1>3, <2>2 DEF AgentInv
<1>6. InFlight' = InFlight \cup {h} /\ h \notin InFlight
  BY <1>2, <1>5 DEF InFlight
<1>7. Cardinality(InFlight') = inFlight + 1
  BY <1>3, <1>6, FlightFinite, FS_AddElement DEF AgentInv
<1>8. /\ Queued' \subseteq DOMAIN waiting' /\ DOMAIN waiting' \subseteq 1..started'
      /\ Len(queue') = Len(queue) - 1 /\ Len(queue') <= started'
  BY <1>2, <1>3, <1>4, <1>5, QueueHead DEF AgentInv
<1>9. \A i \in DOMAIN queue' : queue'[i] = started' - Len(queue') + i
  <2>1. ASSUME NEW i \in 1..(Len(queue) - 1)  PROVE queue'[i] = started - (Len(queue) - 1) + i
    <3>1. queue'[i] = queue[i + 1] /\ i + 1 \in DOMAIN queue
      BY <1>2, <1>4, QueueHead
    <3>2. queue[i + 1] = started - Len(queue) + (i + 1)
      BY <1>3, <3>1 DEF AgentInv
    <3>3. QED
      BY <1>4, <3>1, <3>2
  <2>2. DOMAIN queue' = 1..(Len(queue) - 1)
    BY <1>2, QueueHead
  <2>3. QED
    BY <1>2, <1>8, <2>1, <2>2
<1>10. h = started - Len(queue) + 1
  BY <1>1, <1>2, QueueHead
<1>11. \A a \in Agent : child'[a] # "none" <=> a <= started - Len(queue) \/ a = h
  BY <1>2, <1>3, <1>4 DEF AgentInv
<1>12. \A a \in Agent : child'[a] # "none" <=> a <= started' - Len(queue')
  BY <1>2, <1>4, <1>8, <1>10, <1>11
<1>13. \A a, b \in Agent : a < b /\ child'[b] # "none" => child'[a] # "none"
  BY <1>2, <1>4, <1>8, <1>12
<1>14. QED
  BY <1>2, <1>3, <1>4, <1>7, <1>8, <1>9, <1>12, <1>13 DEF AgentInv

(* An agent whose report was taken is no longer waited for, nor in flight.   *)
LEMMA AgentTaken ==
  ASSUME LimitsPositive, IInv, NEW a \in InFlight, waiting' = Without(waiting, a),
         inFlight' = inFlight - 1, queue' = queue, started' = started, disposed' = disposed,
         child' = child, end' = "value" => end = "value"
  PROVE  AgentInv'
<1>1. AgentInv /\ TypeOK
  BY DEF IInv
<1>2. Queued' = Queued /\ DOMAIN waiting' = DOMAIN waiting \ {a} /\ a \notin Queued
  BY DEF Queued, Without, InFlight
<1>3. InFlight' = InFlight \ {a}
  BY <1>2 DEF InFlight
<1>4. Cardinality(InFlight') = Cardinality(InFlight) - 1 /\ Cardinality(InFlight) \in Nat
  BY <1>1, <1>3, FlightFinite, FS_RemoveElement
<1>5. inFlight' = Cardinality(InFlight') /\ inFlight' <= MaxConcurrent
  BY <1>1, <1>4 DEF AgentInv, TypeOK, LimitsPositive
<1>6. Queued' \subseteq DOMAIN waiting' /\ DOMAIN waiting' \subseteq 1..started'
  BY <1>1, <1>2 DEF AgentInv
<1>7. end' = "value" => DOMAIN waiting' = {}
  BY <1>1, <1>2 DEF AgentInv
<1>8. QED
  BY <1>1, <1>5, <1>6, <1>7 DEF AgentInv

(* Those who are queued when the loop disposes never start.                  *)
LEMMA AgentDisposed ==
  ASSUME LimitsPositive, IInv, Dispose
  PROVE  AgentInv'
<1>1. /\ queue' = <<>> /\ inFlight' = inFlight /\ started' = started /\ child' = child /\ end' = end
      /\ waiting' = [a \in DOMAIN waiting \ Queued |-> waiting[a]] /\ disposed'
  BY DEF Dispose
<1>2. AgentInv /\ TypeOK
  BY DEF IInv
<1>3. Queued' = {} /\ DOMAIN waiting' = InFlight /\ InFlight' = InFlight
  BY <1>1 DEF Queued, InFlight
<1>4. InFlight \subseteq DOMAIN waiting /\ Len(queue') = 0 /\ DOMAIN queue' = {} /\ started \in Nat
  BY <1>1, <1>2 DEF InFlight, TypeOK
<1>5. QED
  BY <1>1, <1>2, <1>3, <1>4 DEF AgentInv

(* Every step keeps AgentInv.                                                *)
LEMMA AgentStep ==
  ASSUME LimitsPositive, IInv, [Next]_vars
  PROVE  AgentInv'
<1>0. AgentInv /\ TypeOK /\ LoopInv /\ child \in [Agent -> ChildState]
  BY DEF IInv, TypeOK, ChildState
<1>1. CASE UNCHANGED <<agents, disposed, child>> /\ (end' = "value" => DOMAIN waiting = {})
  BY <1>0, <1>1, AgentSame
<1>2. CASE EnterCall \/ Note \/ Items \/ Violation \/ SliceKilled \/ ItemEnds
  BY <1>0, <1>1, <1>2 DEF EnterCall, Note, Items, Violation, SliceKilled, ItemEnds, Finish, tokens,
                          AgentInv
<1>3. CASE RootEnds
  BY <1>1, <1>3, NobodyElse DEF RootEnds, tokens
<1>4. CASE DriveCancelled \/ Block \/ RecvCancel \/ RecvStarted
  BY <1>0, <1>1, <1>4 DEF DriveCancelled, Block, RecvCancel, RecvStarted, Finish, tokens, AgentInv
<1>5. CASE RecvDone \/ RecvTooLarge \/ DisposeDone
  <2>1. Head(channel).seq \in InFlight
    BY <1>5, Reported DEF RecvDone, RecvTooLarge, DisposeDone
  <2>2. PICK a \in InFlight : a = Head(channel).seq
    BY <2>1
  <2>3. /\ waiting' = Without(waiting, a) /\ inFlight' = inFlight - 1 /\ queue' = queue
        /\ started' = started /\ disposed' = disposed /\ child' = child
        /\ end' = "value" => end = "value"
    BY <1>5, <2>2 DEF RecvDone, RecvTooLarge, DisposeDone, Settle, Finish, tokens
  <2>4. QED
    BY <2>3, AgentTaken
<1>6. CASE DisposeStarted \/ DisposeCancel \/ Return
  BY <1>0, <1>1, <1>6 DEF DisposeStarted, DisposeCancel, Return, tokens, AgentInv
<1>7. CASE Watch \/ HostStep \/ Cancel \/ BodyDropped \/ UNCHANGED vars
  BY <1>0, <1>1, <1>7 DEF Watch, HostStep, HostJoins, HostStuck, Cancel, BodyDropped, tokens, AgentInv, vars
<1>8. ASSUME NEW a \in Agent, ChildStep(a)  PROVE AgentInv'
  <2>1. UNCHANGED agents /\ UNCHANGED disposed /\ end' = end
    BY <1>8 DEF ChildStep, ChildLooks, ChildRefused, ChildStarts, ChildEnds, tokens
  <2>2. child[a] # "none" /\ \E s \in ChildState \ {"none"} : child' = [child EXCEPT ![a] = s]
    BY <1>8 DEF ChildStep, ChildLooks, ChildRefused, ChildStarts, ChildEnds, ChildState
  <2>3. \A b \in Agent : child'[b] = "none" <=> child[b] = "none"
    BY <1>0, <2>2
  <2>4. QED
    BY <1>0, <2>1, <2>3, AgentSame DEF AgentInv
<1>9. QED
  BY <1>2, <1>3, <1>4, <1>5, <1>6, <1>7, <1>8, AgentCalled, AgentAdmitted, AgentDisposed
     DEF Next, ScriptStep, LoopStep, DisposeStep
-----------------------------------------------------------------------------
(* Agents: who reports, and what the card says.                              *)

ChanInv ==
    /\ Busy \subseteq InFlight
    /\ \A a \in InFlight :
          a \in Busy \/ \E i \in DOMAIN channel : channel[i].kind = "done" /\ channel[i].seq = a
    /\ \A i \in DOMAIN channel : channel[i].kind = "done" =>
          /\ channel[i].seq \in InFlight /\ child[channel[i].seq] = "done"
          /\ \A k \in DOMAIN channel :
                k > i /\ channel[k].kind # "cancel" => channel[k].seq # channel[i].seq
    /\ \A i \in DOMAIN channel : channel[i].kind = "started" =>
          /\ channel[i].seq \in InFlight /\ child[channel[i].seq] \in {"running", "done"}
RowInv ==
    end # "error" => \A a \in Agent : member[a] \in {"queued", "running"} => a \in DOMAIN waiting

(* Two halves.                                                               *)
LEMMA ReportParts ==
  (ReportInv <=> ChanInv /\ RowInv) /\ (ReportInv' <=> ChanInv' /\ RowInv')
BY DEF ReportInv, ChanInv, RowInv

(* Nothing was said and nobody went anywhere.                                *)
LEMMA ChanSame ==
  ASSUME ChanInv, channel' = channel, child' = child, InFlight' = InFlight
  PROVE  ChanInv'
BY DEF ChanInv, Busy

(* The loop took a message that was no report.                               *)
LEMMA ChanHeard ==
  ASSUME ChanInv, TypeOK, channel # <<>>, channel[1].kind # "done", channel' = Tail(channel),
         child' = child, InFlight' = InFlight
  PROVE  ChanInv'
<1>1. /\ DOMAIN channel = 1..Len(channel) /\ Len(channel) \in Nat \ {0}
      /\ DOMAIN channel' = 1..(Len(channel) - 1)
      /\ \A i \in DOMAIN channel' : channel'[i] = channel[i + 1]
  BY DEF TypeOK
<1>2. Busy' = Busy
  BY DEF Busy
<1>3. \A a \in InFlight :
         a \in Busy \/ \E i \in DOMAIN channel' : channel'[i].kind = "done" /\ channel'[i].seq = a
  <2> SUFFICES ASSUME NEW a \in InFlight, a \notin Busy
               PROVE  \E i \in DOMAIN channel' : channel'[i].kind = "done" /\ channel'[i].seq = a
    OBVIOUS
  <2>1. PICK i \in DOMAIN channel : channel[i].kind = "done" /\ channel[i].seq = a
    BY DEF ChanInv
  <2>2. i # 1 /\ i - 1 \in DOMAIN channel'
    BY <1>1, <2>1
  <2>3. channel'[i - 1] = channel[i]
    BY <1>1, <2>2
  <2>4. QED
    BY <2>1, <2>2, <2>3
<1>4. \A i \in DOMAIN channel' : i + 1 \in DOMAIN channel /\ channel'[i] = channel[i + 1]
  BY <1>1
<1>5. ASSUME NEW i \in DOMAIN channel'
      PROVE  /\ channel'[i].kind = "done" =>
                  /\ channel'[i].seq \in InFlight /\ child[channel'[i].seq] = "done"
                  /\ \A k \in DOMAIN channel' :
                        k > i /\ channel'[k].kind # "cancel" => channel'[k].seq # channel'[i].seq
             /\ channel'[i].kind = "started" =>
                  channel'[i].seq \in InFlight /\ child[channel'[i].seq] \in {"running", "done"}
  <2>1. \A k \in DOMAIN channel' : k > i => k + 1 > i + 1
    BY <1>1
  <2>2. QED
    BY <1>4, <2>1 DEF ChanInv
<1>6. QED
  BY <1>2, <1>3, <1>5 DEF ChanInv

(* The loop took a report: nothing else is about that agent.                 *)
LEMMA ChanReport ==
  ASSUME ChanInv, TypeOK, channel # <<>>, channel[1].kind = "done", channel' = Tail(channel),
         child' = child, InFlight' = InFlight \ {channel[1].seq}
  PROVE  ChanInv'
<1>1. /\ DOMAIN channel = 1..Len(channel) /\ Len(channel) \in Nat \ {0}
      /\ DOMAIN channel' = 1..(Len(channel) - 1)
      /\ \A i \in DOMAIN channel' : channel'[i] = channel[i + 1]
  BY DEF TypeOK
<1>2. 1 \in DOMAIN channel
  BY <1>1
<1>3. PICK b : b = channel[1].seq
  OBVIOUS
<1>4. child[b] = "done" /\ \A k \in DOMAIN channel : k > 1 /\ channel[k].kind # "cancel" => channel[k].seq # b
  BY <1>2, <1>3 DEF ChanInv
<1>5. Busy' = Busy /\ b \notin Busy
  BY <1>4 DEF Busy
<1>6. \A a \in InFlight \ {b} :
         a \in Busy \/ \E i \in DOMAIN channel' : channel'[i].kind = "done" /\ channel'[i].seq = a
  <2> SUFFICES ASSUME NEW a \in InFlight \ {b}, a \notin Busy
               PROVE  \E i \in DOMAIN channel' : channel'[i].kind = "done" /\ channel'[i].seq = a
    OBVIOUS
  <2>1. PICK i \in DOMAIN channel : channel[i].kind = "done" /\ channel[i].seq = a
    BY DEF ChanInv
  <2>2. i # 1 /\ i - 1 \in DOMAIN channel'
    BY <1>1, <1>3, <2>1
  <2>3. channel'[i - 1] = channel[i]
    BY <1>1, <2>2
  <2>4. QED
    BY <2>1, <2>2, <2>3
<1>7. \A i \in DOMAIN channel' : i + 1 \in DOMAIN channel /\ channel'[i] = channel[i + 1] /\ i + 1 > 1
  BY <1>1
<1>8. ASSUME NEW i \in DOMAIN channel'
      PROVE  /\ channel'[i].kind = "done" =>
                  /\ channel'[i].seq \in InFlight \ {b} /\ child[channel'[i].seq] = "done"
                  /\ \A k \in DOMAIN channel' :
                        k > i /\ channel'[k].kind # "cancel" => channel'[k].seq # channel'[i].seq
             /\ channel'[i].kind = "started" =>
                  channel'[i].seq \in InFlight \ {b} /\ child[channel'[i].seq] \in {"running", "done"}
  <2>1. \A k \in DOMAIN channel' : k > i => k + 1 > i + 1
    BY <1>1
  <2>2. QED
    BY <1>4, <1>7, <2>1 DEF ChanInv
<1>9. QED
  BY <1>3, <1>5, <1>6, <1>8 DEF ChanInv

(* Something was said: by the watcher, or by a child that had not reported.  *)
LEMMA ChanSaid ==
  ASSUME ChanInv, TypeOK, NEW a, NEW m \in Message, channel' = Append(channel, m),
         InFlight' = InFlight,
         \/ m.kind = "cancel" /\ child' = child
         \/ /\ a \in Busy /\ m.kind = "started" /\ m.seq = a /\ child' = [child EXCEPT ![a] = "running"]
         \/ /\ a \in Busy /\ m.kind = "done" /\ m.seq = a /\ child' = [child EXCEPT ![a] = "done"]
  PROVE  ChanInv'
<1>1. /\ DOMAIN channel = 1..Len(channel) /\ Len(channel) \in Nat
      /\ DOMAIN channel' = 1..(Len(channel) + 1) /\ channel'[Len(channel) + 1] = m
      /\ \A i \in DOMAIN channel : channel'[i] = channel[i]
      /\ child \in [Agent -> ChildState]
  BY DEF TypeOK, ChildState
<1>2. PICK n : n = Len(channel) + 1
  OBVIOUS
<1>3. /\ DOMAIN channel' = DOMAIN channel \cup {n} /\ n \notin DOMAIN channel /\ channel'[n] = m
      /\ \A i \in DOMAIN channel : n > i /\ ~(i > n)
      /\ ~(n > n)
  BY <1>1, <1>2
<1>4. \A i \in DOMAIN channel : channel[i].kind = "done" /\ a \in Busy => channel[i].seq # a
  BY DEF ChanInv, Busy
<1>5. \A b \in Agent : b # a => child'[b] = child[b]
  BY <1>1
<1>6. Busy' \subseteq InFlight
  BY <1>1 DEF ChanInv, Busy
<1>7. ASSUME NEW b \in InFlight
      PROVE  b \in Busy' \/ \E i \in DOMAIN channel' : channel'[i].kind = "done" /\ channel'[i].seq = b
  <2>1. b \in Agent
    BY DEF InFlight, TypeOK
  <2>2. CASE b \in Busy
    <3>1. CASE b # a \/ m.kind = "cancel"
      BY <1>1, <1>5, <2>1, <2>2, <3>1 DEF Busy
    <3>2. CASE b = a /\ m.kind = "started"
      BY <1>1, <2>1, <3>2 DEF Busy
    <3>3. CASE b = a /\ m.kind = "done"
      BY <1>3, <3>3
    <3>4. QED
      BY <3>1, <3>2, <3>3
  <2>3. CASE b \notin Busy
    <3>1. PICK i \in DOMAIN channel : channel[i].kind = "done" /\ channel[i].seq = b
      BY <2>3 DEF ChanInv
    <3>2. QED
      BY <1>1, <1>3, <3>1
  <2>4. QED
    BY <2>2, <2>3
<1>8. ASSUME NEW i \in DOMAIN channel', channel'[i].kind = "done"
      PROVE  /\ channel'[i].seq \in InFlight /\ child'[channel'[i].seq] = "done"
             /\ \A k \in DOMAIN channel' :
                   k > i /\ channel'[k].kind # "cancel" => channel'[k].seq # channel'[i].seq
  <2>1. CASE i = n
    <3>1. m.kind = "done" /\ a \in Busy /\ m.seq = a /\ child'[a] = "done"
      <4>1. m.kind = "done" /\ a \in Busy /\ m.seq = a /\ child' = [child EXCEPT ![a] = "done"]
        BY <1>3, <1>8, <2>1
      <4>2. QED
        BY <1>1, <4>1 DEF Busy
    <3>2. QED
      BY <1>3, <2>1, <3>1 DEF ChanInv
  <2>2. CASE i \in DOMAIN channel
    <3>1. channel'[i] = channel[i] /\ channel[i].seq \in InFlight /\ child[channel[i].seq] = "done"
          /\ \A k \in DOMAIN channel :
                k > i /\ channel[k].kind # "cancel" => channel[k].seq # channel[i].seq
      BY <1>1, <1>8, <2>2 DEF ChanInv
    <3>2. channel[i].seq \in Agent /\ (a \in Busy => channel[i].seq # a)
      BY <1>4, <1>8, <2>2, <3>1 DEF InFlight, TypeOK
    <3>3. child'[channel[i].seq] = "done"
      BY <1>5, <3>1, <3>2
    <3>4. m.kind # "cancel" => m.seq # channel[i].seq
      BY <3>2
    <3>5. QED
      BY <1>1, <1>3, <3>1, <3>3, <3>4
  <2>3. QED
    BY <1>3, <2>1, <2>2
<1>9. ASSUME NEW i \in DOMAIN channel', channel'[i].kind = "started"
      PROVE  channel'[i].seq \in InFlight /\ child'[channel'[i].seq] \in {"running", "done"}
  <2>1. CASE i = n
    <3>1. m.kind = "started" /\ a \in Busy /\ m.seq = a /\ child'[a] = "running"
      <4>1. m.kind = "started" /\ a \in Busy /\ m.seq = a /\ child' = [child EXCEPT ![a] = "running"]
        BY <1>3, <1>9, <2>1
      <4>2. QED
        BY <1>1, <4>1 DEF Busy
    <3>2. QED
      BY <1>3, <2>1, <3>1 DEF ChanInv
  <2>2. CASE i \in DOMAIN channel
    <3>1. channel'[i] = channel[i] /\ channel[i].seq \in InFlight
          /\ child[channel[i].seq] \in {"running", "done"}
      BY <1>1, <1>9, <2>2 DEF ChanInv
    <3>2. channel[i].seq \in Agent
      BY <3>1 DEF InFlight, TypeOK
    <3>3. child'[channel[i].seq] \in {"running", "done"}
      BY <1>1, <3>1, <3>2
    <3>4. QED
      BY <3>1, <3>3
  <2>3. QED
    BY <1>3, <2>1, <2>2
<1>10. QED
  BY <1>6, <1>7, <1>8, <1>9 DEF ChanInv
(* An admitted agent has a child and has said nothing.                       *)
LEMMA ChanAdmit ==
  ASSUME IInv, Admit
  PROVE  ChanInv'
<1>0. ChanInv /\ TypeOK /\ child \in [Agent -> ChildState] /\ AgentInv
  BY ReportParts DEF IInv, TypeOK, ChildState
<1>1. PICK h : h = Head(queue)
  OBVIOUS
<1>2. /\ waiting' = waiting /\ queue' = Tail(queue) /\ queue # <<>> /\ channel' = channel
      /\ child' = [child EXCEPT ![h] = "admitted"]
  BY <1>1 DEF Admit
<1>3. h \in Queued /\ h \in Agent /\ Queued' = Queued \ {h}
  <2>1. Queued' = {Tail(queue)[i] : i \in DOMAIN Tail(queue)}
    BY <1>2 DEF Queued
  <2>2. QED
    BY <1>1, <1>2, <2>1, QueueHead
<1>4. InFlight' = InFlight \cup {h} /\ h \notin InFlight
  BY <1>0, <1>2, <1>3 DEF InFlight, AgentInv
<1>5. child'[h] = "admitted" /\ \A b \in Agent : b # h => child'[b] = child[b]
  BY <1>0, <1>2, <1>3
<1>6. Busy' = Busy \cup {h}
  BY <1>3, <1>5 DEF Busy
<1>7. \A b \in InFlight : b # h /\ child'[b] = child[b]
  BY <1>0, <1>4, <1>5 DEF InFlight, TypeOK
<1>8. QED
  BY <1>0, <1>2, <1>4, <1>6, <1>7 DEF ChanInv

(* Every step keeps who reports.                                             *)
LEMMA ChanStep ==
  ASSUME LimitsPositive, IInv, [Next]_vars
  PROVE  ChanInv'
<1>0. ChanInv /\ TypeOK /\ AgentInv
  BY ReportParts DEF IInv
<1>1. CASE UNCHANGED <<agents, channel, child>>
  BY <1>0, <1>1, ChanSame DEF agents, InFlight, Queued
<1>2. CASE EnterCall \/ Note \/ Items \/ Violation \/ SliceKilled \/ RootEnds \/ ItemEnds
  BY <1>1, <1>2 DEF EnterCall, Note, Items, Violation, SliceKilled, RootEnds, ItemEnds
<1>3. CASE AgentCall
  <2>1. channel' = channel /\ child' = child
    BY <1>3 DEF AgentCall
  <2>2. InFlight' = InFlight
    <3>1. PICK s : s = started + 1
      OBVIOUS
    <3>2. waiting' = With(waiting, s, Current) /\ queue' = Append(queue, s)
      BY <1>3, <3>1 DEF AgentCall
    <3>3. s \notin DOMAIN waiting
      BY <1>0, <3>1 DEF AgentInv, TypeOK
    <3>4. Queued' = Queued \cup {s}
      <4>1. queue \in Seq(Agent) /\ Len(queue) \in Nat /\ DOMAIN queue = 1..Len(queue)
        BY <1>0 DEF TypeOK
      <4>2. /\ DOMAIN queue' = 1..(Len(queue) + 1) /\ queue'[Len(queue) + 1] = s
            /\ \A i \in DOMAIN queue : queue'[i] = queue[i]
        BY <3>2, <4>1
      <4>3. PICK n : n = Len(queue) + 1
        OBVIOUS
      <4>4. DOMAIN queue' = DOMAIN queue \cup {n} /\ queue'[n] = s
        BY <4>1, <4>2, <4>3
      <4>5. QED
        BY <4>2, <4>4 DEF Queued
    <3>5. QED
      BY <3>2, <3>3, <3>4 DEF InFlight, With
  <2>3. QED
    BY <1>0, <2>1, <2>2, ChanSame
<1>4. CASE DriveCancelled \/ Block \/ Return
  BY <1>1, <1>4 DEF DriveCancelled, Block, Return
<1>5. CASE RecvCancel \/ RecvStarted \/ DisposeStarted \/ DisposeCancel
  <2>1. /\ channel # <<>> /\ channel[1].kind # "done" /\ channel' = Tail(channel) /\ child' = child
    BY <1>0, <1>5, Heads DEF RecvCancel, RecvStarted, DisposeStarted, DisposeCancel
  <2>2. InFlight' = InFlight
    BY <1>5 DEF RecvCancel, RecvStarted, DisposeStarted, DisposeCancel, agents, InFlight, Queued
  <2>3. QED
    BY <1>0, <2>1, <2>2, ChanHeard
<1>6. CASE RecvDone \/ RecvTooLarge \/ DisposeDone
  <2>1. /\ channel # <<>> /\ channel[1].kind = "done" /\ channel' = Tail(channel) /\ child' = child
        /\ Head(channel) = channel[1]
    BY <1>0, <1>6, Heads DEF RecvDone, RecvTooLarge, DisposeDone
  <2>2. waiting' = Without(waiting, channel[1].seq) /\ queue' = queue
    BY <1>6, <2>1 DEF RecvDone, RecvTooLarge, DisposeDone, Settle
  <2>3. InFlight' = InFlight \ {channel[1].seq}
    BY <2>2 DEF InFlight, Queued, Without
  <2>4. QED
    BY <1>0, <2>1, <2>3, ChanReport
<1>7. CASE Dispose
  <2>1. channel' = channel /\ child' = child
    BY <1>7 DEF Dispose
  <2>2. InFlight' = InFlight
    BY <1>7 DEF Dispose, InFlight, Queued
  <2>3. QED
    BY <1>0, <2>1, <2>2, ChanSame
<1>8. CASE Watch
  <2>1. channel' = Append(channel, [kind |-> "cancel"]) /\ child' = child /\ InFlight' = InFlight
    BY <1>8 DEF Watch, agents, InFlight, Queued
  <2>2. [kind |-> "cancel"] \in Message
    BY Messages
  <2>3. PICK m \in Message : m = [kind |-> "cancel"]
    BY <2>2
  <2>4. channel' = Append(channel, m) /\ m.kind = "cancel"
    BY <2>1, <2>3
  <2>5. QED
    BY <1>0, <2>1, <2>4, ChanSaid
<1>9. CASE HostStep \/ Cancel \/ BodyDropped \/ UNCHANGED vars
  BY <1>1, <1>9 DEF HostStep, HostJoins, HostStuck, Cancel, BodyDropped, vars
<1>10. ASSUME NEW a \in Agent, ChildStep(a)  PROVE ChanInv'
  <2>1. InFlight' = InFlight
    BY <1>10 DEF ChildStep, ChildLooks, ChildRefused, ChildStarts, ChildEnds, agents, InFlight, Queued
  <2>2. CASE \E m \in Message :
               /\ channel' = Append(channel, m) /\ a \in Busy /\ m.seq = a
               /\ \/ m.kind = "started" /\ child' = [child EXCEPT ![a] = "running"]
                  \/ m.kind = "done" /\ child' = [child EXCEPT ![a] = "done"]
    BY <1>0, <2>1, <2>2, ChanSaid
  <2>3. CASE ChildLooks(a) /\ ~Told
    <3>1. channel' = channel /\ child[a] = "admitted" /\ child' = [child EXCEPT ![a] = "starting"]
      BY <2>3 DEF ChildLooks
    <3>2. child'[a] = "starting" /\ \A b \in Agent : b # a => child'[b] = child[b]
      BY <1>0, <3>1 DEF TypeOK
    <3>3. Busy' = Busy
      BY <3>1, <3>2 DEF Busy
    <3>4. \A b \in InFlight : b \in Agent
      BY <1>0 DEF InFlight, TypeOK
    <3>5. \A b \in InFlight : child[b] \in {"running", "done"} => child'[b] = child[b]
      BY <3>1, <3>2, <3>4
    <3>6. QED
      BY <1>0, <2>1, <3>1, <3>3, <3>5 DEF ChanInv
  <2>4. CASE (ChildLooks(a) /\ Told) \/ ChildRefused(a) \/ ChildEnds(a)
    <3>1. a \in Busy /\ child' = [child EXCEPT ![a] = "done"]
      BY <2>4 DEF ChildLooks, ChildRefused, ChildEnds, Busy
    <3>2. \E o \in Outcome : channel' = Append(channel, Says(a, o))
      BY <2>4 DEF ChildLooks, ChildRefused, ChildEnds, Outcome
    <3>3. \A o \in Outcome : Says(a, o) \in Message /\ Says(a, o).seq = a /\ Says(a, o).kind = "done"
      BY Messages DEF Says
    <3>4. QED
      BY <2>2, <3>1, <3>2, <3>3
  <2>5. CASE ChildStarts(a)
    <3>1. a \in Busy /\ child' = [child EXCEPT ![a] = "running"]
          /\ channel' = Append(channel, [kind |-> "started", seq |-> a])
      BY <2>5 DEF ChildStarts, Busy
    <3>2. [kind |-> "started", seq |-> a] \in Message
      BY Messages
    <3>3. QED
      BY <2>2, <3>1, <3>2
  <2>6. QED
    BY <1>10, <2>3, <2>4, <2>5 DEF ChildStep
<1>11. QED
  BY <1>2, <1>3, <1>4, <1>5, <1>6, <1>7, <1>8, <1>9, <1>10, ChanAdmit
     DEF Next, ScriptStep, LoopStep, DisposeStep

(* Every step keeps the rows of those nobody waits for final.                *)
LEMMA RowStep ==
  ASSUME LimitsPositive, IInv, [Next]_vars
  PROVE  RowInv'
<1>0. RowInv /\ TypeOK /\ AgentInv /\ member \in [Agent -> Row]
  BY ReportParts DEF IInv, TypeOK, Row
<1> SUFFICES ASSUME end' # "error", NEW a \in Agent, member'[a] \in {"queued", "running"}
             PROVE  a \in DOMAIN waiting'
  BY DEF RowInv
<1>1. CASE UNCHANGED <<waiting, member>> /\ end # "error"
  BY <1>0, <1>1 DEF RowInv
<1>2. CASE EnterCall \/ Note \/ Items \/ Violation \/ SliceKilled \/ RootEnds \/ ItemEnds
  <2>1. end # "error"
    BY <1>2, Answers DEF EnterCall, Note, Items, Violation, SliceKilled, RootEnds, ItemEnds,
                         IInv, LoopInv, Slice
  <2>2. QED
    BY <1>1, <1>2, <2>1 DEF EnterCall, Note, Items, Violation, SliceKilled, RootEnds, ItemEnds, agents, card
<1>3. CASE AgentCall
  <2>1. /\ end = end' /\ member' = [member EXCEPT ![started + 1] = "queued"]
        /\ DOMAIN waiting' = DOMAIN waiting \cup {started + 1}
    BY <1>3 DEF AgentCall, Show, With
  <2>2. QED
    BY <1>0, <2>1 DEF RowInv
<1>4. CASE DriveCancelled \/ Admit \/ Block \/ RecvCancel \/ Return \/ DisposeCancel
  <2>1. end # "error"
    BY <1>4 DEF DriveCancelled, Admit, Block, RecvCancel, Return, DisposeCancel, IInv, LoopInv, Admitting
  <2>2. QED
    BY <1>1, <1>4, <2>1 DEF DriveCancelled, Admit, Block, RecvCancel, Return, DisposeCancel, agents, card
<1>5. CASE RecvStarted \/ DisposeStarted
  <2>1. channel # <<>> /\ channel[1].kind = "started" /\ Head(channel) = channel[1]
    BY <1>0, <1>5, Heads DEF RecvStarted, DisposeStarted
  <2>2. 1 \in DOMAIN channel
    BY <1>0, <2>1 DEF TypeOK
  <2>3. channel[1].seq \in DOMAIN waiting
    BY <2>1, <2>2 DEF IInv, ReportInv, InFlight
  <2>4. member' = [member EXCEPT ![channel[1].seq] = "running"] /\ waiting' = waiting /\ end' = end
    BY <1>5, <2>1 DEF RecvStarted, DisposeStarted, Show, agents
  <2>5. QED
    BY <1>0, <2>3, <2>4 DEF RowInv
<1>6. CASE RecvDone \/ RecvTooLarge \/ DisposeDone
  <2>1. PICK s : s = Head(channel).seq
    OBVIOUS
  <2>2. s \in DOMAIN waiting /\ s \in Agent /\ end # "error" /\ ~RecvTooLarge
    BY <1>6, <2>1, Reported DEF RecvDone, RecvTooLarge, DisposeDone, Finish, IInv, LoopInv
  <2>3. \A o : AgentOutcome(o) \notin {"queued", "running"} /\ DisposeOutcome(o) \notin {"queued", "running"}
    BY DEF AgentOutcome, DisposeOutcome
  <2>4. /\ DOMAIN waiting' = DOMAIN waiting \ {s}
        /\ \E o : o \notin {"queued", "running"} /\ member' = [member EXCEPT ![s] = o]
    BY <1>6, <2>1, <2>2, <2>3 DEF RecvDone, DisposeDone, Settle, Show, Without
  <2>5. QED
    BY <1>0, <2>2, <2>4 DEF RowInv
<1>7. CASE Dispose
  BY <1>0, <1>7 DEF Dispose, RowInv
<1>8. CASE HostJoins \/ HostStuck \/ BodyDropped
  BY <1>0, <1>8 DEF HostJoins, HostStuck, BodyDropped, Freeze, agents, RowInv
<1>9. CASE Watch \/ Cancel \/ UNCHANGED vars
  BY <1>0, <1>9 DEF Watch, Cancel, vars, agents, card, RowInv
<1>10. CASE \E b \in Agent : ChildStep(b)
  BY <1>0, <1>10 DEF ChildStep, ChildLooks, ChildRefused, ChildStarts, ChildEnds, agents, card, RowInv
<1>11. QED
  BY <1>2, <1>3, <1>4, <1>5, <1>6, <1>7, <1>8, <1>9, <1>10
     DEF Next, ScriptStep, LoopStep, DisposeStep, HostStep
-----------------------------------------------------------------------------
(* The theorems.                                                             *)

(* The first step of the script can be taken, nothing else has happened.     *)
LEMMA Start ==
  ASSUME LimitsPositive, Init
  PROVE  IInv
<1> DEFINE first == [task |-> Root, kind |-> "go", values |-> <<>>]
<1>0. /\ MaxTasks \in Nat /\ MaxAgents \in Nat /\ MaxConcurrent \in Nat /\ Root \in Task
  BY DEF LimitsPositive, Task, Root
<1>1. /\ DOMAIN ready = {1} /\ ready[1] = first /\ Len(ready) = 1 /\ first.kind = "go"
      /\ first.task = Root
  BY DEF Init
<1>2. first \in Step
  BY <1>0 DEF Step
<1>3. /\ DOMAIN tasks = {Root} /\ tasks[Root] = [join |-> -1, index |-> 0]
      /\ DOMAIN joins = {} /\ DOMAIN waiting = {} /\ Live = {Root}
  BY DEF Init, Live
<1>4. TypeOK
  <2>1. tasks \in [Live -> Entry] /\ Live \subseteq Task
    BY <1>0, <1>3 DEF Init, Entry
  <2>2. ready \in Seq(Step)
    BY <1>2 DEF Init
  <2>3. joins \in [DOMAIN joins -> Join] /\ waiting \in [DOMAIN waiting -> Task]
    BY DEF Init
  <2>4. queue \in Seq(Agent) /\ channel \in Seq(Message)
    BY DEF Init
  <2>5. nextTask \in 1..(MaxTasks + 1) /\ started \in 0..MaxAgents
    BY <1>0 DEF Init, Root
  <2>6. QED
    BY <1>3, <2>1, <2>2, <2>3, <2>4, <2>5 DEF Init, TypeOK, End
<1>5. LoopInv
  BY DEF Init, LoopInv
<1>6. Readied = {Root} /\ Awaited = {} /\ Waiters = {}
  BY <1>1, <1>3 DEF Readied, Awaited, Waiters
<1>7. TaskInv
  <2>1. \A t \in Live : t < nextTask
    BY <1>3 DEF Init, Root
  <2>2. PlacesApart
    BY <1>1, <1>3, <1>6 DEF PlacesApart
  <2>3. QED
    BY <1>3, <1>6, <2>1, <2>2 DEF TaskInv
<1>8. JoinInv
  BY <1>3 DEF JoinInv
<1>9. OrderInv
  BY <1>1, <1>3 DEF OrderInv
<1>10. Queued = {} /\ InFlight = {} /\ Busy = {}
  BY <1>3 DEF Init, Queued, InFlight, Busy
<1>11. AgentInv
  <2>1. Cardinality(InFlight) = 0
    BY <1>10, FS_EmptySet
  <2>2. /\ queue = <<>> /\ started = 0 /\ Len(queue) = 0 /\ DOMAIN queue = {} /\ inFlight = 0
        /\ end = "none" /\ \A a \in Agent : child[a] = "none"
    BY DEF Init
  <2>3. \A a \in Agent : ~(a <= started - Len(queue))
    BY <2>2 DEF Agent
  <2>4. QED
    BY <1>0, <1>3, <1>10, <2>1, <2>2, <2>3 DEF AgentInv
<1>12. ReportInv
  BY <1>10 DEF Init, ReportInv
<1>13. QED
  BY <1>4, <1>5, <1>7, <1>8, <1>9, <1>11, <1>12 DEF IInv

(* Every step keeps the invariant.                                           *)
LEMMA Keeps ==
  ASSUME LimitsPositive, IInv, [Next]_vars
  PROVE  IInv'
BY TypeStep, LoopInvStep, TaskStep, JoinStep, OrderStep, AgentStep, ChanStep, RowStep, ReportParts
   DEF IInv

(* Whatever the script does and whatever its limits, each live task of a run *)
(* that goes on is at one place, each join has as many live items as remain, *)
(* each agent in flight has somebody who reports for it.                     *)
THEOREM Invariance == Spec => []IInv
<1>1. Init => IInv
  BY LimitsPositive, Start
<1>2. IInv /\ [Next]_vars => IInv'
  BY LimitsPositive, Keeps
<1>3. QED
  BY <1>1, <1>2, PTL DEF Spec

(* Every variable keeps its type.                                            *)
THEOREM TypeCorrect == Spec => []TypeOK
<1>1. IInv => TypeOK
  BY DEF IInv
<1>2. QED
  BY <1>1, Invariance, PTL

(* The loop never ends as stalled (scheduler.rs:462), and when it waits for  *)
(* a message one is in the channel or a child is there that will send one.   *)
THEOREM LoopAdvances == Spec => []NeverStalls
<1>1. IInv => NeverStalls
  <2> SUFFICES ASSUME IInv, at = "recv"  PROVE channel # <<>> \/ Busy # {}
    BY DEF NeverStalls, IInv, LoopInv
  <2>1. inFlight > 0 /\ inFlight = Cardinality(InFlight)
    BY DEF IInv, LoopInv, AgentInv
  <2>2. InFlight # {}
    BY <2>1, FS_EmptySet
  <2>3. PICK a \in InFlight : TRUE
    BY <2>2
  <2>4. a \in Busy \/ \E i \in DOMAIN channel : TRUE
    BY DEF IInv, ReportInv
  <2>5. QED
    BY <2>4
<1>2. QED
  BY <1>1, Invariance, PTL

(* A run that completes leaves no agent behind, and no row of its card says  *)
(* that one is queued or runs.                                               *)
THEOREM CompletesClean == Spec => []CompletesAlone
<1>1. IInv => CompletesAlone
  <2> SUFFICES ASSUME IInv, end = "value"
               PROVE  /\ inFlight = 0 /\ queue = <<>> /\ DOMAIN waiting = {}
                      /\ \A a \in Agent : member[a] \notin {"queued", "running"}
    BY DEF CompletesAlone
  <2>1. DOMAIN waiting = {}
    BY DEF IInv, AgentInv
  <2>2. Queued = {} /\ InFlight = {}
    BY <2>1 DEF IInv, AgentInv, InFlight
  <2>3. inFlight = 0
    BY <2>2, FS_EmptySet DEF IInv, AgentInv
  <2>4. queue = <<>>
    <3> SUFFICES ASSUME queue # <<>>  PROVE FALSE
      OBVIOUS
    <3>1. Head(queue) \in Queued
      BY QueueHead
    <3>2. QED
      BY <2>2, <3>1
  <2>5. \A a \in Agent : member[a] \notin {"queued", "running"}
    BY <2>1 DEF IInv, ReportInv
  <2>6. QED
    BY <2>1, <2>3, <2>4, <2>5
<1>2. QED
  BY <1>1, Invariance, PTL

(* No more agents run than the cap allows, they start in the order in which  *)
(* they were asked for, and results are handed over in item order.           *)
THEOREM CapKept == Spec => []CapAndOrder
<1>1. IInv => CapAndOrder
  <2> SUFFICES ASSUME IInv  PROVE CapAndOrder
    OBVIOUS
  <2>1. TypeOK /\ Busy \subseteq InFlight /\ inFlight = Cardinality(InFlight) /\ inFlight <= MaxConcurrent
    BY DEF IInv, AgentInv, ReportInv
  <2>2. Cardinality(Busy) <= Cardinality(InFlight) /\ Cardinality(Busy) \in Nat
    BY <2>1, LimitsPositive, FlightFinite, FS_Subset, FS_CardinalityType
  <2>3. Cardinality(Busy) <= MaxConcurrent
    BY <2>1, <2>2, LimitsPositive DEF LimitsPositive, TypeOK
  <2>4. \A a, b \in Agent : a < b /\ child[b] # "none" => child[a] # "none"
    BY DEF IInv, AgentInv
  <2>5. \A r \in DOMAIN ready : ready[r].kind = "array" =>
           \E b \in Task : \A i \in DOMAIN ready[r].values : ready[r].values[i] \in {Nil, b + i}
    BY DEF IInv, OrderInv, Ordered
  <2>6. QED
    BY <2>3, <2>4, <2>5 DEF CapAndOrder
<1>2. QED
  BY <1>1, Invariance, PTL
=============================================================================
