---------------------------- MODULE Turn_proofs ----------------------------
(* What is proved of a turn: of the dispatch of a block of its tool calls    *)
(* (ToolDispatch) and of the folds of its log (Compaction).                  *)
EXTENDS ToolDispatch, Compaction, FiniteSetTheorems, SequenceTheorems, TLAPS

(* The module has its own Count, which is also a constant of ToolDispatch.   *)
Sel == INSTANCE SeqSelect_proofs

(* For a block of any length: the dispatcher keeps the schedule promised by  *)
(* CallSchedule, and never more than max_concurrency tools run.              *)

Stages == Gated \cup {"waiting", "queued", "post", "done"}

(* What every step of a call's task amounts to: it leaves its stage for one  *)
(* further on, a gated one only with a permit, the body only from "ready",   *)
(* and of all permits only its own may change.                               *)
Moves(c) ==
    /\ stage[c] \in Gated \cup {"queued", "post"}
    /\ \E w \in Gated \cup {"post", "done"} :
          /\ stage' = [stage EXCEPT ![c] = w]
          /\ w \in Gated => c \in permit'
          /\ stage[c] \in {"body", "post"} => w \in {"post", "done"}
          /\ w = "body" => stage[c] \in Gated
    /\ permit' \in {permit, permit \cup {c}, permit \ {c}}
    /\ Cardinality(permit') <= MaxConcurrency

(* A permit taken while one is free, or given back, keeps the semaphore's    *)
(* bound (dispatch_batch, tools/mod.rs:859).                                 *)
LEMMA Permits ==
  ASSUME IInv, NEW c \in Call
  PROVE  /\ Free => Cardinality(permit \cup {c}) <= MaxConcurrency
         /\ Cardinality(permit \ {c}) <= MaxConcurrency
<1>1. IsFiniteSet(Call)
  BY CallCount, FS_Interval DEF Call
<1>2. IsFiniteSet(permit) /\ permit \subseteq Call
  BY <1>1, FS_Subset DEF IInv, TypeOK
<1>3. Cardinality(permit) \in Nat
  BY <1>2, FS_CardinalityType
<1>4. Cardinality(permit \cup {c}) = IF c \in permit THEN Cardinality(permit)
                                                     ELSE Cardinality(permit) + 1
  BY <1>2, FS_AddElement
<1>5. Cardinality(permit \ {c}) = IF c \in permit THEN Cardinality(permit) - 1
                                                  ELSE Cardinality(permit)
  BY <1>2, FS_RemoveElement
<1>6. Cardinality(permit) <= MaxConcurrency
  BY DEF IInv, PermitInv
<1>7. Free => Cardinality(permit) + 1 <= MaxConcurrency
  BY <1>3, Limits DEF Free
<1>8. QED
  BY <1>3, <1>4, <1>5, <1>6, <1>7, Limits

(* Every step of a task is such a move.                                      *)
LEMMA StepMoves ==
  ASSUME IInv, NEW c \in Call, Step(c)
  PROVE  Moves(c)
<1> USE Permits DEF Moves, Gated, Go, Done, Settle, Decide
<1>0. stage \in [Call -> Stages] /\ Cardinality(permit) <= MaxConcurrency
  BY DEF IInv, TypeOK, PermitInv, Stages
<1>1. stage[c] \in Gated => c \in permit
  BY DEF IInv, PermitInv
<1>d. ASSUME Done(c), stage[c] = "post" PROVE Moves(c)
  BY <1>0, <1>d
<1>2. CASE Acquire(c)
  <2>1. CASE Hooks
    BY <1>0, <1>2, <2>1 DEF Acquire
  <2>2. CASE ~Hooks
    BY <1>0, <1>2, <2>2 DEF Acquire
  <2>3. QED
    BY <2>1, <2>2
<1>3. CASE AcquireUnknown(c)
  BY <1>0, <1>3 DEF AcquireUnknown
<1>4. CASE QueuedCancelled(c)
  <2>1. CASE Hooks
    BY <1>0, <1>4, <2>1 DEF QueuedCancelled
  <2>2. CASE ~Hooks
    BY <1>0, <1>4, <2>2 DEF QueuedCancelled
  <2>3. QED
    BY <2>1, <2>2
<1>5. CASE PreTool(c)
  BY <1>0, <1>1, <1>5 DEF PreTool
<1>6. CASE Ask(c)
  BY <1>0, <1>1, <1>6 DEF Ask
<1>7. CASE Check(c)
  BY <1>0, <1>1, <1>7 DEF Check
<1>8. CASE Answer(c)
  BY <1>0, <1>1, <1>8 DEF Answer
<1>9. CASE GateCancelled(c)
  BY <1>0, <1>1, <1>9 DEF GateCancelled
<1>10. CASE Guard(c)
  BY <1>0, <1>1, <1>10 DEF Guard
<1>11. CASE Execute(c)
  BY <1>0, <1>1, <1>11 DEF Execute
<1>12. CASE BodyEnds(c)
  BY <1>0, <1>12 DEF BodyEnds
<1>13. CASE Abandon(c)
  <2>1. CASE Hooks
    BY <1>0, <1>1, <1>13, <2>1 DEF Abandon
  <2>2. CASE ~Hooks
    BY <1>0, <1>1, <1>13, <2>2 DEF Abandon
  <2>3. QED
    BY <2>1, <2>2
<1>14. CASE PostTool(c)
  BY <1>14, <1>d DEF PostTool
<1>15. CASE PostAbandoned(c)
  BY <1>15, <1>d DEF PostAbandoned
<1>16. QED
  BY <1>2, <1>3, <1>4, <1>5, <1>6, <1>7, <1>8, <1>9, <1>10, <1>11, <1>12, <1>13,
     <1>14, <1>15 DEF Step, Task, Gate

(* A task's step leaves the batch, the policy and the cancellation alone.    *)
LEMMA StepTypes ==
  ASSUME IInv, NEW c \in Call, Step(c)
  PROVE  TypeOK'
<1> USE DEF IInv, TypeOK
<1>1. UNCHANGED <<batch, approvals, cancelled>>
  BY DEF Step
<1>2. stage' \in [Call -> Stages] /\ permit' \subseteq Call
  BY StepMoves DEF Moves, Stages
<1>3. asked' \subseteq Call
  BY DEF Step, Task, Gate, Acquire, AcquireUnknown, QueuedCancelled, PreTool, Ask, Check,
         Answer, GateCancelled, Guard, Execute, BodyEnds, Abandon, PostTool, PostAbandoned
<1>4. contexts' \in Seq(Call)
  BY DEF Step, Task, PostTool
<1>5. QED
  BY <1>1, <1>2, <1>3, <1>4 DEF Stages, batch, approvals

(* A task's step keeps the invariant: the calls of other tasks, the batch    *)
(* and the results stay, and no task moves that is done or waits.            *)
LEMMA StepKeeps ==
  ASSUME IInv, NEW c \in Call, Step(c)
  PROVE  IInv'
<1>1. Moves(c) /\ TypeOK'
  BY StepMoves, StepTypes
<1>2. UNCHANGED <<first, last, results>>
  BY DEF Step, batch
<1>3. stage \in [Call -> Stages] /\ permit \subseteq Call /\ Len(results) \in Nat
  BY DEF IInv, TypeOK, Stages
<1>4. PICK w \in Gated \cup {"post", "done"} :
         stage' = [stage EXCEPT ![c] = w] /\ (w \in Gated => c \in permit')
  BY <1>1 DEF Moves
<1>5. stage[c] # "done" /\ stage[c] # "waiting" /\ w # "waiting"
  BY <1>1 DEF Moves, Gated
<1>6. \A d \in Call : d # c => stage'[d] = stage[d] /\ (d \in permit => d \in permit')
  BY <1>1, <1>3, <1>4 DEF Moves
<1>7. stage'[c] = w
  BY <1>3, <1>4
<1>8. BatchInv'
  <2>1. \A d \in 1..Len(results) : stage'[d] = "done"
    BY <1>3, <1>4, <1>5, <1>6 DEF IInv, BatchInv, TypeOK, Call
  <2>2. \A d \in Call : d > last <=> stage'[d] = "waiting"
    BY <1>5, <1>6, <1>7 DEF IInv, BatchInv
  <2>3. QED
    BY <1>2, <2>1, <2>2 DEF IInv, BatchInv, Batch
<1>9. PermitInv'
  <2>1. \A d \in Call : stage'[d] \in Gated => d \in permit'
    BY <1>4, <1>6, <1>7 DEF IInv, PermitInv
  <2>2. QED
    BY <1>1, <2>1 DEF PermitInv, Moves
<1>10. QED
  BY <1>1, <1>8, <1>9 DEF IInv

(* Nothing is dispatched at first.                                           *)
LEMMA InitKeeps == Init => IInv
<1> SUFFICES ASSUME Init PROVE IInv
  OBVIOUS
<1>1. TypeOK
  <2>1. first \in 1..(Count + 1) /\ last \in 0..Count /\ stage \in [Call -> Stages]
    BY CallCount DEF Init, Stages
  <2>2. results \in Seq(Call) /\ contexts \in Seq(Call)
    BY DEF Init
  <2>3. permit \subseteq Call /\ asked \subseteq Call
    BY DEF Init
  <2>4. policy \in Policy /\ answerer \in BOOLEAN /\ cancelled \in BOOLEAN
    BY DEF Init
  <2>5. QED
    BY <2>1, <2>2, <2>3, <2>4 DEF TypeOK, Stages
<1>2. BatchInv
  BY CallCount DEF Init, BatchInv, Batch, Call
<1>3. PermitInv
  BY FS_EmptySet, Limits DEF Init, PermitInv, Gated
<1>4. QED
  BY <1>1, <1>2, <1>3 DEF IInv

(* A batch is cut when the one before is collected: all behind it waits.     *)
LEMMA CutKeeps ==
  ASSUME IInv, Cut
  PROVE  IInv'
<1> USE DEF IInv
<1>1. PICK l \in Call : Run(first, l) /\ last' = l
  BY DEF Cut
<1>2. stage \in [Call -> Stages] /\ first \in Nat /\ Len(results) = first - 1 /\ last = first - 1
  BY CallCount DEF Cut, TypeOK, BatchInv, Stages
<1>3. stage' = [c \in Call |-> IF c \in first..l THEN "queued" ELSE stage[c]]
  BY <1>1 DEF Cut
<1>4. UNCHANGED <<first, permit, asked, results, contexts, approvals, cancelled>>
  BY DEF Cut
<1>5. l \in first..Count
  BY <1>1 DEF Run
<1>6. TypeOK'
  <2>1. stage' \in [Call -> Stages]
    BY <1>2, <1>3 DEF Stages
  <2>2. QED
    BY <1>1, <1>4, <1>5, <2>1, CallCount DEF TypeOK, Stages, approvals, Call
<1>7. BatchInv'
  <2>1. \A c \in 1..Len(results) : stage'[c] = "done"
    BY <1>2, <1>3, CallCount DEF BatchInv, TypeOK, Call
  <2>2. \A c \in Call : c > l <=> stage'[c] = "waiting"
    BY <1>2, <1>3, <1>5, CallCount DEF BatchInv, TypeOK, Call
  <2>3. first < l => first..l \subseteq Safe
    BY <1>1, <1>2, <1>5 DEF Run
  <2>4. QED
    BY <1>1, <1>2, <1>4, <1>5, <2>1, <2>2, <2>3 DEF BatchInv, Batch
<1>8. PermitInv'
  BY <1>2, <1>3, <1>4 DEF PermitInv, Gated
<1>9. QED
  BY <1>6, <1>7, <1>8

(* A result is collected in its place, and the last one ends the batch.      *)
LEMMA CollectKeeps ==
  ASSUME IInv, Collect
  PROVE  IInv'
<1> USE DEF IInv
<1> DEFINE n == Len(results) + 1
<1>1. first \in Nat /\ last \in 0..Count /\ results \in Seq(Call) /\ last >= first
  BY CallCount DEF Collect, TypeOK
<1>2. n \in first..last /\ n \in Call
  BY <1>1, CallCount DEF BatchInv, TypeOK, Call
<1>3. stage[n] = "done" /\ results' = Append(results, n)
  BY DEF Collect
<1>4. IF n = last THEN first' = last + 1 ELSE first' = first
  BY DEF Collect
<1>5. UNCHANGED <<last, stage, permit, asked, contexts, approvals, cancelled>>
  BY DEF Collect, task
<1>6. results' \in Seq(Call) /\ Len(results') = n
  BY <1>1, <1>2, <1>3
<1>7. TypeOK'
  BY <1>1, <1>4, <1>5, <1>6, CallCount DEF TypeOK, approvals
<1>8. BatchInv'
  <2>1. \A c \in 1..n : stage[c] = "done"
    BY <1>1, <1>2, <1>3 DEF BatchInv
  <2>2. \A c \in Call : c > last <=> stage[c] = "waiting"
    BY DEF BatchInv
  <2>3. first' < last' => first'..last' \subseteq Safe
    BY <1>1, <1>4, <1>5 DEF BatchInv, Batch
  <2>4. Len(results') \in (first' - 1)..last' /\ (last' < first' => last' = first' - 1)
        /\ (last' >= first' => Len(results') < last')
    BY <1>1, <1>2, <1>4, <1>5, <1>6
  <2>5. QED
    BY <1>5, <1>6, <2>1, <2>2, <2>3, <2>4 DEF BatchInv, Batch
<1>9. PermitInv'
  BY <1>5 DEF PermitInv
<1>10. QED
  BY <1>7, <1>8, <1>9

(* Every step keeps the invariant.                                           *)
LEMMA NextKeeps ==
  ASSUME IInv, [Next]_vars
  PROVE  IInv'
<1>1. CASE SetPolicy
  BY <1>1 DEF SetPolicy, IInv, TypeOK, BatchInv, PermitInv, batch, task, Batch
<1>2. CASE Cancel
  BY <1>2 DEF Cancel, IInv, TypeOK, BatchInv, PermitInv, batch, task, approvals, Batch
<1>3. CASE UNCHANGED vars
  BY <1>3 DEF vars, IInv, TypeOK, BatchInv, PermitInv, batch, task, approvals, Batch
<1>4. QED
  BY <1>1, <1>2, <1>3, StepKeeps, CutKeeps, CollectKeeps DEF Next

(* The invariant holds of every block.                                       *)
LEMMA Invariance == Spec => []IInv
<1>1. IInv /\ [Next]_vars => IInv'
  BY NextKeeps
<1>2. QED
  BY InitKeeps, <1>1, PTL DEF Spec

(* Every gated call has one of the permits.                                  *)
LEMMA PermitsBound == IInv => CapHeld
<1> SUFFICES ASSUME IInv PROVE CapHeld
  OBVIOUS
<1> DEFINE bodies == {c \in Call : stage[c] = "body"}
<1>1. IsFiniteSet(permit)
  <2>1. IsFiniteSet(Call) /\ permit \subseteq Call
    BY CallCount, FS_Interval DEF Call, IInv, TypeOK
  <2>2. QED
    BY <2>1, FS_Subset
<1>2. bodies \subseteq permit
  BY DEF IInv, PermitInv, Gated
<1>3. IsFiniteSet(bodies) /\ Cardinality(bodies) <= Cardinality(permit)
  BY <1>1, <1>2, FS_Subset
<1>4. Cardinality(permit) \in Nat /\ Cardinality(bodies) \in Nat
  BY <1>1, <1>3, FS_CardinalityType
<1>5. Cardinality(permit) <= MaxConcurrency
  BY DEF IInv, PermitInv
<1>6. QED
  BY <1>3, <1>4, <1>5, Limits DEF CapHeld

(* Never more than max_concurrency tools run, whatever is cancelled or       *)
(* abandoned and whichever post hooks run without a permit                   *)
(* (dispatch_batch, tools/mod.rs:859).                                       *)
THEOREM ConcurrencyCapped == Spec => []CapHeld
BY Invariance, PermitsBound, PTL
-----------------------------------------------------------------------------
(* The refinement of CallSchedule.                                           *)

(* The schedule's view of the stages.                                        *)
shown == [c \in Call |-> Phase(stage[c])]

(* When a call's body starts, the calls before its batch are done, and those *)
(* of its batch that come before it are safe like itself and all between.    *)
LEMMA Barriers ==
  ASSUME IInv, NEW c \in Call, stage[c] \in Gated, NEW b \in Call, b < c
  PROVE  stage[b] = "done" \/ b..c \subseteq Safe
<1>1. b \in Nat /\ b >= 1 /\ c \in Nat /\ first \in Nat /\ last \in Nat /\ Len(results) \in Nat
  BY CallCount DEF Call, IInv, TypeOK
<1>2. c <= last
  BY <1>1 DEF IInv, BatchInv, Gated
<1>3. c > Len(results)
  BY <1>1 DEF IInv, BatchInv, Gated, Call
<1>4. CASE b < first
  BY <1>1, <1>4 DEF IInv, BatchInv
<1>5. CASE b >= first
  <2>1. first..last \subseteq Safe
    BY <1>1, <1>2, <1>5 DEF IInv, BatchInv, Batch
  <2>2. QED
    BY <1>1, <1>2, <1>5, <2>1
<1>6. QED
  BY <1>1, <1>4, <1>5

(* A task's step is a start, an end or no step of the schedule.              *)
LEMMA StepSimulates ==
  ASSUME IInv, NEW c \in Call, Step(c)
  PROVE  [Schedule!Next]_(Schedule!vars)
<1>1. Moves(c)
  BY StepMoves
<1>2. results' = results
  BY DEF Step, batch
<1>3. stage \in [Call -> Stages]
  BY DEF IInv, TypeOK, Stages
<1>4. PICK w \in Gated \cup {"post", "done"} :
         /\ stage' = [stage EXCEPT ![c] = w]
         /\ stage[c] \in {"body", "post"} => w \in {"post", "done"}
         /\ w = "body" => stage[c] \in Gated
  BY <1>1 DEF Moves
<1>5. stage[c] \in Gated \cup {"queued", "post"}
  BY <1>1 DEF Moves
<1>6. shown' = [shown EXCEPT ![c] = Phase(w)]
  BY <1>3, <1>4 DEF shown
<1>7. CASE Phase(w) = Phase(stage[c])
  <2>1. shown' = shown
    BY <1>6, <1>7 DEF shown
  <2>2. QED
    BY <1>2, <2>1 DEF shown, Schedule!vars
<1>8. CASE w \in {"post", "done"} /\ Phase(w) # Phase(stage[c])
  <2>1. Schedule!Finish(c)
    BY <1>2, <1>6, <1>8 DEF Schedule!Finish, shown, Phase
  <2>2. QED
    BY <2>1 DEF Schedule!Next, Schedule!Calls, Call
<1>9. CASE w = "body" /\ Phase(w) # Phase(stage[c])
  <2>1. shown[c] = "waiting"
    BY <1>4, <1>9 DEF shown, Phase, Gated
  <2>2. ASSUME NEW b \in Call, b < c PROVE shown[b] = "over" \/ b..c \subseteq Safe
    BY <1>4, <1>9, <2>2, Barriers DEF shown, Phase
  <2>3. Schedule!MayRun(c)
    BY <2>2 DEF Schedule!MayRun, Schedule!Calls, Call, shown
  <2>4. Schedule!Start(c)
    BY <1>2, <1>6, <1>9, <2>1, <2>3 DEF Schedule!Start, shown, Phase
  <2>5. QED
    BY <2>4 DEF Schedule!Next, Schedule!Calls, Call
<1>10. QED
  BY <1>4, <1>5, <1>7, <1>8, <1>9 DEF Phase, Gated

(* A block starts with nothing shown as running and no result.               *)
LEMMA InitSimulates == Init => Schedule!Init
BY DEF Init, Schedule!Init, Schedule!Calls, Call, Phase

(* Cutting a batch changes nothing the schedule shows.                       *)
LEMMA CutSimulates ==
  ASSUME IInv, Cut
  PROVE  UNCHANGED Schedule!vars
<1>1. PICK l \in Call : Run(first, l) /\ last' = l
  BY DEF Cut
<1>2. stage' = [c \in Call |-> IF c \in first..l THEN "queued" ELSE stage[c]] /\ results' = results
  BY <1>1 DEF Cut
<1>3. ASSUME NEW c \in Call, c \in first..l PROVE stage[c] = "waiting"
  BY <1>1, <1>3, CallCount DEF Cut, IInv, BatchInv, TypeOK, Call
<1>4. ASSUME NEW c \in Call PROVE Phase(stage'[c]) = Phase(stage[c])
  BY <1>2, <1>3 DEF Phase
<1>5. shown' = shown
  BY <1>4 DEF shown
<1>6. QED
  BY <1>2, <1>5 DEF shown, Schedule!vars

(* A collected result is the commit of the next call in the model's order.   *)
LEMMA CollectSimulates ==
  ASSUME IInv, Collect
  PROVE  Schedule!Next
<1>1. Len(results) + 1 \in Call
  BY CallCount DEF Collect, IInv, BatchInv, TypeOK, Call
<1>2. shown' = shown /\ shown[Len(results) + 1] = "over"
  BY <1>1 DEF Collect, task, shown, Phase
<1>3. Len(results) < Count
  BY <1>1, CallCount DEF Call, IInv, TypeOK
<1>4. Schedule!Commit
  BY <1>1, <1>2, <1>3 DEF Schedule!Commit, Collect, shown
<1>5. QED
  BY <1>4 DEF Schedule!Next

(* The dispatcher implements the schedule: consecutive safe calls overlap,   *)
(* every other call runs alone, and the results come in the model's order    *)
(* (tools/mod.rs:3-5), for a block of any length, whatever the hooks, the    *)
(* policy, the user and cancellation do.                                     *)
THEOREM ScheduleKept == Spec => KeepsSchedule
<1>1. IInv /\ [Next]_vars => [Schedule!Next]_(Schedule!vars)
  <2> SUFFICES ASSUME IInv, [Next]_vars PROVE [Schedule!Next]_(Schedule!vars)
    OBVIOUS
  <2>1. CASE SetPolicy \/ Cancel \/ UNCHANGED vars
    <3>1. UNCHANGED <<stage, results>>
      BY <2>1 DEF SetPolicy, Cancel, vars, batch, task
    <3>2. shown' = shown
      BY <3>1 DEF shown
    <3>3. QED
      BY <3>1, <3>2 DEF shown, Schedule!vars
  <2>2. QED
    BY <2>1, StepSimulates, CutSimulates, CollectSimulates DEF Next
<1>2. QED
  BY InitSimulates, Invariance, <1>1, PTL DEF Spec, KeepsSchedule, Schedule!Spec
-----------------------------------------------------------------------------
(* The reductions of a log.                                                  *)

(* m is l with one more entry.                                               *)
Grown(l, m, e) ==
    /\ l \in Seq(Range(l)) /\ m \in Seq(Range(m))
    /\ Len(m) = Len(l) + 1 /\ Len(l) \in Nat
    /\ \A p \in 1..Len(l) : m[p] = l[p]
    /\ m[Len(l) + 1] = e

(* What is appended to a log is behind what was there.                       *)
LEMMA OneMore ==
  ASSUME NEW l, l \in Seq(Range(l)), NEW e
  PROVE  Grown(l, l \o <<e>>, e)
<1> DEFINE S == Range(l) \cup {e}
           m == l \o <<e>>
<1>1. l \in Seq(S) /\ <<e>> \in Seq(S)
  OBVIOUS
<1>2. /\ m \in Seq(S) /\ Len(m) = Len(l) + 1 /\ Len(l) \in Nat
      /\ \A p \in 1..Len(l) : m[p] = l[p]
      /\ m[Len(l) + 1] = e
  BY <1>1
<1>3. m \in Seq(Range(m))
  <2>1. \A p \in 1..Len(m) : m[p] \in Range(m)
    <3> HIDE DEF m, S
    <3>1. DOMAIN m = 1..Len(m)
      BY <1>2
    <3> QED BY <3>1 DEF Range
  <2> HIDE DEF m, S
  <2> QED BY <1>2, <2>1
<1> QED BY <1>2, <1>3 DEF Grown

(* A kind has the new entry or what it had.                                  *)
LEMMA GrownKinds ==
  ASSUME NEW l, NEW m, NEW e, Grown(l, m, e), NEW kind
  PROVE  /\ Of(m, kind) = Of(l, kind) \cup (IF e.kind = kind THEN {Len(l) + 1} ELSE {})
         /\ Of(l, kind) \subseteq 1..Len(l)
         /\ \A p \in Of(l, kind) : m[p] = l[p]
<1>1. DOMAIN m = 1..(Len(l) + 1) /\ DOMAIN l = 1..Len(l) /\ Len(l) \in Nat
  BY DEF Grown
<1>2. \A p \in 1..Len(l) : m[p] = l[p]
  BY DEF Grown
<1>3. m[Len(l) + 1] = e
  BY DEF Grown
<1> QED BY <1>1, <1>2, <1>3 DEF Of

(* The first log is empty.                                                   *)
LEMMA InitSpans == FoldInit => SpansInv
<1> SUFFICES ASSUME FoldInit PROVE SpansInv
  OBVIOUS
<1>1. log = <<>> /\ at = "idle"
  BY DEF FoldInit
<1>2. \A kind : Of(log, kind) = {}
  BY <1>1 DEF Of
<1>3. log \in Seq(Range(log))
  BY <1>1
<1> QED BY <1>1, <1>2, <1>3 DEF SpansInv, EndsInv, MarksInv, OpenInv, Checkpoints, Started, Unfinished

Plain == {"user", "block", "turn", "assistant", "result", "prune"}
Steps == {"started", "checkpoint", "finished"}

(* m has the reductions of l.                                                *)
SameSteps(l, m) ==
    /\ m \in Seq(Range(m)) /\ Len(l) <= Len(m)
    /\ \A kind \in Steps : Of(m, kind) = Of(l, kind) /\ \A p \in Of(l, kind) : m[p] = l[p]

(* An entry that is no part of a reduction leaves the reductions.            *)
LEMMA PlainSteps ==
  ASSUME NEW l, NEW m, NEW e, Grown(l, m, e), e.kind \in Plain
  PROVE  SameSteps(l, m)
<1>1. ASSUME NEW kind \in Steps
      PROVE  Of(m, kind) = Of(l, kind) /\ \A p \in Of(l, kind) : m[p] = l[p]
  <2>1. e.kind # kind
    BY DEF Plain, Steps
  <2>2. Of(m, kind) = Of(l, kind) \cup (IF e.kind = kind THEN {Len(l) + 1} ELSE {})
    BY GrownKinds
  <2>3. \A p \in Of(l, kind) : m[p] = l[p]
    BY GrownKinds
  <2> QED BY <2>1, <2>2, <2>3
<1>2. m \in Seq(Range(m)) /\ Len(l) <= Len(m)
  BY DEF Grown
<1> QED BY <1>1, <1>2 DEF SameSteps

(* Nothing but plain entries, and no reduction is opened or closed.          *)
LEMMA SameSpans ==
  ASSUME SpansInv, SameSteps(log, log'), span' = span,
         at' \in {"idle", "opening", "step", "calling"},
         at' # "idle" => Unfinished = {}
  PROVE  SpansInv'
<1>1. /\ Started' = Started /\ \A p \in Started : log'[p] = log[p]
      /\ Checkpoints' = Checkpoints /\ \A p \in Checkpoints : log'[p] = log[p]
      /\ Of(log', "finished") = Of(log, "finished")
      /\ \A p \in Of(log, "finished") : log'[p] = log[p]
  BY DEF SameSteps, Steps, Started, Checkpoints
<1>2. Unfinished' = Unfinished
  BY <1>1 DEF Unfinished, Finished
<1>3. EndsInv'
  BY <1>1 DEF SpansInv, EndsInv
<1>4. MarksInv'
  BY <1>1 DEF SpansInv, MarksInv
<1>5. OpenInv'
  BY <1>2 DEF OpenInv
<1>6. log' \in Seq(Range(log'))
  BY DEF SameSteps
<1> QED BY <1>3, <1>4, <1>5, <1>6 DEF SpansInv

(* Two entries are appended one by one.                                      *)
LEMMA TwoMore ==
  ASSUME NEW S, NEW s \in Seq(S), NEW x \in S, NEW y \in S
  PROVE  s \o <<x, y>> = (s \o <<x>>) \o <<y>>
<1> DEFINE a == <<x, y>>
           b == <<x>>
           c == <<y>>
<1>1. /\ a \in Seq(S) /\ Len(a) = 2 /\ a[1] = x /\ a[2] = y
      /\ b \in Seq(S) /\ Len(b) = 1 /\ b[1] = x
      /\ c \in Seq(S) /\ Len(c) = 1 /\ c[1] = y
  OBVIOUS
<1> HIDE DEF a, b, c
<1>2. b \o c = a
  <2>1. /\ b \o c \in Seq(S) /\ Len(b \o c) = 2
        /\ \A i \in 1..2 : (b \o c)[i] = IF i <= 1 THEN b[i] ELSE c[i - 1]
    BY <1>1, ConcatProperties
  <2>2. (b \o c)[1] = x /\ (b \o c)[2] = y
    BY <1>1, <2>1
  <2>3. \A i \in 1..2 : i = 1 \/ i = 2
    OBVIOUS
  <2>4. \A i \in 1..2 : (b \o c)[i] = a[i]
    BY <1>1, <2>2, <2>3
  <2> QED BY <1>1, <2>1, <2>4, SeqEqual
<1>3. s \o (b \o c) = (s \o b) \o c
  <2>1. b \in Seq(S) /\ c \in Seq(S)
    BY <1>1
  <2>2. (s \o b) \o c = s \o (b \o c)
    BY <2>1, ConcatAssociative
  <2> QED BY <2>2
<1> QED BY <1>2, <1>3 DEF a, b, c

(* A prompt, which the instructions may precede.                             *)
LEMMA SentEntries ==
  ASSUME log \in Seq(Range(log)), Send
  PROVE  \/ Grown(log, log', [kind |-> "user"])
         \/ \E l : Grown(log, l, [kind |-> "block"]) /\ Grown(l, log', [kind |-> "user"])
<1> DEFINE u == [kind |-> "user"]
           b == [kind |-> "block"]
<1>1. PICK kinds \in {<<"user">>, <<"block", "user">>} :
         log' = log \o [i \in DOMAIN kinds |-> [kind |-> kinds[i]]]
  BY DEF Send, Write
<1>2. CASE kinds = <<"user">>
  <2>1. [i \in DOMAIN kinds |-> [kind |-> kinds[i]]] = <<u>>
    BY <1>2
  <2>2. Grown(log, log', u)
    BY <1>1, <2>1, OneMore
  <2> QED BY <2>2
<1>3. CASE kinds = <<"block", "user">>
  <2>1. [i \in DOMAIN kinds |-> [kind |-> kinds[i]]] = <<b, u>>
    BY <1>3
  <2>2. PICK l : l = log \o <<b>>
    OBVIOUS
  <2>3. Grown(log, l, b)
    BY <2>2, OneMore
  <2>4. log' = l \o <<u>>
    <3> DEFINE S == Range(log) \cup {u, b}
    <3>1. log \in Seq(S) /\ u \in S /\ b \in S
      OBVIOUS
    <3> HIDE DEF S, u, b
    <3>2. log \o <<b, u>> = (log \o <<b>>) \o <<u>>
      BY <3>1, TwoMore
    <3> QED BY <1>1, <2>1, <2>2, <3>2
  <2>5. Grown(l, log', u)
    <3>1. l \in Seq(Range(l))
      BY <2>3 DEF Grown
    <3> QED BY <2>4, <3>1, OneMore
  <2> QED BY <2>3, <2>5 DEF u, b
<1> QED BY <1>1, <1>2, <1>3

(* The steps of a turn that write leave the reductions.                      *)
LEMMA TurnSteps ==
  ASSUME SpansInv, Send \/ BeginTurn \/ Inject \/ Reply \/ Return \/ Prune
  PROVE  SpansInv'
<1>1. log \in Seq(Range(log)) /\ OpenInv
  BY DEF SpansInv
<1>2. ASSUME NEW e, e.kind \in Plain, log' = log \o <<e>> PROVE SameSteps(log, log')
  BY <1>1, <1>2, OneMore, PlainSteps
<1>3. CASE Send
  <2>1. at' = "opening" /\ span' = span /\ Unfinished = {}
    BY <1>3 DEF Send
  <2>2. ASSUME Grown(log, log', [kind |-> "user"]) PROVE SameSteps(log, log')
    BY <2>2, PlainSteps DEF Plain
  <2>3. ASSUME NEW l, Grown(log, l, [kind |-> "block"]), Grown(l, log', [kind |-> "user"])
        PROVE  SameSteps(log, log')
    <3>1. SameSteps(log, l)
      BY <2>3, PlainSteps DEF Plain
    <3>2. SameSteps(l, log')
      BY <2>3, PlainSteps DEF Plain
    <3>3. log' \in Seq(Range(log')) /\ Len(log) <= Len(log')
      BY <2>3 DEF Grown
    <3>4. \A kind \in Steps : Of(log', kind) = Of(log, kind)
                              /\ \A p \in Of(log, kind) : log'[p] = log[p]
      BY <3>1, <3>2 DEF SameSteps
    <3> QED BY <3>3, <3>4 DEF SameSteps
  <2>4. SameSteps(log, log')
    BY <1>1, <1>3, <2>2, <2>3, SentEntries
  <2> QED BY <2>1, <2>4, SameSpans
<1>4. CASE BeginTurn
  <2>1. /\ log' = log \o <<[kind |-> "turn"]>>
        /\ at = "opening" /\ at' = "step" /\ span' = span
    BY <1>4 DEF BeginTurn, Write
  <2>2. SameSteps(log, log') /\ Unfinished = {}
    BY <1>1, <1>2, <2>1 DEF Plain, OpenInv
  <2> QED BY <2>1, <2>2, SameSpans
<1>5. CASE Inject
  <2>1. PICK kind \in {"user", "block"} : log' = log \o <<[kind |-> kind]>>
    BY <1>5 DEF Inject, Write
  <2>2. at \in {"idle", "step"} /\ at' = at /\ span' = span
    BY <1>5 DEF Inject
  <2>3. SameSteps(log, log') /\ (at # "idle" => Unfinished = {})
    BY <1>1, <1>2, <2>1, <2>2 DEF Plain, OpenInv
  <2> QED BY <2>2, <2>3, SameSpans
<1>6. CASE Reply
  <2>1. PICK s \in Shape :
           /\ log' = log \o <<[kind |-> "assistant", text |-> s.text, calls |-> s.calls]>>
           /\ at' \in {"idle", "calling"}
    BY <1>6 DEF Reply, Write
  <2>2. at = "step" /\ span' = span
    BY <1>6 DEF Reply
  <2>3. SameSteps(log, log') /\ Unfinished = {}
    BY <1>1, <1>2, <2>1, <2>2 DEF Plain, OpenInv
  <2> QED BY <2>1, <2>2, <2>3, SameSpans
<1>7. CASE Return
  <2>1. PICK c \in Missing :
           /\ log' = log \o <<[kind |-> "result", call |-> c]>>
           /\ at' \in {"step", "calling"}
    BY <1>7 DEF Return, Write
  <2>2. at = "calling" /\ span' = span
    BY <1>7 DEF Return
  <2>3. SameSteps(log, log') /\ Unfinished = {}
    BY <1>1, <1>2, <2>1, <2>2 DEF Plain, OpenInv
  <2> QED BY <2>1, <2>2, <2>3, SameSpans
<1>8. CASE Prune
  <2>1. PICK p \in Of(log, "result") : log' = log \o <<[kind |-> "prune", of |-> p]>>
    BY <1>8 DEF Prune, Write
  <2>2. at = "step" /\ at' = at /\ span' = span
    BY <1>8 DEF Prune
  <2>3. SameSteps(log, log') /\ Unfinished = {}
    BY <1>1, <1>2, <2>1, <2>2 DEF Plain, OpenInv
  <2> QED BY <2>2, <2>3, SameSpans
<1> QED BY <1>3, <1>4, <1>5, <1>6, <1>7, <1>8

(* The entries of reductions, and the new one among them.                    *)
LEMMA GrownSteps ==
  ASSUME NEW e, Grown(log, log', e)
  PROVE  /\ Started' = Started \cup (IF e.kind = "started" THEN {Len(log) + 1} ELSE {})
         /\ Checkpoints' = Checkpoints \cup (IF e.kind = "checkpoint" THEN {Len(log) + 1} ELSE {})
         /\ Of(log', "finished") = Of(log, "finished")
                                     \cup (IF e.kind = "finished" THEN {Len(log) + 1} ELSE {})
         /\ \A p \in Started : p \in 1..Len(log) /\ log'[p] = log[p]
         /\ \A p \in Checkpoints : p \in 1..Len(log) /\ log'[p] = log[p]
         /\ \A p \in Of(log, "finished") : p \in 1..Len(log) /\ log'[p] = log[p]
         /\ log'[Len(log) + 1] = e /\ Len(log) \in Nat
         /\ log' \in Seq(Range(log'))
<1>1. /\ Of(log', "started") = Of(log, "started")
                                \cup (IF e.kind = "started" THEN {Len(log) + 1} ELSE {})
      /\ \A p \in Of(log, "started") : p \in 1..Len(log) /\ log'[p] = log[p]
  BY GrownKinds
<1>2. /\ Of(log', "checkpoint") = Of(log, "checkpoint")
                                   \cup (IF e.kind = "checkpoint" THEN {Len(log) + 1} ELSE {})
      /\ \A p \in Of(log, "checkpoint") : p \in 1..Len(log) /\ log'[p] = log[p]
  BY GrownKinds
<1>3. /\ Of(log', "finished") = Of(log, "finished")
                                 \cup (IF e.kind = "finished" THEN {Len(log) + 1} ELSE {})
      /\ \A p \in Of(log, "finished") : p \in 1..Len(log) /\ log'[p] = log[p]
  BY GrownKinds
<1>4. /\ log'[Len(log) + 1] = e /\ Len(log) \in Nat /\ log' \in Seq(Range(log'))
  BY DEF Grown
<1> QED BY <1>1, <1>2, <1>3, <1>4 DEF Started, Checkpoints

(* A reduction begins, where none is open, behind all others.                *)
LEMMA BeginSpans ==
  ASSUME SpansInv, Unfinished = {}, NEW start, NEW cut, NEW back \in {"idle", "step"},
         Begin(start, cut, back)
  PROVE  SpansInv'
<1> DEFINE n == Len(log) + 1
           e == [kind |-> "started"]
<1>1. /\ log \in Seq(Range(log)) /\ EndsInv /\ MarksInv
      /\ log' = log \o <<e>> /\ at' = "folding"
      /\ span'.started = n /\ span'.back = back
  BY DEF SpansInv, Begin, Write
<1>2. Grown(log, log', e) /\ e.kind = "started"
  BY <1>1, OneMore
<1> HIDE DEF e
<1>3. /\ Started' = Started \cup {n} /\ Started \subseteq 1..Len(log)
      /\ Checkpoints' = Checkpoints /\ Checkpoints \subseteq 1..Len(log)
      /\ Of(log', "finished") = Of(log, "finished")
  BY <1>2, GrownSteps
<1>4. /\ \A p \in Checkpoints : log'[p] = log[p]
      /\ \A p \in Of(log, "finished") : log'[p] = log[p]
  BY <1>2, GrownSteps
<1>5. Len(log) \in Nat /\ log' \in Seq(Range(log'))
  BY <1>2, GrownSteps
<1> HIDE DEF n
<1>6. EndsInv'
  <2>1. \A p \in Of(log', "finished") : log'[p].of \in Started'
    BY <1>1, <1>3, <1>4 DEF EndsInv
  <2>2. \A p, q \in Of(log', "finished") : log'[p].of = log'[q].of => p = q
    BY <1>1, <1>3, <1>4 DEF EndsInv
  <2>3. \A p \in Of(log', "finished"), c \in Checkpoints' :
           log'[c].started = log'[p].of => log'[p].committed
    <3>1. \A p \in Of(log, "finished"), c \in Checkpoints :
             log[c].started = log[p].of => log[p].committed
      BY <1>1 DEF EndsInv
    <3>2. ASSUME NEW p \in Of(log', "finished"), NEW c \in Checkpoints',
                 log'[c].started = log'[p].of
          PROVE  log'[p].committed
      <4>1. p \in Of(log, "finished") /\ c \in Checkpoints
        BY <1>3
      <4>2. log'[p] = log[p] /\ log'[c] = log[c]
        BY <1>4, <4>1
      <4> QED BY <3>1, <3>2, <4>1, <4>2
    <3> QED BY <3>2
  <2> QED BY <2>1, <2>2, <2>3 DEF EndsInv
<1>7. MarksInv'
  <2>1. ASSUME NEW c \in Checkpoints, log[c].started # 0
        PROVE  /\ log[c].started \in Started /\ log[c].started < c
               /\ \A u \in Started \cup {n} : ~(log[c].started < u /\ u < c)
    <3>1. /\ log[c].started \in Started /\ log[c].started < c
          /\ \A u \in Started : ~(log[c].started < u /\ u < c)
      BY <1>1, <2>1 DEF MarksInv
    <3>2. ~(n < c)
      BY <1>3, <1>5, <2>1 DEF n
    <3> QED BY <3>1, <3>2
  <2> QED BY <1>3, <1>4, <2>1 DEF MarksInv
<1>8. Unfinished' = {n}
  <2>1. \A p \in Of(log, "finished") : log[p].of # n
    <3>1. \A p \in Of(log, "finished") : log[p].of \in 1..Len(log)
      BY <1>1, <1>3 DEF EndsInv
    <3> QED BY <1>5, <3>1 DEF n
  <2>2. \A s \in Started : \E p \in Of(log, "finished") : log[p].of = s
    BY DEF Unfinished, Finished
  <2>3. Unfinished' = {s \in Started \cup {n} : \A p \in Of(log, "finished") : log[p].of # s}
    BY <1>3, <1>4 DEF Unfinished, Finished
  <2> QED BY <2>1, <2>2, <2>3
<1>9. OpenInv'
  <2>1. \A u \in Started' : u <= n
    BY <1>3, <1>5 DEF n
  <2>2. \A c \in Checkpoints' : log'[c].started # n
    <3>1. \A c \in Checkpoints : log[c].started # 0 => log[c].started \in 1..Len(log)
      BY <1>1, <1>3 DEF MarksInv
    <3>2. n # 0 /\ n \notin 1..Len(log)
      BY <1>5 DEF n
    <3> QED BY <1>3, <1>4, <3>1, <3>2
  <2> QED BY <1>1, <1>8, <2>1, <2>2 DEF OpenInv
<1> QED BY <1>5, <1>6, <1>7, <1>9 DEF SpansInv

(* A checkpoint lands while its reduction is open, or belongs to none.       *)
LEMMA CheckpointSpans ==
  ASSUME SpansInv, NEW e, e.kind = "checkpoint", log' = log \o <<e>>, span' = span,
         \/ /\ at = "folding" /\ at' = "folded" /\ e.started = span.started
         \/ /\ at = "idle" /\ at' = at /\ e.started = 0
  PROVE  SpansInv'
<1> DEFINE n == Len(log) + 1
<1>1. log \in Seq(Range(log)) /\ EndsInv /\ MarksInv /\ OpenInv
  BY DEF SpansInv
<1>2. Grown(log, log', e)
  BY <1>1, OneMore
<1>3. /\ Started' = Started /\ Started \subseteq 1..Len(log)
      /\ Checkpoints' = Checkpoints \cup {n} /\ Checkpoints \subseteq 1..Len(log)
      /\ Of(log', "finished") = Of(log, "finished")
      /\ n \notin Checkpoints
  <2>1. Started' = Started
    BY <1>2, GrownSteps
  <2>2. Checkpoints' = Checkpoints \cup {n}
    BY <1>2, GrownSteps
  <2>3. Of(log', "finished") = Of(log, "finished")
    BY <1>2, GrownSteps
  <2>4. Started \subseteq 1..Len(log) /\ Checkpoints \subseteq 1..Len(log) /\ Len(log) \in Nat
    BY <1>2, GrownSteps
  <2> QED BY <2>1, <2>2, <2>3, <2>4
<1>4. /\ \A p \in Checkpoints : log'[p] = log[p]
      /\ \A p \in Of(log, "finished") : log'[p] = log[p]
      /\ log'[n] = e
  BY <1>2, GrownSteps
<1>5. Len(log) \in Nat /\ log' \in Seq(Range(log'))
  BY <1>2, GrownSteps
<1> HIDE DEF n
<1>6. Unfinished' = Unfinished
  <2>1. ASSUME NEW s PROVE Finished(s)' = Finished(s)
    BY <1>3, <1>4 DEF Finished
  <2> QED BY <1>3, <2>1 DEF Unfinished
<1>7. at = "folding" => Unfinished = {span.started} /\ \A u \in Started : u <= span.started
  BY <1>1 DEF OpenInv
<1>8. EndsInv'
  <2>1. \A p \in Of(log, "finished") : log[p].of # e.started
    <3>1. CASE at = "folding"
      <4>1. span.started \in Unfinished
        BY <1>7, <3>1
      <4>2. \A p \in Of(log, "finished") : log[p].of # span.started
        BY <4>1 DEF Unfinished, Finished
      <4> QED BY <3>1, <4>2
    <3>2. CASE at = "idle"
      <4>1. \A p \in Of(log, "finished") : log[p].of \in 1..Len(log)
        BY <1>1, <1>3 DEF EndsInv
      <4> QED BY <3>2, <4>1
    <3> QED BY <3>1, <3>2
  <2>2. \A p \in Of(log, "finished"), c \in Checkpoints :
           log[c].started = log[p].of => log[p].committed
    BY <1>1 DEF EndsInv
  <2>3. \A p \in Of(log', "finished"), c \in Checkpoints' :
           log'[c].started = log'[p].of => log'[p].committed
    <3>1. ASSUME NEW p \in Of(log', "finished"), NEW c \in Checkpoints',
                 log'[c].started = log'[p].of
          PROVE  log'[p].committed
      <4>1. p \in Of(log, "finished") /\ log'[p] = log[p]
        BY <1>3, <1>4
      <4>2. CASE c = n
        BY <1>4, <2>1, <3>1, <4>1, <4>2
      <4>3. CASE c # n
        <5>1. c \in Checkpoints /\ log'[c] = log[c]
          BY <1>3, <1>4, <4>3
        <5> QED BY <2>2, <3>1, <4>1, <5>1
      <4> QED BY <4>2, <4>3
    <3> QED BY <3>1
  <2>4. \A p \in Of(log', "finished") : log'[p].of \in Started'
    BY <1>1, <1>3, <1>4 DEF EndsInv
  <2>5. \A p, q \in Of(log', "finished") : log'[p].of = log'[q].of => p = q
    <3>1. \A p, q \in Of(log, "finished") : log[p].of = log[q].of => p = q
      BY <1>1 DEF EndsInv
    <3>2. ASSUME NEW p \in Of(log', "finished"), NEW q \in Of(log', "finished"),
                 log'[p].of = log'[q].of
          PROVE  p = q
      <4>1. p \in Of(log, "finished") /\ q \in Of(log, "finished")
        BY <1>3
      <4>2. log'[p] = log[p] /\ log'[q] = log[q]
        BY <1>4, <4>1
      <4> QED BY <3>1, <3>2, <4>1, <4>2
    <3> QED BY <3>2
  <2> QED BY <2>3, <2>4, <2>5 DEF EndsInv
<1>9. MarksInv'
  <2>1. e.started # 0 => /\ e.started \in Started /\ e.started < n
                         /\ \A u \in Started : ~(e.started < u /\ u < n)
    <3>1. CASE at = "folding"
      <4>1. e.started = span.started /\ span.started \in Started
        BY <1>7, <3>1 DEF Unfinished
      <4>2. \A u \in Started : u \in Nat /\ u < n
        BY <1>3, <1>5 DEF n
      <4> QED BY <1>7, <3>1, <4>1, <4>2
    <3>2. CASE at = "idle"
      BY <3>2
    <3> QED BY <3>1, <3>2
  <2>2. ASSUME NEW c \in Checkpoints', log'[c].started # 0
        PROVE  /\ log'[c].started \in Started /\ log'[c].started < c
               /\ \A u \in Started : ~(log'[c].started < u /\ u < c)
    <3>1. CASE c = n
      BY <1>4, <2>1, <2>2, <3>1
    <3>2. CASE c # n
      <4>1. c \in Checkpoints /\ log'[c] = log[c]
        BY <1>3, <1>4, <3>2
      <4> QED BY <1>1, <2>2, <4>1 DEF MarksInv
    <3> QED BY <3>1, <3>2
  <2> QED BY <1>3, <2>2 DEF MarksInv
<1>10. OpenInv'
  BY <1>1, <1>3, <1>6 DEF OpenInv
<1> QED BY <1>5, <1>8, <1>9, <1>10 DEF SpansInv

(* An open reduction ends, and its end says whether its checkpoint landed.   *)
LEMMA FinishSpans ==
  ASSUME SpansInv, NEW e, e.kind = "finished", log' = log \o <<e>>,
         e.of \in Unfinished,
         \A c \in Checkpoints : log[c].started = e.of => e.committed,
         \/ at' = "idle"
         \/ at' = "step" /\ Unfinished = {e.of}
  PROVE  SpansInv'
<1> DEFINE n == Len(log) + 1
<1>1. log \in Seq(Range(log)) /\ EndsInv /\ MarksInv /\ OpenInv
  BY DEF SpansInv
<1>2. Grown(log, log', e)
  BY <1>1, OneMore
<1>3. /\ Started' = Started /\ Checkpoints' = Checkpoints
      /\ Of(log', "finished") = Of(log, "finished") \cup {n}
      /\ n \notin Of(log, "finished")
  <2>1. Of(log, "finished") \subseteq 1..Len(log) /\ Len(log) \in Nat
    BY <1>2, GrownSteps
  <2>2. Started' = Started
    BY <1>2, GrownSteps
  <2>3. Checkpoints' = Checkpoints
    BY <1>2, GrownSteps
  <2>4. Of(log', "finished") = Of(log, "finished") \cup {n}
    BY <1>2, GrownSteps
  <2> QED BY <2>1, <2>2, <2>3, <2>4
<1>4. /\ \A p \in Checkpoints : log'[p] = log[p]
      /\ \A p \in Of(log, "finished") : log'[p] = log[p]
      /\ log'[n] = e
  BY <1>2, GrownSteps
<1>5. log' \in Seq(Range(log'))
  BY <1>2, GrownSteps
<1> HIDE DEF n
<1>6. e.of \in Started /\ \A p \in Of(log, "finished") : log[p].of # e.of
  BY DEF Unfinished, Finished
<1>7. EndsInv'
  <2>1. /\ \A p \in Of(log', "finished") : log'[p].of \in Started'
        /\ \A p, q \in Of(log', "finished") : log'[p].of = log'[q].of => p = q
    <3>1. \A p \in Of(log, "finished") : log[p].of \in Started
      BY <1>1 DEF EndsInv
    <3>2. \A p, q \in Of(log, "finished") : log[p].of = log[q].of => p = q
      BY <1>1 DEF EndsInv
    <3>3. \A p \in Of(log', "finished") : log'[p].of \in Started'
      BY <1>3, <1>4, <1>6, <3>1
    <3>4. ASSUME NEW p \in Of(log', "finished"), NEW q \in Of(log', "finished"),
                 log'[p].of = log'[q].of
          PROVE  p = q
      <4>1. CASE p = n /\ q # n
        BY <1>3, <1>4, <1>6, <3>4, <4>1
      <4>2. CASE p # n /\ q = n
        BY <1>3, <1>4, <1>6, <3>4, <4>2
      <4>3. CASE p # n /\ q # n
        BY <1>3, <1>4, <3>2, <3>4, <4>3
      <4> QED BY <4>1, <4>2, <4>3
    <3> QED BY <3>3, <3>4
  <2>2. \A p \in Of(log', "finished"), c \in Checkpoints' :
           log'[c].started = log'[p].of => log'[p].committed
    <3>1. \A p \in Of(log, "finished"), c \in Checkpoints :
             log[c].started = log[p].of => log[p].committed
      BY <1>1 DEF EndsInv
    <3>2. ASSUME NEW p \in Of(log', "finished"), NEW c \in Checkpoints',
                 log'[c].started = log'[p].of
          PROVE  log'[p].committed
      <4>1. c \in Checkpoints /\ log'[c] = log[c]
        BY <1>3, <1>4
      <4>2. CASE p = n
        BY <1>4, <3>2, <4>1, <4>2
      <4>3. CASE p # n
        <5>1. p \in Of(log, "finished") /\ log'[p] = log[p]
          BY <1>3, <1>4, <4>3
        <5> QED BY <3>1, <3>2, <4>1, <5>1
      <4> QED BY <4>2, <4>3
    <3> QED BY <3>2
  <2> QED BY <2>1, <2>2 DEF EndsInv
<1>8. MarksInv'
  BY <1>1, <1>3, <1>4 DEF MarksInv
<1>9. OpenInv'
  <2>1. CASE at' = "idle"
    BY <2>1 DEF OpenInv
  <2>2. CASE at' = "step" /\ Unfinished = {e.of}
    <3>1. Unfinished' = {}
      <4>1. \A s \in Started : s # e.of => \E p \in Of(log, "finished") : log[p].of = s
        BY <2>2 DEF Unfinished, Finished
      <4>2. \A s \in Started' : \E p \in Of(log', "finished") : log'[p].of = s
        <5>1. ASSUME NEW s \in Started PROVE \E p \in Of(log', "finished") : log'[p].of = s
          <6>1. CASE s = e.of
            BY <1>3, <1>4, <6>1
          <6>2. CASE s # e.of
            <7>1. PICK p \in Of(log, "finished") : log[p].of = s
              BY <4>1, <6>2
            <7>2. p \in Of(log', "finished") /\ log'[p] = log[p]
              BY <1>3, <1>4, <7>1
            <7> QED BY <7>1, <7>2
          <6> QED BY <6>1, <6>2
        <5> QED BY <1>3, <5>1
      <4>3. \A s \in Started' : Finished(s)' # {}
        BY <4>2 DEF Finished
      <4> QED BY <4>3 DEF Unfinished
    <3> QED BY <2>2, <3>1 DEF OpenInv
  <2> QED BY <2>1, <2>2
<1> QED BY <1>5, <1>7, <1>8, <1>9 DEF SpansInv

(* Every step keeps the invariant.                                           *)
LEMMA NextSpans ==
  ASSUME SpansInv, [FoldNext]_foldVars
  PROVE  SpansInv'
<1>1. log \in Seq(Range(log)) /\ EndsInv /\ MarksInv /\ OpenInv
  BY DEF SpansInv
<1>2. CASE Send \/ BeginTurn \/ Inject \/ Reply \/ Return \/ Prune
  BY <1>2, TurnSteps
<1>3. CASE Stop
  <2>1. log' = log /\ at' = "idle"
    BY <1>3 DEF Stop
  <2> QED BY <1>1, <2>1 DEF SpansInv, EndsInv, MarksInv, OpenInv, Started, Checkpoints
<1>4. CASE BeginPrefix
  <2>1. PICK cut : Begin(0, cut, "step")
    BY <1>4 DEF BeginPrefix
  <2>2. Unfinished = {}
    BY <1>1, <1>4 DEF BeginPrefix, OpenInv
  <2> QED BY <2>1, <2>2, BeginSpans
<1>5. CASE BeginRegion
  <2>1. PICK start, cut : Begin(start, cut, "idle")
    BY <1>5 DEF BeginRegion
  <2>2. Unfinished = {}
    BY <1>5 DEF BeginRegion
  <2> QED BY <2>1, <2>2, BeginSpans
<1>6. CASE Commit
  <2> DEFINE e == [kind |-> "checkpoint", replaces |-> span.replaces, told |-> span.told,
                   started |-> span.started]
  <2>1. log' = log \o <<e>> /\ at = "folding" /\ at' = "folded" /\ span' = span
    BY <1>6 DEF Commit, Write
  <2>2. e.kind = "checkpoint" /\ e.started = span.started
    OBVIOUS
  <2> HIDE DEF e
  <2> QED BY <2>1, <2>2, CheckpointSpans
<1>7. CASE Compact
  <2>1. PICK cut : log' = log \o <<[kind |-> "checkpoint", replaces |-> Foldable(cut),
                                    told |-> Read(cut), started |-> 0]>>
    BY <1>7 DEF Compact, Write
  <2> DEFINE e == [kind |-> "checkpoint", replaces |-> Foldable(cut), told |-> Read(cut),
                   started |-> 0]
  <2>2. e.kind = "checkpoint" /\ e.started = 0 /\ at = "idle" /\ at' = at /\ span' = span
    BY <1>7 DEF Compact
  <2> HIDE DEF e
  <2>3. log' = log \o <<e>>
    BY <2>1 DEF e
  <2> QED BY <2>2, <2>3, CheckpointSpans
<1>8. CASE Finish
  <2> DEFINE e == [kind |-> "finished", of |-> span.started, committed |-> at = "folded"]
  <2>1. /\ log' = log \o <<e>> /\ at \in {"folding", "folded"} /\ at' = span.back
    BY <1>8 DEF Finish, Write
  <2>2. /\ Unfinished = {span.started} /\ span.back \in {"idle", "step"}
        /\ at = "folding" => \A c \in Checkpoints : log[c].started # span.started
    BY <1>1, <2>1 DEF OpenInv
  <2>3. e.kind = "finished" /\ e.of = span.started
    OBVIOUS
  <2>4. \A c \in Checkpoints : log[c].started = e.of => e.committed
    <3>1. at = "folded" => e.committed
      OBVIOUS
    <3> HIDE DEF e
    <3> QED BY <2>1, <2>2, <2>3, <3>1
  <2> HIDE DEF e
  <2> QED BY <2>1, <2>2, <2>3, <2>4, FinishSpans
<1>9. CASE Recover
  <2> DEFINE landed(s) == \E c \in Of(log, "checkpoint") :
                             s < c /\ \A u \in Started : ~(s < u /\ u < c)
  <2>1. PICK s \in Unfinished :
           log' = log \o <<[kind |-> "finished", of |-> s, committed |-> landed(s)]>>
    BY <1>9 DEF Recover, Write
  <2> DEFINE e == [kind |-> "finished", of |-> s, committed |-> landed(s)]
  <2>2. at' = "idle"
    BY <1>9 DEF Recover
  <2>3. e.kind = "finished" /\ e.of = s /\ (landed(s) => e.committed)
    OBVIOUS
  <2>4. \A c \in Checkpoints : log[c].started = s => landed(s)
    <3>1. s # 0 
      <4>1. Started \subseteq 1..Len(log)
        BY <1>1 DEF Started, Of
      <4> QED BY <4>1 DEF Unfinished
    <3> QED BY <1>1, <3>1 DEF MarksInv, Checkpoints
  <2> HIDE DEF landed
  <2>5. \A c \in Checkpoints : log[c].started = e.of => e.committed
    BY <2>3, <2>4
  <2>6. log' = log \o <<e>>
    BY <2>1
  <2> HIDE DEF e
  <2> QED BY <2>2, <2>3, <2>5, <2>6, FinishSpans
<1>10. CASE UNCHANGED foldVars
  BY <1>1, <1>10 DEF foldVars, SpansInv, EndsInv, MarksInv, OpenInv, Started, Checkpoints,
                     Unfinished, Finished
<1> QED BY <1>2, <1>3, <1>4, <1>5, <1>6, <1>7, <1>8, <1>9, <1>10 DEF FoldNext

(* A reduction that is open is the last one, and an end knows whether its    *)
(* checkpoint is in the log.                                                 *)
THEOREM SpansInvariance == FoldSpec => []SpansInv
<1>1. SpansInv /\ [FoldNext]_foldVars => SpansInv'
  BY NextSpans
<1> QED BY <1>1, InitSpans, PTL DEF FoldSpec

(* When a turn goes on, every reduction has one end, which knows of its      *)
(* checkpoint (reduce_cached, recover of turn/compaction.rs).                *)
THEOREM OneEnd == FoldSpec => []SpansTold
<1>1. SpansInv => SpansTold
  <2> SUFFICES ASSUME SpansInv, at = "step", NEW s \in Started
               PROVE  /\ Cardinality(Finished(s)) = 1
                      /\ (\E c \in Checkpoints : log[c].started = s) =>
                            \A p \in Finished(s) : log[p].committed
    BY DEF SpansTold
  <2>1. EndsInv /\ Unfinished = {}
    BY DEF SpansInv, OpenInv
  <2>2. PICK p \in Of(log, "finished") : log[p].of = s
    BY <2>1 DEF Unfinished, Finished
  <2>3. Finished(s) = {p}
    BY <2>1, <2>2 DEF EndsInv, Finished
  <2>4. Cardinality(Finished(s)) = 1
    BY <2>3, FS_Singleton
  <2>5. ASSUME NEW c \in Checkpoints, log[c].started = s PROVE log[p].committed
    BY <2>1, <2>2, <2>5 DEF EndsInv
  <2> QED BY <2>3, <2>4, <2>5
<1> QED BY <1>1, SpansInvariance, PTL
-----------------------------------------------------------------------------
(* FlattenSeq, and the turns that are repaired.                              *)

IsFlat(f, s, n) == f = [i \in 1..n |-> IF i = 1 THEN s[i] ELSE f[i - 1] \o s[i]]

(* The recursive definition of FlattenSeq has a solution, for every length.  *)
LEMMA FlatExists ==
  ASSUME NEW s, NEW n \in Nat
  PROVE  \E f : IsFlat(f, s, n)
<1> DEFINE T == {k \in Nat : \E f : IsFlat(f, s, k)}
<1>1. 0 \in T
  <2> DEFINE f == [i \in 1..0 |-> <<>>]
  <2>1. f = [i \in 1..0 |-> IF i = 1 THEN s[i] ELSE f[i - 1] \o s[i]]
    OBVIOUS
  <2> QED BY <2>1 DEF IsFlat
<1>2. ASSUME NEW k \in T PROVE k + 1 \in T
  <2>1. PICK f : IsFlat(f, s, k)
    OBVIOUS
  <2> DEFINE h == [i \in 1..(k + 1) |-> IF i <= k THEN f[i]
                                        ELSE IF i = 1 THEN s[i] ELSE f[i - 1] \o s[i]]
  <2>2. ASSUME NEW i \in 1..(k + 1)
        PROVE  h[i] = IF i = 1 THEN s[i] ELSE h[i - 1] \o s[i]
    <3>1. CASE i <= k
      <4>1. h[i] = f[i] /\ i \in 1..k /\ (i # 1 => h[i - 1] = f[i - 1])
        BY <3>1
      <4> HIDE DEF h
      <4>2. f[i] = IF i = 1 THEN s[i] ELSE f[i - 1] \o s[i]
        BY <2>1, <4>1 DEF IsFlat
      <4> QED BY <4>1, <4>2
    <3>2. CASE i = k + 1
      <4>1. i # 1 => h[i - 1] = f[i - 1]
        BY <3>2
      <4>2. h[i] = IF i = 1 THEN s[i] ELSE f[i - 1] \o s[i]
        BY <3>2
      <4> HIDE DEF h
      <4> QED BY <4>1, <4>2
    <3> QED BY <3>1, <3>2
  <2>3. h = [i \in 1..(k + 1) |-> h[i]]
    OBVIOUS
  <2> HIDE DEF h
  <2>4. IsFlat(h, s, k + 1)
    BY <2>2, <2>3 DEF IsFlat
  <2> QED BY <2>4
<1> HIDE DEF T
<1>3. T = Nat
  BY <1>1, <1>2, Sel!InductionOnSet DEF T
<1> QED BY <1>3 DEF T

(* What FlattenSeq is, step by step.                                         *)
LEMMA Flattened ==
  ASSUME NEW s, Len(s) \in Nat \ {0}
  PROVE  \E f : /\ FlattenSeq(s) = f[Len(s)] /\ f[1] = s[1]
                /\ \A i \in 1..(Len(s) - 1) : f[i + 1] = f[i] \o s[i + 1]
<1> DEFINE f == CHOOSE g : IsFlat(g, s, Len(s))
<1>1. FlattenSeq(s) = f[Len(s)]
  BY DEF FlattenSeq, IsFlat
<1>2. IsFlat(f, s, Len(s))
  BY FlatExists
<1> HIDE DEF f
<1>3. \A i \in 1..Len(s) : f[i] = IF i = 1 THEN s[i] ELSE f[i - 1] \o s[i]
  BY <1>2 DEF IsFlat
<1>4. f[1] = s[1]
  BY <1>3
<1>5. \A i \in 1..(Len(s) - 1) : f[i + 1] = f[i] \o s[i + 1]
  <2> TAKE i \in 1..(Len(s) - 1)
  <2>1. i + 1 \in 1..Len(s) /\ i + 1 # 1 /\ (i + 1) - 1 = i
    OBVIOUS
  <2> QED BY <1>3, <2>1
<1> QED BY <1>1, <1>4, <1>5

(* A turn cites a source for each call it has the result of; any other, one. *)
IsTurn(t) ==
    /\ t = [x \in {"kind", "text", "calls", "cites"} |-> t[x]]
    /\ t.kind \in {"user", "assistant", "results"} /\ t.cites \in Seq(Nat)
    /\ IF t.kind = "results" THEN IsFiniteSet(t.calls) /\ Cardinality(t.calls) <= Len(t.cites)
                             ELSE Len(t.cites) = 1

(* The calls of turn i are answered by the next turn.                        *)
Answered(T, i) ==
    /\ i + 1 \in DOMAIN T /\ T[i].kind = "assistant" /\ T[i + 1].kind = "results"
    /\ T[i].calls \cap T[i + 1].calls # {}

(* What a turn is repaired to: itself with the calls that are in a pair.     *)
LEMMA RepairCases ==
  ASSUME NEW S, NEW T \in Seq(S), \A t \in S : IsTurn(t), NEW i \in 1..Len(T)
  PROVE  \E u :
           /\ Repair(T, i) \in {<<>>, <<u>>} /\ u.kind = T[i].kind
           /\ T[i].kind = "results" =>
                IF i - 1 \in 1..Len(T) /\ Answered(T, i - 1)
                THEN Repair(T, i) = <<u>> /\ u.calls = T[i - 1].calls \cap T[i].calls
                ELSE Repair(T, i) = <<>>
           /\ T[i].kind = "assistant" =>
                IF Answered(T, i)
                THEN Repair(T, i) = <<u>> /\ u.calls = T[i].calls \cap T[i + 1].calls
                ELSE u.calls = {}
<1> DEFINE t == T[i]
           other == IF t.kind = "assistant" THEN i + 1 ELSE i - 1
           paired == IF /\ other \in DOMAIN T
                        /\ {t.kind, T[other].kind} = {"assistant", "results"}
                     THEN t.calls \cap T[other].calls ELSE {}
           v == [t EXCEPT !.calls = paired]
<1>0. IsTurn(t) /\ DOMAIN T = 1..Len(T) /\ Len(T) \in Nat
  OBVIOUS
<1>1. /\ t.kind = "assistant" => paired = IF Answered(T, i) THEN t.calls \cap T[i + 1].calls ELSE {}
      /\ t.kind = "results" => paired = IF i - 1 \in 1..Len(T) /\ Answered(T, i - 1)
                                        THEN T[i - 1].calls \cap t.calls ELSE {}
  <2>1. ASSUME t.kind = "assistant"
        PROVE  paired = IF Answered(T, i) THEN t.calls \cap T[i + 1].calls ELSE {}
    <3>1. other = i + 1
      BY <2>1
    <3>2. {t.kind, T[i + 1].kind} = {"assistant", "results"} <=> T[i + 1].kind = "results"
      BY <2>1
    <3> QED BY <1>0, <2>1, <3>1, <3>2 DEF Answered
  <2>2. ASSUME t.kind = "results"
        PROVE  paired = IF i - 1 \in 1..Len(T) /\ Answered(T, i - 1)
                        THEN T[i - 1].calls \cap t.calls ELSE {}
    <3>1. other = i - 1 /\ (i - 1) + 1 = i
      BY <2>2
    <3>2. {t.kind, T[i - 1].kind} = {"assistant", "results"} <=> T[i - 1].kind = "assistant"
      BY <2>2
    <3> QED BY <1>0, <2>2, <3>1, <3>2 DEF Answered
  <2> QED BY <2>1, <2>2
<1>2. Repair(T, i) = IF t.kind = "user" \/ (t.kind = "assistant" /\ t.calls = {}) THEN <<t>>
                     ELSE IF paired # {} \/ (t.kind = "assistant" /\ t.text) THEN <<v>>
                     ELSE <<>>
  BY DEF Repair
<1>3. v.kind = t.kind /\ v.calls = paired
  BY <1>0 DEF IsTurn
<1>4. ASSUME i - 1 \in 1..Len(T), Answered(T, i - 1), t.kind = "results"
      PROVE  T[i - 1].calls \cap t.calls # {}
  BY <1>0, <1>4 DEF Answered
<1>5. ASSUME Answered(T, i) PROVE t.calls # {} /\ t.calls \cap T[i + 1].calls # {}
  BY <1>5 DEF Answered
<1> HIDE DEF paired, v
<1>6. CASE t.kind = "user"
  BY <1>2, <1>6
<1>7. CASE t.kind = "assistant"
  <2>1. CASE t.calls = {}
    <3>1. Repair(T, i) = <<t>>
      BY <1>2, <1>7, <2>1
    <3>2. ~Answered(T, i)
      BY <1>5, <2>1
    <3> HIDE DEF other
    <3> QED BY <1>7, <2>1, <3>1, <3>2
  <2>2. CASE t.calls # {}
    <3>1. Repair(T, i) = IF paired # {} \/ t.text THEN <<v>> ELSE <<>>
      BY <1>2, <1>7, <2>2
    <3>2. CASE Answered(T, i)
      BY <1>1, <1>3, <1>5, <1>7, <3>1, <3>2
    <3>3. CASE ~Answered(T, i)
      BY <1>1, <1>3, <1>7, <3>1, <3>3
    <3> QED BY <3>2, <3>3
  <2> QED BY <2>1, <2>2
<1>8. CASE t.kind = "results"
  <2>1. Repair(T, i) = IF paired # {} THEN <<v>> ELSE <<>>
    BY <1>2, <1>8
  <2> QED BY <1>1, <1>3, <1>4, <1>8, <2>1
<1> QED BY <1>0, <1>6, <1>7, <1>8 DEF IsTurn

(* A sequence of one element.                                                *)
LEMMA Single ==
  ASSUME NEW u
  PROVE  <<u>> \in Seq(Range(<<u>>)) /\ Len(<<u>>) = 1 /\ <<u>>[1] = u /\ <<u>> # <<>>
<1> DEFINE s == <<u>>
<1>1. s \in Seq({u}) /\ Len(s) = 1 /\ s[1] = u /\ Len(<<>>) = 0
  OBVIOUS
<1> HIDE DEF s
<1>2. s # <<>> /\ DOMAIN s = {1}
  BY <1>1
<1>3. Range(s) = {u}
  BY <1>1, <1>2 DEF Range
<1> QED BY <1>1, <1>2, <1>3 DEF s

(* The calls of the k turns that are repaired so far are in pairs, but for   *)
(* the last, whose answer is next.                                           *)
PairsTo(T, k, r) ==
    /\ r \in Seq(Range(r))
    /\ \A u : Repair(T, k) = <<u>> => r # <<>> /\ r[Len(r)] = u
    /\ \A i \in 1..Len(r) : r[i].kind = "results" =>
          i > 1 /\ r[i - 1].kind = "assistant" /\ r[i - 1].calls = r[i].calls
    /\ \A i \in 1..Len(r) : r[i].kind = "assistant" /\ r[i].calls # {} =>
          \/ i < Len(r) /\ r[i + 1].kind = "results" /\ r[i + 1].calls = r[i].calls
          \/ i = Len(r) /\ Answered(T, k) /\ Repair(T, k) = <<r[i]>>

(* The first turn.                                                           *)
LEMMA FirstPair ==
  ASSUME NEW S, NEW T \in Seq(S), \A t \in S : IsTurn(t), Len(T) # 0
  PROVE  PairsTo(T, 1, Repair(T, 1))
<1>1. 1 \in 1..Len(T) /\ 1 - 1 \notin 1..Len(T) /\ 1 + 1 = 2
  OBVIOUS
<1>2. PICK u :
           /\ Repair(T, 1) \in {<<>>, <<u>>} /\ u.kind = T[1].kind
           /\ T[1].kind = "results" => Repair(T, 1) = <<>>
           /\ T[1].kind = "assistant" =>
                IF Answered(T, 1)
                THEN Repair(T, 1) = <<u>> /\ u.calls = T[1].calls \cap T[2].calls
                ELSE u.calls = {}
  <2> DEFINE i == 1
  <2> HIDE DEF i
  <2>1. i \in 1..Len(T) /\ i - 1 \notin 1..Len(T)
    BY <1>1 DEF i
  <2>2. \E u :
           /\ Repair(T, i) \in {<<>>, <<u>>} /\ u.kind = T[i].kind
           /\ T[i].kind = "results" => Repair(T, i) = <<>>
           /\ T[i].kind = "assistant" =>
                IF Answered(T, i)
                THEN Repair(T, i) = <<u>> /\ u.calls = T[i].calls \cap T[i + 1].calls
                ELSE u.calls = {}
    <3>1. PICK u :
           /\ Repair(T, i) \in {<<>>, <<u>>} /\ u.kind = T[i].kind
           /\ T[i].kind = "results" =>
                IF i - 1 \in 1..Len(T) /\ Answered(T, i - 1)
                THEN Repair(T, i) = <<u>> /\ u.calls = T[i - 1].calls \cap T[i].calls
                ELSE Repair(T, i) = <<>>
           /\ T[i].kind = "assistant" =>
                IF Answered(T, i)
                THEN Repair(T, i) = <<u>> /\ u.calls = T[i].calls \cap T[i + 1].calls
                ELSE u.calls = {}
      BY <2>1, RepairCases
    <3> QED BY <2>1, <3>1
  <2> QED BY <1>1, <2>2 DEF i
<1>0. \A w : <<w>> # <<>>
  BY Single
<1>3. CASE Repair(T, 1) = <<>>
  <2> DEFINE r == Repair(T, 1)
  <2>1. r \in Seq(Range(r)) /\ Len(r) = 0 /\ \A w : r # <<w>>
    <3>1. Len(<<>>) = 0 /\ <<>> \in Seq(Range(<<>>))
      OBVIOUS
    <3> HIDE DEF r
    <3>2. r = <<>>
      BY <1>3 DEF r
    <3> QED BY <1>0, <3>1, <3>2
  <2> HIDE DEF r
  <2>2. 1..Len(r) = {}
    BY <2>1
  <2>3. PairsTo(T, 1, r)
    BY <2>1, <2>2 DEF PairsTo, r
  <2> QED BY <2>3 DEF r
<1>4. CASE Repair(T, 1) = <<u>>
  <2>1. <<u>> \in Seq(Range(<<u>>)) /\ Len(<<u>>) = 1 /\ <<u>>[1] = u
    BY Single
  <2> DEFINE r == <<u>>
  <2>2. \A i \in 1..Len(r) : i = 1
    BY <2>1
  <2> HIDE DEF r
  <2>3. r \in Seq(Range(r)) /\ Len(r) = 1 /\ r[1] = u /\ r = <<u>>
    BY <2>1 DEF r
  <2>4. T[1].kind # "results"
    BY <1>0, <1>2, <1>4
  <2>5. u.kind = "assistant" /\ u.calls # {} => Answered(T, 1)
    BY <1>2
  <2>6. \A w : Repair(T, 1) = <<w>> => r # <<>> /\ r[Len(r)] = w
    BY <1>0, <1>4, <2>3
  <2>7. \A i \in 1..Len(r) : r[i].kind # "results"
    BY <1>2, <2>2, <2>3, <2>4
  <2>8. \A i \in 1..Len(r) : r[i].kind = "assistant" /\ r[i].calls # {} =>
          i = Len(r) /\ Answered(T, 1) /\ Repair(T, 1) = <<r[i]>>
    BY <1>4, <2>2, <2>3, <2>5
  <2>9. PairsTo(T, 1, r)
    BY <2>3, <2>6, <2>7, <2>8 DEF PairsTo
  <2> QED BY <1>4, <2>9 DEF r
<1> QED BY <1>2, <1>3, <1>4

(* The turn after k.                                                         *)
LEMMA NextPair ==
  ASSUME NEW S, NEW T \in Seq(S), \A t \in S : IsTurn(t),
         NEW k \in 1..Len(T), k + 1 \in 1..Len(T), NEW r, PairsTo(T, k, r)
  PROVE  PairsTo(T, k + 1, r \o Repair(T, k + 1))
<1>0. Len(T) \in Nat /\ DOMAIN T = 1..Len(T) /\ k \in Nat /\ (k + 1) - 1 = k
  OBVIOUS
<1>1. PICK u :
           /\ Repair(T, k + 1) \in {<<>>, <<u>>} /\ u.kind = T[k + 1].kind
           /\ T[k + 1].kind = "results" =>
                IF Answered(T, k)
                THEN Repair(T, k + 1) = <<u>> /\ u.calls = T[k].calls \cap T[k + 1].calls
                ELSE Repair(T, k + 1) = <<>>
           /\ T[k + 1].kind = "assistant" =>
                IF Answered(T, k + 1)
                THEN Repair(T, k + 1) = <<u>>
                ELSE u.calls = {}
  BY <1>0, RepairCases
<1>2. PICK v :
           /\ Repair(T, k) \in {<<>>, <<v>>} /\ v.kind = T[k].kind
           /\ T[k].kind = "assistant" /\ Answered(T, k) =>
                Repair(T, k) = <<v>> /\ v.calls = T[k].calls \cap T[k + 1].calls
  BY RepairCases
<1>3. Answered(T, k) => T[k].kind = "assistant" /\ T[k + 1].kind = "results"
  BY DEF Answered
<1>4. r \in Seq(Range(r)) /\ Len(r) \in Nat
  BY DEF PairsTo
<1>7. \A w : <<w>> # <<>>
  BY Single
<1>5. CASE Repair(T, k + 1) = <<>>
  <2>1. ~Answered(T, k)
    BY <1>1, <1>3, <1>5, <1>7
  <2>2. r \o Repair(T, k + 1) = r
    BY <1>4, <1>5, ConcatEmptySeq
  <2>3. \A w : Repair(T, k + 1) # <<w>>
    BY <1>5, <1>7
  <2>4. PairsTo(T, k + 1, r)
    BY <2>1, <2>3 DEF PairsTo
  <2> QED BY <2>2, <2>4
<1>6. CASE Repair(T, k + 1) = <<u>>
  <2> DEFINE m == r \o <<u>>
  <2>1. Grown(r, m, u)
    BY <1>4, OneMore
  <2> HIDE DEF m
  <2>2. /\ m \in Seq(Range(m)) /\ Len(m) = Len(r) + 1 /\ m # <<>>
        /\ \A i \in 1..Len(r) : m[i] = r[i]
        /\ m[Len(r) + 1] = u
    BY <2>1 DEF Grown
  <2>3. Answered(T, k) => /\ r # <<>> /\ r[Len(r)] = v /\ Len(r) \in 1..Len(r)
                          /\ v.kind = "assistant" /\ v.calls = u.calls /\ u.kind = "results"
    <3> SUFFICES ASSUME Answered(T, k)
                 PROVE  /\ r # <<>> /\ r[Len(r)] = v /\ Len(r) \in 1..Len(r)
                        /\ v.kind = "assistant" /\ v.calls = u.calls /\ u.kind = "results"
      OBVIOUS
    <3>1. Repair(T, k) = <<v>> /\ v.calls = u.calls /\ v.kind = "assistant" /\ u.kind = "results"
      BY <1>1, <1>2, <1>3
    <3>2. r # <<>> /\ r[Len(r)] = v
      BY <3>1 DEF PairsTo
    <3>3. Len(r) # 0
      BY <1>4, <3>2
    <3> QED BY <1>4, <3>1, <3>2, <3>3
  <2>4. ASSUME NEW i \in 1..Len(m), m[i].kind = "results"
        PROVE  i > 1 /\ m[i - 1].kind = "assistant" /\ m[i - 1].calls = m[i].calls
    <3>1. CASE i \in 1..Len(r)
      <4>1. i > 1 /\ r[i - 1].kind = "assistant" /\ r[i - 1].calls = r[i].calls
        BY <2>2, <2>4, <3>1 DEF PairsTo
      <4>2. i - 1 \in 1..Len(r)
        BY <1>4, <3>1, <4>1
      <4> QED BY <2>2, <3>1, <4>1, <4>2
    <3>2. CASE i = Len(r) + 1
      <4>1. Answered(T, k)
        BY <1>1, <1>6, <1>7, <2>2, <2>4, <3>2
      <4>2. i - 1 = Len(r) /\ i > 1
        BY <1>4, <2>3, <3>2, <4>1
      <4> QED BY <2>2, <2>3, <3>2, <4>1, <4>2
    <3> QED BY <1>4, <2>2, <3>1, <3>2
  <2>5. ASSUME NEW i \in 1..Len(m), m[i].kind = "assistant", m[i].calls # {}
        PROVE  \/ i < Len(m) /\ m[i + 1].kind = "results" /\ m[i + 1].calls = m[i].calls
               \/ i = Len(m) /\ Answered(T, k + 1) /\ Repair(T, k + 1) = <<m[i]>>
    <3>1. CASE i \in 1..Len(r)
      <4>1. \/ i < Len(r) /\ r[i + 1].kind = "results" /\ r[i + 1].calls = r[i].calls
            \/ i = Len(r) /\ Answered(T, k) /\ Repair(T, k) = <<r[i]>>
        BY <2>2, <2>5, <3>1 DEF PairsTo
      <4>2. CASE i < Len(r) /\ r[i + 1].kind = "results" /\ r[i + 1].calls = r[i].calls
        <5>1. i + 1 \in 1..Len(r) /\ i < Len(m)
          BY <1>4, <2>2, <3>1, <4>2
        <5> QED BY <2>2, <3>1, <4>2, <5>1
      <4>3. CASE i = Len(r) /\ Answered(T, k)
        <5>1. i < Len(m)
          BY <1>4, <2>2, <4>3
        <5> QED BY <2>2, <2>3, <3>1, <4>3, <5>1
      <4> QED BY <4>1, <4>2, <4>3
    <3>2. CASE i = Len(r) + 1
      BY <1>1, <1>6, <2>2, <2>5, <3>2
    <3> QED BY <1>4, <2>2, <3>1, <3>2
  <2>6. \A w : Repair(T, k + 1) = <<w>> => m # <<>> /\ m[Len(m)] = w
    BY <1>6, <2>2
  <2>7. PairsTo(T, k + 1, m)
    BY <2>2, <2>4, <2>5, <2>6 DEF PairsTo
  <2> QED BY <1>6, <2>7 DEF m
<1> QED BY <1>1, <1>5, <1>6

(* However the turns are, those that are repaired are in pairs.              *)
LEMMA RepairedPairs ==
  ASSUME NEW S, NEW T \in Seq(S), \A t \in S : IsTurn(t)
  PROVE  LET turns == Repaired(T)
         IN  \A i \in DOMAIN turns :
               /\ turns[i].kind = "assistant" /\ turns[i].calls # {} =>
                     i < Len(turns) /\ turns[i + 1].kind = "results"
                     /\ turns[i + 1].calls = turns[i].calls
               /\ turns[i].kind = "results" =>
                     i > 1 /\ turns[i - 1].kind = "assistant" /\ turns[i - 1].calls = turns[i].calls
<1> DEFINE s == [i \in DOMAIN T |-> Repair(T, i)]
           n == Len(T)
<1>1. n \in Nat /\ DOMAIN T = 1..n /\ Len(s) = n /\ \A i \in 1..n : s[i] = Repair(T, i)
  <2>1. n \in Nat /\ DOMAIN T = 1..n
    OBVIOUS
  <2>2. s = [i \in 1..n |-> Repair(T, i)]
    BY <2>1
  <2>3. Len([i \in 1..n |-> Repair(T, i)]) = n
    BY <2>1
  <2> QED BY <2>1, <2>2, <2>3
<1> HIDE DEF s
<1>2. CASE n = 0
  <2>1. Repaired(T) = s
    BY <1>1, <1>2 DEF Repaired, FlattenSeq, s
  <2>2. DOMAIN s = {}
    BY <1>1, <1>2 DEF s
  <2> QED BY <2>1, <2>2
<1>3. CASE n # 0
  <2>1. PICK f : /\ FlattenSeq(s) = f[n] /\ f[1] = s[1]
                 /\ \A i \in 1..(n - 1) : f[i + 1] = f[i] \o s[i + 1]
    <3>1. Len(s) \in Nat \ {0}
      BY <1>1, <1>3
    <3>2. \E f : /\ FlattenSeq(s) = f[Len(s)] /\ f[1] = s[1]
                 /\ \A i \in 1..(Len(s) - 1) : f[i + 1] = f[i] \o s[i + 1]
      BY <3>1, Flattened
    <3>3. Len(s) = n
      BY <1>1
    <3> QED BY <3>2, <3>3
  <2> DEFINE K == {k \in Nat : k + 1 \in 1..n => PairsTo(T, k + 1, f[k + 1])}
  <2>2. 0 \in K
    BY <1>1, <1>3, <2>1, FirstPair
  <2>3. ASSUME NEW k \in K PROVE k + 1 \in K
    <3>1. ASSUME k + 2 \in 1..n PROVE PairsTo(T, k + 2, f[k + 2])
      <4>1. k + 1 \in 1..n /\ k + 1 \in 1..(n - 1) /\ (k + 1) + 1 = k + 2
        BY <1>1, <3>1
      <4>2. PairsTo(T, k + 1, f[k + 1])
        BY <4>1
      <4>3. f[k + 2] = f[k + 1] \o Repair(T, k + 2)
        BY <1>1, <2>1, <3>1, <4>1
      <4> HIDE DEF K
      <4> QED BY <3>1, <4>1, <4>2, <4>3, NextPair
    <3> QED BY <3>1
  <2> HIDE DEF K
  <2>4. K = Nat
    BY <2>2, <2>3, Sel!InductionOnSet DEF K
  <2>5. PairsTo(T, n, f[n])
    <3>1. n - 1 \in K /\ (n - 1) + 1 = n /\ n \in 1..n
      BY <1>1, <1>3, <2>4
    <3> QED BY <3>1 DEF K
  <2>6. Repaired(T) = f[n]
    BY <2>1 DEF Repaired, s
  <2>7. ~Answered(T, n)
    BY <1>1 DEF Answered
  <2> DEFINE r == f[n]
  <2> HIDE DEF r
  <2>8. PairsTo(T, n, r)
    BY <2>5 DEF r
  <2>9. DOMAIN r = 1..Len(r)
    BY <2>8 DEF PairsTo
  <2> QED BY <2>6, <2>7, <2>8, <2>9 DEF PairsTo, r
<1> QED BY <1>2, <1>3
-----------------------------------------------------------------------------
(* What a fold stands for.                                                   *)

(* A log whose folds are of what precedes them.                              *)
Backward(l) ==
    /\ l \in Seq(Range(l)) /\ Len(l) \in Nat /\ DOMAIN l = 1..Len(l)
    /\ \A p \in 1..Len(l) : Folds(l, p) \subseteq 1..(p - 1)

IsShadow(f, l, n) == f = [p \in 1..n |-> Folds(l, p) \cup UNION {f[q] : q \in Folds(l, p)}]

(* The recursive definition of Shadow has a solution, for every length.      *)
LEMMA ShadowExists ==
  ASSUME NEW l, Backward(l), NEW n \in 0..Len(l)
  PROVE  \E f : IsShadow(f, l, n)
<1> DEFINE T == {k \in Nat : k <= Len(l) => \E f : IsShadow(f, l, k)}
<1>0. Len(l) \in Nat
  BY DEF Backward
<1>1. 0 \in T
  <2> DEFINE f == [p \in 1..0 |-> {}]
  <2>1. f = [p \in 1..0 |-> Folds(l, p) \cup UNION {f[q] : q \in Folds(l, p)}]
    OBVIOUS
  <2> QED BY <2>1 DEF IsShadow
<1>2. ASSUME NEW k \in T PROVE k + 1 \in T
  <2> SUFFICES ASSUME k + 1 <= Len(l) PROVE \E f : IsShadow(f, l, k + 1)
    OBVIOUS
  <2>1. k \in Nat /\ k <= Len(l)
    BY <1>0
  <2>2. PICK f : IsShadow(f, l, k)
    BY <2>1
  <2> HIDE DEF T
  <2> DEFINE h == [p \in 1..(k + 1) |->
                      IF p <= k THEN f[p]
                      ELSE Folds(l, p) \cup UNION {f[q] : q \in Folds(l, p)}]
  <2>3. ASSUME NEW p \in 1..(k + 1)
        PROVE  h[p] = Folds(l, p) \cup UNION {h[q] : q \in Folds(l, p)}
    <3>1. \A q \in Folds(l, p) : q \in 1..k /\ h[q] = f[q]
      <4>1. p \in 1..Len(l)
        BY <1>0, <2>1
      <4>2. Folds(l, p) \subseteq 1..(p - 1)
        BY <4>1 DEF Backward
      <4>3. \A q \in 1..(p - 1) : q \in 1..k /\ q \in 1..(k + 1) /\ q <= k
        BY <2>1
      <4> QED BY <4>2, <4>3
    <3>2. h[p] = Folds(l, p) \cup UNION {f[q] : q \in Folds(l, p)}
      <4>1. CASE p <= k
        <5>1. p \in 1..k /\ h[p] = f[p]
          BY <2>1, <4>1
        <5> HIDE DEF h
        <5> QED BY <2>2, <5>1 DEF IsShadow
      <4>2. CASE ~(p <= k)
        BY <4>2
      <4> QED BY <4>1, <4>2
    <3> HIDE DEF h
    <3>3. {f[q] : q \in Folds(l, p)} = {h[q] : q \in Folds(l, p)}
      BY <3>1
    <3> QED BY <3>2, <3>3
  <2>4. h = [p \in 1..(k + 1) |-> h[p]]
    OBVIOUS
  <2> HIDE DEF h
  <2>5. IsShadow(h, l, k + 1)
    BY <2>3, <2>4 DEF IsShadow
  <2> QED BY <2>5
<1> HIDE DEF T
<1>3. T = Nat
  BY <1>1, <1>2, Sel!InductionOnSet DEF T
<1> QED BY <1>0, <1>3 DEF T

(* What Shadow is at each position.                                          *)
LEMMA ShadowStep ==
  ASSUME NEW l, Backward(l), NEW p \in 1..Len(l)
  PROVE  Shadow(l)[p] = Folds(l, p) \cup UNION {Shadow(l)[q] : q \in Folds(l, p)}
<1> DEFINE f == Shadow(l)
<1>1. Len(l) \in 0..Len(l) /\ DOMAIN l = 1..Len(l)
  BY DEF Backward
<1>2. f = CHOOSE g : IsShadow(g, l, Len(l))
  BY <1>1 DEF Shadow, IsShadow
<1> HIDE DEF f
<1>3. IsShadow(f, l, Len(l))
  BY <1>1, <1>2, ShadowExists
<1>4. f[p] = Folds(l, p) \cup UNION {f[q] : q \in Folds(l, p)}
  BY <1>3 DEF IsShadow
<1> QED BY <1>4 DEF f

(* The least position at which something fails has it before.                *)
LEMMA Positions ==
  ASSUME NEW l, Backward(l), NEW G \in SUBSET (1..Len(l)),
         \A p \in 1..Len(l) : Folds(l, p) \subseteq G => p \in G
  PROVE  G = 1..Len(l)
<1> DEFINE B == (1..Len(l)) \ G
<1> SUFFICES ASSUME B # {} PROVE FALSE
  OBVIOUS
<1>1. PICK p \in B : \A q \in B : p <= q
  <2>1. B \subseteq Nat
    OBVIOUS
  <2> HIDE DEF B
  <2> QED BY <2>1, Sel!LeastNat
<1>2. Folds(l, p) \subseteq 1..(p - 1) /\ Len(l) \in Nat
  BY DEF Backward
<1>3. \A q \in 1..(p - 1) : q \in 1..Len(l) /\ ~(p <= q)
  BY <1>2
<1> QED BY <1>1, <1>2, <1>3

(* It is behind its shadow.                                                  *)
LEMMA ShadowBack ==
  ASSUME NEW l, Backward(l), NEW p \in 1..Len(l)
  PROVE  Shadow(l)[p] \subseteq 1..(p - 1)
<1> DEFINE G == {q \in 1..Len(l) : Shadow(l)[q] \subseteq 1..(q - 1)}
<1>1. ASSUME NEW q \in 1..Len(l), Folds(l, q) \subseteq G
      PROVE  q \in G
  <2>1. Folds(l, q) \subseteq 1..(q - 1) /\ Len(l) \in Nat
    BY DEF Backward
  <2>2. ASSUME NEW d \in Folds(l, q) PROVE Shadow(l)[d] \subseteq 1..(q - 1)
    <3>1. d \in 1..(q - 1) /\ Shadow(l)[d] \subseteq 1..(d - 1)
      BY <1>1, <2>1
    <3>2. 1..(d - 1) \subseteq 1..(q - 1)
      BY <3>1, <2>1
    <3> QED BY <3>1, <3>2
  <2>3. Shadow(l)[q] \subseteq 1..(q - 1)
    BY <2>1, <2>2, ShadowStep
  <2> QED BY <2>3
<1> HIDE DEF G
<1>2. G = 1..Len(l)
  <2>1. G \in SUBSET (1..Len(l))
    BY DEF G
  <2> QED BY <1>1, <2>1, Positions
<1> QED BY <1>2 DEF G

(* It depends on what precedes it only.                                      *)
LEMMA ShadowPrefix ==
  ASSUME NEW l, NEW m, Backward(l), Backward(m), Len(l) <= Len(m),
         \A p \in 1..Len(l) : m[p] = l[p]
  PROVE  \A p \in 1..Len(l) : Shadow(m)[p] = Shadow(l)[p]
<1> DEFINE G == {p \in 1..Len(l) : Shadow(m)[p] = Shadow(l)[p]}
<1>0. Len(l) \in Nat /\ Len(m) \in Nat
  BY DEF Backward
<1>1. ASSUME NEW p \in 1..Len(l), Folds(l, p) \subseteq G
      PROVE  p \in G
  <2>1. p \in 1..Len(m) /\ Folds(m, p) = Folds(l, p)
    <3>1. m[p] = l[p]
      OBVIOUS
    <3>2. Folds(m, p) = Folds(l, p)
      BY <3>1 DEF Folds
    <3>3. p \in 1..Len(m)
      BY <1>0
    <3> QED BY <3>2, <3>3
  <2>2. {Shadow(m)[q] : q \in Folds(l, p)} = {Shadow(l)[q] : q \in Folds(l, p)}
    BY <1>1
  <2>3. Shadow(m)[p] = Folds(l, p) \cup UNION {Shadow(m)[q] : q \in Folds(l, p)}
    BY <2>1, ShadowStep
  <2>4. Shadow(l)[p] = Folds(l, p) \cup UNION {Shadow(l)[q] : q \in Folds(l, p)}
    BY ShadowStep
  <2>5. Shadow(m)[p] = Shadow(l)[p]
    BY <2>2, <2>3, <2>4
  <2> QED BY <2>5
<1> HIDE DEF G
<1>2. G = 1..Len(l)
  <2>1. G \in SUBSET (1..Len(l))
    BY DEF G
  <2> QED BY <1>1, <2>1, Positions
<1> QED BY <1>2 DEF G

(* A shadow has the shadows of what is in it.                                *)
LEMMA ShadowInside ==
  ASSUME NEW l, Backward(l), NEW p \in 1..Len(l), NEW q \in Shadow(l)[p]
  PROVE  Shadow(l)[q] \subseteq Shadow(l)[p]
<1> DEFINE G == {d \in 1..Len(l) : \A x \in Shadow(l)[d] : Shadow(l)[x] \subseteq Shadow(l)[d]}
<1>1. ASSUME NEW d \in 1..Len(l), Folds(l, d) \subseteq G
      PROVE  d \in G
  <2>1. Shadow(l)[d] = Folds(l, d) \cup UNION {Shadow(l)[e] : e \in Folds(l, d)}
    BY ShadowStep
  <2>2. ASSUME NEW x \in Shadow(l)[d] PROVE Shadow(l)[x] \subseteq Shadow(l)[d]
    <3>1. CASE x \in Folds(l, d)
      BY <2>1, <3>1
    <3>2. CASE \E e \in Folds(l, d) : x \in Shadow(l)[e]
      <4>1. PICK e \in Folds(l, d) : x \in Shadow(l)[e]
        BY <3>2
      <4>2. Shadow(l)[x] \subseteq Shadow(l)[e]
        BY <1>1, <4>1
      <4> QED BY <2>1, <4>1, <4>2
    <3> QED BY <2>1, <3>1, <3>2
  <2> QED BY <2>2
<1> HIDE DEF G
<1>2. G = 1..Len(l)
  <2>1. G \in SUBSET (1..Len(l))
    BY DEF G
  <2> QED BY <1>1, <2>1, Positions
<1> QED BY <1>2 DEF G

(* Whatever a checkpoint stands for is shadowed by a live one.               *)
LEMMA LiveAbove ==
  ASSUME NEW l, Backward(l), NEW c \in Of(l, "checkpoint")
  PROVE  Shadow(l)[c] \subseteq Shadowed(l)
<1> DEFINE A == {d \in Of(l, "checkpoint") : d = c \/ c \in Shadow(l)[d]}
           N == {Len(l) - d : d \in A}
<1>1. Len(l) \in Nat /\ Of(l, "checkpoint") \subseteq 1..Len(l)
  BY DEF Backward, Of
<1>2. N \subseteq Nat /\ N # {}
  <2>1. A \subseteq 1..Len(l) /\ c \in A
    BY <1>1
  <2>2. \A d \in A : Len(l) - d \in Nat
    BY <1>1, <2>1
  <2> QED BY <2>1, <2>2
<1>3. PICK x \in N : \A y \in N : x <= y
  BY <1>2, Sel!LeastNat
<1>4. PICK d \in A : x = Len(l) - d
  OBVIOUS
<1>5. \A e \in A : e <= d
  <2> TAKE e \in A
  <2>1. Len(l) - d <= Len(l) - e /\ d \in 1..Len(l) /\ e \in 1..Len(l)
    BY <1>1, <1>3, <1>4
  <2> QED BY <1>1, <2>1
<1> HIDE DEF N
<1>6. d \in Live(l)
  <2> SUFFICES ASSUME NEW e \in Of(l, "checkpoint"), d \in Shadow(l)[e] PROVE FALSE
    BY DEF Live
  <2>1. e \in 1..Len(l) /\ d \in 1..(e - 1)
    BY <1>1, ShadowBack
  <2>2. Shadow(l)[d] \subseteq Shadow(l)[e]
    BY <2>1, ShadowInside
  <2>3. e \in A
    BY <2>2
  <2>4. e <= d
    BY <1>5, <2>3
  <2> QED BY <1>1, <2>1, <2>4
<1>7. Shadow(l)[c] \subseteq Shadow(l)[d]
  BY <1>1, ShadowInside
<1> QED BY <1>6, <1>7 DEF Shadowed
-----------------------------------------------------------------------------
(* Concatenations.                                                           *)

(* A concatenation of sequences is one.                                      *)
LEMMA FlatType ==
  ASSUME NEW X, NEW s \in Seq(Seq(X))
  PROVE  FlattenSeq(s) \in Seq(X)
<1>1. Len(s) \in Nat /\ \A i \in 1..Len(s) : s[i] \in Seq(X)
  OBVIOUS
<1>2. CASE Len(s) = 0
  <2>1. s = <<>>
    BY <1>2
  <2>2. FlattenSeq(s) = s
    BY <1>2 DEF FlattenSeq
  <2>3. <<>> \in Seq(X)
    BY EmptySeq
  <2> QED BY <2>1, <2>2, <2>3
<1>3. CASE Len(s) # 0
  <2>1. PICK f : /\ FlattenSeq(s) = f[Len(s)] /\ f[1] = s[1]
                 /\ \A i \in 1..(Len(s) - 1) : f[i + 1] = f[i] \o s[i + 1]
    <3>1. Len(s) \in Nat \ {0}
      BY <1>1, <1>3
    <3> QED BY <3>1, Flattened
  <2> DEFINE K == {k \in Nat : k + 1 <= Len(s) => f[k + 1] \in Seq(X)}
  <2>2. 0 \in K
    BY <1>1, <1>3, <2>1
  <2>3. ASSUME NEW k \in K PROVE k + 1 \in K
    <3>1. ASSUME k + 2 <= Len(s) PROVE f[k + 2] \in Seq(X)
      <4>1. k + 1 \in 1..(Len(s) - 1) /\ f[k + 1] \in Seq(X) /\ k + 2 \in 1..Len(s)
            /\ (k + 1) + 1 = k + 2
        BY <1>1, <3>1
      <4>2. f[k + 2] = f[k + 1] \o s[k + 2] /\ s[k + 2] \in Seq(X)
        BY <1>1, <2>1, <4>1
      <4> QED BY <4>1, <4>2, ConcatProperties
    <3> QED BY <3>1
  <2> HIDE DEF K
  <2>4. K = Nat
    BY <2>2, <2>3, Sel!InductionOnSet DEF K
  <2>5. Len(s) - 1 \in K /\ (Len(s) - 1) + 1 = Len(s)
    BY <1>1, <1>3, <2>4
  <2> QED BY <2>1, <2>5 DEF K
<1> QED BY <1>2, <1>3

(* One more sequence.                                                        *)
LEMMA FlatAppend ==
  ASSUME NEW X, NEW s \in Seq(Seq(X)), NEW x \in Seq(X)
  PROVE  FlattenSeq(s \o <<x>>) = FlattenSeq(s) \o x
<1> DEFINE m == s \o <<x>>
           n == Len(s)
<1>1. /\ n \in Nat /\ m \in Seq(Seq(X)) /\ Len(m) = n + 1 /\ m[n + 1] = x
      /\ \A i \in 1..n : m[i] = s[i]
  OBVIOUS
<1> HIDE DEF m
<1>2. PICK g : /\ FlattenSeq(m) = g[n + 1] /\ g[1] = m[1]
               /\ \A i \in 1..n : g[i + 1] = g[i] \o m[i + 1]
  <2>1. Len(m) \in Nat \ {0}
    BY <1>1
  <2>2. \E g : /\ FlattenSeq(m) = g[Len(m)] /\ g[1] = m[1]
               /\ \A i \in 1..(Len(m) - 1) : g[i + 1] = g[i] \o m[i + 1]
    BY <2>1, Flattened
  <2>3. Len(m) = n + 1 /\ Len(m) - 1 = n
    BY <1>1
  <2> QED BY <2>2, <2>3
<1>3. CASE n = 0
  <2>1. s = <<>> /\ FlattenSeq(s) = s
    BY <1>3 DEF FlattenSeq
  <2>2. FlattenSeq(m) = x
    BY <1>1, <1>2, <1>3
  <2> QED BY <2>1, <2>2 DEF m
<1>4. CASE n # 0
  <2>1. PICK f : /\ FlattenSeq(s) = f[n] /\ f[1] = s[1]
                 /\ \A i \in 1..(n - 1) : f[i + 1] = f[i] \o s[i + 1]
    <3>1. Len(s) \in Nat \ {0}
      BY <1>1, <1>4
    <3>2. \E f : /\ FlattenSeq(s) = f[Len(s)] /\ f[1] = s[1]
                 /\ \A i \in 1..(Len(s) - 1) : f[i + 1] = f[i] \o s[i + 1]
      BY <3>1, Flattened
    <3>3. Len(s) = n
      BY <1>1
    <3> QED BY <3>2, <3>3
  <2> DEFINE K == {k \in Nat : k + 1 <= n => g[k + 1] = f[k + 1]}
  <2>2. 0 \in K
    BY <1>1, <1>2, <1>4, <2>1
  <2>3. ASSUME NEW k \in K PROVE k + 1 \in K
    <3>1. ASSUME k + 2 <= n PROVE g[k + 2] = f[k + 2]
      <4>0. n \in Nat
        BY <1>1
      <4>1. /\ k + 1 \in 1..(n - 1) /\ k + 1 \in 1..n /\ g[k + 1] = f[k + 1]
            /\ k + 2 \in 1..n /\ (k + 1) + 1 = k + 2
        BY <3>1, <4>0
      <4>2. f[k + 2] = f[k + 1] \o s[k + 2] /\ g[k + 2] = g[k + 1] \o m[k + 2]
        BY <1>2, <2>1, <4>1
      <4> QED BY <1>1, <4>1, <4>2
    <3> QED BY <3>1
  <2> HIDE DEF K
  <2>4. K = Nat
    BY <2>2, <2>3, Sel!InductionOnSet DEF K
  <2>5. n - 1 \in K /\ (n - 1) + 1 = n
    BY <1>1, <1>4, <2>4
  <2>6. g[n] = f[n]
    BY <2>5 DEF K
  <2>7. n \in 1..n
    BY <1>1, <1>4
  <2>8. g[n + 1] = g[n] \o m[n + 1]
    BY <1>2, <2>7
  <2> QED BY <1>1, <1>2, <2>1, <2>6, <2>8 DEF m
<1> QED BY <1>3, <1>4

(* One concatenation behind another.                                         *)
LEMMA FlatConcat ==
  ASSUME NEW X, NEW s \in Seq(Seq(X)), NEW t \in Seq(Seq(X))
  PROVE  FlattenSeq(s \o t) = FlattenSeq(s) \o FlattenSeq(t)
<1> DEFINE u(k) == SubSeq(t, 1, k)
           K == {k \in Nat : k <= Len(t) => FlattenSeq(s \o u(k)) = FlattenSeq(s) \o FlattenSeq(u(k))}
<1>0. Len(t) \in Nat /\ \A i \in 1..Len(t) : t[i] \in Seq(X)
  OBVIOUS
<1>1. 0 \in K
  <2>1. u(0) = <<>>
    BY SubSeqEmpty
  <2>2. FlattenSeq(<<>>) = <<>>
    BY DEF FlattenSeq
  <2>3. FlattenSeq(s) \in Seq(X)
    BY FlatType
  <2>4. s \o <<>> = s /\ FlattenSeq(s) \o <<>> = FlattenSeq(s)
    BY <2>3, ConcatEmptySeq
  <2> QED BY <2>1, <2>2, <2>4
<1>2. ASSUME NEW k \in K PROVE k + 1 \in K
  <2> SUFFICES ASSUME k + 1 <= Len(t)
               PROVE  FlattenSeq(s \o u(k + 1)) = FlattenSeq(s) \o FlattenSeq(u(k + 1))
    OBVIOUS
  <2>1. FlattenSeq(s \o u(k)) = FlattenSeq(s) \o FlattenSeq(u(k))
    BY <1>0
  <2>2. k + 1 \in 1..Len(t) /\ k + 1 \in 1..(k + 1) /\ (k + 1) - 1 = k /\ 1 \in 1..Len(t)
        /\ k + 1 \in 1..Len(t)
    BY <1>0
  <2>3. u(k + 1) = u(k) \o <<t[k + 1]>>
    BY <2>2, SubSeqRecursiveSecond
  <2>4. u(k) \in Seq(Seq(X)) /\ t[k + 1] \in Seq(X)
    <3>1. \A i \in 1..k : t[i] \in Seq(X)
      BY <1>0
    <3> QED BY <1>0, <2>2, <3>1, SubSeqProperties
  <2> DEFINE v == u(k)
             x == t[k + 1]
  <2> HIDE DEF v, x, u, K
  <2>5. v \in Seq(Seq(X)) /\ x \in Seq(X)
    BY <2>4 DEF v, x
  <2>6. s \o (v \o <<x>>) = (s \o v) \o <<x>> /\ s \o v \in Seq(Seq(X)) /\ <<x>> \in Seq(Seq(X))
    BY <2>5, ConcatAssociative
  <2>7. FlattenSeq((s \o v) \o <<x>>) = FlattenSeq(s \o v) \o x
    BY <2>5, <2>6, FlatAppend
  <2>8. FlattenSeq(v \o <<x>>) = FlattenSeq(v) \o x
    BY <2>5, FlatAppend
  <2>9. FlattenSeq(s) \in Seq(X) /\ FlattenSeq(v) \in Seq(X)
    BY <2>5, FlatType
  <2>10. (FlattenSeq(s) \o FlattenSeq(v)) \o x = FlattenSeq(s) \o (FlattenSeq(v) \o x)
    <3> DEFINE a == FlattenSeq(s)
               b == FlattenSeq(v)
    <3>1. a \in Seq(X) /\ b \in Seq(X) /\ x \in Seq(X)
      BY <2>5, <2>9
    <3> HIDE DEF a, b
    <3>2. ASSUME NEW p \in Seq(X), NEW q \in Seq(X), NEW r \in Seq(X)
          PROVE  (p \o q) \o r = p \o (q \o r)
      BY ConcatAssociative
    <3>3. (a \o b) \o x = a \o (b \o x)
      BY <3>1, <3>2
    <3> QED BY <3>3 DEF a, b
  <2>11. FlattenSeq(s \o v) = FlattenSeq(s) \o FlattenSeq(v)
    BY <2>1 DEF v
  <2>12. u(k + 1) = v \o <<x>>
    BY <2>3 DEF v, x
  <2> QED BY <2>6, <2>7, <2>8, <2>10, <2>11, <2>12
<1> HIDE DEF K, u
<1>3. K = Nat
  BY <1>1, <1>2, Sel!InductionOnSet DEF K
<1>4. u(Len(t)) = t
  BY SubSeqFull DEF u
<1>5. Len(t) \in K
  BY <1>0, <1>3
<1>6. FlattenSeq(s \o u(Len(t))) = FlattenSeq(s) \o FlattenSeq(u(Len(t)))
  BY <1>0, <1>5 DEF K
<1> QED BY <1>4, <1>6

(* One sequence is itself.                                                   *)
LEMMA FlatOne ==
  ASSUME NEW X, NEW x \in Seq(X)
  PROVE  FlattenSeq(<<x>>) = x
<1>1. <<>> \in Seq(Seq(X)) /\ <<>> \o <<x>> = <<x>> /\ <<>> \o x = x
  OBVIOUS
<1>2. FlattenSeq(<<>>) = <<>>
  BY DEF FlattenSeq
<1> QED BY <1>1, <1>2, FlatAppend

(* Sequences of one element each.                                            *)
LEMMA FlatSingles ==
  ASSUME NEW X, NEW x \in Seq(X), NEW s, Len(s) = Len(x), s \in Seq(Seq(X)),
         \A i \in 1..Len(x) : s[i] = <<x[i]>>
  PROVE  FlattenSeq(s) = x
<1>0. Len(x) \in Nat
  OBVIOUS
<1>1. CASE Len(x) = 0
  BY <1>1 DEF FlattenSeq
<1>2. CASE Len(x) # 0
  <2>1. PICK f : /\ FlattenSeq(s) = f[Len(x)] /\ f[1] = s[1]
                 /\ \A i \in 1..(Len(x) - 1) : f[i + 1] = f[i] \o s[i + 1]
    <3>1. Len(s) \in Nat \ {0}
      BY <1>0, <1>2
    <3>2. \E f : /\ FlattenSeq(s) = f[Len(s)] /\ f[1] = s[1]
                 /\ \A i \in 1..(Len(s) - 1) : f[i + 1] = f[i] \o s[i + 1]
      BY <3>1, Flattened
    <3>3. Len(s) = Len(x)
      BY <1>0
    <3> QED BY <3>2, <3>3
  <2> DEFINE K == {k \in Nat : k + 1 <= Len(x) => f[k + 1] = SubSeq(x, 1, k + 1)}
  <2>2. 0 \in K
    <3>1. SubSeq(x, 1, 1) = <<x[1]>>
      <4>1. 1 \in 1..Len(x)
        BY <1>0, <1>2
      <4>2. SubSeq(x, 1, 1) = SubSeq(x, 1, 1 - 1) \o <<x[1]>>
        BY <4>1, SubSeqRecursiveSecond
      <4>3. SubSeq(x, 1, 1 - 1) = <<>>
        BY SubSeqEmpty
      <4>4. <<>> \o <<x[1]>> = <<x[1]>>
        BY <4>1
      <4> QED BY <4>2, <4>3, <4>4
    <3>2. f[1] = <<x[1]>>
      BY <1>0, <1>2, <2>1
    <3> QED BY <3>1, <3>2
  <2>3. ASSUME NEW k \in K PROVE k + 1 \in K
    <3>1. ASSUME k + 2 <= Len(x) PROVE f[k + 2] = SubSeq(x, 1, k + 2)
      <4>1. /\ k + 1 \in 1..(Len(x) - 1) /\ f[k + 1] = SubSeq(x, 1, k + 1)
            /\ k + 2 \in 1..Len(x) /\ (k + 1) + 1 = k + 2 /\ (k + 2) - 1 = k + 1
            /\ 1 \in 1..Len(x)
        BY <1>0, <3>1
      <4>2. f[k + 2] = f[k + 1] \o <<x[k + 2]>>
        BY <2>1, <4>1
      <4>3. SubSeq(x, 1, k + 2) = SubSeq(x, 1, k + 1) \o <<x[k + 2]>>
        BY <4>1, SubSeqRecursiveSecond
      <4> QED BY <4>1, <4>2, <4>3
    <3> QED BY <3>1
  <2> HIDE DEF K
  <2>4. K = Nat
    BY <2>2, <2>3, Sel!InductionOnSet DEF K
  <2>5. Len(x) - 1 \in K /\ (Len(x) - 1) + 1 = Len(x)
    BY <1>0, <1>2, <2>4
  <2>6. f[Len(x)] = SubSeq(x, 1, Len(x))
    BY <1>0, <2>5 DEF K
  <2> QED BY <2>1, <2>6, SubSeqFull
<1> QED BY <1>1, <1>2
-----------------------------------------------------------------------------
(* The turns before they are repaired.                                       *)

RawStep(l, r, n) ==
    IF n \in Shadowed(l) THEN r \o SetToSeq({User(c) : c \in Anchored(l, n)})
    ELSE IF n \in Superseded(l) THEN r
    ELSE CASE l[n].kind \in {"user", "block"} -> Append(r, User(n))
           [] l[n].kind = "assistant" -> Append(r, Assistant(l, n))
           [] l[n].kind = "result" -> Joined(r, Results(l, n))
           [] OTHER -> r

IsRaw(f, l, n) == f = [i \in 0..n |-> IF i = 0 THEN <<>> ELSE RawStep(l, f[i - 1], i)]

(* The recursive definition of Raw has a solution, for every length.         *)
LEMMA RawExists ==
  ASSUME NEW l, NEW n \in Nat
  PROVE  \E f : IsRaw(f, l, n)
<1> DEFINE T == {k \in Nat : \E f : IsRaw(f, l, k)}
<1>1. 0 \in T
  <2> DEFINE f == [i \in 0..0 |-> <<>>]
  <2>1. f = [i \in 0..0 |-> IF i = 0 THEN <<>> ELSE RawStep(l, f[i - 1], i)]
    OBVIOUS
  <2> QED BY <2>1 DEF IsRaw
<1>2. ASSUME NEW k \in T PROVE k + 1 \in T
  <2>1. PICK f : IsRaw(f, l, k)
    OBVIOUS
  <2> DEFINE h == [i \in 0..(k + 1) |-> IF i <= k THEN f[i] ELSE RawStep(l, f[i - 1], i)]
  <2>2. ASSUME NEW i \in 0..(k + 1)
        PROVE  h[i] = IF i = 0 THEN <<>> ELSE RawStep(l, h[i - 1], i)
    <3>1. CASE i <= k
      <4>1. h[i] = f[i] /\ i \in 0..k /\ (i # 0 => h[i - 1] = f[i - 1])
        BY <3>1
      <4> HIDE DEF h
      <4>2. f[i] = IF i = 0 THEN <<>> ELSE RawStep(l, f[i - 1], i)
        BY <2>1, <4>1 DEF IsRaw
      <4> QED BY <4>1, <4>2
    <3>2. CASE i = k + 1
      <4>1. h[i - 1] = f[i - 1] /\ i # 0
        BY <3>2
      <4>2. h[i] = RawStep(l, f[i - 1], i)
        BY <3>2
      <4> HIDE DEF h
      <4> QED BY <4>1, <4>2
    <3> QED BY <3>1, <3>2
  <2>3. h = [i \in 0..(k + 1) |-> h[i]]
    OBVIOUS
  <2> HIDE DEF h
  <2>4. IsRaw(h, l, k + 1)
    BY <2>2, <2>3 DEF IsRaw
  <2> QED BY <2>4
<1> HIDE DEF T
<1>3. T = Nat
  BY <1>1, <1>2, Sel!InductionOnSet DEF T
<1> QED BY <1>3 DEF T

(* What Raw is, step by step.                                                *)
LEMMA RawSteps ==
  ASSUME NEW l, Len(l) \in Nat
  PROVE  \E f : /\ Raw(l) = f[Len(l)] /\ f[0] = <<>>
                /\ \A i \in 1..Len(l) : f[i] = RawStep(l, f[i - 1], i)
<1> DEFINE f == CHOOSE g : IsRaw(g, l, Len(l))
<1>1. Raw(l) = f[Len(l)]
  BY DEF Raw, IsRaw, RawStep
<1>2. IsRaw(f, l, Len(l))
  BY RawExists
<1> HIDE DEF f
<1>3. \A i \in 0..Len(l) : f[i] = IF i = 0 THEN <<>> ELSE RawStep(l, f[i - 1], i)
  BY <1>2 DEF IsRaw
<1>4. f[0] = <<>>
  BY <1>3
<1>5. \A i \in 1..Len(l) : f[i] = RawStep(l, f[i - 1], i)
  BY <1>3
<1> QED BY <1>1, <1>4, <1>5

(* A sequence of a finite set has its elements, each once.                   *)
LEMMA SetToSeqFacts ==
  ASSUME NEW S, IsFiniteSet(S)
  PROVE  /\ SetToSeq(S) \in Seq(S)
         /\ Len(SetToSeq(S)) = Cardinality(S) /\ Cardinality(S) \in Nat
         /\ Range(SetToSeq(S)) = S
         /\ \A i, j \in 1..Cardinality(S) : SetToSeq(S)[i] = SetToSeq(S)[j] => i = j
<1> DEFINE n == Cardinality(S)
           s == SetToSeq(S)
<1>1. n \in Nat /\ ExistsBijection(1..n, S)
  BY FS_CardinalityType
<1>2. \E f \in [1..n -> S] : IsInjective(f)
  BY <1>1 DEF ExistsBijection, Bijection, Injection
<1>3. s \in [1..n -> S] /\ IsInjective(s)
  BY <1>2 DEF SetToSeq
<1> HIDE DEF s, n
<1>4. s \in Seq(S) /\ Len(s) = n
  BY <1>1, <1>3
<1>5. \A i, j \in 1..n : s[i] = s[j] => i = j
  BY <1>3 DEF IsInjective
<1>6. Range(s) = S
  <2>1. IsFiniteSet(1..n) /\ Cardinality(1..n) = n
    BY <1>1, FS_Interval
  <2>2. Range(s) \subseteq S
    BY <1>3 DEF Range
  <2>3. s \in Surjection(1..n, Range(s))
    BY <1>3 DEF Surjection, Range
  <2>4. s \in Injection(1..n, Range(s))
    BY <1>3 DEF Injection, Range
  <2>5. Cardinality(Range(s)) = n
    BY <2>1, <2>3, <2>4, FS_Surjection
  <2> QED BY <2>2, <2>5, FS_Subset DEF n
<1> QED BY <1>1, <1>4, <1>5, <1>6 DEF s, n

Turns(r) == r \in Seq(Range(r)) /\ \A i \in DOMAIN r : IsTurn(r[i])

(* Turns are added to turns.                                                 *)
LEMMA TurnsConcat ==
  ASSUME NEW r, NEW s, Turns(r), Turns(s)
  PROVE  Turns(r \o s)
<1> DEFINE S == Range(r) \cup Range(s)
           m == r \o s
<1>1. r \in Seq(S) /\ s \in Seq(S)
  BY SeqMonotonic DEF Turns
<1> HIDE DEF S
<1>2. /\ m \in Seq(S) /\ Len(m) = Len(r) + Len(s) /\ Len(r) \in Nat /\ Len(s) \in Nat
      /\ DOMAIN r = 1..Len(r) /\ DOMAIN s = 1..Len(s) /\ DOMAIN m = 1..Len(m)
      /\ \A i \in 1..Len(m) : m[i] = IF i <= Len(r) THEN r[i] ELSE s[i - Len(r)]
  BY <1>1, ConcatProperties
<1> HIDE DEF m
<1>3. \A i \in DOMAIN m : IsTurn(m[i])
  <2> TAKE i \in DOMAIN m
  <2>1. CASE i <= Len(r)
    BY <1>2, <2>1 DEF Turns
  <2>2. CASE ~(i <= Len(r))
    <3>1. i - Len(r) \in DOMAIN s
      BY <1>2, <2>2
    <3> QED BY <1>2, <2>2, <3>1 DEF Turns
  <2> QED BY <2>1, <2>2
<1>4. m \in Seq(Range(m))
  BY <1>2 DEF Range
<1> QED BY <1>3, <1>4 DEF Turns, m

(* One turn.                                                                 *)
LEMMA TurnsSingle ==
  ASSUME NEW t, IsTurn(t)
  PROVE  Turns(<<t>>)
<1>1. <<t>> \in Seq(Range(<<t>>)) /\ Len(<<t>>) = 1 /\ <<t>>[1] = t
  BY Single
<1> DEFINE s == <<t>>
<1> HIDE DEF s
<1>2. s \in Seq(Range(s)) /\ Len(s) = 1 /\ s[1] = t
  BY <1>1 DEF s
<1>3. DOMAIN s = {1}
  BY <1>2
<1>4. Turns(s)
  BY <1>2, <1>3 DEF Turns
<1> QED BY <1>4 DEF s

(* All but the last, and the last.                                           *)
LEMMA TurnsFront ==
  ASSUME NEW r, Turns(r), r # <<>>
  PROVE  /\ Turns(Front(r)) /\ IsTurn(Last(r)) /\ Last(r) = r[Len(r)] /\ Len(r) \in Nat \ {0}
         /\ Len(Front(r)) = Len(r) - 1 /\ \A i \in 1..(Len(r) - 1) : Front(r)[i] = r[i]
<1> DEFINE S == Range(r)
           m == Front(r)
<1>1. r \in Seq(S) /\ Len(r) \in Nat \ {0} /\ DOMAIN r = 1..Len(r)
  BY DEF Turns
<1> HIDE DEF S
<1>2. /\ m \in Seq(S) /\ Len(m) = Len(r) - 1 /\ \A i \in 1..(Len(r) - 1) : m[i] = r[i]
  BY <1>1, SubSeqProperties DEF Front
<1> HIDE DEF m
<1>3. DOMAIN m = 1..(Len(r) - 1)
  BY <1>1, <1>2
<1>4. \A i \in DOMAIN m : m[i] \in Range(m) /\ IsTurn(m[i])
  BY <1>1, <1>2, <1>3 DEF Turns, Range
<1>5. m \in Seq(Range(m))
  BY <1>1, <1>2, <1>3, <1>4
<1>6. Turns(m)
  BY <1>4, <1>5 DEF Turns
<1>7. IsTurn(Last(r)) /\ Last(r) = r[Len(r)]
  BY <1>1 DEF Turns, Last
<1> QED BY <1>1, <1>2, <1>6, <1>7 DEF m

(* The checkpoints anchored at a position are finitely many.                 *)
LEMMA AnchoredFinite ==
  ASSUME NEW l, Len(l) \in Nat, DOMAIN l = 1..Len(l), NEW n
  PROVE  IsFiniteSet(Anchored(l, n)) /\ IsFiniteSet({User(c) : c \in Anchored(l, n)})
<1> DEFINE A == Anchored(l, n)
           U == {User(c) : c \in A}
           f == [c \in A |-> User(c)]
<1>1. A \in SUBSET (1..Len(l))
  BY DEF Anchored, Live, Of
<1>2. IsFiniteSet(A)
  <2>1. IsFiniteSet(1..Len(l))
    BY FS_Interval
  <2> HIDE DEF A
  <2> QED BY <1>1, <2>1, FS_Subset
<1>3. f \in Surjection(A, U)
  BY DEF Surjection
<1>4. IsFiniteSet(U)
  BY <1>2, <1>3, FS_Surjection
<1> QED BY <1>2, <1>4

(* What a position adds.                                                     *)
LEMMA AreTurns ==
  ASSUME NEW l, Len(l) \in Nat, DOMAIN l = 1..Len(l), NEW n \in 1..Len(l)
  PROVE  IsTurn(User(n)) /\ IsTurn(Assistant(l, n)) /\ IsTurn(Results(l, n))
<1>1. n \in Nat /\ <<n>> \in Seq(Nat) /\ Len(<<n>>) = 1
  OBVIOUS
<1>2. IsTurn(User(n))
  BY <1>1 DEF IsTurn, User
<1>3. IsTurn(Assistant(l, n))
  BY <1>1 DEF IsTurn, Assistant
<1>4. IsTurn(Results(l, n))
  <2> DEFINE q == IF Pruned(l, n) = {} THEN n ELSE CHOOSE q \in Pruned(l, n) : TRUE
             s == <<q>>
             calls == {l[n].call}
  <2>1. q \in Nat
    <3>1. Pruned(l, n) \subseteq Nat
      BY DEF Pruned, Of
    <3> QED BY <1>1, <3>1
  <2>2. s \in Seq(Nat) /\ Len(s) = 1
    BY <2>1
  <2>3. IsFiniteSet(calls) /\ Cardinality(calls) = 1
    BY FS_Singleton
  <2> DEFINE t == [kind |-> "results", text |-> FALSE, calls |-> calls, cites |-> s]
  <2>4. Results(l, n) = t
    BY DEF Results
  <2> HIDE DEF s, calls
  <2>5. /\ t = [x \in {"kind", "text", "calls", "cites"} |-> t[x]]
        /\ t.kind = "results" /\ t.calls = calls /\ t.cites = s
    OBVIOUS
  <2> HIDE DEF t
  <2>6. Cardinality(calls) <= Len(s)
    BY <2>2, <2>3
  <2>7. /\ t.kind \in {"user", "assistant", "results"} /\ t.cites \in Seq(Nat)
        /\ IsFiniteSet(t.calls) /\ Cardinality(t.calls) <= Len(t.cites)
    BY <2>2, <2>3, <2>5, <2>6, Zenon
  <2>8. IsTurn(t)
    BY <2>5, <2>7 DEF IsTurn
  <2> QED BY <2>4, <2>8
<1> QED BY <1>2, <1>3, <1>4

(* Results that join results.                                                *)
LEMMA JoinedTurn ==
  ASSUME NEW l, Len(l) \in Nat, DOMAIN l = 1..Len(l), NEW n \in 1..Len(l), NEW t, IsTurn(t),
         t.kind = "results"
  PROVE  LET u == [t EXCEPT !.calls = @ \cup Results(l, n).calls, !.cites = @ \o Results(l, n).cites]
         IN  IsTurn(u) /\ u.kind = "results" /\ u.cites = t.cites \o Results(l, n).cites
<1> DEFINE v == Results(l, n)
           calls == t.calls \cup v.calls
           cites == t.cites \o v.cites
           u == [t EXCEPT !.calls = @ \cup v.calls, !.cites = @ \o v.cites]
<1>1. IsTurn(v) /\ v.calls = {l[n].call} /\ Len(v.cites) = 1
  <2>1. v.calls = {l[n].call} /\ v.kind = "results"
    BY DEF Results
  <2>2. \E q : v.cites = <<q>>
    BY DEF Results
  <2> QED BY <2>1, <2>2, AreTurns
<1>2. /\ u = [x \in {"kind", "text", "calls", "cites"} |-> u[x]]
      /\ u.kind = "results" /\ u.calls = calls /\ u.cites = cites
  BY DEF IsTurn
<1> HIDE DEF v
<1>3. /\ t.cites \in Seq(Nat) /\ v.cites \in Seq(Nat)
      /\ IsFiniteSet(t.calls) /\ Cardinality(t.calls) <= Len(t.cites)
  BY <1>1 DEF IsTurn
<1>4. cites \in Seq(Nat) /\ Len(cites) = Len(t.cites) + 1
  <2> DEFINE a == t.cites
             b == v.cites
  <2>1. a \in Seq(Nat) /\ b \in Seq(Nat) /\ Len(b) = 1 /\ cites = a \o b
    BY <1>1, <1>3
  <2> HIDE DEF a, b, cites
  <2>2. cites \in Seq(Nat) /\ Len(cites) = Len(a) + 1
    <3>1. a \o b \in Seq(Nat) /\ Len(a \o b) = Len(a) + Len(b)
      BY <2>1, ConcatProperties
    <3> QED BY <2>1, <3>1
  <2> QED BY <2>2 DEF a
<1>5. IsFiniteSet(calls) /\ Cardinality(calls) <= Cardinality(t.calls) + 1
  <2> DEFINE a == t.calls
             x == l[n].call
  <2>1. IsFiniteSet(a) /\ calls = a \cup {x}
    BY <1>1, <1>3
  <2> HIDE DEF a, x, calls
  <2>2. IsFiniteSet(calls) /\ Cardinality(a) \in Nat
    BY <2>1, FS_AddElement, FS_CardinalityType
  <2>3. Cardinality(calls) = IF x \in a THEN Cardinality(a) ELSE Cardinality(a) + 1
    BY <2>1, FS_AddElement
  <2>4. Cardinality(calls) <= Cardinality(a) + 1
    BY <2>2, <2>3
  <2> QED BY <2>2, <2>4 DEF a
<1>6. Cardinality(calls) \in Nat /\ Cardinality(t.calls) \in Nat /\ Len(t.cites) \in Nat
  BY <1>3, <1>5, FS_CardinalityType
<1> HIDE DEF u, calls, cites
<1>7. IsTurn(u)
  BY <1>2, <1>3, <1>4, <1>5, <1>6 DEF IsTurn
<1> QED BY <1>2, <1>7 DEF u, cites, v

(* The checkpoints anchored at a position, as turns.                         *)
LEMMA AnchoredTurns ==
  ASSUME NEW l, Len(l) \in Nat, DOMAIN l = 1..Len(l), NEW n
  PROVE  Turns(SetToSeq({User(c) : c \in Anchored(l, n)}))
<1> DEFINE U == {User(c) : c \in Anchored(l, n)}
           s == SetToSeq(U)
<1>1. s \in Seq(U) /\ Range(s) = U
  BY AnchoredFinite, SetToSeqFacts
<1>2. \A t \in U : IsTurn(t)
  <2>1. Anchored(l, n) \subseteq 1..Len(l)
    BY DEF Anchored, Live, Of
  <2> QED BY <2>1, AreTurns
<1> HIDE DEF s, U
<1>3. \A i \in DOMAIN s : IsTurn(s[i])
  BY <1>1, <1>2
<1>4. Turns(s)
  BY <1>1, <1>3 DEF Turns
<1> QED BY <1>4 DEF s, U

(* Results join those before them, or are a turn.                            *)
LEMMA JoinedTurns ==
  ASSUME NEW l, Len(l) \in Nat, DOMAIN l = 1..Len(l), NEW n \in 1..Len(l), NEW r, Turns(r)
  PROVE  \/ Joined(r, Results(l, n)) = r \o <<Results(l, n)>>
         \/ \E u : /\ r # <<>> /\ Joined(r, Results(l, n)) = Front(r) \o <<u>> /\ IsTurn(u)
                   /\ u.kind = "results" /\ Last(r).kind = "results"
                   /\ u.cites = Last(r).cites \o Results(l, n).cites
<1>1. CASE r # <<>> /\ Last(r).kind = "results"
  <2> DEFINE t == Results(l, n)
             u == [Last(r) EXCEPT !.calls = @ \cup t.calls, !.cites = @ \o t.cites]
  <2>1. IsTurn(Last(r)) /\ Turns(Front(r))
    BY <1>1, TurnsFront
  <2>2. IsTurn(u) /\ u.kind = "results" /\ u.cites = Last(r).cites \o t.cites
    BY <1>1, <2>1, JoinedTurn
  <2>3. t.kind = "results"
    BY DEF Results
  <2>4. Joined(r, t) = Append(Front(r), u)
    BY <1>1, <2>3 DEF Joined
  <2> HIDE DEF t, u
  <2>5. Append(Front(r), u) = Front(r) \o <<u>>
    BY <2>1 DEF Turns
  <2> QED BY <1>1, <2>2, <2>4, <2>5 DEF t
<1>2. CASE ~(r # <<>> /\ Last(r).kind = "results")
  <2>1. Joined(r, Results(l, n)) = Append(r, Results(l, n))
    BY <1>2 DEF Joined
  <2>2. Append(r, Results(l, n)) = r \o <<Results(l, n)>>
    BY DEF Turns
  <2> QED BY <2>1, <2>2
<1> QED BY <1>1, <1>2

(* Each position adds turns.                                                 *)
LEMMA RawStepTurns ==
  ASSUME NEW l, Len(l) \in Nat, DOMAIN l = 1..Len(l), NEW n \in 1..Len(l), NEW r, Turns(r)
  PROVE  Turns(RawStep(l, r, n))
<1>1. ASSUME NEW t, IsTurn(t) PROVE Turns(r \o <<t>>) /\ Append(r, t) = r \o <<t>>
  <2>1. Append(r, t) = r \o <<t>>
    BY DEF Turns
  <2> QED BY <1>1, <2>1, TurnsConcat, TurnsSingle
<1>2. IsTurn(User(n)) /\ IsTurn(Assistant(l, n)) /\ IsTurn(Results(l, n))
  BY AreTurns
<1>3. Turns(Joined(r, Results(l, n)))
  <2>1. CASE Joined(r, Results(l, n)) = r \o <<Results(l, n)>>
    BY <1>1, <1>2, <2>1
  <2>2. ASSUME NEW u, r # <<>>, Joined(r, Results(l, n)) = Front(r) \o <<u>>, IsTurn(u)
        PROVE  Turns(Joined(r, Results(l, n)))
    BY <2>2, TurnsFront, TurnsConcat, TurnsSingle
  <2> QED BY <2>1, <2>2, JoinedTurns
<1>4. Turns(r \o SetToSeq({User(c) : c \in Anchored(l, n)}))
  BY AnchoredTurns, TurnsConcat
<1> QED BY <1>1, <1>2, <1>3, <1>4 DEF RawStep

(* Raw is a sequence of turns.                                               *)
LEMMA RawTurns ==
  ASSUME NEW l, Len(l) \in Nat, DOMAIN l = 1..Len(l)
  PROVE  Turns(Raw(l))
<1>1. PICK f : /\ Raw(l) = f[Len(l)] /\ f[0] = <<>>
               /\ \A i \in 1..Len(l) : f[i] = RawStep(l, f[i - 1], i)
  BY RawSteps
<1> DEFINE K == {k \in Nat : k <= Len(l) => Turns(f[k])}
<1>2. 0 \in K
  <2>1. Turns(<<>>)
    BY DEF Turns
  <2> QED BY <1>1, <2>1
<1>3. ASSUME NEW k \in K PROVE k + 1 \in K
  <2>1. ASSUME k + 1 <= Len(l) PROVE Turns(f[k + 1])
    <3>1. k + 1 \in 1..Len(l) /\ (k + 1) - 1 = k /\ Turns(f[k])
      BY <2>1
    <3> QED BY <1>1, <3>1, RawStepTurns
  <2> QED BY <2>1
<1> HIDE DEF K
<1>4. K = Nat
  BY <1>2, <1>3, Sel!InductionOnSet DEF K
<1>5. Turns(f[Len(l)])
  BY <1>4 DEF K
<1> QED BY <1>1, <1>5

(* In whatever a log came to be, its calls and results are in pairs.         *)
LEMMA PairsHold == SpansInv => PairsIntact
<1> SUFFICES ASSUME SpansInv PROVE PairsIntact
  OBVIOUS
<1> DEFINE T == Raw(log)
           S == Range(T)
<1>1. Len(log) \in Nat /\ DOMAIN log = 1..Len(log)
  BY DEF SpansInv
<1>2. Turns(T)
  BY <1>1, RawTurns
<1> HIDE DEF T
<1>3. T \in Seq(S) /\ \A t \in S : IsTurn(t)
  BY <1>2 DEF Turns, Range
<1> HIDE DEF S
<1>4. Context(log) = Repaired(T)
  BY DEF Context, T
<1> QED BY <1>3, <1>4, RepairedPairs DEF PairsIntact

(* Each assistant turn that calls tools is followed by the results of those  *)
(* calls, and results by nothing else ("Tool protocols require each          *)
(* assistant tool_use to be followed by its matching tool_result turn",      *)
(* projection.rs:320), in whatever a log came to be.                         *)
THEOREM PairsKept == FoldSpec => []PairsIntact
BY PairsHold, SpansInvariance, PTL
-----------------------------------------------------------------------------
(* The sources of a log.                                                     *)

(* What turns cite are positions.                                            *)
LEMMA CitesType ==
  ASSUME NEW r, Turns(r)
  PROVE  /\ Cites(r) \in Seq(Nat) /\ Len(r) \in Nat /\ DOMAIN r = 1..Len(r)
         /\ [i \in DOMAIN r |-> r[i].cites] \in Seq(Seq(Nat))
<1> DEFINE s == [i \in DOMAIN r |-> r[i].cites]
<1>1. Len(r) \in Nat /\ DOMAIN r = 1..Len(r) /\ \A i \in 1..Len(r) : r[i].cites \in Seq(Nat)
  BY DEF Turns, IsTurn
<1>2. s \in Seq(Seq(Nat))
  BY <1>1
<1> HIDE DEF s
<1>3. FlattenSeq(s) \in Seq(Nat)
  BY <1>2, FlatType
<1> QED BY <1>1, <1>2, <1>3 DEF Cites, s

(* Turns cite what their parts cite.                                         *)
LEMMA CitesConcat ==
  ASSUME NEW r, NEW s, Turns(r), Turns(s)
  PROVE  Cites(r \o s) = Cites(r) \o Cites(s)
<1> DEFINE a == [i \in DOMAIN r |-> r[i].cites]
           b == [i \in DOMAIN s |-> s[i].cites]
           m == r \o s
           c == [i \in DOMAIN m |-> m[i].cites]
<1>1. a \in Seq(Seq(Nat)) /\ b \in Seq(Seq(Nat)) /\ c \in Seq(Seq(Nat))
  BY CitesType, TurnsConcat
<1>2. /\ Len(r) \in Nat /\ Len(s) \in Nat /\ Len(m) = Len(r) + Len(s)
      /\ DOMAIN r = 1..Len(r) /\ DOMAIN s = 1..Len(s) /\ DOMAIN m = 1..Len(m)
      /\ \A i \in 1..Len(m) : m[i] = IF i <= Len(r) THEN r[i] ELSE s[i - Len(r)]
  <2> DEFINE S == Range(r) \cup Range(s)
  <2>1. r \in Seq(S) /\ s \in Seq(S)
    BY SeqMonotonic DEF Turns
  <2> HIDE DEF S
  <2> QED BY <2>1, ConcatProperties
<1> HIDE DEF m
<1>3. /\ Len(a) = Len(r) /\ \A i \in 1..Len(r) : a[i] = r[i].cites
      /\ Len(b) = Len(s) /\ \A i \in 1..Len(s) : b[i] = s[i].cites
      /\ Len(c) = Len(m) /\ \A i \in 1..Len(m) : c[i] = m[i].cites
  BY <1>1, <1>2
<1> HIDE DEF a, b, c
<1>4. c = a \o b
  <2>1. /\ a \o b \in Seq(Seq(Nat)) /\ Len(a \o b) = Len(c)
        /\ \A i \in 1..Len(c) : (a \o b)[i] = IF i <= Len(a) THEN a[i] ELSE b[i - Len(a)]
    <3>1. /\ a \o b \in Seq(Seq(Nat)) /\ Len(a \o b) = Len(a) + Len(b)
          /\ \A i \in 1..(Len(a) + Len(b)) : (a \o b)[i] = IF i <= Len(a) THEN a[i]
                                                           ELSE b[i - Len(a)]
      BY <1>1, ConcatProperties
    <3>2. Len(a) + Len(b) = Len(c)
      BY <1>2, <1>3
    <3> QED BY <3>1, <3>2
  <2>2. \A i \in 1..Len(c) : c[i] = (a \o b)[i]
    <3> TAKE i \in 1..Len(c)
    <3> DEFINE d == a \o b
    <3>0. /\ i \in 1..Len(m) /\ c[i] = m[i].cites
          /\ d[i] = IF i <= Len(a) THEN a[i] ELSE b[i - Len(a)]
      BY <1>3, <2>1
    <3> HIDE DEF d
    <3>1. CASE i <= Len(r)
      <4>1. i \in 1..Len(r) /\ m[i] = r[i]
        BY <1>2, <3>0, <3>1
      <4>2. d[i] = a[i] /\ a[i] = r[i].cites
        BY <1>3, <3>0, <3>1, <4>1
      <4> QED BY <3>0, <4>1, <4>2 DEF d
    <3>2. CASE ~(i <= Len(r))
      <4>1. i - Len(r) \in 1..Len(s) /\ m[i] = s[i - Len(r)]
        BY <1>2, <3>0, <3>2
      <4>2. d[i] = b[i - Len(r)] /\ b[i - Len(r)] = s[i - Len(r)].cites
        BY <1>3, <3>0, <3>2, <4>1
      <4> QED BY <3>0, <4>1, <4>2 DEF d
    <3> QED BY <3>1, <3>2
  <2> QED BY <1>1, <2>1, <2>2, SeqEqual
<1>5. FlattenSeq(c) = FlattenSeq(a) \o FlattenSeq(b)
  BY <1>1, <1>4, FlatConcat
<1> QED BY <1>5 DEF Cites, a, b, c, m

(* One turn.                                                                 *)
LEMMA CitesOne ==
  ASSUME NEW t, IsTurn(t)
  PROVE  Cites(<<t>>) = t.cites
<1> DEFINE r == <<t>>
           s == [i \in DOMAIN r |-> r[i].cites]
<1>1. s = <<t.cites>> /\ t.cites \in Seq(Nat)
  BY DEF IsTurn
<1>2. FlattenSeq(<<t.cites>>) = t.cites
  BY <1>1, FlatOne
<1> QED BY <1>1, <1>2 DEF Cites

Cited(l, p) == IF Pruned(l, p) = {} THEN p ELSE CHOOSE q \in Pruned(l, p) : TRUE

(* The sources a position adds.                                              *)
From(l, n) ==
    IF n \in Shadowed(l) THEN Anchored(l, n)
    ELSE IF n \in Superseded(l) THEN {}
    ELSE IF l[n].kind = "result" THEN {Cited(l, n)}
    ELSE IF l[n].kind \in {"user", "block", "assistant"} THEN {n} ELSE {}

Distinct(s) == \A i, j \in 1..Len(s) : s[i] = s[j] => i = j

(* They are cited at the end, once each.                                     *)
LEMMA StepCites ==
  ASSUME NEW l, Len(l) \in Nat, DOMAIN l = 1..Len(l), NEW n \in 1..Len(l), NEW r, Turns(r)
  PROVE  \E w \in Seq(Nat) : /\ Cites(RawStep(l, r, n)) = Cites(r) \o w
                             /\ Distinct(w) /\ Range(w) = From(l, n)
<1>0. Cites(r) \in Seq(Nat) /\ n \in Nat
  <2>1. Cites(r) \in Seq(Nat)
    BY CitesType
  <2> QED BY <2>1
<1>1. ASSUME NEW t, IsTurn(t), NEW x \in Nat, t.cites = <<x>>
      PROVE  /\ Cites(r \o <<t>>) = Cites(r) \o <<x>> /\ Append(r, t) = r \o <<t>>
             /\ <<x>> \in Seq(Nat) /\ Distinct(<<x>>) /\ Range(<<x>>) = {x}
  <2>1. Cites(r \o <<t>>) = Cites(r) \o <<x>>
    <3>1. Turns(<<t>>) /\ Cites(<<t>>) = <<x>>
      BY <1>1, TurnsSingle, CitesOne
    <3> QED BY <3>1, CitesConcat
  <2>2. Append(r, t) = r \o <<t>>
    BY DEF Turns
  <2>3. <<x>> \in Seq(Nat) /\ Distinct(<<x>>)
    BY DEF Distinct
  <2>4. Range(<<x>>) = {x}
    <3> DEFINE s == <<x>>
    <3>1. DOMAIN s = {1} /\ s[1] = x
      OBVIOUS
    <3> HIDE DEF s
    <3>2. Range(s) = {x}
      BY <3>1 DEF Range
    <3> QED BY <3>2 DEF s
  <2> QED BY <2>1, <2>2, <2>3, <2>4
<1>2. IsTurn(User(n)) /\ IsTurn(Assistant(l, n)) /\ IsTurn(Results(l, n))
  BY AreTurns
<1>3. CASE n \in Shadowed(l)
  <2> DEFINE A == Anchored(l, n)
             U == {User(c) : c \in A}
             s == SetToSeq(U)
             x == [i \in 1..Len(s) |-> s[i].cites[1]]
  <2>1. /\ s \in Seq(U) /\ Range(s) = U /\ Len(s) \in Nat
        /\ \A i, j \in 1..Len(s) : s[i] = s[j] => i = j
    <3>1. IsFiniteSet(U)
      BY AnchoredFinite
    <3> HIDE DEF U
    <3> QED BY <3>1, SetToSeqFacts
  <2>2. Turns(s)
    BY AnchoredTurns
  <2>3. Cites(r \o s) = Cites(r) \o Cites(s)
    BY <2>2, CitesConcat
  <2>4. A \subseteq Nat
    BY DEF Anchored, Live, Of
  <2> HIDE DEF s
  <2>5. \A i \in 1..Len(s) : \E c \in A : s[i] = User(c)
    BY <2>1
  <2>6. \A i \in 1..Len(s) : x[i] \in A /\ s[i] = User(x[i]) /\ s[i].cites = <<x[i]>>
    <3> TAKE i \in 1..Len(s)
    <3>1. PICK c \in A : s[i] = User(c)
      BY <2>5
    <3>2. s[i].cites = <<c>>
      BY <3>1 DEF User
    <3>3. x[i] = c
      BY <3>2
    <3> QED BY <3>1, <3>2, <3>3
  <2>7. x \in Seq(Nat) /\ Len(x) = Len(s) /\ DOMAIN x = 1..Len(s)
    <3>1. \A i \in 1..Len(s) : x[i] \in Nat
      BY <2>4, <2>6
    <3> QED BY <2>1, <3>1
  <2> HIDE DEF x
  <2>8. Range(x) = A
    <3>1. \A i \in DOMAIN x : x[i] \in A
      BY <2>6, <2>7
    <3>2. ASSUME NEW c \in A PROVE \E i \in DOMAIN x : x[i] = c
      <4>1. PICK i \in DOMAIN s : s[i] = User(c)
        BY <2>1 DEF Range
      <4>2. i \in 1..Len(s) /\ s[i].cites = <<c>>
        BY <2>1, <4>1 DEF User
      <4>3. x[i] = c
        BY <2>6, <4>2
      <4> QED BY <2>7, <4>2, <4>3
    <3> QED BY <3>1, <3>2 DEF Range
  <2>9. Distinct(x)
    BY <2>1, <2>6, <2>7 DEF Distinct
  <2>10. Cites(s) = x
    <3> DEFINE y == [i \in DOMAIN s |-> s[i].cites]
    <3>1. y \in Seq(Seq(Nat)) /\ DOMAIN s = 1..Len(s)
      BY <2>2, CitesType
    <3>2. Len(y) = Len(x) /\ \A i \in 1..Len(x) : y[i] = <<x[i]>>
      BY <2>6, <2>7, <3>1
    <3> HIDE DEF y
    <3>3. FlattenSeq(y) = x
      BY <2>7, <3>1, <3>2, FlatSingles
    <3> QED BY <3>3 DEF Cites, y
  <2>11. RawStep(l, r, n) = r \o s /\ From(l, n) = A
    BY <1>3 DEF RawStep, From, s
  <2> QED BY <2>3, <2>7, <2>8, <2>9, <2>10, <2>11
<1>4. ASSUME RawStep(l, r, n) = r, From(l, n) = {}
      PROVE  \E w \in Seq(Nat) : /\ Cites(RawStep(l, r, n)) = Cites(r) \o w
                                 /\ Distinct(w) /\ Range(w) = From(l, n)
  <2>1. <<>> \in Seq(Nat) /\ Distinct(<<>>) /\ Range(<<>>) = {}
    BY DEF Distinct, Range
  <2>2. Cites(r) \o <<>> = Cites(r)
    BY <1>0
  <2> QED BY <1>4, <2>1, <2>2
<1>5. CASE n \notin Shadowed(l) /\ n \notin Superseded(l) /\ l[n].kind \in {"user", "block"}
  <2>1. User(n).cites = <<n>>
    BY DEF User
  <2>2. RawStep(l, r, n) = Append(r, User(n)) /\ From(l, n) = {n}
    BY <1>5 DEF RawStep, From
  <2> QED BY <1>0, <1>1, <1>2, <2>1, <2>2
<1>6. CASE n \notin Shadowed(l) /\ n \notin Superseded(l) /\ l[n].kind = "assistant"
  <2>1. Assistant(l, n).cites = <<n>>
    BY DEF Assistant
  <2>2. RawStep(l, r, n) = Append(r, Assistant(l, n)) /\ From(l, n) = {n}
    BY <1>6 DEF RawStep, From
  <2> QED BY <1>0, <1>1, <1>2, <2>1, <2>2
<1>7. CASE n \notin Shadowed(l) /\ n \notin Superseded(l) /\ l[n].kind = "result"
  <2> DEFINE x == Cited(l, n)
             t == Results(l, n)
  <2>1. t.cites = <<x>>
    BY DEF Results, Cited
  <2>2. RawStep(l, r, n) = Joined(r, t) /\ From(l, n) = {x}
    BY <1>7 DEF RawStep, From
  <2>3. x \in Nat
    <3>1. Pruned(l, n) \subseteq Nat
      BY DEF Pruned, Of
    <3> QED BY <1>0, <3>1 DEF Cited
  <2> HIDE DEF x
  <2>4. CASE Joined(r, t) = r \o <<t>>
    BY <1>1, <1>2, <2>1, <2>2, <2>3, <2>4
  <2>5. ASSUME NEW u, r # <<>>, Joined(r, t) = Front(r) \o <<u>>, IsTurn(u),
               u.cites = Last(r).cites \o t.cites
        PROVE  Cites(Joined(r, t)) = Cites(r) \o <<x>>
    <3>1. Turns(Front(r)) /\ IsTurn(Last(r))
      BY <2>5, TurnsFront
    <3>2. r = Front(r) \o <<Last(r)>>
      <4>1. r \in Seq(Range(r)) /\ Len(r) \in 1..Len(r)
        BY <2>5 DEF Turns
      <4>2. 1 \in 1..Len(r)
        BY <4>1
      <4>3. SubSeq(r, 1, Len(r)) = SubSeq(r, 1, Len(r) - 1) \o <<r[Len(r)]>>
        BY <4>1, <4>2, SubSeqRecursiveSecond
      <4> QED BY <4>1, <4>3, SubSeqFull DEF Front, Last
    <3> DEFINE a == Cites(Front(r))
               b == Last(r).cites
    <3>3. Cites(r) = a \o b
      BY <3>1, <3>2, TurnsSingle, CitesConcat, CitesOne
    <3>4. Cites(Joined(r, t)) = a \o (b \o <<x>>)
      <4>1. Turns(<<u>>) /\ Cites(<<u>>) = b \o <<x>>
        BY <2>1, <2>5, TurnsSingle, CitesOne
      <4>2. Cites(Front(r) \o <<u>>) = a \o Cites(<<u>>)
        BY <3>1, <4>1, CitesConcat
      <4> QED BY <2>5, <4>1, <4>2
    <3>5. a \in Seq(Nat) /\ b \in Seq(Nat) /\ <<x>> \in Seq(Nat)
      <4>1. a \in Seq(Nat)
        BY <3>1, CitesType
      <4>2. b \in Seq(Nat)
        BY <3>1 DEF IsTurn
      <4> QED BY <2>3, <4>1, <4>2
    <3> HIDE DEF a, b
    <3>6. a \o (b \o <<x>>) = (a \o b) \o <<x>>
      BY <3>5, ConcatAssociative
    <3> QED BY <3>3, <3>4, <3>6
  <2>6. <<x>> \in Seq(Nat) /\ Distinct(<<x>>) /\ Range(<<x>>) = {x}
    BY <1>1, <1>2, <2>1, <2>3
  <2> HIDE DEF t
  <2> QED BY <2>2, <2>4, <2>5, <2>6, JoinedTurns DEF t
<1>8. CASE n \notin Shadowed(l) /\ n \in Superseded(l)
  BY <1>4, <1>8 DEF RawStep, From
<1>9. CASE n \notin Shadowed(l) /\ l[n].kind \notin {"user", "block", "assistant", "result"}
  BY <1>4, <1>9 DEF RawStep, From
<1> QED BY <1>3, <1>5, <1>6, <1>7, <1>8, <1>9

(* Two sequences that share nothing.                                         *)
LEMMA DistinctConcat ==
  ASSUME NEW X, NEW c \in Seq(X), NEW w \in Seq(X), Distinct(c), Distinct(w),
         \A x \in Range(c) : x \notin Range(w)
  PROVE  Distinct(c \o w) /\ Range(c \o w) = Range(c) \cup Range(w)
<1> DEFINE m == c \o w
<1>1. /\ Len(c) \in Nat /\ Len(w) \in Nat /\ Len(m) = Len(c) + Len(w)
      /\ DOMAIN c = 1..Len(c) /\ DOMAIN w = 1..Len(w) /\ DOMAIN m = 1..Len(m)
      /\ \A i \in 1..Len(m) : m[i] = IF i <= Len(c) THEN c[i] ELSE w[i - Len(c)]
  BY ConcatProperties
<1> HIDE DEF m
<1>2. \A i \in 1..Len(m) : \/ i \in 1..Len(c) /\ m[i] = c[i]
                           \/ ~(i <= Len(c)) /\ i - Len(c) \in 1..Len(w) /\ m[i] = w[i - Len(c)]
  BY <1>1
<1>3. \A i \in 1..Len(c) : c[i] \in Range(c)
  BY <1>1 DEF Range
<1>4. \A i \in 1..Len(w) : w[i] \in Range(w)
  BY <1>1 DEF Range
<1>5. Distinct(m)
  <2> SUFFICES ASSUME NEW i \in 1..Len(m), NEW j \in 1..Len(m), m[i] = m[j]
               PROVE  i = j
    BY DEF Distinct
  <2>1. CASE i \in 1..Len(c) /\ j \in 1..Len(c)
    <3>1. c[i] = c[j]
      BY <1>1, <2>1
    <3> QED BY <2>1, <3>1 DEF Distinct
  <2>2. CASE ~(i <= Len(c)) /\ ~(j <= Len(c))
    <3>1. i - Len(c) \in 1..Len(w) /\ j - Len(c) \in 1..Len(w) /\ w[i - Len(c)] = w[j - Len(c)]
      BY <1>1, <2>2
    <3>2. i - Len(c) = j - Len(c)
      BY <3>1 DEF Distinct
    <3> QED BY <1>1, <3>2
  <2>3. CASE i \in 1..Len(c) /\ ~(j <= Len(c))
    <3>1. m[i] \in Range(c) /\ m[j] \in Range(w)
      BY <1>1, <1>2, <1>3, <1>4, <2>3
    <3> QED BY <3>1
  <2>4. CASE j \in 1..Len(c) /\ ~(i <= Len(c))
    <3>1. m[j] \in Range(c) /\ m[i] \in Range(w)
      BY <1>1, <1>2, <1>3, <1>4, <2>4
    <3> QED BY <3>1
  <2> QED BY <1>2, <2>1, <2>2, <2>3, <2>4
<1>6. Range(m) \subseteq Range(c) \cup Range(w)
  <2>1. \A i \in 1..Len(m) : m[i] \in Range(c) \cup Range(w)
    BY <1>2, <1>3, <1>4
  <2> QED BY <1>1, <2>1 DEF Range
<1>7. \A i \in 1..Len(c) : i \in 1..Len(m) /\ m[i] = c[i]
  BY <1>1
<1>8. \A i \in 1..Len(w) : Len(c) + i \in 1..Len(m) /\ m[Len(c) + i] = w[i]
  <2> TAKE i \in 1..Len(w)
  <2>1. Len(c) + i \in 1..Len(m) /\ ~(Len(c) + i <= Len(c)) /\ (Len(c) + i) - Len(c) = i
    BY <1>1
  <2> QED BY <1>1, <2>1
<1>9. Range(c) \subseteq Range(m)
  BY <1>1, <1>7 DEF Range
<1>10. Range(w) \subseteq Range(m)
  BY <1>1, <1>8 DEF Range
<1> QED BY <1>5, <1>6, <1>9, <1>10 DEF m

(* A source has one position that adds it.                                   *)
LEMMA FromOnce ==
  ASSUME NEW l, Len(l) \in Nat, DOMAIN l = 1..Len(l), NEW n \in 1..Len(l), NEW m \in 1..Len(l),
         NEW x \in From(l, n), x \in From(l, m)
  PROVE  n = m
<1> DEFINE Home(p) ==
      \/ x \in Of(l, "checkpoint") /\ p \in Shadow(l)[x] /\ \A q \in Shadow(l)[x] : p <= q
      \/ l[x].kind \in {"user", "block", "assistant", "result"} /\ p = x
      \/ l[x].kind = "prune" /\ p = l[x].of
<1>1. ASSUME NEW p \in 1..Len(l), x \in From(l, p) PROVE Home(p)
  <2>1. CASE p \in Shadowed(l)
    <3>1. x \in Anchored(l, p)
      BY <1>1, <2>1 DEF From
    <3> QED BY <3>1 DEF Anchored, Live
  <2>2. CASE p \notin Shadowed(l) /\ l[p].kind = "result"
    <3>1. x = Cited(l, p)
      BY <1>1, <2>2 DEF From
    <3>2. CASE x = p
      BY <2>2, <3>2
    <3>3. CASE x \in Pruned(l, p)
      BY <3>3 DEF Pruned, Of
    <3> QED BY <3>1, <3>2, <3>3 DEF Cited
  <2>3. CASE p \notin Shadowed(l) /\ l[p].kind # "result"
    <3>1. x = p /\ l[p].kind \in {"user", "block", "assistant"}
      BY <1>1, <2>3 DEF From
    <3> QED BY <3>1
  <2> QED BY <2>1, <2>2, <2>3
<1>2. Home(n) /\ Home(m)
  BY <1>1
<1>3. \A p, q \in 1..Len(l) : p <= q /\ q <= p => p = q
  OBVIOUS
<1> QED BY <1>2, <1>3 DEF Of

(* Every source may be folded.                                               *)
LEMMA FromUnfolded ==
  ASSUME NEW l, Len(l) \in Nat, DOMAIN l = 1..Len(l), NEW n \in 1..Len(l)
  PROVE  From(l, n) \subseteq Unfolded(l)
<1> SUFFICES ASSUME NEW x \in From(l, n) PROVE x \in Unfolded(l)
  OBVIOUS
<1>1. CASE n \in Shadowed(l)
  <2>1. x \in Live(l)
    BY <1>1 DEF From, Anchored
  <2>2. x \in Of(l, "checkpoint") /\ \A d \in Of(l, "checkpoint") : x \notin Shadow(l)[d]
    BY <2>1 DEF Live
  <2>3. x \notin Shadowed(l)
    BY <2>2 DEF Shadowed, Live
  <2> QED BY <2>1, <2>2, <2>3 DEF Unfolded, Of
<1>2. CASE n \notin Shadowed(l) /\ l[n].kind = "result"
  <2>1. x = Cited(l, n)
    BY <1>2 DEF From
  <2>2. CASE x = n
    BY <1>2, <2>2 DEF Unfolded
  <2>3. CASE x \in Pruned(l, n)
    BY <1>2, <2>3 DEF Pruned, Of, Unfolded
  <2> QED BY <2>1, <2>2, <2>3 DEF Cited
<1>3. CASE n \notin Shadowed(l) /\ l[n].kind # "result"
  <2>1. x = n /\ l[n].kind \in {"user", "block", "assistant"}
    BY <1>3 DEF From
  <2> QED BY <1>3, <2>1 DEF Unfolded
<1> QED BY <1>1, <1>2, <1>3

(* The sources of a log are what its positions add, each once.               *)
LEMMA SourcesAre ==
  ASSUME NEW l, Len(l) \in Nat, DOMAIN l = 1..Len(l)
  PROVE  /\ Sources(l) \in Seq(Nat) /\ Distinct(Sources(l))
         /\ Range(Sources(l)) = UNION {From(l, n) : n \in 1..Len(l)}
<1>1. PICK f : /\ Raw(l) = f[Len(l)] /\ f[0] = <<>>
               /\ \A i \in 1..Len(l) : f[i] = RawStep(l, f[i - 1], i)
  BY RawSteps
<1> DEFINE Good(k) == /\ Turns(f[k]) /\ Distinct(Cites(f[k]))
                      /\ Range(Cites(f[k])) = UNION {From(l, n) : n \in 1..k}
           K == {k \in Nat : k <= Len(l) => Good(k)}
<1>2. 0 \in K
  <2>1. Turns(<<>>)
    BY DEF Turns
  <2>2. Cites(<<>>) = <<>>
    <3>1. [i \in DOMAIN <<>> |-> <<>>[i].cites] = <<>>
      OBVIOUS
    <3> QED BY <3>1 DEF Cites, FlattenSeq
  <2>3. Distinct(<<>>) /\ Range(<<>>) = {}
    BY DEF Distinct, Range
  <2>4. 1..0 = {}
    OBVIOUS
  <2> QED BY <1>1, <2>1, <2>2, <2>3, <2>4
<1>3. ASSUME NEW k \in K PROVE k + 1 \in K
  <2> SUFFICES ASSUME k + 1 <= Len(l) PROVE Good(k + 1)
    OBVIOUS
  <2>1. Good(k)
    OBVIOUS
  <2>2. k \in Nat /\ k + 1 \in 1..Len(l) /\ (k + 1) - 1 = k
    OBVIOUS
  <2> HIDE DEF K
  <2> DEFINE r == f[k]
             m == f[k + 1]
             c == Cites(r)
  <2>3. m = RawStep(l, r, k + 1)
    BY <1>1, <2>2
  <2>4. Turns(m)
    BY <2>1, <2>2, <2>3, RawStepTurns
  <2>5. PICK w \in Seq(Nat) : Cites(m) = c \o w /\ Distinct(w) /\ Range(w) = From(l, k + 1)
    BY <2>1, <2>2, <2>3, StepCites
  <2>6. c \in Seq(Nat) /\ Distinct(c) /\ Range(c) = UNION {From(l, n) : n \in 1..k}
    BY <2>1, CitesType
  <2> HIDE DEF r, m, c
  <2>7. ASSUME NEW x \in Range(c), x \in Range(w) PROVE FALSE
    <3>1. PICK n \in 1..k : x \in From(l, n)
      BY <2>6
    <3>2. n \in 1..Len(l) /\ n # k + 1 /\ x \in From(l, k + 1)
      BY <2>2, <2>5, <2>7
    <3> QED BY <2>2, <3>1, <3>2, FromOnce
  <2>8. Distinct(c \o w) /\ Range(c \o w) = Range(c) \cup Range(w)
    BY <2>5, <2>6, <2>7, DistinctConcat
  <2>9. UNION {From(l, n) : n \in 1..(k + 1)} = (UNION {From(l, n) : n \in 1..k}) \cup From(l, k + 1)
    <3>1. 1..(k + 1) = 1..k \cup {k + 1}
      BY <2>2
    <3> QED BY <3>1
  <2> QED BY <2>4, <2>5, <2>6, <2>8, <2>9 DEF m
<1> HIDE DEF K
<1>4. K = Nat
  BY <1>2, <1>3, Sel!InductionOnSet DEF K
<1>5. Good(Len(l))
  BY <1>4 DEF K
<1>6. Sources(l) = Cites(f[Len(l)])
  BY <1>1 DEF Sources
<1>7. Cites(f[Len(l)]) \in Seq(Nat)
  BY <1>5, CitesType
<1> QED BY <1>5, <1>6, <1>7
(* A live checkpoint that folds something is a source.                       *)
LEMMA LiveSource ==
  ASSUME NEW l, Backward(l), NEW c \in Live(l), Shadow(l)[c] # {}
  PROVE  c \in Range(Sources(l))
<1>1. Len(l) \in Nat /\ DOMAIN l = 1..Len(l) /\ c \in 1..Len(l)
  BY DEF Backward, Live, Of
<1> DEFINE S == Shadow(l)[c]
<1>2. S \subseteq 1..(c - 1)
  BY <1>1, ShadowBack
<1>3. S \subseteq Nat /\ S # {}
  BY <1>1, <1>2
<1>4. PICK n \in S : \A q \in S : n <= q
  <2> HIDE DEF S
  <2> QED BY <1>3, Sel!LeastNat
<1>5. n \in 1..Len(l)
  BY <1>1, <1>2
<1>6. n \in Shadowed(l) /\ c \in Anchored(l, n)
  BY <1>4 DEF Shadowed, Anchored
<1>7. c \in From(l, n)
  BY <1>6 DEF From
<1>8. Range(Sources(l)) = UNION {From(l, p) : p \in 1..Len(l)}
  BY <1>1, SourcesAre
<1> QED BY <1>5, <1>7, <1>8

(* Every source may be folded.                                               *)
LEMMA SourcesUnfolded ==
  ASSUME NEW l, Len(l) \in Nat, DOMAIN l = 1..Len(l)
  PROVE  Range(Sources(l)) \subseteq Unfolded(l)
<1>1. Range(Sources(l)) = UNION {From(l, p) : p \in 1..Len(l)}
  BY SourcesAre
<1> QED BY <1>1, FromUnfolded

(* A log's folds are each of something, and of what no other folds: so each  *)
(* live checkpoint is shown once, and nothing it folded is.                  *)
LEMMA ShownOnce ==
  ASSUME SpansInv, FoldedInv
  PROVE  FoldedOnce
<1> DEFINE l == log
           s == Sources(log)
<1>1. Backward(log) /\ Len(log) \in Nat /\ DOMAIN log = 1..Len(log)
  <2>1. log \in Seq(Range(log))
    BY DEF SpansInv
  <2>2. Len(log) \in Nat /\ DOMAIN log = 1..Len(log)
    BY <2>1
  <2> QED BY <2>1, <2>2 DEF FoldedInv, FoldedLog, Backward
<1>2. s \in Seq(Nat) /\ Distinct(s) /\ Range(s) \subseteq Unfolded(log)
  BY <1>1, SourcesAre, SourcesUnfolded
<1> HIDE DEF s
<1>3. Len(s) \in Nat /\ DOMAIN s = 1..Len(s)
  BY <1>2
<1>4. ASSUME NEW c \in Live(log)
      PROVE  \E i \in DOMAIN s :
                /\ s[i] = c
                /\ \A j \in DOMAIN s : j = i \/ s[j] \notin {c} \cup Shadow(log)[c]
  <2>1. c \in Of(log, "checkpoint") /\ c \in 1..Len(log) /\ log[c].replaces # {}
    BY <1>1, <1>4 DEF Live, Of, FoldedInv, FoldedLog
  <2>2. Folds(log, c) = log[c].replaces
    BY <2>1 DEF Folds, Of
  <2>3. Shadow(log)[c] # {}
    BY <1>1, <2>1, <2>2, ShadowStep
  <2>4. PICK i \in DOMAIN s : s[i] = c
    <3>1. c \in Range(s)
      BY <1>1, <1>4, <2>3, LiveSource DEF s
    <3> QED BY <3>1 DEF Range
  <2>5. ASSUME NEW j \in DOMAIN s, j # i PROVE s[j] \notin {c} \cup Shadow(log)[c]
    <3>1. s[j] # c
      BY <1>2, <1>3, <2>4, <2>5 DEF Distinct
    <3>2. s[j] \in Unfolded(log)
      BY <1>2 DEF Range
    <3>3. s[j] \notin Shadow(log)[c]
      BY <1>4, <3>2 DEF Unfolded, Shadowed
    <3> QED BY <3>1, <3>3
  <2> QED BY <2>4, <2>5
<1>5. \A c, d \in Live(log) : c = d \/ Shadow(log)[c] \cap Shadow(log)[d] = {}
  BY DEF FoldedInv, FoldedLog
<1> QED BY <1>4, <1>5 DEF FoldedOnce, s
-----------------------------------------------------------------------------
(* The sources by number.                                                    *)

IsCounted(f, t, n) == f = [i \in 0..n |-> IF i = 0 THEN 0 ELSE f[i - 1] + SourceCount(t[i])]

(* The recursive definition of Counted has a solution, for every length.     *)
LEMMA CountedExists ==
  ASSUME NEW t, NEW n \in Nat
  PROVE  \E f : IsCounted(f, t, n)
<1> DEFINE T == {k \in Nat : \E f : IsCounted(f, t, k)}
<1>1. 0 \in T
  <2> DEFINE f == [i \in 0..0 |-> 0]
  <2>1. f = [i \in 0..0 |-> IF i = 0 THEN 0 ELSE f[i - 1] + SourceCount(t[i])]
    OBVIOUS
  <2> QED BY <2>1 DEF IsCounted
<1>2. ASSUME NEW k \in T PROVE k + 1 \in T
  <2>1. PICK f : IsCounted(f, t, k)
    OBVIOUS
  <2> DEFINE h == [i \in 0..(k + 1) |-> IF i <= k THEN f[i] ELSE f[i - 1] + SourceCount(t[i])]
  <2>2. ASSUME NEW i \in 0..(k + 1)
        PROVE  h[i] = IF i = 0 THEN 0 ELSE h[i - 1] + SourceCount(t[i])
    <3>1. CASE i <= k
      <4>1. h[i] = f[i] /\ i \in 0..k /\ (i # 0 => h[i - 1] = f[i - 1])
        BY <3>1
      <4> HIDE DEF h
      <4>2. f[i] = IF i = 0 THEN 0 ELSE f[i - 1] + SourceCount(t[i])
        BY <2>1, <4>1 DEF IsCounted
      <4> QED BY <4>1, <4>2
    <3>2. CASE i = k + 1
      <4>1. h[i - 1] = f[i - 1] /\ i # 0
        BY <3>2
      <4>2. h[i] = f[i - 1] + SourceCount(t[i])
        BY <3>2
      <4> HIDE DEF h
      <4> QED BY <4>1, <4>2
    <3> QED BY <3>1, <3>2
  <2>3. h = [i \in 0..(k + 1) |-> h[i]]
    OBVIOUS
  <2> HIDE DEF h
  <2>4. IsCounted(h, t, k + 1)
    BY <2>2, <2>3 DEF IsCounted
  <2> QED BY <2>4
<1> HIDE DEF T
<1>3. T = Nat
  BY <1>1, <1>2, Sel!InductionOnSet DEF T
<1> QED BY <1>3 DEF T

(* What Counted is, turn by turn.                                            *)
LEMMA CountedSteps ==
  ASSUME NEW t, Len(t) \in Nat
  PROVE  /\ Counted(t, 0) = 0
         /\ \A i \in 1..Len(t) : Counted(t, i) = Counted(t, i - 1) + SourceCount(t[i])
<1> DEFINE f == CHOOSE g : IsCounted(g, t, Len(t))
<1>1. \A k : Counted(t, k) = f[k]
  BY DEF Counted, IsCounted
<1>2. IsCounted(f, t, Len(t))
  BY CountedExists
<1> HIDE DEF f
<1>3. \A i \in 0..Len(t) : f[i] = IF i = 0 THEN 0 ELSE f[i - 1] + SourceCount(t[i])
  BY <1>2 DEF IsCounted
<1>4. f[0] = 0
  BY <1>3
<1>5. \A i \in 1..Len(t) : f[i] = f[i - 1] + SourceCount(t[i])
  BY <1>3
<1> QED BY <1>1, <1>4, <1>5

(* A turn has as many sources as it cites, at most.                          *)
LEMMA SourceBound ==
  ASSUME NEW t, IsTurn(t)
  PROVE  SourceCount(t) \in Nat /\ SourceCount(t) <= Len(t.cites) /\ Len(t.cites) \in Nat
<1>1. Len(t.cites) \in Nat
  BY DEF IsTurn
<1>2. CASE t.kind = "results"
  <2>1. IsFiniteSet(t.calls) /\ Cardinality(t.calls) <= Len(t.cites)
    BY <1>2 DEF IsTurn
  <2>2. SourceCount(t) = Cardinality(t.calls)
    BY <1>2 DEF SourceCount
  <2> QED BY <1>1, <2>1, <2>2, FS_CardinalityType
<1>3. CASE t.kind # "results"
  <2>1. Len(t.cites) = 1
    BY <1>3 DEF IsTurn
  <2>2. SourceCount(t) = 1
    BY <1>3 DEF SourceCount
  <2> QED BY <2>1, <2>2
<1> QED BY <1>2, <1>3

(* It is a number.                                                           *)
LEMMA CountedNat ==
  ASSUME NEW t, Turns(t)
  PROVE  \A k \in 0..Len(t) : Counted(t, k) \in Nat
<1>0. Len(t) \in Nat /\ DOMAIN t = 1..Len(t)
  BY DEF Turns
<1>1. \A i \in 1..Len(t) : SourceCount(t[i]) \in Nat
  BY <1>0, SourceBound DEF Turns
<1> DEFINE K == {k \in Nat : k <= Len(t) => Counted(t, k) \in Nat}
<1>2. 0 \in K
  BY <1>0, CountedSteps
<1>3. ASSUME NEW k \in K PROVE k + 1 \in K
  <2>1. ASSUME k + 1 <= Len(t) PROVE Counted(t, k + 1) \in Nat
    <3>1. k + 1 \in 1..Len(t) /\ (k + 1) - 1 = k /\ Counted(t, k) \in Nat
      BY <1>0, <2>1
    <3>2. Counted(t, k + 1) = Counted(t, k) + SourceCount(t[k + 1])
      BY <1>0, <3>1, CountedSteps
    <3> QED BY <1>1, <3>1, <3>2
  <2> QED BY <2>1
<1> HIDE DEF K
<1>4. K = Nat
  BY <1>2, <1>3, Sel!InductionOnSet DEF K
<1> QED BY <1>0, <1>4 DEF K

(* It counts up where every turn has a source.                               *)
LEMMA CountedUp ==
  ASSUME NEW t, Turns(t), \A i \in 1..Len(t) : SourceCount(t[i]) # 0
  PROVE  \A k \in 0..Len(t), j \in 0..Len(t) : j < k => Counted(t, j) < Counted(t, k)
<1>0. Len(t) \in Nat /\ DOMAIN t = 1..Len(t)
  BY DEF Turns
<1>1. \A i \in 1..Len(t) : SourceCount(t[i]) \in Nat \ {0}
  BY <1>0, SourceBound DEF Turns
<1> DEFINE c(k) == Counted(t, k)
           K == {k \in Nat : k <= Len(t) => \A j \in 0..Len(t) : j < k => c(j) < c(k)}
<1>2. \A i \in 1..Len(t) : c(i) = c(i - 1) + SourceCount(t[i])
  BY <1>0, CountedSteps
<1>3. \A k \in 0..Len(t) : c(k) \in Nat
  BY CountedNat
<1> HIDE DEF c
<1>4. 0 \in K
  OBVIOUS
<1>5. ASSUME NEW k \in K PROVE k + 1 \in K
  <2>1. ASSUME k + 1 <= Len(t), NEW j \in 0..Len(t), j < k + 1
        PROVE  c(j) < c(k + 1)
    <3>1. /\ k + 1 \in 1..Len(t) /\ (k + 1) - 1 = k /\ k \in 0..Len(t) /\ k + 1 \in 0..Len(t)
          /\ j = k \/ j < k
      BY <1>0, <2>1
    <3>2. c(k + 1) = c(k) + SourceCount(t[k + 1]) /\ SourceCount(t[k + 1]) \in Nat \ {0}
      BY <1>1, <1>2, <3>1
    <3>3. c(k) \in Nat /\ c(j) \in Nat /\ c(k + 1) \in Nat
      BY <1>3, <2>1, <3>1
    <3>4. j < k => c(j) < c(k)
      BY <1>0, <2>1, <3>1
    <3> HIDE DEF K
    <3>5. c(k) < c(k + 1)
      BY <3>2, <3>3
    <3> QED BY <3>1, <3>3, <3>4, <3>5
  <2> QED BY <2>1
<1> HIDE DEF K
<1>6. K = Nat
  BY <1>4, <1>5, Sel!InductionOnSet DEF K
<1>7. \A k \in 0..Len(t) : k \in K
  BY <1>0, <1>6
<1> QED BY <1>7 DEF K, c

(* One more turn.                                                            *)
LEMMA CountedMore ==
  ASSUME NEW s, NEW t, Turns(s), IsTurn(t)
  PROVE  Counted(s \o <<t>>, Len(s) + 1) = Counted(s, Len(s)) + SourceCount(t)
<1> DEFINE m == s \o <<t>>
           K == {k \in Nat : k <= Len(s) => Counted(m, k) = Counted(s, k)}
<1>1. Grown(s, m, t)
  BY OneMore DEF Turns
<1> HIDE DEF m
<1>2. Len(s) \in Nat /\ Len(m) = Len(s) + 1 /\ m[Len(s) + 1] = t /\ \A i \in 1..Len(s) : m[i] = s[i]
  BY <1>1 DEF Grown
<1>3. 0 \in K
  BY <1>2, CountedSteps
<1>4. ASSUME NEW k \in K PROVE k + 1 \in K
  <2>1. ASSUME k + 1 <= Len(s) PROVE Counted(m, k + 1) = Counted(s, k + 1)
    <3>1. /\ k + 1 \in 1..Len(s) /\ k + 1 \in 1..Len(m) /\ (k + 1) - 1 = k
          /\ Counted(m, k) = Counted(s, k)
      BY <1>2, <2>1
    <3>2. Counted(m, k + 1) = Counted(m, k) + SourceCount(m[k + 1])
      BY <1>2, <3>1, CountedSteps
    <3>3. Counted(s, k + 1) = Counted(s, k) + SourceCount(s[k + 1])
      BY <1>2, <3>1, CountedSteps
    <3> QED BY <1>2, <3>1, <3>2, <3>3
  <2> QED BY <2>1
<1> HIDE DEF K
<1>5. K = Nat
  BY <1>3, <1>4, Sel!InductionOnSet DEF K
<1>6. Counted(m, Len(s)) = Counted(s, Len(s))
  BY <1>2, <1>5 DEF K
<1>7. Len(s) + 1 \in 1..Len(m) /\ (Len(s) + 1) - 1 = Len(s)
  BY <1>2
<1>8. Counted(m, Len(s) + 1) = Counted(m, Len(s)) + SourceCount(m[Len(s) + 1])
  BY <1>2, <1>7, CountedSteps
<1> QED BY <1>2, <1>6, <1>8 DEF m

(* A repaired turn has a source, and cites what it did.                      *)
LEMMA RepairOne ==
  ASSUME NEW T, Turns(T), NEW i \in 1..Len(T)
  PROVE  \/ Repair(T, i) = <<>>
         \/ \E u : /\ Repair(T, i) = <<u>> /\ IsTurn(u)
                   /\ SourceCount(u) # 0 /\ u.cites = T[i].cites
<1> DEFINE t == T[i]
           other == IF t.kind = "assistant" THEN i + 1 ELSE i - 1
           paired == IF /\ other \in DOMAIN T
                        /\ {t.kind, T[other].kind} = {"assistant", "results"}
                     THEN t.calls \cap T[other].calls ELSE {}
           v == [t EXCEPT !.calls = paired]
<1>1. IsTurn(t)
  BY DEF Turns
<1>2. Repair(T, i) = IF t.kind = "user" \/ (t.kind = "assistant" /\ t.calls = {}) THEN <<t>>
                     ELSE IF paired # {} \/ (t.kind = "assistant" /\ t.text) THEN <<v>>
                     ELSE <<>>
  BY DEF Repair
<1>3. /\ v = [x \in {"kind", "text", "calls", "cites"} |-> v[x]]
      /\ v.kind = t.kind /\ v.calls = paired /\ v.cites = t.cites
  BY <1>1 DEF IsTurn
<1>4. paired \subseteq t.calls
  OBVIOUS
<1> HIDE DEF paired, v, t
<1>5. CASE t.kind # "results"
  <2>1. IsTurn(t) /\ SourceCount(t) # 0
    BY <1>1, <1>5 DEF SourceCount
  <2>2. IsTurn(v) /\ SourceCount(v) # 0
    BY <1>1, <1>3, <1>5 DEF IsTurn, SourceCount
  <2>3. Repair(T, i) \in {<<>>, <<t>>, <<v>>}
    BY <1>2
  <2> QED BY <1>3, <2>1, <2>2, <2>3 DEF t
<1>6. CASE t.kind = "results"
  <2>1. Repair(T, i) = IF paired # {} THEN <<v>> ELSE <<>>
    BY <1>2, <1>6
  <2>2. CASE paired = {}
    BY <2>1, <2>2
  <2>3. CASE paired # {}
    <3>1. IsFiniteSet(t.calls) /\ Cardinality(t.calls) <= Len(t.cites) /\ Len(t.cites) \in Nat
      BY <1>1, <1>6 DEF IsTurn
    <3>2. /\ IsFiniteSet(paired) /\ Cardinality(paired) <= Cardinality(t.calls)
          /\ Cardinality(t.calls) \in Nat /\ Cardinality(paired) \in Nat \ {0}
      BY <1>4, <2>3, <3>1, FS_Subset, FS_CardinalityType, FS_EmptySet
    <3>3. Cardinality(paired) <= Len(t.cites)
      BY <3>1, <3>2
    <3>4. IsTurn(v) /\ SourceCount(v) # 0
      <4>1. v.kind = "results" /\ v.calls = paired /\ v.cites = t.cites /\ t.cites \in Seq(Nat)
        BY <1>1, <1>3, <1>6 DEF IsTurn
      <4>2. IsFiniteSet(v.calls) /\ Cardinality(v.calls) <= Len(v.cites) /\ Cardinality(v.calls) # 0
        BY <3>2, <3>3, <4>1
      <4> QED BY <1>3, <4>1, <4>2 DEF IsTurn, SourceCount
    <3> QED BY <1>3, <2>1, <2>3, <3>4 DEF t
  <2> QED BY <2>2, <2>3
<1> QED BY <1>5, <1>6
(* Repaired turns have as many sources as the turns cited, at most.          *)
LEMMA RepairedBound ==
  ASSUME NEW T, Turns(T)
  PROVE  /\ Turns(Repaired(T)) /\ \A i \in 1..Len(Repaired(T)) : SourceCount(Repaired(T)[i]) # 0
         /\ Counted(Repaired(T), Len(Repaired(T))) <= Len(Cites(T))
<1> DEFINE Fits(r, c) == /\ Turns(r) /\ \A i \in 1..Len(r) : SourceCount(r[i]) # 0
                         /\ c \in Seq(Nat) /\ Counted(r, Len(r)) <= Len(c)
           s == [i \in DOMAIN T |-> Repair(T, i)]
           z == [i \in DOMAIN T |-> T[i].cites]
<1>0. Len(T) \in Nat /\ DOMAIN T = 1..Len(T)
  BY DEF Turns
<1>1. /\ Len(s) = Len(T) /\ \A i \in 1..Len(T) : s[i] = Repair(T, i)
      /\ Len(z) = Len(T) /\ \A i \in 1..Len(T) : z[i] = T[i].cites
  BY <1>0
<1>2. Repaired(T) = FlattenSeq(s) /\ Cites(T) = FlattenSeq(z)
  BY DEF Repaired, Cites
<1> HIDE DEF s, z
<1>3. Fits(<<>>, <<>>)
  <2>1. Turns(<<>>) /\ Len(<<>>) = 0 /\ <<>> \in Seq(Nat)
    BY DEF Turns
  <2> DEFINE e == <<>>
  <2>2. Counted(e, 0) = 0
    BY <2>1, CountedSteps
  <2> HIDE DEF e
  <2>3. Fits(e, e)
    BY <2>1, <2>2 DEF e
  <2> QED BY <2>3 DEF e
<1>4. ASSUME NEW r, NEW c, Fits(r, c), NEW i \in 1..Len(T)
      PROVE  Fits(r \o s[i], c \o z[i])
  <2>1. IsTurn(T[i]) /\ z[i] \in Seq(Nat) /\ z[i] = T[i].cites
    BY <1>0, <1>1 DEF Turns, IsTurn
  <2>2. c \o z[i] \in Seq(Nat) /\ Len(c \o z[i]) = Len(c) + Len(z[i]) /\ Len(c) \in Nat /\ Len(z[i]) \in Nat
    <3> DEFINE w == z[i]
    <3>1. w \in Seq(Nat) /\ c \in Seq(Nat)
      BY <1>4, <2>1
    <3> HIDE DEF w
    <3>2. c \o w \in Seq(Nat) /\ Len(c \o w) = Len(c) + Len(w) /\ Len(c) \in Nat /\ Len(w) \in Nat
      BY <3>1, ConcatProperties
    <3> QED BY <3>2 DEF w
  <2>3. Len(r) \in Nat /\ Counted(r, Len(r)) \in Nat
    <3>1. Len(r) \in Nat
      BY <1>4 DEF Turns
    <3> QED BY <1>4, <3>1, CountedNat
  <2>4. CASE s[i] = <<>>
    <3>1. r \o s[i] = r
      BY <1>4, <2>4 DEF Turns
    <3>2. Counted(r, Len(r)) <= Len(c \o z[i])
      BY <1>4, <2>2, <2>3
    <3> QED BY <1>4, <2>2, <3>1, <3>2
  <2>5. ASSUME NEW u, s[i] = <<u>>, IsTurn(u), SourceCount(u) # 0, u.cites = T[i].cites
        PROVE  Fits(r \o s[i], c \o z[i])
    <3> DEFINE m == r \o <<u>>
    <3>1. Turns(m)
      BY <1>4, <2>5, TurnsConcat, TurnsSingle
    <3>2. Grown(r, m, u)
      BY <1>4, OneMore DEF Turns
    <3>3. Counted(m, Len(r) + 1) = Counted(r, Len(r)) + SourceCount(u)
      BY <1>4, <2>5, CountedMore
    <3>4. SourceCount(u) \in Nat /\ SourceCount(u) <= Len(z[i])
      BY <2>1, <2>5, SourceBound
    <3> HIDE DEF m
    <3>5. Len(m) = Len(r) + 1 /\ m[Len(r) + 1] = u /\ \A j \in 1..Len(r) : m[j] = r[j]
      BY <3>2 DEF Grown
    <3>6. Counted(m, Len(m)) <= Len(c \o z[i])
      BY <1>4, <2>2, <2>3, <3>3, <3>4, <3>5
    <3>7. \A j \in 1..Len(m) : SourceCount(m[j]) # 0
      <4> TAKE j \in 1..Len(m)
      <4>1. CASE j \in 1..Len(r)
        BY <1>4, <3>5, <4>1
      <4>2. CASE j = Len(r) + 1
        BY <2>5, <3>5, <4>2
      <4> QED BY <2>3, <3>5, <4>1, <4>2
    <3>8. r \o s[i] = m
      BY <2>5 DEF m
    <3> QED BY <2>2, <3>1, <3>6, <3>7, <3>8
  <2>6. s[i] = Repair(T, i)
    BY <1>1
  <2> HIDE DEF Fits
  <2> QED BY <2>4, <2>5, <2>6, RepairOne
<1>5. CASE Len(T) = 0
  <2>1. FlattenSeq(s) = <<>> /\ FlattenSeq(z) = <<>>
    <3>1. s = <<>> /\ z = <<>>
      BY <1>0, <1>5 DEF s, z
    <3> QED BY <3>1 DEF FlattenSeq
  <2> QED BY <1>2, <1>3, <2>1
<1>6. CASE Len(T) # 0
  <2>0. Len(T) \in Nat \ {0} /\ Len(s) = Len(T) /\ Len(z) = Len(T)
    BY <1>0, <1>1, <1>6
  <2>1. PICK f : /\ FlattenSeq(s) = f[Len(T)] /\ f[1] = s[1]
                 /\ \A i \in 1..(Len(T) - 1) : f[i + 1] = f[i] \o s[i + 1]
    <3>1. Len(s) \in Nat \ {0}
      BY <2>0
    <3>2. \E f : /\ FlattenSeq(s) = f[Len(s)] /\ f[1] = s[1]
                 /\ \A i \in 1..(Len(s) - 1) : f[i + 1] = f[i] \o s[i + 1]
      BY <3>1, Flattened
    <3>3. Len(s) = Len(T)
      BY <2>0
    <3> QED BY <3>2, <3>3
  <2>2. PICK g : /\ FlattenSeq(z) = g[Len(T)] /\ g[1] = z[1]
                 /\ \A i \in 1..(Len(T) - 1) : g[i + 1] = g[i] \o z[i + 1]
    <3>1. Len(z) \in Nat \ {0}
      BY <2>0
    <3>2. \E g : /\ FlattenSeq(z) = g[Len(z)] /\ g[1] = z[1]
                 /\ \A i \in 1..(Len(z) - 1) : g[i + 1] = g[i] \o z[i + 1]
      BY <3>1, Flattened
    <3>3. Len(z) = Len(T)
      BY <2>0
    <3> QED BY <3>2, <3>3
  <2> DEFINE K == {k \in Nat : k + 1 <= Len(T) => Fits(f[k + 1], g[k + 1])}
  <2>3. 0 \in K
    <3>1. 1 \in 1..Len(T)
      BY <1>0, <1>6
    <3>2. Fits(<<>> \o s[1], <<>> \o z[1])
      BY <1>3, <1>4, <3>1
    <3>3. <<>> \o s[1] = s[1] /\ <<>> \o z[1] = z[1]
      <4>1. s[1] = <<>> \/ \E u : s[1] = <<u>>
        BY <1>1, <3>1, RepairOne
      <4>2. s[1] \in Seq(Range(s[1]))
        <5>1. CASE s[1] = <<>>
          BY <5>1
        <5>2. ASSUME NEW u, s[1] = <<u>> PROVE s[1] \in Seq(Range(s[1]))
          BY <5>2, Single
        <5> QED BY <4>1, <5>1, <5>2
      <4>3. z[1] \in Seq(Nat)
        BY <1>0, <1>1, <3>1 DEF Turns, IsTurn
      <4> QED BY <4>2, <4>3
    <3>4. Fits(f[1], g[1])
      BY <2>1, <2>2, <3>2, <3>3
    <3> HIDE DEF Fits
    <3> QED BY <3>4
  <2>4. ASSUME NEW k \in K PROVE k + 1 \in K
    <3>1. ASSUME k + 2 <= Len(T) PROVE Fits(f[k + 2], g[k + 2])
      <4>1. /\ k + 1 \in 1..(Len(T) - 1) /\ (k + 1) + 1 = k + 2 /\ k + 2 \in 1..Len(T)
            /\ k + 1 <= Len(T)
        BY <1>0, <3>1
      <4> HIDE DEF Fits
      <4>2. Fits(f[k + 1], g[k + 1])
        BY <4>1
      <4>3. f[k + 2] = f[k + 1] \o s[k + 2] /\ g[k + 2] = g[k + 1] \o z[k + 2]
        BY <2>1, <2>2, <4>1
      <4> QED BY <1>4, <4>1, <4>2, <4>3
    <3> HIDE DEF Fits
    <3> QED BY <3>1
  <2> HIDE DEF K
  <2>5. K = Nat
    BY <2>3, <2>4, Sel!InductionOnSet DEF K
  <2>6. Len(T) - 1 \in K /\ (Len(T) - 1) + 1 = Len(T)
    BY <1>0, <1>6, <2>5
  <2>7. Fits(f[Len(T)], g[Len(T)])
    BY <1>0, <2>6 DEF K
  <2> QED BY <1>2, <2>1, <2>2, <2>7
<1> QED BY <1>5, <1>6

(* The sources that turns of the context count for are sources of the log.   *)
LEMMA CountedSources ==
  ASSUME NEW l, Len(l) \in Nat, DOMAIN l = 1..Len(l)
  PROVE  /\ Turns(Context(l)) /\ Len(Context(l)) \in Nat
         /\ \A k \in 0..Len(Context(l)) :
               Counted(Context(l), k) \in 0..Len(Sources(l))
         /\ \A k \in 0..Len(Context(l)), j \in 0..Len(Context(l)) :
               j < k => Counted(Context(l), j) < Counted(Context(l), k)
<1> DEFINE T == Raw(l)
           t == Repaired(T)
           b == Len(Cites(T))
<1>1. Turns(T)
  BY RawTurns
<1>2. Cites(T) \in Seq(Nat)
  BY <1>1, CitesType
<1>3. b \in Nat
  BY <1>2
<1> HIDE DEF T
<1>4. Turns(t) /\ (\A i \in 1..Len(t) : SourceCount(t[i]) # 0) /\ Counted(t, Len(t)) <= b
  BY <1>1, RepairedBound
<1> HIDE DEF t, b
<1>5. Len(t) \in Nat
  BY <1>4 DEF Turns
<1>6. \A k \in 0..Len(t) : Counted(t, k) \in Nat
  BY <1>4, CountedNat
<1>7. \A k \in 0..Len(t), j \in 0..Len(t) : j < k => Counted(t, j) < Counted(t, k)
  BY <1>4, CountedUp
<1>8. ASSUME NEW k \in 0..Len(t) PROVE Counted(t, k) \in 0..b
  <2>1. Len(t) \in 0..Len(t) /\ (k = Len(t) \/ k < Len(t))
    BY <1>5
  <2>2. Counted(t, k) <= Counted(t, Len(t)) /\ Counted(t, k) \in Nat /\ Counted(t, Len(t)) \in Nat
    BY <1>6, <1>7, <2>1
  <2> QED BY <1>3, <1>4, <2>2
<1>9. Context(l) = t /\ Len(Sources(l)) = b
  BY DEF Context, Sources, T, t, b
<1> QED BY <1>4, <1>5, <1>7, <1>8, <1>9

(* What a reduction folds is something, and may be folded.                   *)
LEMMA FoldedSources ==
  ASSUME NEW l, Len(l) \in Nat, DOMAIN l = 1..Len(l),
         NEW start \in 0..Len(Context(l)), NEW cut \in 0..Len(Context(l))
  PROVE  LET R == Range(SubSeq(Sources(l), Counted(Context(l), start) + 1, Counted(Context(l), cut)))
         IN  R \subseteq Unfolded(l) /\ (start < cut => R # {})
<1> DEFINE s == Sources(l)
           a == Counted(Context(l), start)
           n == Counted(Context(l), cut)
           r == SubSeq(s, a + 1, n)
<1>1. s \in Seq(Nat) /\ Range(s) \subseteq Unfolded(l)
  BY SourcesAre, SourcesUnfolded
<1>2. a \in 0..Len(s) /\ n \in 0..Len(s) /\ (start < cut => a < n)
  BY CountedSources
<1> HIDE DEF a, n, s
<1>3. Len(s) \in Nat /\ DOMAIN s = 1..Len(s)
  BY <1>1
<1>4. DOMAIN r = 1..(n - a) /\ \A i \in 1..(n - a) : r[i] = s[i + a]
  <2>1. a + 1 \in Int /\ n \in Int /\ \A i \in (a + 1)..n : s[i] \in Nat
    BY <1>1, <1>2, <1>3
  <2>2. /\ r \in Seq(Nat) /\ Len(r) = IF a + 1 <= n THEN n - (a + 1) + 1 ELSE 0
        /\ \A i \in 1..(n - (a + 1) + 1) : r[i] = s[(a + 1) + i - 1]
    BY <2>1, SubSeqProperties
  <2> HIDE DEF r
  <2>3. n - (a + 1) + 1 = n - a /\ \A i \in 1..(n - a) : (a + 1) + i - 1 = i + a
    BY <1>2, <1>3
  <2>4. DOMAIN r = 1..Len(r) /\ 1..Len(r) = 1..(n - a)
    BY <1>2, <1>3, <2>2
  <2> QED BY <2>2, <2>3, <2>4
<1> HIDE DEF r
<1>5. \A i \in 1..(n - a) : i + a \in DOMAIN s
  BY <1>2, <1>3
<1>6. Range(r) \subseteq Unfolded(l)
  BY <1>1, <1>4, <1>5 DEF Range
<1>7. start < cut => Range(r) # {}
  <2>1. start < cut => 1 \in 1..(n - a)
    BY <1>2, <1>3
  <2> QED BY <1>4, <2>1 DEF Range
<1> QED BY <1>6, <1>7 DEF r, a, n, s
-----------------------------------------------------------------------------
(* A log that grows.                                                         *)

(* What was folded stays as it was folded.                                   *)
LEMMA GrownShadow ==
  ASSUME NEW l, NEW m, NEW e, Grown(l, m, e), FoldedLog(l),
         Folds(m, Len(l) + 1) \subseteq 1..Len(l)
  PROVE  /\ Backward(l) /\ Backward(m) /\ Len(l) \in Nat /\ Len(m) = Len(l) + 1
         /\ DOMAIN l = 1..Len(l) /\ DOMAIN m = 1..(Len(l) + 1) /\ m[Len(l) + 1] = e
         /\ \A p \in 1..Len(l) : m[p] = l[p] /\ Folds(m, p) = Folds(l, p)
         /\ \A p \in 1..Len(l) : Shadow(m)[p] = Shadow(l)[p] /\ Shadow(l)[p] \subseteq 1..(p - 1)
<1>1. /\ l \in Seq(Range(l)) /\ m \in Seq(Range(m)) /\ Len(l) \in Nat /\ Len(m) = Len(l) + 1
      /\ DOMAIN l = 1..Len(l) /\ DOMAIN m = 1..Len(m) /\ m[Len(l) + 1] = e
      /\ \A p \in 1..Len(l) : m[p] = l[p]
  BY DEF Grown
<1>2. \A p \in 1..Len(l) : Folds(m, p) = Folds(l, p)
  <2> TAKE p \in 1..Len(l)
  <2>1. m[p] = l[p]
    BY <1>1
  <2> QED BY <2>1 DEF Folds
<1>3. Backward(l)
  BY <1>1 DEF Backward, FoldedLog
<1>4. Backward(m)
  <2>1. ASSUME NEW p \in 1..Len(m) PROVE Folds(m, p) \subseteq 1..(p - 1)
    <3>1. CASE p \in 1..Len(l)
      BY <1>2, <1>3, <3>1 DEF Backward
    <3>2. CASE p = Len(l) + 1
      <4>1. p - 1 = Len(l)
        BY <1>1, <3>2
      <4> QED BY <3>2, <4>1
    <3> QED BY <1>1, <3>1, <3>2
  <2> QED BY <1>1, <2>1 DEF Backward
<1>5. \A p \in 1..Len(l) : Shadow(m)[p] = Shadow(l)[p]
  BY <1>1, <1>3, <1>4, ShadowPrefix
<1>6. \A p \in 1..Len(l) : Shadow(l)[p] \subseteq 1..(p - 1)
  BY <1>3, ShadowBack
<1> QED BY <1>1, <1>2, <1>3, <1>4, <1>5, <1>6

(* The folds and the results of a log that grows.                            *)
LEMMA GrownFolds ==
  ASSUME NEW l, NEW m, NEW e, Grown(l, m, e)
  PROVE  /\ Of(l, "checkpoint") \subseteq 1..Len(l) /\ Of(l, "prune") \subseteq 1..Len(l)
         /\ e.kind = "checkpoint" => Of(m, "checkpoint") = Of(l, "checkpoint") \cup {Len(l) + 1}
         /\ e.kind # "checkpoint" => Of(m, "checkpoint") = Of(l, "checkpoint")
         /\ e.kind = "prune" => Of(m, "prune") = Of(l, "prune") \cup {Len(l) + 1}
         /\ e.kind # "prune" => Of(m, "prune") = Of(l, "prune")
         /\ e.kind # "result" => Of(m, "result") = Of(l, "result")
         /\ Of(l, "result") \subseteq Of(m, "result")
<1>1. ASSUME NEW kind
      PROVE  /\ Of(l, kind) \subseteq 1..Len(l)
             /\ e.kind = kind => Of(m, kind) = Of(l, kind) \cup {Len(l) + 1}
             /\ e.kind # kind => Of(m, kind) = Of(l, kind)
             /\ Of(l, kind) \subseteq Of(m, kind)
  <2>1. /\ Of(m, kind) = Of(l, kind) \cup (IF e.kind = kind THEN {Len(l) + 1} ELSE {})
        /\ Of(l, kind) \subseteq 1..Len(l)
    BY GrownKinds
  <2> QED BY <2>1
<1> QED BY <1>1

(* What is no checkpoint shadows nothing.                                    *)
LEMMA GrownLive ==
  ASSUME NEW l, NEW m, NEW e, Grown(l, m, e), FoldedLog(l),
         Folds(m, Len(l) + 1) \subseteq 1..Len(l), e.kind # "checkpoint"
  PROVE  /\ Live(m) = Live(l) /\ Live(l) \subseteq 1..Len(l) /\ Shadowed(m) = Shadowed(l)
         /\ Of(m, "checkpoint") = Of(l, "checkpoint")
         /\ Unfolded(l) \subseteq Unfolded(m)
         /\ \A c, d \in Live(m) : c = d \/ Shadow(m)[c] \cap Shadow(m)[d] = {}
<1>1. /\ Len(l) \in Nat /\ DOMAIN l = 1..Len(l) /\ DOMAIN m = 1..(Len(l) + 1)
      /\ \A p \in 1..Len(l) : m[p] = l[p]
      /\ \A p \in 1..Len(l) : Shadow(m)[p] = Shadow(l)[p]
      /\ Of(m, "checkpoint") = Of(l, "checkpoint") /\ Of(l, "checkpoint") \subseteq 1..Len(l)
  <2>1. /\ Len(l) \in Nat /\ DOMAIN l = 1..Len(l) /\ DOMAIN m = 1..(Len(l) + 1)
        /\ \A p \in 1..Len(l) : m[p] = l[p]
        /\ \A p \in 1..Len(l) : Shadow(m)[p] = Shadow(l)[p]
    BY GrownShadow
  <2>2. /\ Of(m, "checkpoint") = Of(l, "checkpoint") /\ Of(l, "checkpoint") \subseteq 1..Len(l)
    BY GrownFolds
  <2> QED BY <2>1, <2>2
<1>2. Live(m) = Live(l) /\ Live(l) \subseteq 1..Len(l)
  BY <1>1 DEF Live
<1>3. Shadowed(m) = Shadowed(l)
  BY <1>1, <1>2 DEF Shadowed
<1>4. Unfolded(l) \subseteq Unfolded(m)
  BY <1>1, <1>2, <1>3 DEF Unfolded
<1>5. ASSUME NEW c \in Live(m), NEW d \in Live(m)
      PROVE  c = d \/ Shadow(m)[c] \cap Shadow(m)[d] = {}
  <2>1. c \in Live(l) /\ d \in Live(l) /\ Shadow(m)[c] = Shadow(l)[c] /\ Shadow(m)[d] = Shadow(l)[d]
    BY <1>1, <1>2
  <2> QED BY <2>1 DEF FoldedLog
<1> QED BY <1>1, <1>2, <1>3, <1>4, <1>5

(* An entry that folds nothing.                                              *)
LEMMA PlainFolded ==
  ASSUME NEW l, NEW m, NEW e, Grown(l, m, e), FoldedLog(l), e.kind \notin {"checkpoint", "prune"}
  PROVE  FoldedLog(m) /\ Unfolded(l) \subseteq Unfolded(m)
<1>1. Folds(m, Len(l) + 1) = {}
  BY DEF Folds, Grown
<1>2. Folds(m, Len(l) + 1) \subseteq 1..Len(l)
  BY <1>1
<1>3. /\ Backward(m) /\ DOMAIN m = 1..(Len(l) + 1) /\ Len(m) = Len(l) + 1
      /\ \A p \in 1..Len(l) : m[p] = l[p]
      /\ Of(m, "prune") = Of(l, "prune") /\ Of(l, "result") \subseteq Of(m, "result")
      /\ Of(l, "prune") \subseteq 1..Len(l) /\ Of(l, "checkpoint") \subseteq 1..Len(l)
  <2>1. /\ Backward(m) /\ DOMAIN m = 1..(Len(l) + 1) /\ Len(m) = Len(l) + 1
        /\ \A p \in 1..Len(l) : m[p] = l[p]
    BY <1>2, GrownShadow
  <2>2. /\ Of(m, "prune") = Of(l, "prune") /\ Of(l, "result") \subseteq Of(m, "result")
        /\ Of(l, "prune") \subseteq 1..Len(l) /\ Of(l, "checkpoint") \subseteq 1..Len(l)
    BY GrownFolds
  <2> QED BY <2>1, <2>2
<1>4. /\ Of(m, "checkpoint") = Of(l, "checkpoint") /\ Unfolded(l) \subseteq Unfolded(m)
      /\ \A c, d \in Live(m) : c = d \/ Shadow(m)[c] \cap Shadow(m)[d] = {}
  BY <1>2, GrownLive
<1>5. \A p \in DOMAIN m : Folds(m, p) \subseteq 1..(p - 1)
  BY <1>3 DEF Backward
<1>6. \A p \in Of(m, "prune") : m[p].of \in Of(m, "result")
  BY <1>3 DEF FoldedLog
<1>7. \A c \in Of(m, "checkpoint") : m[c].replaces # {}
  BY <1>3, <1>4 DEF FoldedLog
<1> QED BY <1>4, <1>5, <1>6, <1>7 DEF FoldedLog

(* A prune of a result.                                                      *)
LEMMA PruneFolded ==
  ASSUME NEW l, NEW m, NEW e, Grown(l, m, e), FoldedLog(l), e.kind = "prune", e.of \in Of(l, "result")
  PROVE  FoldedLog(m)
<1>1. Folds(m, Len(l) + 1) = {e.of}
  BY DEF Folds, Grown
<1>2. Folds(m, Len(l) + 1) \subseteq 1..Len(l)
  BY <1>1, GrownKinds
<1>3. /\ Backward(m) /\ DOMAIN m = 1..(Len(l) + 1) /\ Len(m) = Len(l) + 1
      /\ \A p \in 1..Len(l) : m[p] = l[p]
      /\ m[Len(l) + 1] = e
      /\ Of(m, "prune") = Of(l, "prune") \cup {Len(l) + 1} /\ Of(m, "result") = Of(l, "result")
      /\ Of(l, "prune") \subseteq 1..Len(l) /\ Of(l, "checkpoint") \subseteq 1..Len(l)
  <2>1. /\ Backward(m) /\ DOMAIN m = 1..(Len(l) + 1) /\ Len(m) = Len(l) + 1
        /\ \A p \in 1..Len(l) : m[p] = l[p]
        /\ m[Len(l) + 1] = e
    BY <1>2, GrownShadow
  <2>2. /\ Of(m, "prune") = Of(l, "prune") \cup {Len(l) + 1} /\ Of(m, "result") = Of(l, "result")
        /\ Of(l, "prune") \subseteq 1..Len(l) /\ Of(l, "checkpoint") \subseteq 1..Len(l)
    BY GrownFolds
  <2> QED BY <2>1, <2>2
<1>4. /\ Of(m, "checkpoint") = Of(l, "checkpoint")
      /\ \A c, d \in Live(m) : c = d \/ Shadow(m)[c] \cap Shadow(m)[d] = {}
  BY <1>2, GrownLive
<1>5. \A p \in DOMAIN m : Folds(m, p) \subseteq 1..(p - 1)
  BY <1>3 DEF Backward
<1>6. \A p \in Of(m, "prune") : m[p].of \in Of(m, "result")
  BY <1>3 DEF FoldedLog
<1>7. \A c \in Of(m, "checkpoint") : m[c].replaces # {}
  BY <1>3, <1>4 DEF FoldedLog
<1> QED BY <1>4, <1>5, <1>6, <1>7 DEF FoldedLog

(* A checkpoint of what may be folded.                                       *)
LEMMA CheckpointFolded ==
  ASSUME NEW l, NEW m, NEW e, Grown(l, m, e), FoldedLog(l), e.kind = "checkpoint",
         e.replaces # {}, e.replaces \subseteq Unfolded(l)
  PROVE  FoldedLog(m)
<1> DEFINE n == Len(l) + 1
           R == e.replaces
           S == Shadow(m)[n]
<1>1. Folds(m, n) = R
  BY DEF Folds, Grown
<1>2. R \subseteq 1..Len(l)
  BY DEF Unfolded, Grown
<1>3. /\ Backward(l) /\ Backward(m) /\ DOMAIN m = 1..n /\ DOMAIN l = 1..Len(l)
      /\ Len(m) = n /\ m[n] = e /\ Len(l) \in Nat
      /\ \A p \in 1..Len(l) : m[p] = l[p]
      /\ \A p \in 1..Len(l) : Shadow(m)[p] = Shadow(l)[p] /\ Shadow(l)[p] \subseteq 1..(p - 1)
      /\ Of(m, "checkpoint") = Of(l, "checkpoint") \cup {n}
      /\ Of(m, "prune") = Of(l, "prune") /\ Of(m, "result") = Of(l, "result")
      /\ Of(l, "prune") \subseteq 1..Len(l) /\ Of(l, "checkpoint") \subseteq 1..Len(l)
  <2>1. /\ Backward(l) /\ Backward(m) /\ DOMAIN m = 1..n /\ DOMAIN l = 1..Len(l)
        /\ Len(m) = n /\ m[n] = e /\ Len(l) \in Nat
        /\ \A p \in 1..Len(l) : m[p] = l[p]
        /\ \A p \in 1..Len(l) : Shadow(m)[p] = Shadow(l)[p] /\ Shadow(l)[p] \subseteq 1..(p - 1)
    BY <1>1, <1>2, GrownShadow
  <2>2. /\ Of(m, "checkpoint") = Of(l, "checkpoint") \cup {n}
        /\ Of(m, "prune") = Of(l, "prune") /\ Of(m, "result") = Of(l, "result")
        /\ Of(l, "prune") \subseteq 1..Len(l) /\ Of(l, "checkpoint") \subseteq 1..Len(l)
    BY GrownFolds
  <2> QED BY <2>1, <2>2
<1>4. \A p \in DOMAIN m : Folds(m, p) \subseteq 1..(p - 1)
  BY <1>3 DEF Backward
<1>5. \A p \in Of(m, "prune") : m[p].of \in Of(m, "result")
  BY <1>3 DEF FoldedLog
<1>6. \A c \in Of(m, "checkpoint") : m[c].replaces # {}
  <2> TAKE c \in Of(m, "checkpoint")
  <2>1. CASE c = n
    BY <1>3, <2>1
  <2>2. CASE c \in Of(l, "checkpoint")
    BY <1>3, <2>2 DEF FoldedLog
  <2> QED BY <1>3, <2>1, <2>2
<1>7. S = R \cup UNION {Shadow(l)[q] : q \in R}
  <2>1. n \in 1..Len(m)
    BY <1>3
  <2>2. S = R \cup UNION {Shadow(m)[q] : q \in R}
    BY <1>1, <1>3, <2>1, ShadowStep
  <2>3. {Shadow(m)[q] : q \in R} = {Shadow(l)[q] : q \in R}
    BY <1>2, <1>3
  <2> QED BY <2>2, <2>3
<1> HIDE DEF S
<1>8. ASSUME NEW c \in Live(m), c # n
      PROVE  /\ c \in Live(l) /\ c \notin S /\ Shadow(m)[c] = Shadow(l)[c]
  <2>1. c \in Of(l, "checkpoint") /\ c \in 1..Len(l)
    BY <1>3, <1>8 DEF Live
  <2>2. \A d \in Of(l, "checkpoint") : c \notin Shadow(l)[d]
    <3> TAKE d \in Of(l, "checkpoint")
    <3>1. d \in Of(m, "checkpoint") /\ d \in 1..Len(l) /\ Shadow(m)[d] = Shadow(l)[d]
      BY <1>3
    <3> QED BY <1>8, <3>1 DEF Live
  <2>3. c \notin S
    <3>1. n \in Of(m, "checkpoint")
      BY <1>3
    <3> QED BY <1>8, <3>1 DEF Live, S
  <2> QED BY <1>3, <2>1, <2>2, <2>3 DEF Live
<1>9. ASSUME NEW c \in Live(l), c \notin S, NEW x \in Shadow(l)[c]
      PROVE  x \notin S
  <2> SUFFICES ASSUME x \in S PROVE FALSE
    OBVIOUS
  <2>0. x \in Shadowed(l)
    BY <1>9 DEF Shadowed
  <2>1. CASE x \in R
    BY <2>0, <2>1 DEF Unfolded
  <2>2. ASSUME NEW q \in R, x \in Shadow(l)[q] PROVE FALSE
    <3>1. q \in 1..Len(l) /\ q \in Unfolded(l)
      BY <1>2
    <3>2. Shadow(l)[q] = Folds(l, q) \cup UNION {Shadow(l)[y] : y \in Folds(l, q)}
      BY <1>3, <3>1, ShadowStep
    <3>3. CASE l[q].kind = "checkpoint"
      <4>1. q \in Live(l) /\ q # c
        BY <1>7, <1>9, <3>1, <3>3 DEF Unfolded
      <4>2. Shadow(l)[c] \cap Shadow(l)[q] = {}
        BY <1>9, <4>1 DEF FoldedLog
      <4> QED BY <1>9, <2>2, <4>2
    <3>4. CASE l[q].kind = "prune"
      <4> DEFINE y == l[q].of
      <4>1. y \notin Shadowed(l)
        BY <3>1, <3>4 DEF Unfolded
      <4>2. Folds(l, q) = {y}
        BY <3>4 DEF Folds
      <4>3. y \in 1..Len(l) /\ l[y].kind = "result"
        BY <1>3, <3>1, <3>4 DEF FoldedLog, Of
      <4> HIDE DEF y
      <4>4. Folds(l, y) = {}
        BY <4>3 DEF Folds
      <4>5. Shadow(l)[y] = {}
        BY <1>3, <4>3, <4>4, ShadowStep
      <4>6. x = y
        BY <2>2, <3>2, <4>2, <4>5
      <4> QED BY <2>0, <4>1, <4>6
    <3>5. CASE l[q].kind \notin {"checkpoint", "prune"}
      <4>1. Folds(l, q) = {}
        BY <3>5 DEF Folds
      <4> QED BY <2>2, <3>2, <4>1
    <3> QED BY <3>3, <3>4, <3>5
  <2> QED BY <1>7, <2>1, <2>2
<1>10. ASSUME NEW c \in Live(m), NEW d \in Live(m), c # d
       PROVE  Shadow(m)[c] \cap Shadow(m)[d] = {}
  <2>1. CASE c = n
    <3>1. d \in Live(l) /\ d \notin S /\ Shadow(m)[d] = Shadow(l)[d]
      BY <1>8, <1>10, <2>1
    <3>2. S \cap Shadow(l)[d] = {}
      BY <1>9, <3>1
    <3> QED BY <2>1, <3>1, <3>2 DEF S
  <2>2. CASE d = n
    <3>1. c \in Live(l) /\ c \notin S /\ Shadow(m)[c] = Shadow(l)[c]
      BY <1>8, <1>10, <2>2
    <3>2. S \cap Shadow(l)[c] = {}
      BY <1>9, <3>1
    <3> QED BY <2>2, <3>1, <3>2 DEF S
  <2>3. CASE c # n /\ d # n
    <3>1. c \in Live(l) /\ d \in Live(l) /\ Shadow(m)[c] = Shadow(l)[c] /\ Shadow(m)[d] = Shadow(l)[d]
      BY <1>8, <2>3
    <3> QED BY <1>10, <3>1 DEF FoldedLog
  <2> QED BY <2>1, <2>2, <2>3
<1> QED BY <1>4, <1>5, <1>6, <1>10 DEF FoldedLog
-----------------------------------------------------------------------------
(* What may be folded, in every state.                                       *)

(* The first log has no folds.                                               *)
LEMMA InitFolded == FoldInit => FoldedInv
<1> SUFFICES ASSUME FoldInit PROVE FoldedInv
  OBVIOUS
<1>1. log = <<>> /\ at = "idle" /\ DOMAIN log = {}
  BY DEF FoldInit
<1>2. \A kind : Of(log, kind) = {}
  BY <1>1 DEF Of
<1>3. Live(log) = {}
  BY <1>2 DEF Live
<1> QED BY <1>1, <1>2, <1>3 DEF FoldedInv, FoldedLog

(* A reduction folds turns that the model was shown.                         *)
LEMMA BeginFolded ==
  ASSUME SpansInv, FoldedInv, NEW start \in 0..Len(Context(log)), NEW cut \in 0..Len(Context(log)),
         start < cut, NEW back, Begin(start, cut, back)
  PROVE  FoldedInv'
<1> DEFINE e == [kind |-> "started"]
           R == Range(SubSeq(Sources(log), Counted(Context(log), start) + 1,
                             Counted(Context(log), cut)))
<1>1. log \in Seq(Range(log)) /\ Len(log) \in Nat /\ DOMAIN log = 1..Len(log)
  BY DEF SpansInv
<1>2. log' = log \o <<e>> /\ span'.replaces = R
  BY DEF Begin, Write
<1>3. R \subseteq Unfolded(log) /\ R # {}
  BY <1>1, FoldedSources
<1> HIDE DEF R
<1>4. Grown(log, log', e) /\ e.kind \notin {"checkpoint", "prune"}
  BY <1>1, <1>2, OneMore
<1> HIDE DEF e
<1>5. FoldedLog(log') /\ Unfolded(log) \subseteq Unfolded(log')
  BY <1>4, PlainFolded DEF FoldedInv
<1> QED BY <1>2, <1>3, <1>5 DEF FoldedInv

(* A retained turn is behind the cut.                                        *)
LEMMA CutInside ==
  ASSUME SpansInv, NEW cut \in Cuts(Context(log)), cut # 0
  PROVE  cut \in 1..Len(Context(log))
<1> DEFINE turns == Context(log)
<1>1. Turns(turns)
  <2>1. Len(log) \in Nat /\ DOMAIN log = 1..Len(log)
    BY DEF SpansInv
  <2> QED BY <2>1, CountedSources
<1>2. Len(turns) \in Nat /\ DOMAIN turns = 1..Len(turns)
  BY <1>1 DEF Turns
<1>3. PICK c \in 0..(Len(turns) - 1) : cut = IF turns[c + 1].kind = "results" THEN c - 1 ELSE c
  BY DEF Cuts
<1>4. turns[c + 1].kind = "results" => c + 1 > 1
  <2>1. c + 1 \in DOMAIN turns
    BY <1>2, <1>3
  <2> QED BY <2>1, PairsHold DEF PairsIntact
<1> HIDE DEF turns
<1>5. cut \in 1..Len(turns)
  BY <1>2, <1>3, <1>4
<1> QED BY <1>5 DEF turns

(* What a step of a turn, a reduction or /compact writes folds what may be   *)
(* folded.                                                                   *)
LEMMA NextFolded ==
  ASSUME SpansInv, FoldedInv, [FoldNext]_foldVars
  PROVE  FoldedInv'
<1>1. /\ log \in Seq(Range(log)) /\ Len(log) \in Nat /\ DOMAIN log = 1..Len(log)
      /\ FoldedLog(log)
  BY DEF SpansInv, FoldedInv
<1>2. ASSUME NEW e, e.kind \notin {"checkpoint", "prune"}, log' = log \o <<e>>, at' # "folding"
      PROVE  FoldedInv'
  <2>1. FoldedLog(log')
    BY <1>1, <1>2, OneMore, PlainFolded
  <2> QED BY <1>2, <2>1 DEF FoldedInv
<1>3. CASE Send
  <2>1. ASSUME NEW l, NEW m, NEW kind \in {"user", "block"}, Grown(l, m, [kind |-> kind]), FoldedLog(l)
        PROVE  FoldedLog(m)
    <3>1. [kind |-> kind].kind \notin {"checkpoint", "prune"}
      OBVIOUS
    <3> QED BY <2>1, <3>1, PlainFolded
  <2>2. FoldedLog(log')
    <3>1. CASE Grown(log, log', [kind |-> "user"])
      BY <1>1, <2>1, <3>1
    <3>2. ASSUME NEW l, Grown(log, l, [kind |-> "block"]), Grown(l, log', [kind |-> "user"])
          PROVE  FoldedLog(log')
      <4>1. FoldedLog(l)
        BY <1>1, <2>1, <3>2
      <4> QED BY <2>1, <3>2, <4>1
    <3> QED BY <1>1, <1>3, <3>1, <3>2, SentEntries
  <2>3. at' = "opening"
    BY <1>3 DEF Send
  <2> QED BY <2>2, <2>3 DEF FoldedInv
<1>4. CASE BeginTurn
  <2>1. log' = log \o <<[kind |-> "turn"]>> /\ at' = "step"
    BY <1>4 DEF BeginTurn, Write
  <2> QED BY <1>2, <2>1
<1>5. CASE Inject
  <2>1. at' # "folding" /\ \E kind \in {"user", "block"} : log' = log \o <<[kind |-> kind]>>
    BY <1>5 DEF Inject, Write
  <2> QED BY <1>2, <2>1
<1>6. CASE Reply
  <2>1. at' # "folding" /\ \E s \in Shape :
           log' = log \o <<[kind |-> "assistant", text |-> s.text, calls |-> s.calls]>>
    BY <1>6 DEF Reply, Write
  <2> QED BY <1>2, <2>1
<1>7. CASE Return
  <2>1. at' # "folding" /\ \E c \in Missing : log' = log \o <<[kind |-> "result", call |-> c]>>
    BY <1>7 DEF Return, Write
  <2> QED BY <1>2, <2>1
<1>8. CASE Stop
  <2>1. log' = log /\ at' = "idle"
    BY <1>8 DEF Stop
  <2> QED BY <1>1, <2>1 DEF FoldedInv
<1>9. CASE Prune
  <2>1. PICK p \in Of(log, "result") : log' = log \o <<[kind |-> "prune", of |-> p]>>
    BY <1>9 DEF Prune, Write
  <2> DEFINE e == [kind |-> "prune", of |-> p]
  <2>2. e.kind = "prune" /\ e.of \in Of(log, "result") /\ log' = log \o <<e>>
    BY <2>1
  <2> HIDE DEF e
  <2>3. FoldedLog(log')
    BY <1>1, <2>2, OneMore, PruneFolded
  <2>4. at' # "folding"
    BY <1>9 DEF Prune
  <2> QED BY <2>3, <2>4 DEF FoldedInv
<1>10. CASE BeginPrefix
  <2>1. PICK cut \in Cuts(Context(log)) \ {0} : Begin(0, cut, "step")
    BY <1>10 DEF BeginPrefix
  <2>2. cut \in 1..Len(Context(log)) /\ Len(Context(log)) \in Nat
    BY <1>1, CutInside, CountedSources
  <2>3. 0 \in 0..Len(Context(log)) /\ cut \in 0..Len(Context(log)) /\ 0 < cut
    BY <2>2
  <2> QED BY <2>1, <2>3, BeginFolded
<1>11. CASE BeginRegion
  <2>1. PICK start \in 0..Len(Context(log)), cut \in 0..Len(Context(log)) :
           start < cut /\ Begin(start, cut, "idle")
    BY <1>11 DEF BeginRegion
  <2> QED BY <2>1, BeginFolded
<1>12. CASE Commit
  <2> DEFINE e == [kind |-> "checkpoint", replaces |-> span.replaces, told |-> span.told,
                   started |-> span.started]
  <2>1. log' = log \o <<e>> /\ at = "folding" /\ at' = "folded"
    BY <1>12 DEF Commit, Write
  <2>2. e.kind = "checkpoint" /\ e.replaces # {} /\ e.replaces \subseteq Unfolded(log)
    BY <2>1 DEF FoldedInv
  <2> HIDE DEF e
  <2>3. FoldedLog(log')
    BY <1>1, <2>1, <2>2, OneMore, CheckpointFolded
  <2> QED BY <2>1, <2>3 DEF FoldedInv
<1>13. CASE Compact
  <2>1. PICK cut : /\ Foldable(cut) # {}
                   /\ log' = log \o <<[kind |-> "checkpoint", replaces |-> Foldable(cut),
                                       told |-> Read(cut), started |-> 0]>>
    BY <1>13 DEF Compact, Write
  <2> DEFINE e == [kind |-> "checkpoint", replaces |-> Foldable(cut), told |-> Read(cut),
                   started |-> 0]
  <2>2. Foldable(cut) \subseteq Unfolded(log)
    BY <1>1, SourcesUnfolded DEF Foldable
  <2>3. e.kind = "checkpoint" /\ e.replaces # {} /\ e.replaces \subseteq Unfolded(log)
    BY <2>1, <2>2
  <2> HIDE DEF e
  <2>4. log' = log \o <<e>>
    BY <2>1 DEF e
  <2>5. FoldedLog(log')
    BY <1>1, <2>3, <2>4, OneMore, CheckpointFolded
  <2>6. at' # "folding"
    BY <1>13 DEF Compact
  <2> QED BY <2>5, <2>6 DEF FoldedInv
<1>14. CASE Finish
  <2> DEFINE e == [kind |-> "finished", of |-> span.started, committed |-> at = "folded"]
  <2>1. log' = log \o <<e>> /\ at' = span.back /\ at \in {"folding", "folded"}
    BY <1>14 DEF Finish, Write
  <2>2. e.kind \notin {"checkpoint", "prune"}
    OBVIOUS
  <2>3. at' # "folding"
    BY <2>1 DEF SpansInv, OpenInv
  <2> HIDE DEF e
  <2> QED BY <1>2, <2>1, <2>2, <2>3
<1>15. CASE Recover
  <2>1. at' # "folding" /\ \E s \in Unfinished, b \in {TRUE, FALSE} :
           log' = log \o <<[kind |-> "finished", of |-> s, committed |-> b]>>
    BY <1>15 DEF Recover, Write
  <2> QED BY <1>2, <2>1
<1>16. CASE UNCHANGED foldVars
  BY <1>16 DEF foldVars, FoldedInv
<1> QED BY <1>3, <1>4, <1>5, <1>6, <1>7, <1>8, <1>9, <1>10, <1>11, <1>12, <1>13, <1>14, <1>15,
           <1>16 DEF FoldNext

(* A fold is of what may be folded: of the log's sources, which are neither  *)
(* folded nor prunes of what is (reduce_cached and compact).                 *)
THEOREM FoldedInvariance == FoldSpec => []FoldedInv
<1>1. SpansInv /\ FoldedInv /\ [FoldNext]_foldVars => FoldedInv'
  BY NextFolded
<1> QED BY <1>1, InitFolded, SpansInvariance, PTL DEF FoldSpec

(* "The shadows of live checkpoints are disjoint" (events.rs:707): each      *)
(* replays its summary once, and nothing that was folded is shown.           *)
THEOREM FoldsOnce == FoldSpec => []FoldedOnce
BY ShownOnce, FoldedInvariance, SpansInvariance, PTL
-----------------------------------------------------------------------------
(* What is shown.                                                            *)

(* A concatenation has what its parts have.                                  *)
LEMMA FlatRange ==
  ASSUME NEW X, NEW s \in Seq(Seq(X))
  PROVE  Range(FlattenSeq(s)) = UNION {Range(s[i]) : i \in 1..Len(s)}
<1>1. Len(s) \in Nat /\ \A i \in 1..Len(s) : s[i] \in Seq(X)
  OBVIOUS
<1> DEFINE u(k) == SubSeq(s, 1, k)
           All(k) == UNION {Range(s[i]) : i \in 1..k}
           K == {k \in Nat : k <= Len(s) => Range(FlattenSeq(u(k))) = All(k)}
<1>2. 0 \in K
  <2>1. u(0) = <<>>
    BY SubSeqEmpty
  <2>2. FlattenSeq(<<>>) = <<>> /\ Range(<<>>) = {}
    BY DEF FlattenSeq, Range
  <2>3. All(0) = {}
    <3>1. 1..0 = {}
      OBVIOUS
    <3> QED BY <3>1
  <2> HIDE DEF u, All
  <2> QED BY <2>1, <2>2, <2>3
<1>3. ASSUME NEW k \in K PROVE k + 1 \in K
  <2> SUFFICES ASSUME k + 1 <= Len(s) PROVE Range(FlattenSeq(u(k + 1))) = All(k + 1)
    OBVIOUS
  <2>0. k \in Nat
    OBVIOUS
  <2> HIDE DEF K
  <2>1. k \in Nat /\ k <= Len(s) /\ k + 1 \in 1..Len(s) /\ k + 1 \in 1..(k + 1) /\ (k + 1) - 1 = k
        /\ 1 \in 1..Len(s)
    <3> HIDE DEF u, All
    <3> QED BY <1>1, <2>0
  <2>2. Range(FlattenSeq(u(k))) = All(k)
    BY <2>1 DEF K
  <2>3. u(k + 1) = u(k) \o <<s[k + 1]>>
    BY <2>1, SubSeqRecursiveSecond
  <2>4. u(k) \in Seq(Seq(X)) /\ s[k + 1] \in Seq(X)
    <3>1. \A i \in 1..k : s[i] \in Seq(X)
      BY <1>1, <2>1
    <3> QED BY <1>1, <2>1, <3>1, SubSeqProperties
  <2>5. All(k + 1) = All(k) \cup Range(s[k + 1])
    <3>1. 1..(k + 1) = 1..k \cup {k + 1}
      BY <2>1
    <3> QED BY <3>1
  <2> DEFINE v == u(k)
             x == s[k + 1]
             w == FlattenSeq(v)
  <2>6. v \in Seq(Seq(X)) /\ x \in Seq(X)
    BY <2>4
  <2> HIDE DEF v, x, u, All
  <2>7. FlattenSeq(v \o <<x>>) = w \o x /\ w \in Seq(X)
    BY <2>6, FlatAppend, FlatType
  <2> HIDE DEF w
  <2>8. Range(w \o x) = Range(w) \cup Range(x)
    BY <2>6, <2>7, RangeConcatenation
  <2>9. FlattenSeq(u(k + 1)) = w \o x
    BY <2>3, <2>7 DEF v, x
  <2>10. Range(w) = All(k)
    BY <2>2 DEF w, v
  <2> QED BY <2>5, <2>8, <2>9, <2>10 DEF x
<1> HIDE DEF K, u, All
<1>4. K = Nat
  BY <1>2, <1>3, Sel!InductionOnSet DEF K
<1>5. Range(FlattenSeq(u(Len(s)))) = All(Len(s))
  BY <1>1, <1>4 DEF K
<1>6. u(Len(s)) = s
  BY SubSeqFull DEF u
<1> QED BY <1>5, <1>6 DEF All

(* Turns cite what each of them cites.                                       *)
LEMMA CitesRange ==
  ASSUME NEW r, Turns(r)
  PROVE  Range(Cites(r)) = UNION {Range(r[i].cites) : i \in 1..Len(r)}
<1> DEFINE s == [i \in DOMAIN r |-> r[i].cites]
<1>1. s \in Seq(Seq(Nat)) /\ Len(r) \in Nat /\ DOMAIN r = 1..Len(r)
  BY CitesType
<1>2. Len(s) = Len(r) /\ \A i \in 1..Len(r) : s[i] = r[i].cites
  BY <1>1
<1> HIDE DEF s
<1>3. Range(FlattenSeq(s)) = UNION {Range(s[i]) : i \in 1..Len(s)}
  BY <1>1, FlatRange
<1>4. {Range(s[i]) : i \in 1..Len(s)} = {Range(r[i].cites) : i \in 1..Len(r)}
  BY <1>2
<1> QED BY <1>3, <1>4 DEF Cites, s

(* The repaired turns are those that are repaired to a turn.                 *)
LEMMA RepairedRange ==
  ASSUME NEW T, Turns(T)
  PROVE  /\ \A j \in 1..Len(Repaired(T)) : \E i \in 1..Len(T) : Repair(T, i) = <<Repaired(T)[j]>>
         /\ \A i \in 1..Len(T) : \A u : Repair(T, i) = <<u>> =>
               \E j \in 1..Len(Repaired(T)) : Repaired(T)[j] = u
<1> DEFINE s == [i \in DOMAIN T |-> Repair(T, i)]
           X == UNION {Range(Repair(T, i)) : i \in 1..Len(T)}
           R == FlattenSeq(s)
<1>1. Len(T) \in Nat /\ DOMAIN T = 1..Len(T)
  BY DEF Turns
<1>2. Len(s) = Len(T) /\ DOMAIN s = 1..Len(T) /\ \A i \in 1..Len(T) : s[i] = Repair(T, i)
  BY <1>1
<1>3. \A i \in 1..Len(T) : Repair(T, i) \in Seq(X)
  <2> TAKE i \in 1..Len(T)
  <2>1. Repair(T, i) \in Seq(Range(Repair(T, i)))
    <3>1. CASE Repair(T, i) = <<>>
      BY <3>1
    <3>2. ASSUME NEW u, Repair(T, i) = <<u>> PROVE Repair(T, i) \in Seq(Range(Repair(T, i)))
      BY <3>2, Single
    <3> QED BY <3>1, <3>2, RepairOne
  <2>2. Range(Repair(T, i)) \subseteq X
    OBVIOUS
  <2> HIDE DEF X
  <2> QED BY <2>1, <2>2, SeqMonotonic
<1> HIDE DEF X
<1>4. s \in Seq(Seq(X))
  BY <1>1, <1>3
<1> HIDE DEF s
<1>5. R \in Seq(X) /\ Range(R) = UNION {Range(s[i]) : i \in 1..Len(s)}
  BY <1>4, FlatType, FlatRange
<1>6. Repaired(T) = R
  BY DEF Repaired, s
<1> HIDE DEF R
<1>7. DOMAIN R = 1..Len(R)
  BY <1>5
<1>8. ASSUME NEW u PROVE Range(<<u>>) = {u}
  <2> DEFINE w == <<u>>
  <2>1. DOMAIN w = {1} /\ w[1] = u
    OBVIOUS
  <2> HIDE DEF w
  <2>2. Range(w) = {u}
    BY <2>1 DEF Range
  <2> QED BY <2>2 DEF w
<1>9. ASSUME NEW j \in 1..Len(R) PROVE \E i \in 1..Len(T) : Repair(T, i) = <<R[j]>>
  <2>1. R[j] \in Range(R)
    BY <1>7 DEF Range
  <2>2. PICK i \in 1..Len(T) : R[j] \in Range(Repair(T, i))
    BY <1>2, <1>5, <2>1
  <2>3. Repair(T, i) # <<>>
    <3>1. Range(<<>>) = {}
      BY DEF Range
    <3> QED BY <2>2, <3>1
  <2>4. PICK u : Repair(T, i) = <<u>>
    BY <2>3, RepairOne
  <2>5. R[j] = u
    BY <1>8, <2>2, <2>4
  <2> QED BY <2>4, <2>5
<1>10. ASSUME NEW i \in 1..Len(T), NEW u, Repair(T, i) = <<u>>
       PROVE  \E j \in 1..Len(R) : R[j] = u
  <2>1. u \in Range(s[i]) /\ i \in 1..Len(s)
    BY <1>2, <1>8, <1>10
  <2>2. u \in Range(R)
    BY <1>5, <2>1
  <2> QED BY <1>7, <2>2 DEF Range
<1> QED BY <1>6, <1>9, <1>10

(* A turn with the text of p, be it repaired or not.                         *)
Stands(t, p) == t.kind \in {"user", "assistant"} /\ t.text = TRUE /\ t.cites = <<p>>

HasText(r, p) == \E i \in 1..Len(r) : Stands(r[i], p)

(* No later position takes a text away.                                      *)
LEMMA TextStays ==
  ASSUME NEW l, Len(l) \in Nat, DOMAIN l = 1..Len(l), NEW n \in 1..Len(l), NEW r, Turns(r),
         NEW p, HasText(r, p)
  PROVE  HasText(RawStep(l, r, n), p)
<1>1. PICK i \in 1..Len(r) : Stands(r[i], p)
  BY DEF HasText
<1>2. r \in Seq(Range(r)) /\ Len(r) \in Nat
  BY DEF Turns
<1>3. ASSUME NEW s, Turns(s) PROVE HasText(r \o s, p)
  <2> DEFINE S == Range(r) \cup Range(s)
  <2>1. r \in Seq(S) /\ s \in Seq(S)
    BY <1>3 DEF Turns
  <2> HIDE DEF S
  <2>2. i \in 1..Len(r \o s) /\ (r \o s)[i] = r[i]
    BY <2>1
  <2> QED BY <1>1, <2>2 DEF HasText
<1>4. ASSUME NEW t, IsTurn(t) PROVE HasText(Append(r, t), p)
  <2>1. Append(r, t) = r \o <<t>>
    BY <1>2
  <2> QED BY <1>3, <1>4, <2>1, TurnsSingle
<1>5. IsTurn(User(n)) /\ IsTurn(Assistant(l, n)) /\ IsTurn(Results(l, n))
  BY AreTurns
<1>6. HasText(Joined(r, Results(l, n)), p)
  <2>1. CASE Joined(r, Results(l, n)) = r \o <<Results(l, n)>>
    BY <1>3, <1>5, <2>1, TurnsSingle
  <2>2. ASSUME NEW u, r # <<>>, Joined(r, Results(l, n)) = Front(r) \o <<u>>, IsTurn(u),
               Last(r).kind = "results"
        PROVE  HasText(Joined(r, Results(l, n)), p)
    <3> DEFINE f == Front(r)
    <3>1. /\ Turns(f) /\ Last(r) = r[Len(r)]
          /\ Len(f) = Len(r) - 1 /\ \A j \in 1..(Len(r) - 1) : f[j] = r[j]
      BY <2>2, TurnsFront
    <3> HIDE DEF f
    <3>2. i # Len(r)
      BY <1>1, <2>2, <3>1 DEF Stands
    <3>3. i \in 1..Len(f) /\ f[i] = r[i]
      BY <1>2, <3>1, <3>2
    <3> DEFINE S == Range(f) \cup {u}
    <3>4. f \in Seq(S) /\ <<u>> \in Seq(S)
      BY <3>1 DEF Turns
    <3> HIDE DEF S
    <3>5. i \in 1..Len(f \o <<u>>) /\ (f \o <<u>>)[i] = r[i]
      BY <3>3, <3>4
    <3> QED BY <1>1, <2>2, <3>5 DEF HasText, f
  <2> QED BY <2>1, <2>2, JoinedTurns
<1>7. HasText(r \o SetToSeq({User(c) : c \in Anchored(l, n)}), p)
  BY <1>3, AnchoredTurns
<1> QED BY <1>4, <1>5, <1>6, <1>7 DEF RawStep

(* So the text of a position reaches the model when a step adds it.          *)
LEMMA TextReaches ==
  ASSUME NEW l, Len(l) \in Nat, DOMAIN l = 1..Len(l), NEW p, NEW n \in 1..Len(l),
         \A r : Turns(r) => HasText(RawStep(l, r, n), p)
  PROVE  HasText(Raw(l), p)
<1>1. PICK f : /\ Raw(l) = f[Len(l)] /\ f[0] = <<>>
               /\ \A i \in 1..Len(l) : f[i] = RawStep(l, f[i - 1], i)
  BY RawSteps
<1> DEFINE K == {k \in Nat : k <= Len(l) => Turns(f[k]) /\ (n <= k => HasText(f[k], p))}
<1>2. 0 \in K
  <2>1. Turns(<<>>)
    BY DEF Turns
  <2> QED BY <1>1, <2>1
<1>3. ASSUME NEW k \in K PROVE k + 1 \in K
  <2>1. ASSUME k + 1 <= Len(l)
        PROVE  Turns(f[k + 1]) /\ (n <= k + 1 => HasText(f[k + 1], p))
    <3>1. k + 1 \in 1..Len(l) /\ (k + 1) - 1 = k /\ Turns(f[k]) /\ (n <= k => HasText(f[k], p))
      BY <2>1
    <3>2. f[k + 1] = RawStep(l, f[k], k + 1)
      BY <1>1, <3>1
    <3>3. Turns(f[k + 1])
      BY <3>1, <3>2, RawStepTurns
    <3>4. CASE n = k + 1
      BY <3>1, <3>2, <3>3, <3>4
    <3>5. CASE n <= k
      BY <3>1, <3>2, <3>3, <3>5, TextStays
    <3>6. n <= k + 1 => n = k + 1 \/ n <= k
      BY <3>1
    <3> QED BY <3>3, <3>4, <3>5, <3>6
  <2> QED BY <2>1
<1> HIDE DEF K
<1>4. K = Nat
  BY <1>2, <1>3, Sel!InductionOnSet DEF K
<1>5. HasText(f[Len(l)], p)
  BY <1>4 DEF K
<1> QED BY <1>1, <1>5

(* A message that is not folded, or a live summary, is shown to the model.   *)
LEMMA Shown ==
  ASSUME NEW l, Backward(l), NEW p \in 1..Len(l),
         \/ p \in Said(l) /\ p \notin Shadowed(l)
         \/ p \in Live(l) /\ Shadow(l)[p] # {}
  PROVE  p \in Range(Cites(Context(l)))
<1>1. Len(l) \in Nat /\ DOMAIN l = 1..Len(l) /\ p \in Nat
  BY DEF Backward
<1>2. ASSUME NEW r, NEW s, Turns(r), Turns(s), HasText(s, p) PROVE HasText(r \o s, p)
  <2>1. PICK i \in 1..Len(s) : Stands(s[i], p)
    BY <1>2 DEF HasText
  <2> DEFINE S == Range(r) \cup Range(s)
  <2>2. r \in Seq(S) /\ s \in Seq(S)
    BY <1>2 DEF Turns
  <2> HIDE DEF S
  <2>3. Len(r) + i \in 1..Len(r \o s) /\ (r \o s)[Len(r) + i] = s[i]
    BY <2>2
  <2> QED BY <2>1, <2>3 DEF HasText
<1>3. ASSUME NEW t, Stands(t, p) PROVE HasText(<<t>>, p)
  BY <1>3 DEF HasText
<1>4. HasText(Raw(l), p)
  <2>1. CASE p \in Said(l) /\ p \notin Shadowed(l)
    <3> DEFINE t == IF l[p].kind = "user" THEN User(p) ELSE Assistant(l, p)
    <3>1. l[p].kind = "user" \/ (l[p].kind = "assistant" /\ l[p].text)
      BY <2>1 DEF Said, Of
    <3>2. IsTurn(t) /\ Stands(t, p)
      BY <3>1, AreTurns, <1>1 DEF Stands, User, Assistant
    <3>3. p \notin Superseded(l)
      BY <3>1 DEF Superseded, Of
    <3>4. ASSUME NEW r, Turns(r) PROVE HasText(RawStep(l, r, p), p)
      <4>1. RawStep(l, r, p) = Append(r, t)
        BY <2>1, <3>1, <3>3 DEF RawStep
      <4> HIDE DEF t
      <4>2. Append(r, t) = r \o <<t>>
        BY <3>4 DEF Turns
      <4> QED BY <1>2, <1>3, <3>2, <3>4, <4>1, <4>2, TurnsSingle
    <3> QED BY <1>1, <3>4, TextReaches
  <2>2. CASE p \in Live(l) /\ Shadow(l)[p] # {}
    <3> DEFINE S == Shadow(l)[p]
    <3>1. S \subseteq 1..(p - 1)
      BY ShadowBack
    <3>2. S \subseteq Nat /\ S # {}
      BY <1>1, <2>2, <3>1
    <3>3. PICK n \in S : \A q \in S : n <= q
      <4> HIDE DEF S
      <4> QED BY <3>2, Sel!LeastNat
    <3>4. n \in 1..Len(l)
      BY <1>1, <3>1
    <3>5. n \in Shadowed(l) /\ p \in Anchored(l, n)
      BY <2>2, <3>3 DEF Shadowed, Anchored
    <3> DEFINE U == {User(c) : c \in Anchored(l, n)}
               s == SetToSeq(U)
    <3>6. Turns(s) /\ IsFiniteSet(U)
      BY <1>1, AnchoredTurns, AnchoredFinite
    <3>7. User(p) \in U /\ Stands(User(p), p)
      BY <3>5 DEF Stands, User
    <3>8. HasText(s, p)
      <4> HIDE DEF U
      <4>1. s \in Seq(U) /\ Range(s) = U
        BY <3>6, SetToSeqFacts
      <4> HIDE DEF s
      <4>2. DOMAIN s = 1..Len(s)
        BY <4>1
      <4>3. PICK i \in DOMAIN s : s[i] = User(p)
        BY <3>7, <4>1 DEF Range
      <4> QED BY <3>7, <4>2, <4>3 DEF HasText
    <3>9. ASSUME NEW r, Turns(r) PROVE HasText(RawStep(l, r, n), p)
      <4>1. RawStep(l, r, n) = r \o s
        BY <3>5 DEF RawStep
      <4> HIDE DEF s
      <4> QED BY <1>2, <3>6, <3>8, <3>9, <4>1
    <3> HIDE DEF S, s
    <3> QED BY <1>1, <3>4, <3>9, TextReaches
  <2> QED BY <2>1, <2>2
<1> DEFINE T == Raw(l)
<1>5. Turns(T)
  BY <1>1, RawTurns
<1>6. PICK i \in 1..Len(T) : Stands(T[i], p)
  BY <1>4 DEF HasText
<1> HIDE DEF T
<1>7. Repair(T, i) # <<>>
  BY <1>6, Single DEF Repair, Stands
<1>8. PICK u : Repair(T, i) = <<u>> /\ u.cites = T[i].cites
  BY <1>5, <1>7, RepairOne
<1>9. Turns(Repaired(T))
  BY <1>5, RepairedBound
<1>10. PICK j \in 1..Len(Repaired(T)) : Repaired(T)[j] = u
  BY <1>5, <1>8, RepairedRange
<1>11. p \in Range(Repaired(T)[j].cites)
  <2>1. Repaired(T)[j].cites = <<p>>
    BY <1>6, <1>8, <1>10 DEF Stands
  <2>2. 1 \in DOMAIN <<p>> /\ <<p>>[1] = p
    OBVIOUS
  <2> QED BY <2>1, <2>2 DEF Range
<1> DEFINE R == Repaired(T)
<1> HIDE DEF R
<1>12. Range(Cites(R)) = UNION {Range(R[k].cites) : k \in 1..Len(R)}
  BY <1>9, CitesRange DEF R
<1>13. p \in Range(Cites(R))
  BY <1>10, <1>11, <1>12 DEF R
<1> QED BY <1>13 DEF R, T, Context
-----------------------------------------------------------------------------
(* What the summaries were made from.                                        *)

IsTold(f, n) ==
    f = [c \in Checkpoints \cap 1..n |->
            log[c].told \cup UNION {f[d] : d \in log[c].told \cap Checkpoints}]

(* The recursive definition of Told has a solution, for every length.        *)
LEMMA ToldExists ==
  ASSUME ReadLog(log), Len(log) \in Nat, NEW n \in Nat
  PROVE  \E f : IsTold(f, n)
<1> DEFINE T == {k \in Nat : \E f : IsTold(f, k)}
           Made(c, f) == log[c].told \cup UNION {f[d] : d \in log[c].told \cap Checkpoints}
<1>1. 0 \in T
  <2> DEFINE f == [c \in {} |-> {}]
  <2>1. Checkpoints \cap 1..0 = {}
    OBVIOUS
  <2>2. f = [c \in Checkpoints \cap 1..0 |-> Made(c, f)]
    BY <2>1
  <2> QED BY <2>2 DEF IsTold
<1>2. ASSUME NEW k \in T PROVE k + 1 \in T
  <2>1. PICK f : IsTold(f, k)
    OBVIOUS
  <2>2. k \in Nat
    OBVIOUS
  <2> HIDE DEF T
  <2> DEFINE D == Checkpoints \cap 1..(k + 1)
             h == [c \in D |-> IF c <= k THEN f[c] ELSE Made(c, f)]
  <2>3. ASSUME NEW c \in D PROVE h[c] = Made(c, h)
    <3>1. \A d \in log[c].told \cap Checkpoints : d \in D /\ d <= k /\ h[d] = f[d]
      <4>1. log[c].told \subseteq 1..(c - 1) /\ c \in 1..(k + 1)
        BY DEF ReadLog, Checkpoints
      <4>2. \A d \in 1..(c - 1) : d \in 1..(k + 1) /\ d <= k
        BY <2>2, <4>1
      <4> QED BY <4>1, <4>2
    <3>2. h[c] = Made(c, f)
      <4>1. CASE c <= k
        <5>1. c \in Checkpoints \cap 1..k /\ h[c] = f[c]
          BY <2>2, <4>1
        <5> HIDE DEF h
        <5>2. f[c] = Made(c, f)
          BY <2>1, <5>1 DEF IsTold
        <5> QED BY <5>1, <5>2
      <4>2. CASE ~(c <= k)
        BY <4>2
      <4> QED BY <4>1, <4>2
    <3> HIDE DEF h
    <3>3. {f[d] : d \in log[c].told \cap Checkpoints} = {h[d] : d \in log[c].told \cap Checkpoints}
      BY <3>1
    <3> QED BY <3>2, <3>3
  <2>4. h = [c \in D |-> h[c]]
    OBVIOUS
  <2> HIDE DEF h
  <2>5. h = [c \in D |-> Made(c, h)]
    <3> HIDE DEF Made
    <3> QED BY <2>3, <2>4
  <2>6. IsTold(h, k + 1)
    BY <2>5 DEF IsTold
  <2> QED BY <2>2, <2>6 DEF T
<1> HIDE DEF T
<1>3. T = Nat
  BY <1>1, <1>2, Sel!InductionOnSet DEF T
<1> QED BY <1>3 DEF T

(* What Told is of each checkpoint.                                          *)
LEMMA ToldStep ==
  ASSUME ReadLog(log), Len(log) \in Nat, DOMAIN log = 1..Len(log), NEW c \in Checkpoints
  PROVE  Told[c] = log[c].told \cup UNION {Told[d] : d \in log[c].told \cap Checkpoints}
<1> DEFINE f == Told
           n == Len(log)
<1>1. Checkpoints \cap 1..n = Checkpoints
  BY DEF Checkpoints, Of
<1>2. f = CHOOSE g : IsTold(g, n)
  BY <1>1 DEF Told, IsTold
<1> HIDE DEF f
<1>3. IsTold(f, n)
  BY <1>2, ToldExists
<1>4. f[c] = log[c].told \cup UNION {f[d] : d \in log[c].told \cap Checkpoints}
  BY <1>1, <1>3 DEF IsTold
<1> QED BY <1>4 DEF f

(* Where every fold read what it folds, so did what it stands for.           *)
LEMMA ShadowTold ==
  ASSUME Backward(log), FoldedLog(log), ReadLog(log),
         \A c \in Checkpoints : log[c].replaces \cap (Said(log) \cup Checkpoints) \subseteq log[c].told
  PROVE  \A c \in Checkpoints : Shadow(log)[c] \cap Said(log) \subseteq Told[c]
<1> DEFINE G == {p \in 1..Len(log) : p \in Checkpoints => Shadow(log)[p] \cap Said(log) \subseteq Told[p]}
<1>1. Len(log) \in Nat /\ DOMAIN log = 1..Len(log)
  BY DEF Backward
<1>2. ASSUME NEW c \in 1..Len(log), Folds(log, c) \subseteq G, c \in Checkpoints,
             NEW x \in Shadow(log)[c], x \in Said(log)
      PROVE  x \in Told[c]
  <2>1. Folds(log, c) = log[c].replaces
    BY <1>2 DEF Checkpoints, Of, Folds
  <2>2. Shadow(log)[c] = Folds(log, c) \cup UNION {Shadow(log)[q] : q \in Folds(log, c)}
    BY ShadowStep
  <2>3. Told[c] = log[c].told \cup UNION {Told[d] : d \in log[c].told \cap Checkpoints}
    BY <1>1, <1>2, ToldStep
  <2>4. CASE x \in Folds(log, c)
    BY <1>2, <2>1, <2>3, <2>4
  <2>5. ASSUME NEW q \in Folds(log, c), x \in Shadow(log)[q] PROVE x \in Told[c]
    <3>1. q \in 1..Len(log) /\ (q \in Checkpoints => Shadow(log)[q] \cap Said(log) \subseteq Told[q])
      BY <1>2
    <3>2. Shadow(log)[q] = Folds(log, q) \cup UNION {Shadow(log)[r] : r \in Folds(log, q)}
      BY <3>1, ShadowStep
    <3>3. CASE q \in Checkpoints
      <4>1. q \in log[c].told \cap Checkpoints
        BY <1>2, <2>1, <3>3
      <4>2. x \in Told[q]
        BY <1>2, <2>5, <3>1, <3>3
      <4> QED BY <2>3, <4>1, <4>2
    <3>4. CASE log[q].kind = "prune"
      <4>1. q \in Of(log, "prune") /\ Folds(log, q) = {log[q].of}
        BY <1>1, <3>1, <3>4 DEF Of, Folds
      <4>2. log[q].of \in 1..Len(log) /\ log[log[q].of].kind = "result"
        BY <1>1, <4>1 DEF FoldedLog, Of
      <4>3. Folds(log, log[q].of) = {}
        BY <4>2 DEF Folds
      <4>4. Shadow(log)[log[q].of] = {}
        BY <4>2, <4>3, ShadowStep
      <4>5. x = log[q].of
        BY <2>5, <3>2, <4>1, <4>4
      <4> QED BY <1>2, <4>2, <4>5 DEF Said, Of
    <3>5. CASE q \notin Checkpoints /\ log[q].kind # "prune"
      <4>1. Folds(log, q) = {}
        BY <1>1, <3>1, <3>5 DEF Folds, Checkpoints, Of
      <4> QED BY <2>5, <3>2, <4>1
    <3> QED BY <3>3, <3>4, <3>5
  <2> QED BY <1>2, <2>2, <2>4, <2>5
<1>3. \A c \in 1..Len(log) : Folds(log, c) \subseteq G => c \in G
  BY <1>2
<1> HIDE DEF G
<1>4. G \in SUBSET (1..Len(log))
  BY DEF G
<1>5. G = 1..Len(log)
  BY <1>3, <1>4, Positions
<1>6. Checkpoints \subseteq 1..Len(log)
  BY <1>1 DEF Checkpoints, Of
<1> QED BY <1>5, <1>6 DEF G

(* Every message is shown, or was read by a summary that is, where the       *)
(* reductions folded what they read.                                         *)
LEMMA ReadsInPlace ==
  ASSUME SpansInv, FoldedInv, ReadInv
  PROVE  NothingForgottenInPlace
<1> SUFFICES ASSUME \A c \in Checkpoints : log[c].started # 0 =>
                       log[c].replaces \cap (Said(log) \cup Checkpoints) \subseteq log[c].told,
                    NEW p \in Said(log)
             PROVE  \/ p \in Range(Cites(Context(log)))
                    \/ \E c \in Live(log) : p \in Told[c]
  BY DEF NothingForgottenInPlace, NothingForgotten
<1>1. Backward(log) /\ FoldedLog(log) /\ ReadLog(log) /\ p \in 1..Len(log)
  <2>1. log \in Seq(Range(log))
    BY DEF SpansInv
  <2>2. Len(log) \in Nat /\ DOMAIN log = 1..Len(log)
    BY <2>1
  <2>3. p \in DOMAIN log
    BY DEF Said, Of
  <2> QED BY <2>1, <2>2, <2>3 DEF FoldedInv, FoldedLog, ReadInv, Backward
<1>2. \A c \in Checkpoints : log[c].replaces \cap (Said(log) \cup Checkpoints) \subseteq log[c].told
  BY <1>1 DEF ReadLog, Checkpoints
<1>3. \A c \in Checkpoints : Shadow(log)[c] \cap Said(log) \subseteq Told[c]
  BY <1>1, <1>2, ShadowTold
<1>4. CASE p \in Shadowed(log)
  <2>1. PICK c \in Live(log) : p \in Shadow(log)[c]
    BY <1>4 DEF Shadowed
  <2>2. c \in Checkpoints
    BY DEF Live, Checkpoints
  <2> QED BY <1>3, <2>1, <2>2
<1>5. CASE p \notin Shadowed(log)
  BY <1>1, <1>5, Shown
<1> QED BY <1>4, <1>5

(* What the model is shown is cited from the log.                            *)
LEMMA ContextCites ==
  ASSUME NEW l, Len(l) \in Nat, DOMAIN l = 1..Len(l)
  PROVE  Turns(Context(l)) /\ Range(Cites(Context(l))) \subseteq 1..Len(l)
<1> DEFINE T == Raw(l)
           R == Repaired(T)
<1>1. Turns(T) /\ Turns(R) /\ Context(l) = R
  BY RawTurns, RepairedBound DEF Context
<1>2. Range(Cites(T)) \subseteq 1..Len(l)
  BY SourcesUnfolded DEF Sources, Unfolded
<1> HIDE DEF T
<1>3. ASSUME NEW j \in 1..Len(R) PROVE Range(R[j].cites) \subseteq Range(Cites(T))
  <2>1. PICK i \in 1..Len(T) : Repair(T, i) = <<R[j]>>
    BY <1>1, RepairedRange
  <2>2. PICK u : Repair(T, i) = <<u>> /\ u.cites = T[i].cites
    BY <1>1, <2>1, RepairOne, Single
  <2>3. R[j] = u
    <3> DEFINE x == R[j]
    <3> HIDE DEF x, R
    <3>1. <<x>> = <<u>>
      BY <2>1, <2>2 DEF x
    <3>2. x = u
      BY <3>1, Single
    <3> QED BY <3>2 DEF x
  <2>4. Range(Cites(T)) = UNION {Range(T[k].cites) : k \in 1..Len(T)}
    BY <1>1, CitesRange
  <2> QED BY <2>2, <2>3, <2>4
<1> HIDE DEF R
<1>4. Range(Cites(R)) = UNION {Range(R[k].cites) : k \in 1..Len(R)}
  BY <1>1, CitesRange
<1> QED BY <1>1, <1>2, <1>3, <1>4

(* So is what is shown of a part of it.                                      *)
LEMMA PartCites ==
  ASSUME NEW T, Turns(T), NEW a \in 1..(Len(T) + 1), NEW b \in 0..Len(T)
  PROVE  Range(Cites(SubSeq(T, a, b))) \subseteq Range(Cites(T))
<1> DEFINE S == SubSeq(T, a, b)
<1>1. T \in Seq(Range(T)) /\ Len(T) \in Nat /\ DOMAIN T = 1..Len(T)
      /\ \A i \in 1..Len(T) : T[i] \in Range(T) /\ IsTurn(T[i])
  BY DEF Turns, Range
<1>2. CASE a <= b
  <2>1. /\ S \in Seq(Range(T)) /\ Len(S) = b - a + 1
        /\ \A i \in 1..(b - a + 1) : S[i] = T[a + (i - 1)] /\ a + (i - 1) \in 1..Len(T)
    <3>1. \A i \in a..b : T[i] \in Range(T)
      BY <1>1
    <3>2. /\ S \in Seq(Range(T)) /\ Len(S) = b - a + 1
          /\ \A i \in 1..(b - a + 1) : S[i] = T[a + (i - 1)]
      BY <1>1, <1>2, <3>1, SubSeqProperties
    <3>3. \A i \in 1..(b - a + 1) : a + (i - 1) \in 1..Len(T)
      BY <1>1, <1>2
    <3> QED BY <3>2, <3>3
  <2> HIDE DEF S
  <2>2. DOMAIN S = 1..Len(S) /\ Len(S) \in Nat
    BY <2>1
  <2>3. \A i \in DOMAIN S : IsTurn(S[i])
    BY <1>1, <2>1, <2>2
  <2>4. S \in Seq(Range(S))
    BY <2>1, SeqOfRange
  <2>5. Turns(S)
    BY <2>3, <2>4 DEF Turns
  <2>6. Range(Cites(S)) = UNION {Range(S[k].cites) : k \in 1..Len(S)}
    BY <2>5, CitesRange
  <2>7. Range(Cites(T)) = UNION {Range(T[k].cites) : k \in 1..Len(T)}
    BY CitesRange
  <2>8. \A k \in 1..Len(S) : \E j \in 1..Len(T) : S[k] = T[j]
    BY <2>1
  <2>9. Range(Cites(S)) \subseteq Range(Cites(T))
    BY <2>6, <2>7, <2>8
  <2> QED BY <2>9 DEF S
<1>3. CASE b < a
  <2>1. S = <<>>
    BY <1>1, <1>3, SubSeqEmpty
  <2>2. Range(Cites(<<>>)) = {}
    <3>1. Cites(<<>>) = <<>>
      BY DEF Cites, FlattenSeq
    <3> QED BY <3>1 DEF Range
  <2> QED BY <2>1, <2>2
<1>4. a <= b \/ b < a
  BY <1>1
<1> QED BY <1>2, <1>3, <1>4

(* /compact reads each message and summary it folds: one that the log shows  *)
(* is shown of what is before the cut as well.                               *)
LEMMA CompactReads ==
  ASSUME SpansInv, FoldedInv, NEW cut \in 0..Len(log)
  PROVE  /\ Read(cut) \subseteq 1..Len(log) /\ Foldable(cut) \subseteq 1..Len(log)
         /\ Foldable(cut) \cap (Said(log) \cup Checkpoints) \subseteq Read(cut)
<1> DEFINE P == SubSeq(log, 1, cut)
<1>1. /\ log \in Seq(Range(log)) /\ Len(log) \in Nat /\ DOMAIN log = 1..Len(log) /\ FoldedLog(log)
      /\ cut \in Nat
  BY DEF SpansInv, FoldedInv
<1>2. /\ P \in Seq(Range(log)) /\ Len(P) = cut /\ DOMAIN P = 1..cut
      /\ \A p \in 1..cut : P[p] = log[p] /\ p \in 1..Len(log)
  BY <1>1
<1> HIDE DEF P
<1>3. \A p \in 1..cut : Folds(P, p) = Folds(log, p)
  BY <1>2 DEF Folds
<1>4. Backward(log) /\ Backward(P)
  <2>1. P \in Seq(Range(P))
    BY <1>2, SeqOfRange
  <2>2. \A p \in 1..Len(log) : Folds(log, p) \subseteq 1..(p - 1)
    BY <1>1 DEF FoldedLog
  <2> QED BY <1>1, <1>2, <1>3, <2>1, <2>2 DEF Backward
<1>5. \A p \in 1..cut : Shadow(log)[p] = Shadow(P)[p]
  BY <1>1, <1>2, <1>4, ShadowPrefix
<1>6. /\ Of(P, "checkpoint") \subseteq Of(log, "checkpoint")
      /\ \A p \in 1..cut : p \in Of(log, "checkpoint") => p \in Of(P, "checkpoint")
      /\ \A p \in 1..cut : p \in Said(log) => p \in Said(P)
  BY <1>1, <1>2 DEF Of, Said
<1>7. Shadowed(P) \subseteq Shadowed(log)
  <2>1. ASSUME NEW c \in Live(P) PROVE Shadow(P)[c] \subseteq Shadowed(log)
    <3>1. c \in Of(P, "checkpoint") /\ c \in 1..cut
      BY <1>2 DEF Live, Of
    <3> QED BY <1>4, <1>5, <1>6, <3>1, LiveAbove
  <2> QED BY <2>1 DEF Shadowed
<1>8. ASSUME NEW c \in Live(log), c \in 1..cut PROVE c \in Live(P)
  <2>1. c \in Of(log, "checkpoint") /\ \A d \in Of(log, "checkpoint") : c \notin Shadow(log)[d]
    BY DEF Live
  <2>2. ASSUME NEW d \in Of(P, "checkpoint") PROVE c \notin Shadow(P)[d]
    <3>1. d \in 1..cut /\ d \in Of(log, "checkpoint")
      BY <1>2, <1>6 DEF Of
    <3> QED BY <1>5, <2>1, <3>1
  <2>3. c \in Of(P, "checkpoint")
    BY <1>6, <1>8, <2>1
  <2> QED BY <2>2, <2>3 DEF Live
<1>9. Range(Sources(log)) \subseteq Unfolded(log)
  BY <1>1, SourcesUnfolded
<1>10. Read(cut) = Range(Cites(Context(P)))
  BY DEF Read, P
<1>11. Read(cut) \subseteq 1..Len(log)
  BY <1>1, <1>2, <1>10, ContextCites
<1>12. ASSUME NEW p \in Foldable(cut), p \in Said(log) \cup Checkpoints
       PROVE  p \in Read(cut)
  <2>1. p \in Unfolded(log) /\ p \in 1..cut /\ p \in 1..Len(P)
    BY <1>2, <1>9 DEF Foldable
  <2>2. CASE p \in Said(log)
    <3>1. p \notin Shadowed(P) /\ p \in Said(P)
      BY <1>6, <1>7, <2>1, <2>2 DEF Unfolded
    <3> QED BY <1>4, <1>10, <2>1, <3>1, Shown
  <2>3. CASE p \in Checkpoints
    <3>1. p \in Live(P) /\ p \in Of(log, "checkpoint")
      BY <1>8, <2>1, <2>3 DEF Unfolded, Checkpoints, Of
    <3>2. Folds(log, p) = log[p].replaces /\ log[p].replaces # {}
      BY <1>1, <3>1 DEF FoldedLog, Folds, Of
    <3>3. Shadow(P)[p] # {}
      <4>1. Shadow(P)[p] = Folds(P, p) \cup UNION {Shadow(P)[q] : q \in Folds(P, p)}
        BY <1>4, <2>1, ShadowStep
      <4> QED BY <1>3, <2>1, <3>2, <4>1
    <3> QED BY <1>4, <1>10, <2>1, <3>1, <3>3, Shown
  <2> QED BY <1>12, <2>2, <2>3
<1>13. Foldable(cut) \subseteq 1..Len(log)
  BY <1>2 DEF Foldable
<1> QED BY <1>11, <1>12, <1>13

(* A log stays read when what is appended is, if it is a checkpoint.         *)
LEMMA GrownRead ==
  ASSUME NEW l, NEW m, NEW e, Grown(l, m, e), FoldedLog(l), ReadLog(l),
         e.kind = "checkpoint" =>
            /\ e.told \subseteq 1..Len(l) /\ e.replaces \subseteq 1..Len(l)
            /\ e.started = 0 => e.replaces \cap (Said(l) \cup Of(l, "checkpoint")) \subseteq e.told
  PROVE  ReadLog(m)
<1> DEFINE n == Len(l) + 1
           Speech(k) == Said(k) \cup Of(k, "checkpoint")
<1>1. /\ Len(l) \in Nat /\ m[n] = e /\ \A p \in 1..Len(l) : m[p] = l[p]
      /\ DOMAIN l = 1..Len(l) /\ DOMAIN m = 1..n
  <2>1. /\ l \in Seq(Range(l)) /\ m \in Seq(Range(m)) /\ Len(m) = n
        /\ Len(l) \in Nat /\ m[n] = e /\ \A p \in 1..Len(l) : m[p] = l[p]
    BY DEF Grown
  <2> QED BY <2>1
<1>2. \A p \in 1..Len(l) : p \in Speech(m) => p \in Speech(l)
  BY <1>1 DEF Said, Of
<1>3. n - 1 = Len(l) /\ \A c \in 1..n : c = n \/ c \in 1..Len(l)
  BY <1>1
<1>4. ASSUME NEW c \in Of(m, "checkpoint"), c = n
      PROVE  /\ m[c].told \subseteq 1..(c - 1)
             /\ m[c].started = 0 => m[c].replaces \cap Speech(m) \subseteq m[c].told
  <2>1. e.kind = "checkpoint"
    BY <1>1, <1>4 DEF Of
  <2>2. e.told \subseteq 1..Len(l) /\ e.replaces \subseteq 1..Len(l)
        /\ (e.started = 0 => e.replaces \cap Speech(l) \subseteq e.told)
    BY <2>1
  <2> HIDE DEF Speech
  <2> QED BY <1>1, <1>2, <1>3, <1>4, <2>2
<1>5. ASSUME NEW c \in Of(m, "checkpoint"), c # n
      PROVE  /\ m[c].told \subseteq 1..(c - 1)
             /\ m[c].started = 0 => m[c].replaces \cap Speech(m) \subseteq m[c].told
  <2>1. c \in 1..Len(l) /\ c \in Of(l, "checkpoint") /\ m[c] = l[c]
    BY <1>1, <1>3, <1>5 DEF Of
  <2>2. /\ l[c].told \subseteq 1..(c - 1)
        /\ l[c].started = 0 => l[c].replaces \cap Speech(l) \subseteq l[c].told
    BY <2>1 DEF ReadLog
  <2>3. l[c].replaces \subseteq 1..Len(l)
    <3>1. Folds(l, c) \subseteq 1..(c - 1) /\ Folds(l, c) = l[c].replaces
      BY <1>1, <2>1 DEF FoldedLog, Folds, Of
    <3>2. 1..(c - 1) \subseteq 1..Len(l)
      BY <1>1, <2>1
    <3> QED BY <3>1, <3>2
  <2> HIDE DEF Speech
  <2> QED BY <1>2, <2>1, <2>2, <2>3
<1> QED BY <1>4, <1>5 DEF ReadLog

(* A reduction is told what the model was shown.                             *)
LEMMA BeginRead ==
  ASSUME SpansInv, FoldedInv, ReadInv,
         NEW start \in 0..Len(Context(log)), NEW cut \in 0..Len(Context(log)),
         start < cut, NEW back, Begin(start, cut, back)
  PROVE  ReadInv'
<1> DEFINE e == [kind |-> "started"]
           T == Context(log)
<1>1. /\ log \in Seq(Range(log)) /\ Len(log) \in Nat /\ DOMAIN log = 1..Len(log)
      /\ FoldedLog(log) /\ ReadLog(log)
  BY DEF SpansInv, FoldedInv, ReadInv
<1>2. log' = log \o <<e>> /\ span'.told = Range(Cites(SubSeq(T, start + 1, cut)))
  BY DEF Begin, Write
<1>3. Turns(T) /\ Range(Cites(T)) \subseteq 1..Len(log)
  BY <1>1, ContextCites
<1>4. start + 1 \in 1..(Len(T) + 1) /\ cut \in 0..Len(T)
  <2>1. Len(T) \in Nat
    BY <1>3 DEF Turns
  <2> HIDE DEF T
  <2>2. start \in 0..Len(T) /\ cut \in 0..Len(T)
    BY DEF T
  <2> QED BY <2>1, <2>2
<1> HIDE DEF T
<1>5. span'.told \subseteq 1..Len(log)
  BY <1>2, <1>3, <1>4, PartCites
<1>6. Grown(log, log', e) /\ e.kind # "checkpoint"
  BY <1>1, <1>2, OneMore
<1> HIDE DEF e
<1>7. ReadLog(log')
  BY <1>1, <1>6, GrownRead
<1>8. 1..Len(log) \subseteq 1..Len(log')
  <2>1. Len(log') = Len(log) + 1
    BY <1>6 DEF Grown
  <2> QED BY <1>1, <2>1
<1> QED BY <1>5, <1>7, <1>8 DEF ReadInv

(* Initially nothing was read.                                               *)
LEMMA InitRead == FoldInit => ReadInv
<1> SUFFICES ASSUME FoldInit PROVE ReadInv
  OBVIOUS
<1>1. log = <<>> /\ at = "idle" /\ DOMAIN <<>> = {}
  BY DEF FoldInit
<1>2. Of(log, "checkpoint") = {}
  BY <1>1 DEF Of
<1> QED BY <1>1, <1>2 DEF ReadInv, ReadLog

(* What a step writes was read as it should be.                              *)
LEMMA NextRead ==
  ASSUME SpansInv, FoldedInv, ReadInv, [FoldNext]_foldVars
  PROVE  ReadInv'
<1>1. /\ log \in Seq(Range(log)) /\ Len(log) \in Nat /\ DOMAIN log = 1..Len(log)
      /\ FoldedLog(log) /\ ReadLog(log)
  BY DEF SpansInv, FoldedInv, ReadInv
<1>2. ASSUME NEW e, e.kind # "checkpoint", log' = log \o <<e>>, at' # "folding"
      PROVE  ReadInv'
  <2>1. ReadLog(log')
    BY <1>1, <1>2, OneMore, GrownRead
  <2> QED BY <1>2, <2>1 DEF ReadInv
<1>3. CASE Send
  <2>1. ASSUME NEW l, NEW m, NEW kind \in {"user", "block"}, Grown(l, m, [kind |-> kind]),
               FoldedLog(l), ReadLog(l)
        PROVE  FoldedLog(m) /\ ReadLog(m)
    <3>1. [kind |-> kind].kind \notin {"checkpoint", "prune"}
      OBVIOUS
    <3> QED BY <2>1, <3>1, PlainFolded, GrownRead
  <2>2. ReadLog(log')
    <3>1. CASE Grown(log, log', [kind |-> "user"])
      BY <1>1, <2>1, <3>1
    <3>2. ASSUME NEW l, Grown(log, l, [kind |-> "block"]), Grown(l, log', [kind |-> "user"])
          PROVE  ReadLog(log')
      <4>1. FoldedLog(l) /\ ReadLog(l)
        BY <1>1, <2>1, <3>2
      <4> QED BY <2>1, <3>2, <4>1
    <3> QED BY <1>1, <1>3, <3>1, <3>2, SentEntries
  <2>3. at' = "opening"
    BY <1>3 DEF Send
  <2> QED BY <2>2, <2>3 DEF ReadInv
<1>4. CASE BeginTurn
  <2>1. log' = log \o <<[kind |-> "turn"]>> /\ at' = "step"
    BY <1>4 DEF BeginTurn, Write
  <2> QED BY <1>2, <2>1
<1>5. CASE Inject
  <2>1. at' # "folding" /\ \E kind \in {"user", "block"} : log' = log \o <<[kind |-> kind]>>
    BY <1>5 DEF Inject, Write
  <2> QED BY <1>2, <2>1
<1>6. CASE Reply
  <2>1. at' # "folding" /\ \E s \in Shape :
           log' = log \o <<[kind |-> "assistant", text |-> s.text, calls |-> s.calls]>>
    BY <1>6 DEF Reply, Write
  <2> QED BY <1>2, <2>1
<1>7. CASE Return
  <2>1. at' # "folding" /\ \E c \in Missing : log' = log \o <<[kind |-> "result", call |-> c]>>
    BY <1>7 DEF Return, Write
  <2> QED BY <1>2, <2>1
<1>8. CASE Stop
  <2>1. log' = log /\ at' = "idle"
    BY <1>8 DEF Stop
  <2> QED BY <1>1, <2>1 DEF ReadInv
<1>9. CASE Prune
  <2>1. at' # "folding" /\ \E p \in Of(log, "result") : log' = log \o <<[kind |-> "prune", of |-> p]>>
    BY <1>9 DEF Prune, Write
  <2> QED BY <1>2, <2>1
<1>10. CASE BeginPrefix
  <2>1. PICK cut \in Cuts(Context(log)) \ {0} : Begin(0, cut, "step")
    BY <1>10 DEF BeginPrefix
  <2>2. cut \in 1..Len(Context(log)) /\ Len(Context(log)) \in Nat
    BY <1>1, CutInside, CountedSources
  <2>3. 0 \in 0..Len(Context(log)) /\ cut \in 0..Len(Context(log)) /\ 0 < cut
    BY <2>2
  <2> QED BY <2>1, <2>3, BeginRead
<1>11. CASE BeginRegion
  <2>1. PICK start \in 0..Len(Context(log)), cut \in 0..Len(Context(log)) :
           start < cut /\ Begin(start, cut, "idle")
    BY <1>11 DEF BeginRegion
  <2> QED BY <2>1, BeginRead
<1>12. CASE Commit
  <2> DEFINE e == [kind |-> "checkpoint", replaces |-> span.replaces, told |-> span.told,
                   started |-> span.started]
  <2>1. log' = log \o <<e>> /\ at = "folding" /\ at' = "folded"
    BY <1>12 DEF Commit, Write
  <2>2. e.replaces \subseteq 1..Len(log) /\ e.told \subseteq 1..Len(log)
    BY <1>1, <2>1 DEF FoldedInv, ReadInv, Unfolded
  <2>3. e.started # 0
    <3>1. span.started \in Unfinished
      BY <2>1 DEF SpansInv, OpenInv
    <3> QED BY <1>1, <3>1 DEF Unfinished, Started, Of
  <2> HIDE DEF e
  <2>4. ReadLog(log')
    BY <1>1, <2>1, <2>2, <2>3, OneMore, GrownRead
  <2> QED BY <2>1, <2>4 DEF ReadInv
<1>13. CASE Compact
  <2>1. PICK cut \in 0..Len(log) :
           log' = log \o <<[kind |-> "checkpoint", replaces |-> Foldable(cut),
                            told |-> Read(cut), started |-> 0]>>
    BY <1>13 DEF Compact, Write, TurnCuts
  <2> DEFINE e == [kind |-> "checkpoint", replaces |-> Foldable(cut), told |-> Read(cut),
                   started |-> 0]
  <2>2. log' = log \o <<e>> /\ e.replaces = Foldable(cut) /\ e.told = Read(cut)
    BY <2>1
  <2> HIDE DEF e
  <2>3. /\ e.told \subseteq 1..Len(log) /\ e.replaces \subseteq 1..Len(log)
        /\ e.replaces \cap (Said(log) \cup Of(log, "checkpoint")) \subseteq e.told
    BY <2>2, CompactReads DEF Checkpoints
  <2>4. ReadLog(log')
    BY <1>1, <2>2, <2>3, OneMore, GrownRead
  <2>5. at' # "folding"
    BY <1>13 DEF Compact
  <2> QED BY <2>4, <2>5 DEF ReadInv
<1>14. CASE Finish
  <2> DEFINE e == [kind |-> "finished", of |-> span.started, committed |-> at = "folded"]
  <2>1. log' = log \o <<e>> /\ at' = span.back /\ at \in {"folding", "folded"}
    BY <1>14 DEF Finish, Write
  <2>2. e.kind # "checkpoint"
    OBVIOUS
  <2>3. at' # "folding"
    BY <2>1 DEF SpansInv, OpenInv
  <2> HIDE DEF e
  <2> QED BY <1>2, <2>1, <2>2, <2>3
<1>15. CASE Recover
  <2>1. at' # "folding" /\ \E s \in Unfinished, b \in {TRUE, FALSE} :
           log' = log \o <<[kind |-> "finished", of |-> s, committed |-> b]>>
    BY <1>15 DEF Recover, Write
  <2> QED BY <1>2, <2>1
<1>16. CASE UNCHANGED foldVars
  BY <1>16 DEF foldVars, ReadInv
<1> QED BY <1>3, <1>4, <1>5, <1>6, <1>7, <1>8, <1>9, <1>10, <1>11, <1>12, <1>13, <1>14, <1>15,
           <1>16 DEF FoldNext

(* A summary is made from what precedes it, that of /compact from every      *)
(* message and summary it folds (compact, reduce_cached).                    *)
THEOREM ReadInvariance == FoldSpec => []ReadInv
<1>1. SpansInv /\ FoldedInv /\ ReadInv /\ [FoldNext]_foldVars => ReadInv'
  BY NextRead
<1> QED BY <1>1, InitRead, SpansInvariance, FoldedInvariance, PTL DEF FoldSpec

(* Where the reductions folded what they read, every message is shown to the *)
(* model or was read by a summary that is ("Direct sources only: what the    *)
(* model saw in the span", compaction.rs:592): /compact loses none.          *)
THEOREM NoneForgotten == FoldSpec => []NothingForgottenInPlace
BY ReadsInPlace, ReadInvariance, SpansInvariance, FoldedInvariance, PTL
=============================================================================
