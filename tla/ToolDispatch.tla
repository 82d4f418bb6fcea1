---------------------------- MODULE ToolDispatch ----------------------------
(* One block of tool calls (crates/rness-engine/src/tools/mod.rs) and the    *)
(* approval seam it goes through (approval.rs).  Calls are cut into batches, *)
(* a batch is spawned on a semaphore, and every task goes through            *)
(*   permit, pre_tool, [ask], guard, policy, body, post_tool                 *)
(* while the turn may be cancelled and the policy may change at any moment.  *)
EXTENDS Integers, Sequences, FiniteSets

CONSTANTS
    Count,          \* calls in the block, in the model's order
    Safe,           \* calls whose tool says concurrency_safe when the batch is cut
    Unknown,        \* calls that name no exposed tool
    Sensitive,      \* calls of a sensitive tool
    Rule,           \* call -> the user's rule for its tool, or "none"
    Hooks,          \* whether tool hooks are installed
    Speaking,       \* calls whose post hook leaves a context
    MaxConcurrency,
    MaxPolicies     \* bound: changes of the policy

Policy == {"allow", "ask", "never"}

ASSUME CallCount == Count \in Nat /\ Safe \subseteq 1..Count
ASSUME CallKinds == Unknown \subseteq 1..Count /\ Safe \cap Unknown = {} 
ASSUME CallHooks == Sensitive \subseteq 1..Count /\ Speaking \subseteq 1..Count
ASSUME CallRules == Rule \in [1..Count -> Policy \cup {"none"}]
ASSUME Limits == MaxConcurrency \in Nat \ {0} /\ MaxPolicies \in Nat /\ Hooks \in BOOLEAN

Call == 1..Count

(* Where a task is while it holds a permit for the tool.                     *)
Gated == {"pre", "asking", "guard", "check", "deciding", "ready", "body"}

VARIABLES
    first, last,    \* the batch that is dispatched
    stage,          \* call -> where its task is
    permit,         \* calls that hold a permit of the batch's semaphore
    asked,          \* calls a hook wanted the user to approve
    results,        \* results collected, by call
    contexts,       \* calls whose post hook left a context, in order of arrival
    policy,         \* the global policy; answerer: whether one is mounted
    answerer,
    policies,
    cancelled

task == <<stage, permit, asked>>
batch == <<first, last, results>>
approvals == <<policy, answerer, policies>>
vars == <<batch, task, contexts, approvals, cancelled>>

Init ==
    /\ first = 1 /\ last = 0
    /\ stage = [c \in Call |-> "waiting"]
    /\ permit = {} /\ asked = {}
    /\ results = <<>> /\ contexts = <<>>
    /\ policy \in Policy /\ answerer \in BOOLEAN /\ policies = 0
    /\ cancelled = FALSE

Go(c, where) == stage' = [stage EXCEPT ![c] = where]
-----------------------------------------------------------------------------
(* dispatch_exposed: batches.                                                *)

Batch == first..last

(* The longest run of safe calls, or one other call.                         *)
Run(f, l) ==
    /\ l \in f..Count
    /\ l = f \/ f..l \subseteq Safe
    /\ f \in Safe => l + 1 \notin Safe

(* Every call of the batch becomes a task.                                   *)
Cut ==
    /\ first <= Count /\ last < first
    /\ \E l \in Call : Run(first, l) /\ last' = l
    /\ stage' = [c \in Call |-> IF c \in first..last' THEN "queued" ELSE stage[c]]
    /\ UNCHANGED <<first, permit, asked, results, contexts, approvals, cancelled>>

(* Bug: results are collected as the tasks finish.                           *)
CollectAny ==
    /\ last >= first
    /\ \E c \in Batch :
           /\ stage[c] = "done" /\ \A i \in DOMAIN results : results[i] # c
           /\ results' = Append(results, c)
    /\ IF Len(results') = last THEN first' = last + 1 ELSE UNCHANGED first
    /\ UNCHANGED <<last, task, contexts, approvals, cancelled>>

(* The handles are awaited in model order.                                   *)
Collect ==
    /\ last >= first
    /\ LET c == Len(results) + 1
       IN  /\ stage[c] = "done"
           /\ results' = Append(results, c)
           /\ IF c = last THEN first' = last + 1 ELSE UNCHANGED first
    /\ UNCHANGED <<last, task, contexts, approvals, cancelled>>
-----------------------------------------------------------------------------
(* dispatch_batch: one task.                                                 *)

Done(c) == Go(c, "done") /\ permit' = permit \ {c}

(* Denials, cancellations and executions reach post_tool.                    *)
Settle(c) == IF Hooks THEN Go(c, "post") /\ UNCHANGED permit ELSE Done(c)

Free == Cardinality(permit) < MaxConcurrency

(* Bug: the semaphore admits one call too many.                              *)
AcquireExtra(c) ==
    /\ stage[c] = "queued" /\ Cardinality(permit) <= MaxConcurrency /\ ~cancelled
    /\ c \notin Unknown
    /\ permit' = permit \cup {c}
    /\ Go(c, IF Hooks THEN "pre" ELSE "check")
    /\ UNCHANGED asked

(* biased: a free permit goes first, then cancellation is looked at.         *)
Acquire(c) ==
    /\ stage[c] = "queued" /\ Free /\ ~cancelled /\ c \notin Unknown
    /\ permit' = permit \cup {c}
    /\ Go(c, IF Hooks THEN "pre" ELSE "check")
    /\ UNCHANGED asked

AcquireUnknown(c) ==
    /\ stage[c] = "queued" /\ Free /\ ~cancelled /\ c \in Unknown
    /\ Done(c)
    /\ UNCHANGED asked

(* A permit that is free is taken even so, and held while post_tool runs.    *)
QueuedCancelled(c) ==
    /\ stage[c] = "queued" /\ cancelled
    /\ IF Hooks THEN Go(c, "post") ELSE Go(c, "done")
    /\ permit' = IF Hooks /\ Free THEN permit \cup {c} ELSE permit
    /\ UNCHANGED asked

(* allow, ask, deny, or a failure, which is final.                           *)
PreTool(c) ==
    /\ stage[c] = "pre"
    /\ \/ Go(c, "guard") /\ UNCHANGED <<permit, asked>>
       \/ Go(c, "asking") /\ asked' = asked \cup {c} /\ UNCHANGED permit
       \/ Settle(c) /\ UNCHANGED asked
       \/ ~cancelled /\ Done(c) /\ UNCHANGED asked

(* What the rules and the policy say now.  A hook asks even under allow.     *)
Effective(c) ==
    IF c \in asked THEN IF "never" \in {policy, Rule[c]} THEN "never" ELSE "ask"
    ELSE IF Rule[c] # "none" THEN Rule[c]
    ELSE IF c \in Sensitive THEN policy ELSE "allow"

(* An open question waits for the answerer.                                  *)
Decide(c, granted, open) ==
    \/ Effective(c) = "allow" /\ Go(c, granted) /\ UNCHANGED permit
    \/ Effective(c) = "never" /\ Settle(c)
    \/ Effective(c) = "ask" /\ ~answerer /\ Settle(c)
    \/ Effective(c) = "ask" /\ answerer /\ Go(c, open) /\ UNCHANGED permit

(* A hook asked: its question comes before the guard and stands for the      *)
(* policy check after it.                                                    *)
Ask(c) == stage[c] = "asking" /\ Decide(c, "guard", "deciding") /\ UNCHANGED asked
Check(c) ==
    /\ stage[c] = "check"
    /\ IF c \in asked THEN Go(c, "ready") /\ UNCHANGED permit
                      ELSE Decide(c, "ready", "deciding")
    /\ UNCHANGED asked

Answer(c) ==
    /\ stage[c] = "deciding"
    /\ \/ Go(c, IF c \in asked THEN "guard" ELSE "ready") /\ UNCHANGED permit
       \/ Settle(c)
    /\ UNCHANGED asked

(* The gate is left at any await but the guard's.                            *)
GateCancelled(c) ==
    /\ cancelled /\ stage[c] \in {"pre", "asking", "check", "deciding", "ready"}
    /\ Settle(c)
    /\ UNCHANGED asked

Guard(c) ==
    /\ stage[c] = "guard"
    /\ \/ Go(c, "check") /\ UNCHANGED permit
       \/ Settle(c)
    /\ UNCHANGED asked

Execute(c) ==
    /\ stage[c] = "ready" /\ ~cancelled
    /\ Go(c, "body")
    /\ UNCHANGED <<permit, asked>>

BodyEnds(c) ==
    /\ stage[c] = "body"
    /\ Settle(c)
    /\ UNCHANGED asked

(* Bug: a cancelled body is waited for.                                      *)
AwaitBody(c) == FALSE /\ UNCHANGED task

(* CANCEL_GRACE after the cancel the body is dropped.                        *)
Abandon(c) ==
    /\ stage[c] = "body" /\ cancelled
    /\ Settle(c)
    /\ UNCHANGED asked

PostTool(c) ==
    /\ stage[c] = "post"
    /\ Done(c)
    /\ contexts' = IF c \in Speaking THEN Append(contexts, c) ELSE contexts
    /\ UNCHANGED asked

PostAbandoned(c) ==
    /\ stage[c] = "post" /\ cancelled
    /\ Done(c)
    /\ UNCHANGED asked
-----------------------------------------------------------------------------
SetPolicy ==
    /\ policies < MaxPolicies /\ policies' = policies + 1
    /\ policy' \in Policy \ {policy}
    /\ UNCHANGED <<batch, task, contexts, answerer, cancelled>>

Cancel ==
    /\ ~cancelled /\ cancelled' = TRUE
    /\ UNCHANGED <<batch, task, contexts, approvals>>

Gate(c) ==
    \/ Acquire(c) \/ AcquireUnknown(c) \/ QueuedCancelled(c)
    \/ Ask(c) \/ Check(c) \/ GateCancelled(c) \/ Guard(c) \/ Execute(c)
    \/ Abandon(c)
Task(c) ==
    /\ Gate(c) \/ PreTool(c) \/ Answer(c) \/ BodyEnds(c) \/ PostAbandoned(c)
    /\ UNCHANGED contexts
Step(c) ==
    /\ Task(c) \/ PostTool(c)
    /\ UNCHANGED <<batch, approvals, cancelled>>

Next == Cut \/ Collect \/ SetPolicy \/ Cancel \/ \E c \in Call : Step(c)

Spec == Init /\ [][Next]_vars

(* Hooks, the user and the tools answer when they like, the guard within     *)
(* its host's timeout.                                                       *)
FairSpec ==
    /\ Spec
    /\ WF_vars(Cut) /\ WF_vars(Collect)
    /\ \A c \in Call : WF_vars((Gate(c) \/ PostAbandoned(c)) /\ Step(c))
-----------------------------------------------------------------------------
(* Properties.                                                               *)

TypeOK ==
    /\ first \in 1..(Count + 1) /\ last \in 0..Count
    /\ stage \in [Call -> Gated \cup {"waiting", "queued", "post", "done"}]
    /\ permit \subseteq Call /\ asked \subseteq Call
    /\ results \in Seq(Call) /\ contexts \in Seq(Call)
    /\ policy \in Policy /\ answerer \in BOOLEAN /\ cancelled \in BOOLEAN

Phase(s) == CASE s = "body" -> "running" [] s \in {"post", "done"} -> "over" [] OTHER -> "waiting"

Schedule == INSTANCE CallSchedule WITH
    phase <- [c \in Call |-> Phase(stage[c])]

(* "Consecutive explicitly concurrency-safe calls overlap; all other calls   *)
(* form exclusive batch-local barriers. Results remain in MODEL ORDER"       *)
(* (tools/mod.rs:3-5), whatever is refused, cancelled or abandoned.          *)
KeepsSchedule == Schedule!Spec

(* "bounded by max_concurrency" (tools/mod.rs:3): bodies never exceed it,    *)
(* although post hooks of cancelled calls run without a permit.              *)
CapHeld == Cardinality({c \in Call : stage[c] = "body"}) <= MaxConcurrency

(* "Drain post_tool additional contexts [...] in dispatch (model) order"     *)
(* (tools/mod.rs:729).                                                       *)
ContextsInOrder == \A i, k \in DOMAIN contexts : i < k => contexts[i] < contexts[k]

(* What KeepsSchedule and CapHeld rest on: the results collected end in the  *)
(* batch, what is before them is done and what is behind the batch waits; a  *)
(* batch of several calls is of safe ones; gated calls have a permit.        *)
BatchInv ==
    /\ Len(results) \in (first - 1)..last
    /\ last < first => last = first - 1
    /\ last >= first => Len(results) < last
    /\ first < last => Batch \subseteq Safe
    /\ \A c \in 1..Len(results) : stage[c] = "done"
    /\ \A c \in Call : c > last <=> stage[c] = "waiting"

PermitInv ==
    /\ Cardinality(permit) <= MaxConcurrency
    /\ \A c \in Call : stage[c] \in Gated => c \in permit

IInv == TypeOK /\ BatchInv /\ PermitInv

(* A cancelled block ends: neither a question, a hook, a queue nor a tool    *)
(* that never answers keeps its results from being collected.                *)
CancelSettles == cancelled ~> Len(results) = Count
=============================================================================
