---------------------------- MODULE Kernel_proofs ----------------------------
(* Proofs about the kernel, for any set of plugins and services, whatever    *)
(* they inject and offer.  The inductive invariant is Kernel!IInv.           *)
EXTENDS Kernel, NaturalsInduction, WellFoundedInduction, TLAPS

(* While nothing is taken down the stack is empty and the plugins alive are  *)
(* the active ones.                                                          *)
LEMMA NothingStacked ==
    ASSUME StackBase, TypeOK, doing # "unwinding"
    PROVE  stack = <<>> /\ Stacked = {} /\ Alive = Active
BY DEF StackBase, TypeOK, Stacked, Alive

(* A plugin that is neither active nor stacked provides nothing.             *)
LEMMA DeadProvideNothing ==
    ASSUME TypeOK, OwnersAlive, NEW p \in Plugin, p \notin Alive
    PROVE  Provided(p) = {}
BY KernelAssumption DEF OwnersAlive, Provided, TypeOK

(* A sequence without its last element.                                      *)
LEMMA ButLast ==
    ASSUME NEW S, NEW f \in Seq(S), NEW n \in 0..Len(f)
    PROVE  /\ SubSeq(f, 1, n) \in Seq(S) /\ Len(SubSeq(f, 1, n)) = n
           /\ \A i \in 1..n : SubSeq(f, 1, n)[i] = f[i]
OBVIOUS

(* The stack has no plugin twice: without the innermost one it is the rest.  *)
LEMMA Popped ==
    ASSUME TypeOK, StackOrdered, stack # <<>>,
           NEW rest, rest = SubSeq(stack, 1, Len(stack) - 1)
    PROVE  /\ Len(stack) \in Nat \ {0} /\ Top \in Plugin /\ Top \in Stacked
           /\ status[Top] = "Waiting"
           /\ rest \in Seq(Plugin) /\ Len(rest) = Len(stack) - 1
           /\ \A i \in 1..Len(rest) : rest[i] = stack[i]
           /\ {rest[i] : i \in 1..Len(rest)} = Stacked \ {Top}
           /\ \A q \in Stacked \ {Top} : since[q] < since[Top]
<1>1. stack \in Seq(Plugin) /\ Len(stack) \in Nat \ {0}
  BY DEF TypeOK
<1>2. Top \in Plugin /\ Top \in Stacked /\ status[Top] = "Waiting"
  BY <1>1 DEF Top, Stacked, StackOrdered
<1>3. Len(stack) - 1 \in 0..Len(stack)
  BY <1>1
<1>4. rest \in Seq(Plugin) /\ Len(rest) = Len(stack) - 1
  BY <1>1, <1>3, ButLast
<1>5. \A i \in 1..Len(rest) : rest[i] = stack[i]
  BY <1>1, <1>3, <1>4, ButLast
<1>6. \A i \in 1..Len(rest) : since[stack[i]] < since[Top]
  BY <1>1, <1>4 DEF StackOrdered, Top
<1>7. \A i \in 1..Len(rest) : stack[i] # Top
  BY <1>1, <1>2, <1>4, <1>6 DEF TypeOK
<1>8. Stacked = {rest[i] : i \in 1..Len(rest)} \cup {Top}
  BY <1>1, <1>4, <1>5 DEF Stacked, Top
<1>9. \A q \in Stacked \ {Top} : \E i \in 1..Len(rest) : q = stack[i]
  BY <1>5, <1>8
<1>10. Top \notin {rest[i] : i \in 1..Len(rest)}
  BY <1>5, <1>7
<1> QED
  BY <1>1, <1>2, <1>4, <1>5, <1>6, <1>8, <1>9, <1>10

(* The initial states satisfy the invariant: nothing is mounted.             *)
LEMMA InitInv == Init => IInv
<1> SUFFICES ASSUME Init PROVE IInv
  OBVIOUS
<1> USE DEF Init
<1>1. TypeOK
  <2>1. operation \in {"none", "mount", "unmount", "reload"} \X (Plugin \cup {None})
    OBVIOUS
  <2>2. stack \in Seq(Plugin) /\ todo \subseteq Plugin /\ before \subseteq Plugin
    OBVIOUS
  <2>3. progressed \in BOOLEAN /\ hiccup \in BOOLEAN
    OBVIOUS
  <2> QED
    BY <2>1, <2>2, <2>3 DEF TypeOK
<1>2. Stacked = {} /\ Active = {} /\ Alive = {}
  BY DEF Stacked, Active, Alive
<1>3. OwnersAlive
  BY DEF OwnersAlive
<1>4. AliveGrounded /\ AliveOffers
  BY <1>2 DEF AliveGrounded, AliveOffers
<1>5. StackOrdered /\ StackBase
  BY DEF StackOrdered, StackBase
<1>6. Clocked /\ Passed
  BY DEF Clocked, Passed, Fixpoint, Due
<1> QED
  BY <1>1, <1>3, <1>4, <1>5, <1>6 DEF IInv

(* What depends on the registry and the stack only survives a step that      *)
(* leaves them and the plugins alive alone.                                  *)
LEMMA SameAlive ==
    ASSUME TypeOK, OwnersAlive, AliveGrounded, AliveOffers, Alive' = Alive,
           UNCHANGED <<owner, since>>
    PROVE  OwnersAlive' /\ AliveGrounded' /\ AliveOffers'
<1>1. OwnersAlive'
  BY DEF OwnersAlive
<1>2. AliveGrounded'
  BY DEF AliveGrounded
<1>3. AliveOffers'
  BY DEF AliveOffers, Provided
<1> QED
  BY <1>1, <1>2, <1>3

(* A plugin that settle has not put on its list is not due: it is absent.    *)
LEMMA SettlePasses ==
    ASSUME Settle, status' \in [Plugin -> {"absent", "Waiting", "Active", "Failed"}]
    PROVE  Passed'
BY DEF Settle, Passed, Fixpoint, Due

(* mount keeps the invariant.                                                *)
LEMMA MountKeeps ==
    ASSUME IInv, NEW p \in Plugin, Mount(p)
    PROVE  IInv'
<1> USE DEF Mount, Begin, past
<1>1. TypeOK /\ doing = "resting" /\ stack = <<>> /\ Alive = Active
  BY NothingStacked DEF IInv
<1>2. TypeOK'
  BY <1>1 DEF TypeOK, Settle, Active
<1>3. Active' = Active /\ Stacked' = {} /\ Alive' = Alive
  BY <1>1 DEF Active, Stacked, Alive, Mounted, TypeOK
<1>4. OwnersAlive' /\ AliveGrounded' /\ AliveOffers'
  BY <1>1, <1>3, SameAlive DEF IInv
<1>5. StackOrdered' /\ StackBase'
  BY <1>1 DEF StackOrdered, StackBase, Settle
<1>6. Clocked'
  BY DEF IInv, Clocked
<1>7. Passed'
  BY <1>2, SettlePasses DEF TypeOK
<1> QED
  BY <1>2, <1>4, <1>5, <1>6, <1>7 DEF IInv

(* So does the start of unmount or reload.                                   *)
LEMMA TakeDownKeeps ==
    ASSUME IInv, NEW p \in Plugin, NEW op \in {"unmount", "reload"}, TakeDown(op, p)
    PROVE  IInv'
<1> USE DEF TakeDown, Begin, past
<1>1. TypeOK /\ doing = "resting" /\ stack = <<>> /\ Alive = Active
  BY NothingStacked DEF IInv
<1>2. Clocked'
  BY DEF IInv, Clocked
<1>3. CASE p \in Active
  <2>1. /\ status' = [status EXCEPT ![p] = "Waiting"] /\ stack' = <<p>>
        /\ doing' = "unwinding" /\ UNCHANGED loop
    BY <1>3
  <2>2. TypeOK'
    <3>1. stack' \in Seq(Plugin)
      BY <2>1
    <3>2. operation' \in {"none", "mount", "unmount", "reload"} \X (Plugin \cup {None})
      OBVIOUS
    <3>3. before' \subseteq Plugin /\ hiccup' \in BOOLEAN
      BY DEF Active
    <3>4. progressed' \in BOOLEAN /\ todo' \subseteq Plugin
      BY <1>1, <2>1 DEF TypeOK, loop
    <3> QED
      BY <1>1, <2>1, <3>1, <3>2, <3>3, <3>4 DEF TypeOK
  <2>3. Active' = Active \ {p}
    BY <1>1, <2>1 DEF Active, TypeOK
  <2>4. Stacked' = {p}
    BY <2>1 DEF Stacked
  <2>5. Alive' = Alive
    BY <1>1, <1>3, <2>3, <2>4 DEF Alive
  <2>6. OwnersAlive' /\ AliveGrounded' /\ AliveOffers'
    BY <1>1, <2>5, SameAlive DEF IInv
  <2>7. StackOrdered' /\ StackBase'
    BY <1>1, <2>1 DEF StackOrdered, StackBase, TypeOK
  <2>8. Passed'
    BY <2>1 DEF Passed, Fixpoint
  <2> QED
    BY <1>2, <2>2, <2>6, <2>7, <2>8 DEF IInv
<1>4. CASE p \notin Active
  <2>1. status' = [status EXCEPT ![p] = Left(op)] /\ Settle /\ UNCHANGED stack
    BY <1>4
  <2>2. TypeOK'
    BY <1>1, <2>1 DEF TypeOK, Active, Left, Settle
  <2>3. Active' = Active
    BY <1>1, <1>4, <2>1 DEF Active, TypeOK, Left
  <2>4. Alive' = Alive
    BY <1>1, <2>1, <2>3 DEF Alive, Stacked
  <2>5. OwnersAlive' /\ AliveGrounded' /\ AliveOffers'
    BY <1>1, <2>4, SameAlive DEF IInv
  <2>6. StackOrdered' /\ StackBase'
    BY <1>1, <2>1 DEF StackOrdered, StackBase, Settle
  <2>7. Passed'
    BY <2>1, <2>2, SettlePasses DEF TypeOK
  <2> QED
    BY <1>2, <2>2, <2>5, <2>6, <2>7 DEF IInv
<1> QED
  BY <1>3, <1>4

(* A consumer goes on the stack: it was activated after the provider it      *)
(* injects from, so the stack stays ordered.                                 *)
LEMMA CascadeKeeps ==
    ASSUME IInv, NEW c \in Plugin, Cascade(c)
    PROVE  IInv'
<1> USE DEF Cascade, loop, past, began
<1>1. TypeOK /\ stack # <<>> /\ doing = "unwinding"
  BY DEF IInv, StackBase
<1>2. stack \in Seq(Plugin) /\ Len(stack) \in Nat \ {0} /\ Top \in Plugin /\ Top \in Stacked
  <2>1. stack \in Seq(Plugin)
    BY <1>1 DEF TypeOK
  <2>2. Len(stack) \in Nat /\ Len(stack) # 0
    BY <1>1, <2>1
  <2>3. Top \in Plugin
    BY <2>1, <2>2 DEF Top
  <2>4. Top \in Stacked
    BY <2>1, <2>2 DEF Top, Stacked
  <2> QED
    BY <2>1, <2>2, <2>3, <2>4
<1>3. c \in Active /\ status[c] = "Active"
  BY DEF ConsumerOf, Active
<1>4. TypeOK'
  BY <1>1 DEF TypeOK
<1>5. /\ Len(stack') = Len(stack) + 1
      /\ stack'[Len(stack) + 1] = c
      /\ \A i \in 1..Len(stack) : stack'[i] = stack[i]
  BY <1>2
<1>6. Active' = Active \ {c}
  BY <1>1 DEF Active, TypeOK
<1>7. Stacked' = Stacked \cup {c}
  BY <1>2, <1>5 DEF Stacked
<1>8. Alive' = Alive
  BY <1>3, <1>6, <1>7 DEF Alive
<1>9. OwnersAlive' /\ AliveGrounded' /\ AliveOffers'
  BY <1>1, <1>8, SameAlive DEF IInv
<1>10. since[Top] < since[c]
  <2>1. PICK s \in Injects[c] : owner[s] = Top
    BY DEF ConsumerOf, Provided
  <2> QED
    BY <1>3, <2>1 DEF IInv, AliveGrounded, Alive
<1>11. \A i \in 1..Len(stack) : since[stack[i]] \in Nat /\ since[stack[i]] < since[c]
  <2> TAKE i \in 1..Len(stack)
  <2>1. stack[i] \in Plugin /\ since[stack[i]] \in Nat /\ since[Top] \in Nat /\ since[c] \in Nat
    BY <1>1, <1>2 DEF TypeOK
  <2>2. i = Len(stack) \/ since[stack[i]] < since[Top]
    BY <1>2 DEF IInv, StackOrdered, Top
  <2> QED
    BY <1>10, <2>1, <2>2 DEF Top
<1>12. \A i \in 1..Len(stack') : status'[stack'[i]] = "Waiting"
  <2> TAKE i \in 1..Len(stack')
  <2>1. CASE i = Len(stack) + 1
    BY <1>1, <1>5, <2>1 DEF TypeOK
  <2>2. CASE i \in 1..Len(stack)
    <3>1. status[stack[i]] = "Waiting" /\ stack[i] \in Plugin
      BY <1>2, <2>2 DEF IInv, StackOrdered
    <3> QED
      BY <1>1, <1>3, <1>5, <2>2, <3>1 DEF TypeOK
  <2> QED
    BY <1>2, <1>5, <2>1, <2>2
<1>13. \A i, j \in 1..Len(stack') : i < j => since'[stack'[i]] < since'[stack'[j]]
  <2> SUFFICES ASSUME NEW i \in 1..Len(stack'), NEW j \in 1..Len(stack'), i < j
               PROVE  since[stack'[i]] < since[stack'[j]]
    OBVIOUS
  <2>1. i \in 1..Len(stack) /\ (j \in 1..Len(stack) \/ j = Len(stack) + 1)
    BY <1>2, <1>5
  <2>2. j \in 1..Len(stack) => since[stack[i]] < since[stack[j]]
    BY <2>1 DEF IInv, StackOrdered
  <2> QED
    BY <1>5, <1>11, <2>1, <2>2
<1>14. StackOrdered'
  BY <1>12, <1>13 DEF StackOrdered
<1>15. StackBase'
  BY <1>1, <1>2, <1>5 DEF IInv, StackBase
<1>16. Clocked' /\ Passed'
  BY <1>1 DEF IInv, Clocked, Passed, Fixpoint
<1> QED
  BY <1>4, <1>9, <1>14, <1>15, <1>16 DEF IInv

(* The disposers of the innermost plugin run: no plugin left alive injects   *)
(* from it, the active ones because they have all been stacked, the stacked  *)
(* ones because they are older.                                              *)
LEMMA DisposeKeeps ==
    ASSUME IInv, Dispose
    PROVE  IInv'
<1> USE DEF Dispose, past, began
<1>1. TypeOK /\ StackOrdered /\ stack # <<>> /\ doing = "unwinding"
  BY DEF IInv, StackBase
<1>2. /\ Len(stack) \in Nat \ {0} /\ Top \in Plugin /\ Top \in Stacked
      /\ status[Top] = "Waiting"
      /\ stack' \in Seq(Plugin) /\ Len(stack') = Len(stack) - 1
      /\ \A i \in 1..Len(stack') : stack'[i] = stack[i]
      /\ Stacked' = Stacked \ {Top}
      /\ \A q \in Stacked \ {Top} : since[q] < since[Top]
  <2> HIDE DEF Dispose
  <2>1. stack' = SubSeq(stack, 1, Len(stack) - 1)
    BY DEF Dispose
  <2>2. /\ Len(stack) \in Nat \ {0} /\ Top \in Plugin /\ Top \in Stacked
        /\ status[Top] = "Waiting"
        /\ stack' \in Seq(Plugin) /\ Len(stack') = Len(stack) - 1
        /\ \A i \in 1..Len(stack') : stack'[i] = stack[i]
        /\ {stack'[i] : i \in 1..Len(stack')} = Stacked \ {Top}
        /\ \A q \in Stacked \ {Top} : since[q] < since[Top]
    BY <1>1, <2>1, Popped, ZenonT(60)
  <2>3. Stacked' = {stack'[i] : i \in 1..Len(stack')}
    BY DEF Stacked
  <2> QED
    BY <2>2, <2>3
<1>3. \/ Len(stack) > 1 /\ UNCHANGED <<status, doing, loop>>
      \/ /\ Len(stack) = 1 /\ operation[2] = Top /\ operation[1] \in {"unmount", "reload"}
         /\ status' = [status EXCEPT ![Top] = Left(operation[1])] /\ Settle
  BY <1>1 DEF IInv, StackBase, Top
<1>4. TypeOK'
  <2>1. owner' \in [Service -> Plugin \cup {None}]
    BY <1>1 DEF TypeOK
  <2>2. status' \in [Plugin -> {"absent", "Waiting", "Active", "Failed"}]
    BY <1>1, <1>2, <1>3 DEF TypeOK, Left
  <2>3. doing' \in {"resting", "unwinding", "settling"} /\ todo' \subseteq Plugin
    BY <1>1, <1>3 DEF TypeOK, Settle, loop
  <2>4. progressed' \in BOOLEAN
    BY <1>1, <1>3 DEF TypeOK, Settle, loop
  <2> QED
    BY <1>1, <1>2, <2>1, <2>2, <2>3, <2>4 DEF TypeOK
<1>5. Active' = Active
  BY <1>1, <1>2, <1>3 DEF Active, TypeOK, Left
<1>6. Top \notin Active
  BY <1>2 DEF Active
<1>7. Alive' = Alive \ {Top} /\ Top \in Alive
  BY <1>2, <1>5, <1>6 DEF Alive
<1>8. OwnersAlive'
  BY <1>1, <1>7 DEF IInv, OwnersAlive, TypeOK
<1>9. \A q \in Alive' : \A s \in Injects[q] : owner[s] # Top
  <2> SUFFICES ASSUME NEW q \in Alive', NEW s \in Injects[q], owner[s] = Top
               PROVE  FALSE
    OBVIOUS
  <2>1. q \in Plugin /\ s \in Service /\ since[q] \in Nat /\ since[Top] \in Nat
    BY <1>1, <1>2, <1>7, KernelAssumption DEF TypeOK, Alive, Active, Stacked
  <2>2. CASE q \in Active
    BY <2>1, <2>2 DEF ConsumerOf, Provided
  <2>3. CASE q \in Stacked
    <3>1. since[Top] < since[q]
      BY <1>7 DEF IInv, AliveGrounded
    <3>2. since[q] < since[Top]
      BY <1>2, <1>7, <2>3
    <3> QED
      BY <2>1, <3>1, <3>2
  <2> QED
    BY <1>7, <2>2, <2>3 DEF Alive
<1>10. AliveGrounded'
  <2> SUFFICES ASSUME NEW q \in Alive', NEW s \in Injects[q]
               PROVE  owner'[s] # None /\ since'[owner'[s]] < since'[q]
    BY DEF AliveGrounded
  <2>1. q \in Plugin /\ s \in Service
    BY <1>1, <1>7, KernelAssumption DEF TypeOK, Alive, Active, Stacked
  <2>2. owner'[s] = owner[s]
    BY <1>9, <2>1
  <2> QED
    BY <1>7, <2>2 DEF IInv, AliveGrounded
<1>11. AliveOffers'
  <2> SUFFICES ASSUME NEW q \in Alive' PROVE Offers[q] = Provided(q)'
    BY DEF AliveOffers
  <2>1. q \in Plugin /\ q # Top /\ q \in Alive
    BY <1>1, <1>7 DEF TypeOK, Alive, Active, Stacked
  <2>2. Provided(q)' = Provided(q)
    BY <2>1, KernelAssumption DEF Provided
  <2> QED
    BY <2>1, <2>2 DEF IInv, AliveOffers
<1>12. StackOrdered'
  <2>1. \A i \in 1..Len(stack') : i \in 1..Len(stack)
    BY <1>2
  <2>2. \A i \in 1..Len(stack') : status'[stack'[i]] = "Waiting"
    BY <1>1, <1>2, <1>3, <2>1 DEF StackOrdered
  <2>3. \A i, j \in 1..Len(stack') : i < j => since'[stack'[i]] < since'[stack'[j]]
    BY <1>1, <1>2, <2>1 DEF StackOrdered
  <2> QED
    BY <2>2, <2>3 DEF StackOrdered
<1>13. StackBase'
  <2>1. CASE Len(stack) > 1
    <3> HIDE DEF Dispose
    <3>1. stack'[1] = stack[1]
      BY <1>2, <2>1
    <3>4. doing' = doing
      BY <1>2, <1>3, <2>1
    <3>2. Len(stack') # 0
      BY <1>2, <2>1
    <3>3. stack' # <<>>
      BY <3>2
    <3> QED
      BY <1>1, <1>3, <2>1, <3>1, <3>4, <3>3 DEF IInv, StackBase, Dispose
  <2>2. CASE Len(stack) = 1
    <3>1. stack' = <<>> /\ doing' = "settling"
      BY <1>2, <1>3, <2>2 DEF Settle
    <3> QED
      BY <3>1 DEF StackBase
  <2> QED
    BY <1>3, <2>1, <2>2
<1>14. Clocked'
  BY DEF IInv, Clocked
<1>15. Passed'
  <2>1. CASE Settle
    BY <1>4, <2>1, SettlePasses DEF TypeOK
  <2>2. CASE doing' = "unwinding"
    BY <2>2 DEF Passed, Fixpoint
  <2> QED
    BY <1>1, <1>3, <2>1, <2>2
<1> QED
  BY <1>4, <1>8, <1>10, <1>11, <1>12, <1>13, <1>14, <1>15 DEF IInv

(* A plugin looked at and left alone.                                        *)
LEMMA SkipKeeps ==
    ASSUME IInv, NEW p \in Plugin, Skip(p)
    PROVE  IInv'
<1> USE DEF Skip, Look, registry, past, began
<1>1. TypeOK'
  BY DEF IInv, TypeOK
<1>2. Alive' = Alive
  BY DEF Alive, Active, Stacked
<1>3. OwnersAlive' /\ AliveGrounded' /\ AliveOffers'
  BY <1>2, SameAlive DEF IInv
<1>4. StackOrdered' /\ StackBase' /\ Clocked'
  BY DEF IInv, StackOrdered, StackBase, Clocked
<1>5. Passed'
  BY DEF IInv, Passed, Fixpoint, Due, Satisfied, Registered
<1> QED
  BY <1>1, <1>3, <1>4, <1>5 DEF IInv

(* A plugin is activated: nobody provided what it offers, and it is younger  *)
(* than all it injects from.                                                 *)
LEMMA ApplyKeeps ==
    ASSUME IInv, NEW p \in Plugin, Apply(p)
    PROVE  IInv'
<1> USE DEF Apply, Look, began
<1>1. TypeOK /\ doing = "settling" /\ stack = <<>> /\ Alive = Active
  BY NothingStacked DEF IInv
<1>2. status[p] = "Waiting" /\ Satisfied(p) /\ p \notin Alive
  BY <1>1 DEF Due, Active
<1>3. TypeOK'
  BY <1>1 DEF TypeOK
<1>4. Active' = Active \cup {p} /\ Alive' = Alive \cup {p}
  BY <1>1 DEF Active, Alive, Stacked, TypeOK
<1>5. \A s \in Service : owner[s] # None =>
          s \notin Offers[p] /\ owner'[s] = owner[s] /\ owner[s] \in Alive /\ owner[s] # p
  BY <1>1, <1>2 DEF Registered, IInv, OwnersAlive, TypeOK
<1>6. OwnersAlive'
  BY <1>1, <1>4, <1>5 DEF IInv, OwnersAlive, TypeOK
<1>7. AliveGrounded'
  <2> SUFFICES ASSUME NEW q \in Alive', NEW s \in Injects[q]
               PROVE  owner'[s] # None /\ since'[owner'[s]] < since'[q]
    BY DEF AliveGrounded
  <2>1. q \in Plugin /\ s \in Service
    BY <1>1, <1>4, KernelAssumption DEF TypeOK, Active
  <2>2. CASE q = p
    <3>1. owner[s] # None /\ owner[s] \in Plugin
      BY <1>1, <1>2, <2>1, <2>2 DEF Satisfied, Registered, TypeOK
    <3>2. since[owner[s]] \in Nat /\ since[owner[s]] <= clock /\ clock \in Nat
      BY <1>1, <3>1 DEF IInv, Clocked, TypeOK
    <3>3. since'[owner[s]] = since[owner[s]] /\ since'[p] = clock + 1
      BY <1>1, <1>5, <2>1, <3>1 DEF TypeOK
    <3> QED
      BY <1>5, <2>1, <2>2, <3>1, <3>2, <3>3
  <2>3. CASE q # p
    <3>1. owner[s] # None /\ since[owner[s]] < since[q]
      BY <1>4, <2>3 DEF IInv, AliveGrounded
    <3>2. since'[owner[s]] = since[owner[s]] /\ since'[q] = since[q]
      BY <1>1, <1>5, <2>1, <2>3, <3>1 DEF TypeOK
    <3> QED
      BY <1>5, <2>1, <3>1, <3>2
  <2> QED
    BY <2>2, <2>3
<1>8. AliveOffers'
  <2> SUFFICES ASSUME NEW q \in Alive' PROVE Offers[q] = Provided(q)'
    BY DEF AliveOffers
  <2>1. CASE q = p
    <3>1. Provided(p) = {}
      BY <1>1, <1>2, DeadProvideNothing DEF IInv
    <3> QED
      BY <1>1, <2>1, <3>1, KernelAssumption DEF Provided, TypeOK
  <2>2. CASE q # p
    <3>1. Offers[q] = Provided(q) /\ q \in Plugin
      BY <1>1, <1>4, <2>2 DEF IInv, AliveOffers, Active
    <3>2. Provided(q)' = Provided(q)
      BY <1>1, <1>5, <2>2, <3>1, KernelAssumption DEF Provided, TypeOK
    <3> QED
      BY <3>1, <3>2
  <2> QED
    BY <2>1, <2>2
<1>9. StackOrdered' /\ StackBase'
  BY <1>1 DEF StackOrdered, StackBase
<1>10. Clocked'
  BY <1>1 DEF IInv, Clocked, TypeOK
<1>11. Passed'
  BY <1>1 DEF Passed, Fixpoint
<1> QED
  BY <1>3, <1>6, <1>7, <1>8, <1>9, <1>10, <1>11 DEF IInv

(* An apply that fails leaves no trace but the status.                       *)
LEMMA FailedApplyKeeps ==
    ASSUME IInv, NEW p \in Plugin, ApplyFails(p)
    PROVE  IInv'
<1> USE DEF ApplyFails, Look, past
<1>1. TypeOK /\ doing = "settling" /\ stack = <<>> /\ Alive = Active
  BY NothingStacked DEF IInv
<1>2. hiccup' \in BOOLEAN
  BY <1>1 DEF TypeOK
<1>3. TypeOK'
  BY <1>1, <1>2 DEF TypeOK
<1>4. Alive' = Alive
  BY <1>1 DEF Alive, Active, Stacked, Due, TypeOK
<1>5. OwnersAlive' /\ AliveGrounded' /\ AliveOffers'
  BY <1>1, <1>4, SameAlive DEF IInv
<1>6. StackOrdered' /\ StackBase' /\ Clocked'
  BY <1>1 DEF IInv, StackOrdered, StackBase, Clocked
<1>7. Passed'
  BY <1>1 DEF Passed, Fixpoint
<1> QED
  BY <1>3, <1>5, <1>6, <1>7 DEF IInv

(* The end of a pass that activated nothing: no plugin is due.               *)
LEMMA PassEndsKeeps ==
    ASSUME IInv, PassEnds
    PROVE  IInv'
<1> USE DEF PassEnds, registry, past, began
<1>1. TypeOK
  BY DEF IInv
<1>2. TypeOK'
  BY <1>1 DEF TypeOK, Mounted, loop
<1>3. Alive' = Alive
  BY DEF Alive, Active, Stacked
<1>4. OwnersAlive' /\ AliveGrounded' /\ AliveOffers'
  BY <1>3, SameAlive DEF IInv
<1>5. StackOrdered' /\ StackBase' /\ Clocked'
  BY DEF IInv, StackOrdered, StackBase, Clocked
<1>6. \A p \in Plugin : Due(p)' = Due(p)
  BY DEF Due, Satisfied, Registered
<1>7. Passed'
  <2>1. CASE progressed
    BY <1>1, <1>6, <2>1 DEF Passed, Fixpoint, Mounted, Due
  <2>2. CASE ~progressed
    BY <1>1, <1>6, <2>2 DEF IInv, Passed, Fixpoint, loop
  <2> QED
    BY <2>1, <2>2
<1> QED
  BY <1>2, <1>4, <1>5, <1>7 DEF IInv

(* Every step keeps the invariant.                                           *)
LEMMA NextKeeps == IInv /\ [Next]_vars => IInv'
<1> SUFFICES ASSUME IInv, [Next]_vars PROVE IInv'
  OBVIOUS
<1>1. CASE UNCHANGED vars
  <2> USE <1>1 DEF vars, registry, loop, past, began
  <2>1. TypeOK'
    BY DEF IInv, TypeOK
  <2>2. Alive' = Alive
    BY DEF Alive, Active, Stacked
  <2>3. OwnersAlive' /\ AliveGrounded' /\ AliveOffers'
    BY <2>2, SameAlive DEF IInv
  <2>4. StackOrdered' /\ StackBase' /\ Clocked'
    BY DEF IInv, StackOrdered, StackBase, Clocked
  <2>5. Passed'
    BY DEF IInv, Passed, Fixpoint, Due, Satisfied, Registered
  <2> QED
    BY <2>1, <2>3, <2>4, <2>5 DEF IInv
<1>2. CASE Dispose
  BY <1>2, DisposeKeeps
<1>3. CASE PassEnds
  BY <1>3, PassEndsKeeps
<1>4. ASSUME NEW p \in Plugin, Cascade(p) PROVE IInv'
  BY <1>4, CascadeKeeps
<1>5. ASSUME NEW p \in Plugin, Skip(p) PROVE IInv'
  BY <1>5, SkipKeeps
<1>6. ASSUME NEW p \in Plugin, Apply(p) PROVE IInv'
  BY <1>6, ApplyKeeps
<1>7. ASSUME NEW p \in Plugin, ApplyFails(p) PROVE IInv'
  BY <1>7, FailedApplyKeeps
<1>8. ASSUME NEW p \in Plugin, Mount(p) PROVE IInv'
  BY <1>8, MountKeeps
<1>9. ASSUME NEW p \in Plugin, Unmount(p) PROVE IInv'
  BY <1>9, TakeDownKeeps DEF Unmount
<1>10. ASSUME NEW p \in Plugin, Reload(p) PROVE IInv'
  BY <1>10, TakeDownKeeps DEF Reload
<1> QED
  BY <1>1, <1>2, <1>3, <1>4, <1>5, <1>6, <1>7, <1>8, <1>9, <1>10 DEF Next, Work, Operate

(* The invariant holds in every reachable state.                             *)
THEOREM KernelInvariance == Spec => []IInv
BY InitInv, NextKeeps, PTL DEF Spec

(* No plugin ever runs without a service it injects, whatever is mounted,    *)
(* unloaded or reloaded around it.                                           *)
THEOREM AlwaysGrounded == Spec => []Grounded
<1>1. IInv => Grounded
  <2> SUFFICES ASSUME IInv, NEW p \in Active PROVE Satisfied(p)
    BY DEF Grounded
  <2>1. p \in Alive /\ p \in Plugin
    BY DEF Alive, Active
  <2> QED
    BY <2>1, KernelAssumption DEF IInv, AliveGrounded, Satisfied, Registered
<1> QED
  BY <1>1, KernelInvariance, PTL

(* Between operations the registry holds exactly what the active plugins     *)
(* offer: unloading leaves no residue (invariant #6).                        *)
THEOREM RegistryExact == Spec => []NoResidue
<1>1. IInv => NoResidue
  <2> SUFFICES ASSUME IInv, doing = "resting", NEW p \in Plugin
               PROVE  Provided(p) = IF p \in Active THEN Offers[p] ELSE {}
    BY DEF NoResidue
  <2>1. TypeOK /\ OwnersAlive /\ AliveOffers /\ Alive = Active
    BY NothingStacked DEF IInv
  <2>2. CASE p \in Active
    BY <2>1, <2>2 DEF AliveOffers
  <2>3. CASE p \notin Active
    BY <2>1, <2>3, DeadProvideNothing
  <2> QED
    BY <2>2, <2>3
<1> QED
  BY <1>1, KernelInvariance, PTL

(* When the disposers of a plugin run, all it injects is still there.        *)
THEOREM ConsumersUnwindFirst == Spec => UnwindsInOrder
<1>1. IInv /\ [Next]_vars =>
          [\A p \in Plugin : Provided(p) # {} /\ Provided(p)' = {} => Satisfied(p)]_vars
  <2> SUFFICES ASSUME IInv, [Next]_vars, NEW p \in Plugin,
                      Provided(p) # {}, Provided(p)' = {}
               PROVE  Satisfied(p)
    OBVIOUS
  <2>1. PICK s \in Service : owner[s] = p /\ owner'[s] # p
    BY DEF Provided
  <2>2. TypeOK
    BY DEF IInv
  <2>3. ~UNCHANGED owner
    BY <2>1
  <2>4. Dispose \/ \E q \in Plugin : Apply(q)
    BY <2>3 DEF Next, Work, Operate, Mount, Unmount, Reload, TakeDown, Cascade, Skip,
                ApplyFails, PassEnds, vars, registry
  <2>5. ASSUME NEW q \in Plugin, Apply(q) PROVE FALSE
    BY <2>1, <2>2, <2>5, KernelAssumption DEF Apply, Registered, TypeOK
  <2>6. Dispose /\ p = Top
    BY <2>1, <2>2, <2>4, <2>5 DEF Dispose, TypeOK
  <2>7. p \in Alive
    BY <2>1, KernelAssumption DEF IInv, OwnersAlive
  <2> QED
    BY <2>7, KernelAssumption DEF IInv, AliveGrounded, Satisfied, Registered
<1> QED
  BY <1>1, KernelInvariance, PTL DEF Spec, UnwindsInOrder

(* What a reload drops and brings back.  What ran before it and does not run *)
(* offers nothing that another plugin that ran before offers, and whatever   *)
(* is in the registry is offered by one of them.                             *)
LEMMA RegisteredInBase ==
    ASSUME IInv, Alive \subseteq before
    PROVE  Registered \subseteq Base
BY KernelAssumption DEF IInv, OwnersAlive, Registered, Base, TypeOK

(* A plugin that is due while settling runs before the reload: the others    *)
(* wait for a service that nobody offers then.                               *)
LEMMA DueRanBefore ==
    ASSUME IInv, Bouncing, NEW p \in Plugin, Due(p)
    PROVE  p \in before
BY RegisteredInBase DEF Bouncing, Due, Satisfied

(* The start of a reload of an active plugin.                                *)
LEMMA ReloadStarts ==
    ASSUME IInv, NEW p \in Plugin, Reload(p)
    PROVE  ReloadInv'
<1> USE DEF Reload, TakeDown, Begin
<1>1. /\ TypeOK /\ OwnersAlive /\ AliveGrounded /\ AliveOffers /\ Fixpoint
      /\ doing = "resting" /\ Alive = Active
  BY NothingStacked DEF IInv, Passed
<1>2. before' = Active /\ owner' = owner /\ since' = since
  BY DEF past
<1>3. CASE p \notin Active
  <2>1. status' = [status EXCEPT ![p] = "Waiting"] /\ doing' = "settling"
    BY <1>3 DEF Left, Settle
  <2>2. Active' = Active
    BY <1>1, <1>3, <2>1 DEF Active, TypeOK
  <2> QED
    BY <1>2, <2>1, <2>2 DEF ReloadInv
<1>4. CASE p \in Active
  <2>1. /\ status' = [status EXCEPT ![p] = "Waiting"] /\ stack' = <<p>>
        /\ doing' = "unwinding"
    BY <1>4
  <2>2. Alive' = Active
    <3>1. Active' = Active \ {p}
      BY <1>1, <2>1 DEF Active, TypeOK
    <3>2. Stacked' = {p}
      BY <2>1 DEF Stacked
    <3> QED
      BY <1>4, <3>1, <3>2 DEF Alive
  <2>3. \A q \in Active : status'[q] \in {"Active", "Waiting"}
    BY <1>1, <2>1 DEF Active, TypeOK
  <2>4. \A q, o \in Active : q # o => Offers[q] \cap Offers[o] = {}
    BY <1>1 DEF AliveOffers, Provided
  <2>5. \A q \in Plugin \ Active : status'[q] = "Waiting" => ~(Injects[q] \subseteq Base')
    <3>1. Base' \subseteq Registered
      BY <1>1, <1>2, KernelAssumption DEF Base, AliveOffers, Provided, Registered, Active, TypeOK
    <3>2. \A q \in Plugin \ Active : status'[q] = status[q]
      BY <1>1, <1>4, <2>1 DEF TypeOK
    <3> QED
      BY <1>1, <3>1, <3>2 DEF Fixpoint, Due, Satisfied
  <2>6. ASSUME NEW q \in Active, NEW s \in Injects[q] PROVE Sustained(q, s)'
    <3>1. s \in Service
      BY KernelAssumption DEF Active
    <3>2. owner[s] # None /\ since[owner[s]] < since[q] /\ owner[s] \in Active
          /\ s \in Offers[owner[s]]
      BY <1>1, <2>6, <3>1 DEF AliveGrounded, OwnersAlive
    <3> QED
      BY <1>2, <3>2 DEF Sustained
  <2>7. Bouncing'
    BY <1>2, <2>2, <2>3, <2>4, <2>5, <2>6 DEF Bouncing
  <2> QED
    BY <2>7 DEF ReloadInv
<1> QED
  BY <1>3, <1>4

(* A step of a reload that activates nothing and changes nothing but what is *)
(* alive, and the status of plugins that ran before.                         *)
LEMMA BouncesOn ==
    ASSUME Bouncing, UNCHANGED <<before, since>>, Alive' \subseteq Alive,
           doing = "unwinding" \/ (doing' # "unwinding" /\ Active' = Active),
           doing = "unwinding" => \A p \in before : p \in Active' => p \in Active,
           hiccup => hiccup',
           \A p \in before : status'[p] \in {status[p], "Waiting"} \/ hiccup',
           \A p \in Plugin \ before : status'[p] = status[p]
    PROVE  Bouncing'
<1>1. /\ Alive' \subseteq before'
      /\ \A p \in before' : status'[p] \in {"Active", "Waiting"} \/ hiccup'
      /\ \A p, o \in before' : p # o => Offers[p] \cap Offers[o] = {}
  BY DEF Bouncing
<1>2. \A p \in Plugin \ before' : status'[p] = "Waiting" => ~(Injects[p] \subseteq Base')
  BY DEF Bouncing, Base
<1>3. ASSUME NEW p \in before, doing' = "unwinding" \/ p \notin Active', NEW s \in Injects[p]
      PROVE  Sustained(p, s)'
  <2>1. Sustained(p, s)
    BY <1>3 DEF Bouncing
  <2>2. PICK o \in before : /\ s \in Offers[o]
                            /\ since[o] < since[p] \/ (o \in Active /\ doing # "unwinding")
    BY <2>1 DEF Sustained
  <2> QED
    BY <2>2 DEF Sustained
<1> QED
  BY <1>1, <1>2, <1>3 DEF Bouncing

(* Activations and failures while a reload settles.                          *)
LEMMA ReloadSettles ==
    ASSUME IInv, Bouncing, NEW p \in Plugin, Apply(p) \/ ApplyFails(p)
    PROVE  Bouncing'
<1>1. /\ TypeOK /\ doing = "settling" /\ stack = <<>> /\ Alive = Active /\ Due(p)
      /\ doing' = doing /\ stack' = stack /\ before' = before
  BY NothingStacked DEF IInv, Apply, ApplyFails, Look, began
<1>2. p \in before /\ p \notin Active
  BY <1>1, DueRanBefore DEF Due, Active
<1>3. CASE Apply(p)
  <2>1. /\ status' = [status EXCEPT ![p] = "Active"] /\ since' = [since EXCEPT ![p] = clock + 1]
        /\ hiccup' = hiccup
    BY <1>3 DEF Apply, began
  <2>2. Active' = Active \cup {p} /\ Alive' = Alive \cup {p}
    BY <1>1, <2>1 DEF Active, Alive, Stacked, TypeOK
  <2>3. /\ Alive' \subseteq before
        /\ \A q \in before : status'[q] \in {"Active", "Waiting"} \/ hiccup'
    BY <1>1, <1>2, <2>1, <2>2 DEF Bouncing, TypeOK
  <2>4. \A q \in Plugin \ before : status'[q] = "Waiting" => ~(Injects[q] \subseteq Base')
    BY <1>1, <1>2, <2>1 DEF Bouncing, Base, TypeOK
  <2>5. ASSUME NEW q \in before, q \notin Active', NEW s \in Injects[q] PROVE Sustained(q, s)'
    <3>1. Sustained(q, s) /\ q # p /\ q \in Plugin
      BY <1>1, <2>2, <2>5 DEF Bouncing, TypeOK
    <3>2. PICK o \in before : /\ s \in Offers[o]
                              /\ since[o] < since[q] \/ (o \in Active /\ doing # "unwinding")
      BY <3>1 DEF Sustained
    <3>3. o \in Active' \/ since'[o] < since'[q]
      BY <1>1, <2>1, <2>2, <3>1, <3>2 DEF TypeOK
    <3> QED
      BY <1>1, <3>2, <3>3 DEF Sustained
  <2> QED
    BY <1>1, <2>3, <2>4, <2>5 DEF Bouncing
<1>4. CASE ApplyFails(p)
  <2>1. /\ status' = [status EXCEPT ![p] = "Failed"] /\ since' = since
        /\ hiccup' = (hiccup \/ Offers[p] \cap Registered = {})
    BY <1>4 DEF ApplyFails, past
  <2>2. hiccup'
    <3>1. Offers[p] \cap Registered = {}
      BY <1>1, <1>2, KernelAssumption DEF Bouncing, IInv, OwnersAlive, Registered, TypeOK
    <3> QED
      BY <2>1, <3>1
  <2>3. Active' = Active /\ Alive' = Alive
    BY <1>1, <1>2, <2>1 DEF Active, Alive, Stacked, TypeOK
  <2>4. \A q \in Plugin \ before : status'[q] = status[q]
    BY <1>1, <1>2, <2>1 DEF TypeOK
  <2> QED
    BY <1>1, <2>1, <2>2, <2>3, <2>4, BouncesOn
<1> QED
  BY <1>3, <1>4

(* Every step keeps what is said of a reload.                                *)
LEMMA ReloadKeeps ==
    ASSUME IInv, ReloadInv, [Next]_vars
    PROVE  ReloadInv'
<1>1. TypeOK /\ StackBase /\ StackOrdered
  BY DEF IInv
<1>2. CASE UNCHANGED vars
  BY <1>2 DEF vars, registry, past, began, ReloadInv, Bouncing, Base, Sustained, Alive, Active,
              Stacked
<1>3. ASSUME NEW p \in Plugin, Mount(p) \/ Unmount(p) PROVE ReloadInv'
  BY <1>3 DEF Mount, Unmount, TakeDown, Begin, ReloadInv
<1>4. ASSUME NEW p \in Plugin, Reload(p) PROVE ReloadInv'
  BY <1>4, ReloadStarts
<1>5. ASSUME NEW c \in Plugin, Cascade(c), operation[1] = "reload" PROVE Bouncing'
  <2>1. Bouncing /\ doing = "unwinding" /\ c \in Active
    BY <1>5 DEF Cascade, ReloadInv, ConsumerOf
  <2>2. /\ status' = [status EXCEPT ![c] = "Waiting"] /\ stack' = Append(stack, c)
        /\ UNCHANGED <<before, since, hiccup>>
    BY <1>5 DEF Cascade, past, began
  <2>3. Active' = Active \ {c}
    BY <1>1, <2>2 DEF Active, TypeOK
  <2>4. Stacked' = Stacked \cup {c}
    <3>1. stack \in Seq(Plugin)
      BY <1>1 DEF TypeOK
    <3>2. /\ Len(stack') = Len(stack) + 1 /\ stack'[Len(stack) + 1] = c
          /\ \A n \in 1..Len(stack) : stack'[n] = stack[n]
      BY <2>2, <3>1
    <3>3. Len(stack) \in Nat
      BY <3>1
    <3> QED
      BY <3>2, <3>3 DEF Stacked
  <2>5. Alive' = Alive
    BY <2>1, <2>3, <2>4 DEF Alive
  <2>6. /\ c \in before
        /\ \A p \in before : status'[p] \in {status[p], "Waiting"}
        /\ \A p \in Plugin \ before : status'[p] = status[p]
    BY <1>1, <2>1, <2>2 DEF TypeOK, Bouncing, Alive
  <2> QED
    BY <2>1, <2>2, <2>3, <2>5, <2>6, BouncesOn
<1>6. ASSUME Dispose, operation[1] = "reload" PROVE Bouncing'
  <2>1. Bouncing /\ doing = "unwinding" /\ stack # <<>>
    BY <1>1, <1>6 DEF Dispose, ReloadInv, StackBase
  <2>2. stack' = SubSeq(stack, 1, Len(stack) - 1) /\ UNCHANGED <<before, since, hiccup>>
    BY <1>6 DEF Dispose, past, began
  <2>3. /\ Len(stack) \in Nat \ {0} /\ Top \in Plugin /\ Top \in Stacked /\ status[Top] = "Waiting"
        /\ {stack'[n] : n \in 1..Len(stack')} = Stacked \ {Top}
    BY <1>1, <2>1, <2>2, Popped, ZenonT(60)
  <2>4. status' = status \/ status' = [status EXCEPT ![Top] = "Waiting"]
    BY <1>1, <1>6, <2>1, <2>3 DEF Dispose, Left, StackBase, Top
  <2>5. Active' = Active
    BY <1>1, <2>3, <2>4 DEF Active, TypeOK
  <2>6. Alive' \subseteq Alive
    BY <2>3, <2>5 DEF Alive, Stacked
  <2>7. /\ \A p \in before : status'[p] \in {status[p], "Waiting"}
        /\ \A p \in Plugin \ before : status'[p] = status[p]
    BY <1>1, <2>1, <2>3, <2>4 DEF TypeOK
  <2> QED
    BY <2>1, <2>2, <2>5, <2>6, <2>7, BouncesOn
<1>7. ASSUME (\E p \in Plugin : Skip(p)) \/ PassEnds, operation[1] = "reload"
      PROVE  Bouncing' \/ (doing' # "unwinding" /\ before' \subseteq Active')
  <2>1. /\ UNCHANGED <<status, stack, before, since, hiccup>>
        /\ doing # "unwinding" /\ doing' # "unwinding"
    BY <1>7 DEF Skip, PassEnds, Look, registry, past, began
  <2>2. Active' = Active /\ Alive' = Alive
    BY <2>1 DEF Active, Alive, Stacked
  <2>3. CASE Bouncing
    BY <2>1, <2>2, <2>3, BouncesOn
  <2> QED
    BY <1>7, <2>1, <2>2, <2>3 DEF ReloadInv
<1>8. ASSUME NEW p \in Plugin, Apply(p) \/ ApplyFails(p), operation[1] = "reload"
      PROVE  Bouncing' \/ (doing' # "unwinding" /\ before' \subseteq Active')
  <2>1. CASE Bouncing
    BY <1>8, <2>1, ReloadSettles
  <2>2. CASE doing # "unwinding" /\ before \subseteq Active
    <3>1. /\ status' \in {[status EXCEPT ![p] = "Active"], [status EXCEPT ![p] = "Failed"]}
          /\ status[p] = "Waiting" /\ doing' = doing /\ before' = before
      BY <1>8 DEF Apply, ApplyFails, Look, Due, began
    <3>2. Active \subseteq Active'
      BY <1>1, <3>1 DEF Active, TypeOK
    <3> QED
      BY <2>2, <3>1, <3>2
  <2> QED
    BY <1>8, <2>1, <2>2 DEF ReloadInv
<1>9. ASSUME Work PROVE operation' = operation
  BY <1>9 DEF Work, Dispose, PassEnds, Cascade, Skip, Apply, ApplyFails
<1> QED
  BY <1>2, <1>3, <1>4, <1>5, <1>6, <1>7, <1>8, <1>9 DEF Next, Work, Operate, ReloadInv

(* A set of plugins has one that was activated first.                        *)
LEMMA Oldest ==
    ASSUME since \in [Plugin -> Nat], NEW D \in SUBSET Plugin, D # {}
    PROVE  \E p \in D : \A o \in D : ~(since[o] < since[p])
<1> DEFINE T == {since[p] : p \in D}
<1>1. T \in SUBSET Nat /\ T # {}
  OBVIOUS
<1>2. \E x \in T : \A y \in T : ~(<<y, x>> \in OpToRel(<, Nat))
  <2> HIDE DEF T, OpToRel
  <2> QED BY <1>1, NatLessThanWellFounded, WFMin
<1>3. PICK p \in D : \A o \in D : ~(<<since[o], since[p]>> \in OpToRel(<, Nat))
  BY <1>2
<1>4. ASSUME NEW o \in D PROVE ~(since[o] < since[p])
  BY <1>3 DEF OpToRel
<1> QED
  BY <1>4

(* A reload brings back all that ran before it, unless an apply failed for   *)
(* its own reasons: the oldest of those that were missing could run.         *)
THEOREM ReloadComplete == Spec => []ReloadRestores
<1>1. Init => ReloadInv
  BY DEF Init, ReloadInv
<1>2. IInv /\ ReloadInv /\ [Next]_vars => ReloadInv'
  BY ReloadKeeps
<1>3. IInv /\ ReloadInv => ReloadRestores
  <2> SUFFICES ASSUME IInv, Bouncing, doing = "resting", ~hiccup, ~(before \subseteq Active)
               PROVE  FALSE
    BY DEF ReloadInv, ReloadRestores
  <2>1. TypeOK /\ Fixpoint /\ AliveOffers /\ Alive = Active
    BY NothingStacked DEF IInv, Passed
  <2>2. PICK p \in before \ Active : \A o \in before \ Active : ~(since[o] < since[p])
    BY <2>1, Oldest DEF TypeOK
  <2>3. p \in Plugin /\ status[p] = "Waiting" /\ ~Due(p)
    BY <2>1, <2>2 DEF Bouncing, Active, Fixpoint, TypeOK
  <2>4. PICK s \in Injects[p] : s \notin Registered
    BY <2>3 DEF Due, Satisfied
  <2>5. PICK o \in before : s \in Offers[o] /\ (since[o] < since[p] \/ o \in Active)
    BY <2>2 DEF Bouncing, Sustained
  <2>6. o \in Active
    BY <2>2, <2>5
  <2> QED
    BY <2>1, <2>4, <2>5, <2>6, KernelAssumption DEF AliveOffers, Provided, Registered, Active
<1> QED
  BY <1>1, <1>2, <1>3, KernelInvariance, PTL DEF Spec
=============================================================================
