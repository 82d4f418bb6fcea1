-------------------------------- MODULE Kernel --------------------------------
(* The plugin kernel (crates/rness-kernel/src): plugins declare the services *)
(* they inject; the kernel activates each as soon as all of them exist, and  *)
(* takes it down again, its consumers first, when one of them goes away.     *)
(*                                                                           *)
(* An operation of the Kernel (mount, unmount, reload) runs alone, but calls *)
(* into plugins at every activation and every disposal: those are the steps. *)
(* Plugins run by any order where the code goes by their registration.       *)
EXTENDS Naturals, Sequences

CONSTANTS
    Plugin,
    Service,
    Injects,      \* per plugin: the services it declares (inject)
    Offers,       \* per plugin: the services its apply provides
    Flaky,        \* plugins whose apply may fail for a reason of its own
    MaxClock,     \* bound: activations after which no operation starts
    None

ASSUME KernelAssumption ==
    /\ Injects \in [Plugin -> SUBSET Service]
    /\ Offers \in [Plugin -> SUBSET Service]
    /\ Flaky \subseteq Plugin
    /\ MaxClock \in Nat
    /\ None \notin Plugin

VARIABLES
    status,       \* per plugin: its PluginStatus, or "absent"
    owner,        \* the service registry: who provides each service, or None
    doing,        \* what the kernel is at
    operation,    \* the operation: <<"mount" | "unmount" | "reload", plugin>>
    stack,        \* plugins being deactivated, the innermost last
    todo,         \* plugins this pass of settle has still to look at
    progressed,   \* has this pass activated anything?
    since,        \* history: when each plugin was last activated
    clock,        \* history: activations so far
    before,       \* history: plugins active when the operation began
    hiccup        \* history: has a flaky plugin failed during the operation?

registry == <<status, owner>>
loop == <<todo, progressed>>
past == <<since, clock>>
began == <<before, hiccup>>
vars == <<registry, doing, operation, stack, loop, past, began>>

Mounted == {p \in Plugin : status[p] # "absent"}
Active == {p \in Plugin : status[p] = "Active"}
Registered == {s \in Service : owner[s] # None}
Provided(p) == {s \in Service : owner[s] = p}
Satisfied(p) == Injects[p] \subseteq Registered
Top == stack[Len(stack)]

TypeOK ==
    /\ status \in [Plugin -> {"absent", "Waiting", "Active", "Failed"}]
    /\ owner \in [Service -> Plugin \cup {None}]
    /\ doing \in {"resting", "unwinding", "settling"}
    /\ operation \in {"none", "mount", "unmount", "reload"} \X (Plugin \cup {None})
    /\ stack \in Seq(Plugin)
    /\ todo \subseteq Plugin
    /\ progressed \in BOOLEAN
    /\ since \in [Plugin -> Nat] /\ clock \in Nat
    /\ before \subseteq Plugin /\ hiccup \in BOOLEAN

Init ==
    /\ status = [p \in Plugin |-> "absent"]
    /\ owner = [s \in Service |-> None]
    /\ doing = "resting" /\ operation = <<"none", None>>
    /\ stack = <<>> /\ todo = {} /\ progressed = FALSE
    /\ since = [p \in Plugin |-> 0] /\ clock = 0
    /\ before = {} /\ hiccup = FALSE
-----------------------------------------------------------------------------
(* The operations.  A name already mounted, or not mounted, is refused.      *)

Begin(op, p) == /\ doing = "resting" /\ clock < MaxClock
                /\ operation' = <<op, p>>
                /\ before' = Active /\ hiccup' = FALSE

(* settle starts: a first pass over every mounted plugin.                    *)
Settle == /\ doing' = "settling"
          /\ todo' = {p \in Plugin : status'[p] # "absent"}
          /\ progressed' = FALSE

Mount(p) ==
    /\ p \notin Mounted
    /\ Begin("mount", p)
    /\ status' = [status EXCEPT ![p] = "Waiting"]
    /\ Settle
    /\ UNCHANGED <<owner, stack, past>>

(* What unmount and reload leave of the plugin itself.                       *)
Left(op) == IF op = "unmount" THEN "absent" ELSE "Waiting"

TakeDown(op, p) ==
    /\ p \in Mounted
    /\ Begin(op, p)
    /\ \/ /\ p \in Active
          /\ status' = [status EXCEPT ![p] = "Waiting"]
          /\ stack' = <<p>>
          /\ doing' = "unwinding"
          /\ UNCHANGED loop
       \/ /\ p \notin Active
          /\ status' = [status EXCEPT ![p] = Left(op)]
          /\ Settle
          /\ UNCHANGED stack
    /\ UNCHANGED <<owner, past>>

Unmount(p) == TakeDown("unmount", p)
Reload(p) == TakeDown("reload", p)
-----------------------------------------------------------------------------
(* deactivate: an active consumer of one of the plugin's services goes       *)
(* first; when there is none left the plugin's disposers run.                *)

ConsumerOf(p, c) == c \in Active /\ Injects[c] \cap Provided(p) # {}

Cascade(c) ==
    /\ doing = "unwinding" /\ ConsumerOf(Top, c)
    /\ status' = [status EXCEPT ![c] = "Waiting"]
    /\ stack' = Append(stack, c)
    /\ UNCHANGED <<owner, doing, operation, loop, past, began>>

(* Bugs: the plugin's own disposers run before its consumers unwind; only    *)
(* what unwinds last returns its services.                                   *)
DisposeFirst ==
    /\ doing = "unwinding" /\ \E s \in Provided(Top) : TRUE
    /\ owner' = [s \in Service |-> IF owner[s] = Top THEN None ELSE owner[s]]
    /\ stack' = SubSeq(stack, 1, Len(stack) - 1)
    /\ \/ /\ Len(stack) > 1
          /\ UNCHANGED <<status, doing, loop>>
       \/ /\ Len(stack) = 1
          /\ status' = [status EXCEPT ![operation[2]] = Left(operation[1])]
          /\ Settle
    /\ UNCHANGED <<operation, past, began>>
DisposeLastOnly ==
    /\ doing = "unwinding" /\ \A c \in Plugin : ~ConsumerOf(Top, c)
    /\ stack' = SubSeq(stack, 1, Len(stack) - 1)
    /\ \/ /\ Len(stack) > 1
          /\ UNCHANGED <<status, owner, doing, loop>>
       \/ /\ Len(stack) = 1
          /\ owner' = [s \in Service |-> IF owner[s] = Top THEN None ELSE owner[s]]
          /\ status' = [status EXCEPT ![operation[2]] = Left(operation[1])]
          /\ Settle
    /\ UNCHANGED <<operation, past, began>>

Dispose ==
    /\ doing = "unwinding" /\ \A c \in Plugin : ~ConsumerOf(Top, c)
    /\ owner' = [s \in Service |-> IF owner[s] = Top THEN None ELSE owner[s]]
    /\ stack' = SubSeq(stack, 1, Len(stack) - 1)
    /\ \/ /\ Len(stack) > 1
          /\ UNCHANGED <<status, doing, loop>>
       \/ /\ Len(stack) = 1
          /\ status' = [status EXCEPT ![operation[2]] = Left(operation[1])]
          /\ Settle
    /\ UNCHANGED <<operation, past, began>>
-----------------------------------------------------------------------------
(* settle and activate.                                                      *)

Due(p) == status[p] = "Waiting" /\ Satisfied(p)

Look(p) == doing = "settling" /\ p \in todo /\ todo' = todo \ {p}

Skip(p) ==
    /\ Look(p) /\ ~Due(p)
    /\ UNCHANGED <<registry, doing, operation, stack, progressed, past, began>>

Apply(p) ==
    /\ Look(p) /\ Due(p)
    /\ Offers[p] \cap Registered = {}
    /\ status' = [status EXCEPT ![p] = "Active"]
    /\ owner' = [s \in Service |-> IF s \in Offers[p] THEN p ELSE owner[s]]
    /\ progressed' = TRUE
    /\ clock' = clock + 1
    /\ since' = [since EXCEPT ![p] = clock + 1]
    /\ UNCHANGED <<doing, operation, stack, began>>

(* A service that has a provider already makes apply fail; what it had       *)
(* registered until then is taken back with its effects.                     *)
ApplyFails(p) ==
    /\ Look(p) /\ Due(p)
    /\ Offers[p] \cap Registered # {} \/ p \in Flaky
    /\ status' = [status EXCEPT ![p] = "Failed"]
    /\ progressed' = TRUE
    /\ hiccup' = (hiccup \/ Offers[p] \cap Registered = {})
    /\ UNCHANGED <<owner, doing, operation, stack, past, before>>

(* Bugs: one pass is enough; passes never end.                               *)
OnePass ==
    /\ doing = "settling" /\ todo = {} /\ doing' = "resting"
    /\ UNCHANGED <<registry, operation, stack, loop, past, began>>
PassAgain ==
    /\ doing = "settling" /\ todo = {} /\ todo' = Mounted
    /\ UNCHANGED <<registry, doing, operation, stack, progressed, past, began>>

(* A pass that activated something is followed by another one.               *)
PassEnds ==
    /\ doing = "settling" /\ todo = {}
    /\ \/ progressed /\ todo' = Mounted /\ progressed' = FALSE /\ UNCHANGED doing
       \/ ~progressed /\ doing' = "resting" /\ UNCHANGED loop
    /\ UNCHANGED <<registry, operation, stack, past, began>>

Operate(p) == Mount(p) \/ Unmount(p) \/ Reload(p)
Work ==
    \/ Dispose \/ PassEnds
    \/ \E p \in Plugin : Cascade(p) \/ Skip(p) \/ Apply(p) \/ ApplyFails(p)

Next == Work \/ \E p \in Plugin : Operate(p)

(* Nobody has to call the kernel, but a call runs until it returns.          *)
Spec == Init /\ [][Next]_vars
FairSpec == Spec /\ WF_vars(Work)
-----------------------------------------------------------------------------
(* Properties.                                                               *)

(* A plugin runs only while every service it injects is in the registry,     *)
(* whatever is being taken down around it (plugin.rs:3).                     *)
Grounded == \A p \in Active : Satisfied(p)

(* "consumers must unwind while the services they hold are still notionally  *)
(* theirs" (plugin.rs:210): when the disposers of a plugin run, everything   *)
(* it injects is still there.                                                *)
UnwindsInOrder ==
    [][\A p \in Plugin : Provided(p) # {} /\ Provided(p)' = {} => Satisfied(p)]_vars

(* Between operations the registry holds the services of the active plugins  *)
(* and nothing else (invariant #6: unloading leaves no residue), and no      *)
(* waiting plugin could run (the boot order is a fixpoint).                  *)
NoResidue ==
    doing = "resting" =>
        \A p \in Plugin : Provided(p) = IF p \in Active THEN Offers[p] ELSE {}
Fixpoint == doing = "resting" => \A p \in Plugin : ~Due(p)

(* A reload brings back all that ran before it, the consumers that bounced   *)
(* with the plugin included, unless an apply failed for its own reasons.     *)
ReloadRestores ==
    doing = "resting" /\ operation[1] = "reload" /\ ~hiccup => before \subseteq Active

(* Every operation returns.                                                  *)
OperationsEnd == doing # "resting" ~> doing = "resting"

(* What they rest on: a plugin runs longer than those that inject from it,   *)
(* so that there is no cycle among the active ones; those being taken down   *)
(* are stacked youngest last, and keep their services until disposed.        *)
Stacked == {stack[i] : i \in 1..Len(stack)}
Alive == Active \cup Stacked
OwnersAlive ==
    \A s \in Service : owner[s] # None => owner[s] \in Alive /\ s \in Offers[owner[s]]
AliveGrounded ==
    \A p \in Alive : \A s \in Injects[p] :
        owner[s] # None /\ since[owner[s]] < since[p]
AliveOffers == \A p \in Alive : Offers[p] = Provided(p)
StackOrdered ==
    /\ \A i \in 1..Len(stack) : status[stack[i]] = "Waiting"
    /\ \A i, j \in 1..Len(stack) : i < j => since[stack[i]] < since[stack[j]]
StackBase ==
    /\ doing = "unwinding" <=> stack # <<>>
    /\ stack # <<>> => stack[1] = operation[2] /\ operation[1] \in {"unmount", "reload"}
Clocked == \A p \in Plugin : since[p] <= clock
Passed ==
    /\ doing = "settling" /\ ~progressed => \A p \in Plugin \ todo : ~Due(p)
    /\ Fixpoint

(* A reload that takes an active plugin down: nothing comes up that did not  *)
(* run before, what ran does not compete for services, and each of its       *)
(* plugins waits for nothing but older ones among them, or running ones.     *)
Base == UNION {Offers[p] : p \in before}
Sustained(p, s) ==
    \E o \in before : /\ s \in Offers[o]
                      /\ since[o] < since[p] \/ (o \in Active /\ doing # "unwinding")
Bouncing ==
    /\ Alive \subseteq before
    /\ \A p \in before : status[p] \in {"Active", "Waiting"} \/ hiccup
    /\ \A p, o \in before : p # o => Offers[p] \cap Offers[o] = {}
    /\ \A p \in Plugin \ before : status[p] = "Waiting" => ~(Injects[p] \subseteq Base)
    /\ \A p \in before : doing = "unwinding" \/ p \notin Active =>
           \A s \in Injects[p] : Sustained(p, s)
ReloadInv ==
    operation[1] = "reload" => Bouncing \/ (doing # "unwinding" /\ before \subseteq Active)

IInv == /\ TypeOK /\ OwnersAlive /\ AliveGrounded /\ AliveOffers /\ StackOrdered
        /\ StackBase /\ Clocked /\ Passed
=============================================================================
