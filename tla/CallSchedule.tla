---------------------------- MODULE CallSchedule ----------------------------
(* What the tool dispatcher promises for one block of calls (tools/mod.rs,   *)
(* module comment): consecutive concurrency-safe calls may overlap, every    *)
(* other call is a barrier, and the results are in the order of the calls.   *)
EXTENDS Integers, Sequences

CONSTANTS
    Count,      \* how many calls
    Safe        \* those that are concurrency-safe

Calls == 1..Count

VARIABLES phase, results

vars == <<phase, results>>

Init == phase = [c \in Calls |-> "waiting"] /\ results = <<>>

(* An earlier call is over, or overlaps because all calls since are safe.    *)
MayRun(c) == \A b \in Calls : b < c => phase[b] = "over" \/ b..c \subseteq Safe

Start(c) ==
    /\ phase[c] = "waiting" /\ MayRun(c)
    /\ phase' = [phase EXCEPT ![c] = "running"]
    /\ UNCHANGED results

(* A call that is refused is over without having run.                        *)
Finish(c) ==
    /\ phase[c] # "over"
    /\ phase' = [phase EXCEPT ![c] = "over"]
    /\ UNCHANGED results

Commit ==
    /\ Len(results) < Count
    /\ phase[Len(results) + 1] = "over"
    /\ results' = Append(results, Len(results) + 1)
    /\ UNCHANGED phase

Next == Commit \/ \E c \in Calls : Start(c) \/ Finish(c)
Spec == Init /\ [][Next]_vars
=============================================================================
