----------------------------- MODULE DurableLog -----------------------------
(* What a session log promises its callers (docs/invariants.md #2, the       *)
(* module comment of crates/rness-engine/src/session/log.rs): a sequence of  *)
(* events any reader can see, of which a prefix has been acknowledged.       *)
(* Events not acknowledged may be there or not, and a crash may bring back   *)
(* one that a failed append seemed to have removed; the acknowledged prefix  *)
(* only ever grows.                                                          *)
EXTENDS Naturals, Sequences

CONSTANT Event

VARIABLES
    log,    \* the events a reader sees, oldest first
    acked   \* how many of them were acknowledged to their writer

vars == <<log, acked>>

TypeOK == /\ log \in Seq(Event)
          /\ acked \in 0..Len(log)

Init == /\ log = <<>>
        /\ acked = 0

(* Writes, rollbacks and crashes: only the unacknowledged tail changes.      *)
ChangeTail == /\ log' \in Seq(Event)
              /\ Len(log') >= acked
              /\ SubSeq(log', 1, acked) = SubSeq(log, 1, acked)
              /\ UNCHANGED acked

(* A writer's append returns: everything visible by then is acknowledged.    *)
Acknowledge == /\ acked < Len(log)
               /\ acked' = Len(log)
               /\ UNCHANGED log

Next == ChangeTail \/ Acknowledge

Spec == Init /\ [][Next]_vars
=============================================================================
