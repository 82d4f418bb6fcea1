-------------------------- MODULE MCSessionService --------------------------
(* Small instances of SessionService.                                        *)
EXTENDS SessionService, TLC

CONSTANTS m1, m2, m3

Only(a) == [m \in {m1} |-> a]
Pair(a, b) == m1 :> a @@ m2 :> b
Triple(a, b, c) == m1 :> a @@ m2 :> b @@ m3 :> c

(* Entry points that meet in interesting ways: parked followups or steers    *)
(* and a new input of every kind, a retry or a notice and an external prompt.*)
Triples == {Triple("followup", "followup", b) : b \in Kinds \ {"job"}}
           \cup {Triple("followup", "steer", b) : b \in Kinds \ {"followup"}}
           \cup {Triple("followup", "job", "inject"),
                 Triple("followup", "retry", "external"),
                 Triple("settle", "job", "external"),
                 Triple("steer", "followup", "inject")}

Pairs == {Pair("followup", k) : k \in Kinds}
         \cup {Pair("steer", "inject"), Pair("job", "settle")}

(* Titles meet two messages of every pair, a mix of three meets no title.    *)
TitlesApart ==
    (\E t \in Title : titlePc[t] # "ready") => pc[m2] = "ready" /\ kind[m2] = "followup"

Job == {Only("job")}
NoticeMix == {Pair("followup", "job")}
External == {Triple("followup", "followup", "external")}
Stranded == {Triple("followup", "inject", "followup")}
=============================================================================
