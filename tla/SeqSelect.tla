----------------------------- MODULE SeqSelect -----------------------------
(* What a log holds of one kind, and how often it holds one event.  SelectSeq *)
(* takes its test as an operator, which is out of reach of the proofs; these  *)
(* take a set.                                                                *)
EXTENDS Naturals, Sequences, FiniteSets

(* The first n elements of s that are in S, in order.                         *)
Selection(s, S) ==
    LET upTo[n \in 0..Len(s)] == IF n = 0 THEN <<>>
                                 ELSE IF s[n] \in S THEN Append(upTo[n - 1], s[n])
                                 ELSE upTo[n - 1]
    IN  upTo

(* Those of s that are in S, in order.                                        *)
Select(s, S) == Selection(s, S)[Len(s)]

Count(s, e) == Cardinality({i \in 1..Len(s) : s[i] = e})
=============================================================================
