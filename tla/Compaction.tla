----------------------------- MODULE Compaction -----------------------------
(* What the model is shown of a session's log, and how the log is folded:    *)
(* the projection (crates/rness-engine/src/session/projection.rs), the       *)
(* expansion of checkpoints (shadowed_by_checkpoints of rness-protocol), the *)
(* reductions of a turn and of a region (turn/compaction.rs), /compact       *)
(* (service.rs) and the recovery of interrupted reductions.                  *)
(* The log is a sequence of events; an event is named by its position.       *)
(* Events that neither reach the model nor steer a fold are left out.        *)
EXTENDS Integers, Sequences, FiniteSets, SequencesExt

CONSTANTS
    Shape,          \* what the model may answer: [text : BOOLEAN, calls : Nat]
    MaxLog,         \* bound: events
    MaxFolds        \* bound: reductions begun

ASSUME ShapeAssumption == \A s \in Shape : s.text \in BOOLEAN /\ s.calls \in Nat

VARIABLES
    log,
    at,         \* idle, opening, step, calling, folding, folded
    span        \* the reduction under way

foldVars == <<log, at, span>>

None == [back |-> "idle"]

FoldInit == log = <<>> /\ at = "idle" /\ span = None

Of(l, kind) == {p \in DOMAIN l : l[p].kind = kind}
-----------------------------------------------------------------------------
(* shadowed_by_checkpoints.                                                  *)

Folds(l, p) ==
    CASE l[p].kind = "checkpoint" -> l[p].replaces
      [] l[p].kind = "prune" -> {l[p].of}
      [] OTHER -> {}

(* What p stands in for, through the checkpoints and prunes it folded.       *)
Shadow(l) ==
    LET shadow[p \in DOMAIN l] == Folds(l, p) \cup UNION {shadow[q] : q \in Folds(l, p)}
    IN  shadow

(* A checkpoint is live unless a later one folded it.                        *)
Live(l) == LET shadow == Shadow(l)
           IN  {c \in Of(l, "checkpoint") : \A d \in Of(l, "checkpoint") : c \notin shadow[d]}
-----------------------------------------------------------------------------
(* model_context.  A turn has the positions it cites and, an assistant's or  *)
(* a results turn, the calls in it; a call is <<its assistant, a number>>.   *)

Shadowed(l) == UNION {Shadow(l)[c] : c \in Live(l)}

Anchored(l, p) == {c \in Live(l) : p \in Shadow(l)[c] /\ \A q \in Shadow(l)[c] : p <= q}

(* The latest prune of a result, unless it was folded.                       *)
Pruned(l, p) == {q \in Of(l, "prune") : l[q].of = p /\ q \notin Shadowed(l)
                                        /\ \A r \in Of(l, "prune") : l[r].of = p => r <= q}

(* Of the injected blocks of one kind only the newest reaches the model.     *)
Superseded(l) == {p \in Of(l, "block") : \E q \in Of(l, "block") : p < q}

Calls(l, p) == {<<p, k>> : k \in 1..l[p].calls}

User(p) == [kind |-> "user", text |-> TRUE, calls |-> {}, cites |-> <<p>>]
Assistant(l, p) == [kind |-> "assistant", text |-> l[p].text, calls |-> Calls(l, p), cites |-> <<p>>]
Results(l, p) ==
    [kind |-> "results", text |-> FALSE, calls |-> {l[p].call},
     cites |-> <<IF Pruned(l, p) = {} THEN p ELSE CHOOSE q \in Pruned(l, p) : TRUE>>]

(* Results that no message separates are one turn.                           *)
Joined(turns, t) ==
    IF turns # <<>> /\ t.kind = "results" /\ Last(turns).kind = "results"
    THEN Append(Front(turns), [Last(turns) EXCEPT !.calls = @ \cup t.calls, !.cites = @ \o t.cites])
    ELSE Append(turns, t)

(* The turns before they are repaired; together they cite the sources.       *)
Raw(l) ==
    LET gone == Shadowed(l)
        raw[n \in 0..Len(l)] ==
          IF n = 0 THEN <<>>
          ELSE IF n \in gone
               THEN raw[n - 1] \o SetToSeq({User(c) : c \in Anchored(l, n)})
          ELSE IF n \in Superseded(l) THEN raw[n - 1]
          ELSE CASE l[n].kind \in {"user", "block"} -> Append(raw[n - 1], User(n))
                 [] l[n].kind = "assistant" -> Append(raw[n - 1], Assistant(l, n))
                 [] l[n].kind = "result" -> Joined(raw[n - 1], Results(l, n))
                 [] OTHER -> raw[n - 1]
    IN  raw[Len(l)]

Cites(turns) == FlattenSeq([i \in DOMAIN turns |-> turns[i].cites])
Sources(l) == Cites(Raw(l))

(* Bug: an assistant's calls are kept although only some have a result.      *)
RepairWhole(turns, i) ==
    IF turns[i].kind = "assistant" /\ turns[i].calls # {}
    THEN IF i < Len(turns) /\ turns[i + 1].kind = "results" THEN <<turns[i]>>
         ELSE IF turns[i].text THEN <<[turns[i] EXCEPT !.calls = {}]>> ELSE <<>>
    ELSE IF turns[i].kind = "results"
         THEN IF i > 1 /\ turns[i - 1].calls # {} /\ turns[i - 1].kind = "assistant"
              THEN <<turns[i]>> ELSE <<>>
    ELSE <<turns[i]>>

(* repair_tool_pairs: only calls with a result in the next turn and results  *)
(* of a call in the turn before are kept, and no empty turns.                *)
Repair(turns, i) ==
    LET t == turns[i]
        other == IF t.kind = "assistant" THEN i + 1 ELSE i - 1
        paired == IF other \in DOMAIN turns /\ {t.kind, turns[other].kind} = {"assistant", "results"}
                  THEN t.calls \cap turns[other].calls ELSE {}
    IN  IF t.kind = "user" \/ (t.kind = "assistant" /\ t.calls = {}) THEN <<t>>
        ELSE IF paired # {} \/ (t.kind = "assistant" /\ t.text)
             THEN <<[t EXCEPT !.calls = paired]>>
        ELSE <<>>

Repaired(turns) == FlattenSeq([i \in DOMAIN turns |-> Repair(turns, i)])
Context(l) == Repaired(Raw(l))
-----------------------------------------------------------------------------
(* A turn of the session.                                                    *)

Write(events) == Len(log) + Len(events) <= MaxLog /\ log' = log \o events

Started == Of(log, "started")
Finished(s) == {p \in Of(log, "finished") : log[p].of = s}
Unfinished == {s \in Started : Finished(s) = {}}

(* The instructions, when they changed, precede the prompt.                  *)
Send ==
    /\ at = "idle" /\ Unfinished = {}
    /\ \E kinds \in {<<"user">>, <<"block", "user">>} :
          Write([i \in DOMAIN kinds |-> [kind |-> kinds[i]]])
    /\ at' = "opening"
    /\ UNCHANGED span

BeginTurn ==
    /\ at = "opening"
    /\ Write(<<[kind |-> "turn"]>>) /\ at' = "step"
    /\ UNCHANGED span

(* Steers, contexts of hooks and of plugins; between turns, injected input.  *)
Inject ==
    /\ at \in {"idle", "step"}
    /\ \E kind \in {"user", "block"} : Write(<<[kind |-> kind]>>)
    /\ UNCHANGED <<at, span>>

Reply ==
    /\ at = "step"
    /\ \E s \in Shape :
          /\ Write(<<[kind |-> "assistant", text |-> s.text, calls |-> s.calls]>>)
          /\ at' = IF s.calls = 0 THEN "idle" ELSE "calling"
    /\ UNCHANGED span

(* Results are appended one by one, in the order of the calls.               *)
Missing == LET a == CHOOSE p \in Of(log, "assistant") : \A q \in Of(log, "assistant") : q <= p
           IN  Calls(log, a) \ {log[p].call : p \in Of(log, "result")}

Return ==
    /\ at = "calling"
    /\ \E c \in Missing :
          /\ \A d \in Missing : c[2] <= d[2]
          /\ Write(<<[kind |-> "result", call |-> c]>>)
          /\ at' = IF Missing = {c} THEN "step" ELSE "calling"
    /\ UNCHANGED span

(* The turn is cancelled or fails, an append fails, or the process dies.     *)
Stop ==
    /\ at # "idle" /\ at' = "idle"
    /\ span' = None
    /\ UNCHANGED log
-----------------------------------------------------------------------------
(* reduce_cached.                                                            *)

SourceCount(t) == IF t.kind = "results" THEN Cardinality(t.calls) ELSE 1

(* The sources of the first k turns, by number.                              *)
Counted(turns, k) ==
    LET counted[i \in 0..Len(turns)] ==
          IF i = 0 THEN 0 ELSE counted[i - 1] + SourceCount(turns[i])
    IN  counted[k]

(* prefix: some turns are retained, and calls with their results.            *)
Cuts(turns) ==
    {IF turns[c + 1].kind = "results" THEN c - 1 ELSE c : c \in 0..(Len(turns) - 1)}

Eligible(cut) == Range(SubSeq(Sources(log), 1, Counted(Context(log), cut)))

Prune ==
    /\ at = "step"
    /\ \E cut \in Cuts(Context(log)), p \in Of(log, "result") :
          /\ p \in Eligible(cut)
          /\ Write(<<[kind |-> "prune", of |-> p]>>)
    /\ UNCHANGED <<at, span>>

(* The turns behind start, up to cut, are summarised; the sources folded are *)
(* found by counting.                                                        *)
Begin(start, cut, back) ==
    LET turns == Context(log)
        skip == Counted(turns, start)
        n == Counted(turns, cut)
    IN  /\ Cardinality(Started) < MaxFolds
        /\ Write(<<[kind |-> "started"]>>)
        /\ span' = [back |-> back, started |-> Len(log) + 1,
                    replaces |-> Range(SubSeq(Sources(log), skip + 1, n)),
                    told |-> Range(Cites(SubSeq(turns, start + 1, cut)))]
        /\ at' = "folding"

BeginPrefix ==
    /\ at = "step"
    /\ \E cut \in Cuts(Context(log)) \ {0} : Begin(0, cut, "step")

(* A region neither begins with results nor ends before them.                *)
BeginRegion ==
    /\ at = "idle" /\ Unfinished = {}
    /\ \E start, cut \in 0..Len(Context(log)) :
          /\ start < cut
          /\ \A i \in {start + 1, cut + 1} \cap DOMAIN Context(log) : Context(log)[i].kind # "results"
          /\ Begin(start, cut, "idle")

Commit ==
    /\ at = "folding" /\ at' = "folded"
    /\ Write(<<[kind |-> "checkpoint", replaces |-> span.replaces, told |-> span.told,
                started |-> span.started]>>)
    /\ UNCHANGED span

(* Also when the summary failed, was cancelled, is empty or does not shrink. *)
Finish ==
    /\ at \in {"folding", "folded"} /\ at' = span.back
    /\ Write(<<[kind |-> "finished", of |-> span.started, committed |-> at = "folded"]>>)
    /\ span' = None

(* Bug: an interrupted reduction never committed.                            *)
RecoverBlind ==
    /\ at = "idle"
    /\ \E s \in Unfinished :
          Write(<<[kind |-> "finished", of |-> s, committed |-> FALSE]>>)
    /\ UNCHANGED <<at, span>>

(* recover: a checkpoint before the next reduction is taken for its own.     *)
Recover ==
    /\ at = "idle"
    /\ \E s \in Unfinished :
          /\ \A u \in Unfinished : s <= u
          /\ Write(<<[kind |-> "finished", of |-> s,
                      committed |-> \E c \in Of(log, "checkpoint") :
                                       s < c /\ \A u \in Started : ~(s < u /\ u < c)]>>)
    /\ UNCHANGED <<at, span>>

(* compact: what the model is shown of the log before a turn, or of all of   *)
(* it, but for the messages right before the cut.                            *)
TurnCuts ==
    {c \in 0..Len(log) : \E t \in Of(log, "turn") \cup {Len(log) + 1} :
        /\ c < t /\ \A p \in (c + 1)..(t - 1) : log[p].kind \in {"user", "block"}
        /\ c > 0 => log[c].kind \notin {"user", "block"}}

(* Bug: the messages are summarised again, earlier summaries are not.        *)
ReadMessages(cut) == {p \in Range(Cites(Context(SubSeq(log, 1, cut)))) : log[p].kind # "checkpoint"}

Read(cut) == Range(Cites(Context(SubSeq(log, 1, cut))))

(* Bug: everything before the cut is folded, cited or not.                   *)
FoldableAll(cut) == 1..cut

Foldable(cut) == Range(Sources(log)) \cap 1..cut

Compact ==
    /\ at = "idle"
    /\ Cardinality(Of(log, "checkpoint")) < MaxFolds
    /\ \E cut \in TurnCuts :
          /\ Foldable(cut) # {}
          /\ Write(<<[kind |-> "checkpoint", replaces |-> Foldable(cut), told |-> Read(cut),
                      started |-> 0]>>)
    /\ UNCHANGED <<at, span>>

FoldNext ==
    \/ Send \/ BeginTurn \/ Inject \/ Reply \/ Return \/ Stop
    \/ Prune \/ BeginPrefix \/ BeginRegion \/ Commit \/ Finish
    \/ Recover \/ Compact

FoldSpec == FoldInit /\ [][FoldNext]_foldVars
-----------------------------------------------------------------------------
(* Properties.                                                               *)

Checkpoints == Of(log, "checkpoint")

FoldTypeOK ==
    /\ \A p \in DOMAIN log : log[p].kind \in {"user", "block", "turn", "assistant", "result",
                                              "prune", "started", "checkpoint", "finished"}
    /\ at \in {"idle", "opening", "step", "calling", "folding", "folded"}
    /\ \A c \in Checkpoints : log[c].replaces \subseteq 1..(c - 1)

(* "Tool protocols require each assistant tool_use to be followed by its     *)
(* matching tool_result turn" (projection.rs:320), whatever was cut off,     *)
(* folded or pruned.                                                         *)
PairsIntact ==
    LET turns == Context(log)
    IN  \A i \in DOMAIN turns :
           /\ turns[i].kind = "assistant" /\ turns[i].calls # {} =>
                 i < Len(turns) /\ turns[i + 1].kind = "results"
                 /\ turns[i + 1].calls = turns[i].calls
           /\ turns[i].kind = "results" =>
                 i > 1 /\ turns[i - 1].kind = "assistant" /\ turns[i - 1].calls = turns[i].calls

(* "The shadows of live checkpoints are disjoint" (events.rs:707); each      *)
(* replays its summary once, and nothing that was folded is shown.           *)
FoldedOnce ==
    LET sources == Sources(log)
    IN  /\ \A c, d \in Live(log) : c = d \/ Shadow(log)[c] \cap Shadow(log)[d] = {}
        /\ \A c \in Live(log) : \E i \in DOMAIN sources :
              /\ sources[i] = c
              /\ \A j \in DOMAIN sources : j = i \/ sources[j] \notin {c} \cup Shadow(log)[c]

(* What a checkpoint's summary was made from, summaries included.            *)
Told == LET told[c \in Checkpoints] ==
              log[c].told \cup UNION {told[d] : d \in log[c].told \cap Checkpoints}
        IN  told

Said(l) == Of(l, "user") \cup {p \in Of(l, "assistant") : l[p].text}

(* Every message is shown to the model, or was read by the summary of a      *)
(* checkpoint that is ("Direct sources only: what the model saw in the       *)
(* span", compaction.rs:592).                                                *)
NothingForgotten ==
    \A p \in Said(log) :
        \/ p \in Range(Cites(Context(log)))
        \/ \E c \in Live(log) : p \in Told[c]

(* The same where the reductions folded what they read: what is no message   *)
(* or summary may go unread.  Of /compact nothing is assumed.                *)
NothingForgottenInPlace ==
    (\A c \in Checkpoints : log[c].started # 0 =>
        log[c].replaces \cap (Said(log) \cup Checkpoints) \subseteq log[c].told) => NothingForgotten

(* "Never repeat a paid request or discard a checkpoint that landed before   *)
(* the interruption" (compaction.rs:229): when a turn goes on, every         *)
(* reduction has one end, which knows of its checkpoint.                     *)
SpansTold ==
    at = "step" => \A s \in Started :
        /\ Cardinality(Finished(s)) = 1
        /\ (\E c \in Checkpoints : log[c].started = s) =>
              \A p \in Finished(s) : log[p].committed
-----------------------------------------------------------------------------
(* What SpansTold rests on.                                                  *)

(* A reduction has one end at most, and the end knows of its checkpoint.     *)
EndsInv ==
    /\ \A p \in Of(log, "finished") : log[p].of \in Started
    /\ \A p, q \in Of(log, "finished") : log[p].of = log[q].of => p = q
    /\ \A p \in Of(log, "finished"), c \in Checkpoints :
          log[c].started = log[p].of => log[p].committed

(* The checkpoint of a reduction is in the log before the next one begins.   *)
MarksInv ==
    \A c \in Checkpoints : log[c].started # 0 =>
        /\ log[c].started \in Started /\ log[c].started < c
        /\ \A u \in Started : ~(log[c].started < u /\ u < c)

(* In a turn no reduction is open but the one under way, which is the last.  *)
OpenInv ==
    /\ at \in {"idle", "opening", "step", "calling", "folding", "folded"}
    /\ at \in {"opening", "step", "calling"} => Unfinished = {}
    /\ at \in {"folding", "folded"} =>
          /\ Unfinished = {span.started} /\ span.back \in {"idle", "step"}
          /\ \A u \in Started : u <= span.started
    /\ at = "folding" => \A c \in Checkpoints : log[c].started # span.started

SpansInv == log \in Seq(Range(log)) /\ EndsInv /\ MarksInv /\ OpenInv
-----------------------------------------------------------------------------
(* What FoldedOnce rests on.                                                 *)

(* What may be folded: neither it nor the result it prunes is shadowed.      *)
Unfolded(l) ==
    {x \in DOMAIN l : /\ x \notin Shadowed(l)
                      /\ l[x].kind = "checkpoint" => x \in Live(l)
                      /\ l[x].kind = "prune" => l[x].of \notin Shadowed(l)}

(* A fold is of something, of what precedes it, and of what no other folds.  *)
FoldedLog(l) ==
    /\ \A p \in DOMAIN l : Folds(l, p) \subseteq 1..(p - 1)
    /\ \A p \in Of(l, "prune") : l[p].of \in Of(l, "result")
    /\ \A c \in Of(l, "checkpoint") : l[c].replaces # {}
    /\ \A c, d \in Live(l) : c = d \/ Shadow(l)[c] \cap Shadow(l)[d] = {}

(* So is the reduction under way.                                            *)
FoldedInv ==
    /\ FoldedLog(log)
    /\ at = "folding" => span.replaces # {} /\ span.replaces \subseteq Unfolded(log)
-----------------------------------------------------------------------------
(* What NothingForgottenInPlace rests on.                                    *)

(* A summary is made from what precedes it, that of /compact from every      *)
(* message and summary it folds.                                             *)
ReadLog(l) ==
    \A c \in Of(l, "checkpoint") :
        /\ l[c].told \subseteq 1..(c - 1)
        /\ l[c].started = 0 =>
              l[c].replaces \cap (Said(l) \cup Of(l, "checkpoint")) \subseteq l[c].told

ReadInv ==
    /\ ReadLog(log)
    /\ at = "folding" => span.told \subseteq 1..Len(log)
=============================================================================
