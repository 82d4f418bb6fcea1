------------------------ MODULE SessionService_proofs ------------------------
(* Who owns a session's log, proved for any number of messages and titles:   *)
(* the submission that starts a turn finds the log free.                     *)
EXTENDS SessionService, SeqSelect_proofs

(* The part of the type invariant the ownership of the log rests on.         *)
OwnerTypes ==
    /\ phase \in {"Idle", "Running"}
    /\ inboxHeld \in Title \cup {None}
    /\ operation \in Msg \cup {"compact", None}
    /\ writer \in Msg \cup Title \cup {"compact", "burst", None}
    /\ burst \in {"none", "starting", "turn", "step", "delivering", "model", "ended",
                  "deciding", "prompting", "leftovers", "closing"}
    /\ pc \in [Msg -> {"ready", "admitted", "submitting", "spawning", "opening",
                       "appending", "done", "refused", "lost"}]
    /\ titlePc \in [Title -> {"ready", "writing", "done"}]
    /\ compact \in {"ready", "summarizing", "committing", "closing", "done"}

OwnerInv == OwnerTypes /\ LogOwner

(* What every step below needs: the parts of vars, and the invariant.        *)
USE ServiceAssumption DEF OwnerInv, OwnerTypes, LogOwner, Reserved, InboxFree,
    inbox, locks, task, naming, folding, given, history

(* Nobody owns anything at first.                                            *)
LEMMA InitOwner == Init => OwnerInv
BY DEF Init

(* A sender's step: it has the log only while it holds the operation lock,   *)
(* or hands it to the burst it starts (send_admitted, service.rs:1901-2177). *)
LEMMA SenderOwner ==
  ASSUME OwnerInv, NEW m \in Msg, Sender(m)
  PROVE  OwnerInv'
<1>1. CASE Admit(m)
  BY <1>1 DEF Admit, Return
<1>2. CASE Busy(m)
  BY <1>2 DEF Busy
<1>3. CASE CheckTeardown(m)
  BY <1>3 DEF CheckTeardown
<1>4. CASE CancelForSettle(m)
  BY <1>4 DEF CancelForSettle
<1>5. CASE SubmitQueued(m)
  BY <1>5 DEF SubmitQueued, Submitting, Return, Done
<1>6. CASE SubmitLogOnly(m)
  BY <1>6 DEF SubmitLogOnly, Submitting
<1>7. CASE OpenLogOnly(m)
  BY <1>7 DEF OpenLogOnly, Return, Refused
<1>8. CASE AppendLogOnly(m)
  BY <1>8 DEF AppendLogOnly, Return, Done, Refused
<1>9. CASE SubmitStart(m)
  BY <1>9 DEF SubmitStart, Submitting, Return, Refused
<1>10. CASE SubmitRetry(m)
  BY <1>10 DEF SubmitRetry, Submitting, Return
<1>11. CASE Spawn(m)
  BY <1>11 DEF Spawn, Return, Done
<1>12. QED
  BY <1>1, <1>2, <1>3, <1>4, <1>5, <1>6, <1>7, <1>8, <1>9, <1>10, <1>11 DEF Sender

(* A step of the burst: it has the log as long as the phase is Running       *)
(* (burst, service.rs:2857-3168).                                            *)
LEMMA BurstOwner ==
  ASSUME OwnerInv, Burst \/ Model
  PROVE  OwnerInv'
<1>1. CASE BurstStartTurn
  BY <1>1 DEF BurstStartTurn, BurstAt
<1>2. CASE BurstBoundary
  BY <1>2 DEF BurstBoundary, BurstAt
<1>3. CASE BurstDeliver
  BY <1>3 DEF BurstDeliver
<1>4. CASE BurstRequest
  BY <1>4 DEF BurstRequest, BurstAt
<1>5. CASE BurstSeeCancel
  BY <1>5 DEF BurstSeeCancel, EndTurn
<1>6. CASE BurstDrainTitles
  BY <1>6 DEF BurstDrainTitles, BurstAt
<1>7. CASE BurstNextFollowup
  BY <1>7 DEF BurstNextFollowup, BurstAt
<1>8. CASE BurstPrompt
  BY <1>8 DEF BurstPrompt, BurstAt
<1>9. CASE BurstTakeLeftovers
  BY <1>9 DEF BurstTakeLeftovers, BurstAt
<1>10. CASE BurstLeftover
  BY <1>10 DEF BurstLeftover
<1>11. CASE BurstLeftoversDone
  BY <1>11 DEF BurstLeftoversDone, BurstAt
<1>12. CASE BurstGoIdle
  BY <1>12 DEF BurstGoIdle
<1>13. CASE BurstNextStep
  BY <1>13 DEF BurstNextStep, BurstAt
<1>14. CASE BurstEndTurn
  BY <1>14 DEF BurstEndTurn, EndTurn
<1>15. QED
  BY <1>1, <1>2, <1>3, <1>4, <1>5, <1>6, <1>7, <1>8, <1>9, <1>10, <1>11, <1>12,
       <1>13, <1>14 DEF Burst, Model

(* A title has the log only with the inbox lock (commit_title, 354-394).     *)
LEMMA NamingOwner ==
  ASSUME OwnerInv, NEW t \in Title, Naming(t)
  PROVE  OwnerInv'
<1>1. CASE SetTitle(t)
  BY <1>1 DEF SetTitle
<1>2. CASE WriteTitle(t)
  BY <1>2 DEF WriteTitle
<1>3. QED
  BY <1>1, <1>2 DEF Naming

(* compact has the log only with the operation lock (service.rs:2265-2378).  *)
LEMMA CompactOwner ==
  ASSUME OwnerInv, Compact
  PROVE  OwnerInv'
<1>1. CASE CompactRead
  BY <1>1 DEF CompactRead
<1>2. CASE CompactOpen
  BY <1>2 DEF CompactOpen
<1>3. CASE CompactCommit
  BY <1>3 DEF CompactCommit
<1>4. CASE CompactClose
  BY <1>4 DEF CompactClose
<1>5. QED
  BY <1>1, <1>2, <1>3, <1>4 DEF Compact

(* cancel, teardown and maintenance leave the log alone; a crash frees it.   *)
LEMMA HostOwner ==
  ASSUME OwnerInv, Host
  PROVE  OwnerInv'
<1>1. CASE Cancel
  BY <1>1 DEF Cancel
<1>2. CASE CloseRoot
  BY <1>2 DEF CloseRoot
<1>3. CASE CloseAncestor
  BY <1>3 DEF CloseAncestor
<1>4. CASE CancelDescendant
  BY <1>4 DEF CancelDescendant
<1>5. CASE Maintain
  BY <1>5 DEF Maintain
<1>6. CASE Crash
  BY <1>6 DEF Crash
<1>7. QED
  BY <1>1, <1>2, <1>3, <1>4, <1>5, <1>6 DEF Host

(* A step of the session or a stutter keeps the invariant.                   *)
LEMMA NextOwner == ASSUME OwnerInv, [Next]_vars PROVE OwnerInv'
<1>1. CASE UNCHANGED vars
  BY <1>1 DEF vars
<1>2. CASE Next
  BY <1>2, SenderOwner, BurstOwner, NamingOwner, CompactOwner, HostOwner DEF Next
<1>3. QED
  BY <1>1, <1>2

(* What StartFindsLogFree takes from the invariant: of those who may have    *)
(* the log open the burst is gone when the phase is Idle, a title would hold *)
(* the inbox lock, compact and other senders the operation lock.             *)
LEMMA OwnerExcludes == OwnerInv => StartFindsLogFree
<1> SUFFICES ASSUME OwnerInv, NEW m \in Msg, Submitting(m), phase = "Idle"
             PROVE  writer = None
  BY DEF StartFindsLogFree
<1>1. operation = m /\ inboxHeld = None
  BY DEF Submitting
<1>2. writer # "burst" /\ writer # "compact"
  BY <1>1
<1>3. ASSUME NEW n \in Msg PROVE writer # n
  BY <1>1 DEF Submitting
<1>4. ASSUME NEW t \in Title PROVE writer # t
  BY <1>1
<1>5. QED
  BY <1>2, <1>3, <1>4

(* Whoever has a session's log open is where its code says: the burst while  *)
(* the phase is Running, a title inside the inbox lock, a log-only notice or *)
(* compact inside the operation lock.                                        *)
THEOREM OwnershipInvariance == Spec => [](OwnerTypes /\ LogOwner)
<1> HIDE DEF OwnerInv, OwnerTypes, LogOwner
<1>1. OwnerInv /\ [Next]_vars => OwnerInv'
  BY NextOwner
<1>2. Spec => []OwnerInv
  BY InitOwner, <1>1, PTL DEF Spec
<1>3. QED
  BY <1>2, PTL DEF OwnerInv

(* A submission that starts a turn never finds the log open elsewhere, so    *)
(* StartTurn is never refused because of a title, compact or another sender. *)
THEOREM StartNeverContends == Spec => []StartFindsLogFree
<1> HIDE DEF OwnerInv, OwnerTypes, LogOwner
<1>1. OwnerInv => StartFindsLogFree
  BY OwnerExcludes
<1>2. QED
  BY OwnershipInvariance, <1>1, PTL DEF OwnerInv
-----------------------------------------------------------------------------
(* Types.                                                                    *)
HIDE DEF OwnerInv, OwnerTypes, LogOwner, Reserved, InboxFree

Event == Msg \cup Title \cup Markers
(* The kinds of event of a log.                                              *)
LEMMA EventParts ==
  /\ {"started", "completed", "failed", "cancelled", "checkpoint"} \subseteq Event
  /\ Msg \subseteq Event /\ Title \subseteq Event
BY DEF Event, Markers, TurnMarks

(* What is drained into the log is titles, and only titles (drain_titles).   *)
LEMMA DrainType ==
  ASSUME NEW l \in Seq(Event), NEW ts \in Seq(Title), NEW lost,
         Appended(l, ts, lost)
  PROVE  /\ log' \in Seq(Event)
         /\ Select(ts, Title \ lost) \in Seq(Title)
<1>1. Select(ts, Title \ lost) \in Seq((Title \ lost) \cap Title)
  BY SelectType
<1>2. Select(ts, Title \ lost) \in Seq(Title)
  BY <1>1
<1> DEFINE kept == Select(ts, Title \ lost)
<1>3. l \o kept \in Seq(Event)
  <2>1. kept \in Seq(Event)
    <3> HIDE DEF kept
    <3>1. kept \in Seq(Title)
      BY <1>2 DEF kept
    <3>2. QED
      BY <3>1 DEF Event
  <2> HIDE DEF kept
  <2>2. QED
    BY <2>1
<1>4. log' = l \o kept
  BY DEF Appended
<1>5. QED
  BY <1>2, <1>3, <1>4

(* Closing a turn left open keeps the log a log (recover).                   *)
LEMMA RecoveredType ==
  ASSUME NEW l \in Seq(Event)
  PROVE  Recovered(l) \in Seq(Event)
BY EventParts DEF Recovered

(* The type invariant in three parts: where everybody is and who holds what; *)
(* the sequences; the flags and counters.                                    *)
StepTypes ==
    /\ phase \in {"Idle", "Running"}
    /\ inboxHeld \in Title \cup {None}
    /\ operation \in Msg \cup {"compact", None}
    /\ writer \in Msg \cup Title \cup {"compact", "burst", None}
    /\ closing \in {"open", "ancestor", "cancelled", "root"}
    /\ burst \in {"none", "starting", "turn", "step", "delivering", "model", "ended",
                  "deciding", "prompting", "leftovers", "closing"}
    /\ outcome \in {"none", "completed", "failed", "cancelled"}
    /\ starter \in Msg \cup {None}
    /\ pc \in [Msg -> {"ready", "admitted", "submitting", "spawning", "opening",
                       "appending", "done", "refused", "lost"}]
    /\ titlePc \in [Title -> {"ready", "writing", "done"}]
    /\ compact \in {"ready", "summarizing", "committing", "closing", "done"}

SeqTypes ==
    /\ log \in Seq(Event)
    /\ followups \in Seq(Msg) /\ steers \in Seq(Msg) /\ hand \in Seq(Msg)
    /\ accepted \in Seq(Msg)
    /\ titles \in Seq(Title) /\ titled \in Seq(Title)
    /\ snapshot \in Seq(Msg \cup Markers)

FlagTypes ==
    /\ kind \in Mixes
    /\ intent \in [Msg -> {"followup", "steer", "inject"}]
    /\ cancelled \in BOOLEAN /\ maintenance \in BOOLEAN /\ degraded \in BOOLEAN
    /\ jobPending \subseteq Msg
    /\ crashes \in 0..Crashes /\ failed \in BOOLEAN

(* Drained titles keep the log a log.                                        *)
LEMMA DrainedType ==
  ASSUME SeqTypes, NEW l \in Seq(Event), DrainedTo(l)
  PROVE  log' \in Seq(Event)
BY DrainType DEF DrainedTo, SeqTypes

(* What the steps make of the sequences keeps their types.                   *)
LEMMA SeqMoves ==
  ASSUME SeqTypes
  PROVE  /\ {"started", "completed", "failed", "cancelled", "checkpoint"} \subseteq Event
         /\ Msg \subseteq Event /\ Title \subseteq Event
         /\ \A e \in Event : Append(log, e) \in Seq(Event)
         /\ \A e \in Event : Append(Recovered(log), e) \in Seq(Event)
         /\ log \o hand \in Seq(Event) /\ Recovered(log) \in Seq(Event)
         /\ <<>> \in Seq(Msg) /\ <<>> \in Seq(Title)
         /\ \A m \in Msg : /\ Append(followups, m) \in Seq(Msg)
                           /\ Append(steers, m) \in Seq(Msg)
                           /\ Append(accepted, m) \in Seq(Msg)
         /\ hand # <<>> => Head(hand) \in Msg /\ Tail(hand) \in Seq(Msg)
         /\ followups # <<>> => /\ Head(followups) \in Msg /\ Tail(followups) \in Seq(Msg)
                               /\ <<Head(followups)>> \in Seq(Msg)
                               /\ \A m \in Msg : Append(Tail(followups), m) \in Seq(Msg)
         /\ \A t \in Title : Append(titles, t) \in Seq(Title) /\ Append(titled, t) \in Seq(Title)
<1> USE DEF SeqTypes
<1>1. Msg \subseteq Event /\ Title \subseteq Event
  BY EventParts
<1>2. Recovered(log) \in Seq(Event)
  BY RecoveredType
<1>3. log \o hand \in Seq(Event)
  <2>1. hand \in Seq(Event)
    BY <1>1
  <2>2. QED
    BY <2>1
<1>4. \A e \in Event : Append(log, e) \in Seq(Event) /\ Append(Recovered(log), e) \in Seq(Event)
  BY <1>2
<1>5. hand # <<>> => Head(hand) \in Msg /\ Tail(hand) \in Seq(Msg)
  OBVIOUS
<1>6. followups # <<>> => Head(followups) \in Msg /\ Tail(followups) \in Seq(Msg)
  OBVIOUS
<1>7. \A m \in Msg : /\ Append(followups, m) \in Seq(Msg)
                     /\ Append(steers, m) \in Seq(Msg)
                     /\ Append(accepted, m) \in Seq(Msg)
  OBVIOUS
<1>8. \A t \in Title : Append(titles, t) \in Seq(Title) /\ Append(titled, t) \in Seq(Title)
  OBVIOUS
<1>9. followups # <<>> => \A m \in Msg : Append(Tail(followups), m) \in Seq(Msg)
  BY <1>6
<1>10. <<>> \in Seq(Msg) /\ <<>> \in Seq(Title)
  OBVIOUS
<1>11. QED
  BY EventParts, <1>2, <1>10, <1>3, <1>4, <1>5, <1>6, <1>7, <1>8, <1>9

(* What compact reads is a conversation.                                     *)
LEMMA ConversationType ==
  ASSUME SeqTypes
  PROVE  Conversation \in Seq(Msg \cup Markers)
<1>1. log \in Seq(Event)
  BY DEF SeqTypes
<1>2. Conversation \in Seq((Msg \cup Markers) \cap Event)
  BY <1>1, SelectType DEF Conversation
<1>3. (Msg \cup Markers) \cap Event = Msg \cup Markers
  BY DEF Event
<1>4. QED
  BY <1>2, <1>3

(* The three parts are the whole.                                            *)
LEMMA TypeParts == TypeOK <=> StepTypes /\ SeqTypes /\ FlagTypes
BY DEF TypeOK, StepTypes, SeqTypes, FlagTypes, Event

(* Every step keeps the steps and who holds what.                            *)
LEMMA StepTypeStep == ASSUME TypeOK, Next PROVE StepTypes'
<1> USE DEF StepTypes
<1>0. StepTypes /\ SeqTypes /\ FlagTypes
  BY TypeParts
<1>1. ASSUME NEW m \in Msg, Sender(m) PROVE StepTypes'
  <2>1. CASE Admit(m)
    BY <1>0, <2>1 DEF Admit, Return
  <2>2. CASE Busy(m)
    BY <1>0, <2>2 DEF Busy
  <2>3. CASE CheckTeardown(m)
    BY <1>0, <2>3 DEF CheckTeardown
  <2>4. CASE CancelForSettle(m)
    BY <1>0, <2>4 DEF CancelForSettle
  <2>5. CASE SubmitQueued(m)
    BY <1>0, <2>5 DEF SubmitQueued, SubmitIntent, Return, Done
  <2>6. CASE SubmitLogOnly(m)
    BY <1>0, <2>6 DEF SubmitLogOnly
  <2>7. CASE OpenLogOnly(m)
    BY <1>0, <2>7 DEF OpenLogOnly, Return, Refused
  <2>8. CASE AppendLogOnly(m)
    BY <1>0, <2>8 DEF AppendLogOnly, Return, Done, Refused
  <2>9. CASE SubmitStart(m)
    BY <1>0, <2>9 DEF SubmitStart, Return, Refused
  <2>10. CASE SubmitRetry(m)
    BY <1>0, <2>10 DEF SubmitRetry, Return
  <2>11. CASE Spawn(m)
    BY <1>0, <2>11 DEF Spawn, Return, Done
  <2>12. QED
    BY <1>1, <2>1, <2>2, <2>3, <2>4, <2>5, <2>6, <2>7, <2>8, <2>9, <2>10, <2>11 DEF Sender
<1>2. CASE Burst \/ Model
  <2>1. CASE BurstStartTurn
    BY <1>0, <2>1 DEF BurstStartTurn, BurstAt
  <2>2. CASE BurstBoundary
    BY <1>0, <2>2 DEF BurstBoundary, BurstAt
  <2>3. CASE BurstDeliver
    BY <1>0, <2>3 DEF BurstDeliver
  <2>4. CASE BurstRequest
    BY <1>0, <2>4 DEF BurstRequest, BurstAt
  <2>5. CASE BurstSeeCancel
    BY <1>0, <2>5 DEF BurstSeeCancel, EndTurn
  <2>6. CASE BurstDrainTitles
    BY <1>0, <2>6 DEF BurstDrainTitles, BurstAt
  <2>7. CASE BurstNextFollowup
    BY <1>0, <2>7 DEF BurstNextFollowup, BurstAt
  <2>8. CASE BurstPrompt
    BY <1>0, <2>8 DEF BurstPrompt, BurstAt
  <2>9. CASE BurstTakeLeftovers
    BY <1>0, <2>9 DEF BurstTakeLeftovers, BurstAt
  <2>10. CASE BurstLeftover
    BY <1>0, <2>10 DEF BurstLeftover
  <2>11. CASE BurstLeftoversDone
    BY <1>0, <2>11 DEF BurstLeftoversDone, BurstAt
  <2>12. CASE BurstGoIdle
    BY <1>0, <2>12 DEF BurstGoIdle
  <2>13. CASE BurstNextStep
    BY <1>0, <2>13 DEF BurstNextStep, BurstAt
  <2>14. CASE BurstEndTurn
    BY <1>0, <2>14 DEF BurstEndTurn, EndTurn
  <2>15. QED
    BY <1>2, <2>1, <2>2, <2>3, <2>4, <2>5, <2>6, <2>7, <2>8, <2>9, <2>10, <2>11, <2>12, <2>13, <2>14 DEF Burst, Model
<1>3. ASSUME NEW t \in Title, Naming(t) PROVE StepTypes'
  <2>1. CASE SetTitle(t)
    BY <1>0, <2>1 DEF SetTitle
  <2>2. CASE WriteTitle(t)
    BY <1>0, <2>2 DEF WriteTitle
  <2>3. QED
    BY <1>3, <2>1, <2>2 DEF Naming
<1>4. CASE Compact
  <2>1. CASE CompactRead
    BY <1>0, <2>1 DEF CompactRead
  <2>2. CASE CompactOpen
    BY <1>0, <2>2 DEF CompactOpen
  <2>3. CASE CompactCommit
    BY <1>0, <2>3 DEF CompactCommit
  <2>4. CASE CompactClose
    BY <1>0, <2>4 DEF CompactClose
  <2>5. QED
    BY <1>4, <2>1, <2>2, <2>3, <2>4 DEF Compact
<1>5. CASE Host
  <2>1. CASE Cancel
    BY <1>0, <2>1 DEF Cancel
  <2>2. CASE CloseRoot
    BY <1>0, <2>2 DEF CloseRoot
  <2>3. CASE CloseAncestor
    BY <1>0, <2>3 DEF CloseAncestor
  <2>4. CASE CancelDescendant
    BY <1>0, <2>4 DEF CancelDescendant
  <2>5. CASE Maintain
    BY <1>0, <2>5 DEF Maintain
  <2>6. CASE Crash
    BY <1>0, <2>6 DEF Crash
  <2>7. QED
    BY <1>5, <2>1, <2>2, <2>3, <2>4, <2>5, <2>6 DEF Host
<1>6. QED
  BY <1>1, <1>2, <1>3, <1>4, <1>5 DEF Next

(* Every step keeps the sequences.                                           *)
LEMMA SeqTypeStep == ASSUME TypeOK, Next PROVE SeqTypes'
<1> USE DEF SeqTypes
<1>0. StepTypes /\ SeqTypes /\ FlagTypes
  BY TypeParts
<1>1. ASSUME NEW m \in Msg, Sender(m) PROVE SeqTypes'
  <2>1. CASE Admit(m)
    BY <1>0, <2>1, SeqMoves DEF Admit, Return
  <2>2. CASE Busy(m)
    BY <1>0, <2>2, SeqMoves DEF Busy
  <2>3. CASE CheckTeardown(m)
    BY <1>0, <2>3, SeqMoves DEF CheckTeardown
  <2>4. CASE CancelForSettle(m)
    BY <1>0, <2>4, SeqMoves DEF CancelForSettle
  <2>5. CASE SubmitQueued(m)
    <3>1. followups' \in Seq(Msg) /\ steers' \in Seq(Msg)
      BY <1>0, <2>5, SeqMoves DEF SubmitQueued, SubmitIntent, Return, Done
    <3>2. accepted' \in Seq(Msg)
      BY <1>0, <2>5, SeqMoves DEF SubmitQueued, SubmitIntent, Return, Done
    <3>3. QED
      BY <1>0, <3>1, <3>2, <2>5 DEF SubmitQueued, SubmitIntent, Return, Done
  <2>6. CASE SubmitLogOnly(m)
    BY <1>0, <2>6, SeqMoves DEF SubmitLogOnly
  <2>7. CASE OpenLogOnly(m)
    BY <1>0, <2>7, SeqMoves DEF OpenLogOnly, Return, Refused
  <2>8. CASE AppendLogOnly(m)
    <3>1. log' \in Seq(Event)
      BY <1>0, <2>8, SeqMoves DEF AppendLogOnly, Return, Done, Refused
    <3>2. accepted' \in Seq(Msg)
      BY <1>0, <2>8, SeqMoves DEF AppendLogOnly, Return, Done, Refused
    <3>3. QED
      BY <1>0, <3>1, <3>2, <2>8 DEF AppendLogOnly, Return, Done, Refused
  <2>9. CASE SubmitStart(m)
    <3>1. \/ log' \in {log, Recovered(log), Append(Recovered(log), m)}
          \/ followups # <<>> /\ log' = Append(Recovered(log), Head(followups))
      BY <2>9 DEF SubmitStart
    <3>2. log' \in Seq(Event)
      BY <1>0, <3>1, SeqMoves
    <3>3. followups' \in Seq(Msg)
      BY <1>0, <2>9, SeqMoves DEF SubmitStart
    <3>4. accepted' \in Seq(Msg)
      BY <1>0, <2>9, SeqMoves DEF SubmitStart
    <3>5. QED
      BY <1>0, <3>2, <3>3, <3>4, <2>9 DEF SubmitStart, Return
  <2>10. CASE SubmitRetry(m)
    BY <1>0, <2>10, SeqMoves DEF SubmitRetry, Return
  <2>11. CASE Spawn(m)
    BY <1>0, <2>11, SeqMoves DEF Spawn, Return, Done
  <2>12. QED
    BY <1>1, <2>1, <2>2, <2>3, <2>4, <2>5, <2>6, <2>7, <2>8, <2>9, <2>10, <2>11 DEF Sender
<1>2. CASE Burst \/ Model
  <2>1. CASE BurstStartTurn
    <3>1. log' \in Seq(Event)
      BY <1>0, <2>1, SeqMoves DEF BurstStartTurn, BurstAt
    <3>2. QED
      BY <1>0, <3>1, <2>1 DEF BurstStartTurn, BurstAt
  <2>2. CASE BurstBoundary
    BY <1>0, <2>2, SeqMoves DEF BurstBoundary, BurstAt
  <2>3. CASE BurstDeliver
    <3>1. log' \in Seq(Event)
      BY <1>0, <2>3, SeqMoves DEF BurstDeliver
    <3>2. hand' \in Seq(Msg)
      BY <1>0, <2>3, SeqMoves DEF BurstDeliver
    <3>3. QED
      BY <1>0, <3>1, <3>2, <2>3 DEF BurstDeliver
  <2>4. CASE BurstRequest
    BY <1>0, <2>4, SeqMoves DEF BurstRequest, BurstAt
  <2>5. CASE BurstSeeCancel
    <3>1. log' \in Seq(Event)
      BY <1>0, <2>5, SeqMoves DEF BurstSeeCancel, EndTurn
    <3>2. QED
      BY <1>0, <3>1, <2>5 DEF BurstSeeCancel, EndTurn
  <2>6. CASE BurstDrainTitles
    <3>1. log' \in Seq(Event)
      BY <1>0, <2>6, DrainedType DEF BurstDrainTitles
    <3>2. QED
      BY <1>0, <3>1, <2>6 DEF BurstDrainTitles
  <2>7. CASE BurstNextFollowup
    BY <1>0, <2>7, SeqMoves DEF BurstNextFollowup, BurstAt
  <2>8. CASE BurstPrompt
    <3>1. hand \in Seq(Event)
      BY <1>0, <2>8, SeqMoves DEF BurstPrompt, BurstAt
    <3>2. log' \in Seq(Event)
      BY <1>0, <2>8, SeqMoves DEF BurstPrompt, BurstAt
    <3>3. QED
      BY <1>0, <3>1, <3>2, <2>8 DEF BurstPrompt, BurstAt
  <2>9. CASE BurstTakeLeftovers
    BY <1>0, <2>9, SeqMoves DEF BurstTakeLeftovers, BurstAt
  <2>10. CASE BurstLeftover
    <3>1. log' \in Seq(Event)
      BY <1>0, <2>10, SeqMoves DEF BurstLeftover
    <3>2. hand' \in Seq(Msg)
      BY <1>0, <2>10, SeqMoves DEF BurstLeftover
    <3>3. QED
      BY <1>0, <3>1, <3>2, <2>10 DEF BurstLeftover
  <2>11. CASE BurstLeftoversDone
    BY <1>0, <2>11, SeqMoves DEF BurstLeftoversDone, BurstAt
  <2>12. CASE BurstGoIdle
    <3>1. log' \in Seq(Event)
      BY <1>0, <2>12, DrainedType DEF BurstGoIdle
    <3>2. QED
      BY <1>0, <3>1, <2>12 DEF BurstGoIdle
  <2>13. CASE BurstNextStep
    BY <1>0, <2>13, SeqMoves DEF BurstNextStep, BurstAt
  <2>14. CASE BurstEndTurn
    <3>1. log' \in Seq(Event)
      BY <1>0, <2>14, SeqMoves DEF BurstEndTurn, EndTurn
    <3>2. QED
      BY <1>0, <3>1, <2>14 DEF BurstEndTurn, EndTurn
  <2>15. QED
    BY <1>2, <2>1, <2>2, <2>3, <2>4, <2>5, <2>6, <2>7, <2>8, <2>9, <2>10, <2>11, <2>12, <2>13, <2>14 DEF Burst, Model
<1>3. ASSUME NEW t \in Title, Naming(t) PROVE SeqTypes'
  <2>1. CASE SetTitle(t)
    <3>1. titles' \in Seq(Title)
      BY <1>0, <2>1, SeqMoves DEF SetTitle
    <3>2. titled' \in Seq(Title)
      BY <1>0, <2>1, SeqMoves DEF SetTitle
    <3>3. QED
      BY <1>0, <3>1, <3>2, <2>1 DEF SetTitle
  <2>2. CASE WriteTitle(t)
    <3>1. Append(titles, t) \in Seq(Title)
      BY <1>0
    <3>2. log' \in Seq(Event)
      BY <1>0, <3>1, <2>2, DrainType DEF WriteTitle
    <3>3. titled' \in Seq(Title)
      BY <1>0, <2>2 DEF WriteTitle
    <3>4. QED
      BY <1>0, <3>2, <3>3, <2>2 DEF WriteTitle
  <2>3. QED
    BY <1>3, <2>1, <2>2 DEF Naming
<1>4. CASE Compact
  <2>1. CASE CompactRead
    <3>1. Conversation \in Seq(Msg \cup Markers)
      BY <1>0, ConversationType
    <3>2. QED
      BY <1>0, <3>1, <2>1 DEF CompactRead
  <2>2. CASE CompactOpen
    BY <1>0, <2>2, SeqMoves DEF CompactOpen
  <2>3. CASE CompactCommit
    <3>1. Append(log, "checkpoint") \in Seq(Event)
      BY <1>0, SeqMoves
    <3>2. log' \in Seq(Event)
      BY <1>0, <3>1, <2>3, DrainedType DEF CompactCommit
    <3>3. QED
      BY <1>0, SeqMoves, <3>2, <2>3 DEF CompactCommit
  <2>4. CASE CompactClose
    BY <1>0, <2>4, SeqMoves DEF CompactClose
  <2>5. QED
    BY <1>4, <2>1, <2>2, <2>3, <2>4 DEF Compact
<1>5. CASE Host
  <2>1. CASE Cancel
    BY <1>0, <2>1, SeqMoves DEF Cancel
  <2>2. CASE CloseRoot
    BY <1>0, <2>2, SeqMoves DEF CloseRoot
  <2>3. CASE CloseAncestor
    BY <1>0, <2>3, SeqMoves DEF CloseAncestor
  <2>4. CASE CancelDescendant
    BY <1>0, <2>4, SeqMoves DEF CancelDescendant
  <2>5. CASE Maintain
    BY <1>0, <2>5, SeqMoves DEF Maintain
  <2>6. CASE Crash
    BY <1>0, <2>6, SeqMoves DEF Crash
  <2>7. QED
    BY <1>5, <2>1, <2>2, <2>3, <2>4, <2>5, <2>6 DEF Host
<1>6. QED
  BY <1>1, <1>2, <1>3, <1>4, <1>5 DEF Next

(* Every step keeps the flags.                                               *)
LEMMA FlagTypeStep == ASSUME TypeOK, Next PROVE FlagTypes'
<1> USE DEF FlagTypes
<1>0. StepTypes /\ SeqTypes /\ FlagTypes
  BY TypeParts
<1>1. ASSUME NEW m \in Msg, Sender(m) PROVE FlagTypes'
  <2>1. CASE Admit(m)
    BY <1>0, <2>1 DEF Admit, Return
  <2>2. CASE Busy(m)
    BY <1>0, <2>2 DEF Busy
  <2>3. CASE CheckTeardown(m)
    BY <1>0, <2>3 DEF CheckTeardown
  <2>4. CASE CancelForSettle(m)
    BY <1>0, <2>4 DEF CancelForSettle
  <2>5. CASE SubmitQueued(m)
    BY <1>0, <2>5 DEF SubmitQueued, SubmitIntent, Return, Done
  <2>6. CASE SubmitLogOnly(m)
    BY <1>0, <2>6 DEF SubmitLogOnly
  <2>7. CASE OpenLogOnly(m)
    BY <1>0, <2>7 DEF OpenLogOnly, Return, Refused
  <2>8. CASE AppendLogOnly(m)
    BY <1>0, <2>8 DEF AppendLogOnly, Return, Done, Refused
  <2>9. CASE SubmitStart(m)
    BY <1>0, <2>9 DEF SubmitStart, Return, Refused
  <2>10. CASE SubmitRetry(m)
    BY <1>0, <2>10 DEF SubmitRetry, Return
  <2>11. CASE Spawn(m)
    BY <1>0, <2>11 DEF Spawn, Return, Done
  <2>12. QED
    BY <1>1, <2>1, <2>2, <2>3, <2>4, <2>5, <2>6, <2>7, <2>8, <2>9, <2>10, <2>11 DEF Sender
<1>2. CASE Burst \/ Model
  <2>1. CASE BurstStartTurn
    BY <1>0, <2>1 DEF BurstStartTurn, BurstAt
  <2>2. CASE BurstBoundary
    BY <1>0, <2>2 DEF BurstBoundary, BurstAt
  <2>3. CASE BurstDeliver
    BY <1>0, <2>3 DEF BurstDeliver
  <2>4. CASE BurstRequest
    BY <1>0, <2>4 DEF BurstRequest, BurstAt
  <2>5. CASE BurstSeeCancel
    BY <1>0, <2>5 DEF BurstSeeCancel, EndTurn
  <2>6. CASE BurstDrainTitles
    <3>1. failed' \in BOOLEAN
      BY <1>0, <2>6 DEF BurstDrainTitles, BurstAt, DrainedTo, Appended
    <3>2. QED
      BY <1>0, <3>1, <2>6 DEF BurstDrainTitles, BurstAt
  <2>7. CASE BurstNextFollowup
    BY <1>0, <2>7 DEF BurstNextFollowup, BurstAt
  <2>8. CASE BurstPrompt
    BY <1>0, <2>8 DEF BurstPrompt, BurstAt
  <2>9. CASE BurstTakeLeftovers
    BY <1>0, <2>9 DEF BurstTakeLeftovers, BurstAt
  <2>10. CASE BurstLeftover
    BY <1>0, <2>10 DEF BurstLeftover
  <2>11. CASE BurstLeftoversDone
    BY <1>0, <2>11 DEF BurstLeftoversDone, BurstAt
  <2>12. CASE BurstGoIdle
    <3>1. failed' \in BOOLEAN
      BY <1>0, <2>12 DEF BurstGoIdle, DrainedTo, Appended
    <3>2. QED
      BY <1>0, <3>1, <2>12 DEF BurstGoIdle
  <2>13. CASE BurstNextStep
    BY <1>0, <2>13 DEF BurstNextStep, BurstAt
  <2>14. CASE BurstEndTurn
    BY <1>0, <2>14 DEF BurstEndTurn, EndTurn
  <2>15. QED
    BY <1>2, <2>1, <2>2, <2>3, <2>4, <2>5, <2>6, <2>7, <2>8, <2>9, <2>10, <2>11, <2>12, <2>13, <2>14 DEF Burst, Model
<1>3. ASSUME NEW t \in Title, Naming(t) PROVE FlagTypes'
  <2>1. CASE SetTitle(t)
    BY <1>0, <2>1 DEF SetTitle
  <2>2. CASE WriteTitle(t)
    <3>1. failed' \in BOOLEAN
      BY <1>0, <2>2 DEF WriteTitle, Appended
    <3>2. QED
      BY <1>0, <3>1, <2>2 DEF WriteTitle
  <2>3. QED
    BY <1>3, <2>1, <2>2 DEF Naming
<1>4. CASE Compact
  <2>1. CASE CompactRead
    BY <1>0, <2>1 DEF CompactRead
  <2>2. CASE CompactOpen
    BY <1>0, <2>2 DEF CompactOpen
  <2>3. CASE CompactCommit
    <3>1. failed' \in BOOLEAN
      BY <1>0, <2>3 DEF CompactCommit, DrainedTo, Appended
    <3>2. QED
      BY <1>0, <3>1, <2>3 DEF CompactCommit
  <2>4. CASE CompactClose
    BY <1>0, <2>4 DEF CompactClose
  <2>5. QED
    BY <1>4, <2>1, <2>2, <2>3, <2>4 DEF Compact
<1>5. CASE Host
  <2>1. CASE Cancel
    BY <1>0, <2>1 DEF Cancel
  <2>2. CASE CloseRoot
    BY <1>0, <2>2 DEF CloseRoot
  <2>3. CASE CloseAncestor
    BY <1>0, <2>3 DEF CloseAncestor
  <2>4. CASE CancelDescendant
    BY <1>0, <2>4 DEF CancelDescendant
  <2>5. CASE Maintain
    BY <1>0, <2>5 DEF Maintain
  <2>6. CASE Crash
    <3>1. crashes' \in 0..Crashes
      BY <1>0, <2>6 DEF Crash
    <3>2. QED
      BY <1>0, <3>1, <2>6 DEF Crash
  <2>7. QED
    BY <1>5, <2>1, <2>2, <2>3, <2>4, <2>5, <2>6 DEF Host
<1>6. QED
  BY <1>1, <1>2, <1>3, <1>4, <1>5 DEF Next

(* The initial state has the types.                                          *)
LEMMA InitType == Init => TypeOK
<1> SUFFICES ASSUME Init PROVE TypeOK
  OBVIOUS
<1>1. StepTypes
  BY DEF Init, StepTypes
<1>2. SeqTypes
  BY DEF Init, SeqTypes
<1>3. FlagTypes
  <2>1. intent \in [Msg -> {"followup", "steer", "inject"}]
    BY DEF Init
  <2>2. crashes \in 0..Crashes
    BY DEF Init
  <2>3. QED
    BY <2>1, <2>2 DEF Init, FlagTypes
<1>4. QED
  BY <1>1, <1>2, <1>3, TypeParts

(* And every step, or stutter, ends in them.                                 *)
LEMMA NextType == ASSUME TypeOK, [Next]_vars PROVE TypeOK'
<1>1. CASE UNCHANGED vars
  BY <1>1 DEF vars, TypeOK
<1>2. CASE Next
  BY <1>2, TypeParts, StepTypeStep, SeqTypeStep, FlagTypeStep
     DEF StepTypes, SeqTypes, FlagTypes, TypeOK, Event
<1>3. QED
  BY <1>1, <1>2

(* The state of a session has the types the module gives it.                 *)
THEOREM TypeCorrect == Spec => []TypeOK
<1>1. TypeOK /\ [Next]_vars => TypeOK'
  BY NextType
<1>2. QED
  BY InitType, <1>1, PTL DEF Spec
-----------------------------------------------------------------------------
(* Maintenance, the hand of the burst, and who woke the session.             *)

LightInv == HandInv /\ StarterInv /\ QuietInv /\ SettleNeverWakesTornDown

(* Nothing of it is violated at first.                                       *)
LEMMA InitLight == Init => LightInv
BY DEF Init, LightInv, HandInv, StarterInv, QuietInv, SettleNeverWakesTornDown, WokenBy

(* Maintenance waits for senders, compact and the burst; they for it.        *)
LEMMA QuietStep ==
  ASSUME StepTypes, FlagTypes, LogOwner, QuietInv, Next
  PROVE  QuietInv'
<1> USE DEF StepTypes, LogOwner, Reserved, QuietInv, Submitting
<1>1. ASSUME NEW m \in Msg, Sender(m) PROVE QuietInv'
  <2>1. CASE Admit(m)
    BY <2>1 DEF Admit, Return
  <2>2. CASE Busy(m)
    BY <2>2 DEF Busy
  <2>3. CASE CheckTeardown(m)
    BY <2>3 DEF CheckTeardown
  <2>4. CASE CancelForSettle(m)
    BY <2>4 DEF CancelForSettle
  <2>5. CASE SubmitQueued(m)
    BY <2>5 DEF SubmitQueued, SubmitIntent, Return, Done
  <2>6. CASE SubmitLogOnly(m)
    BY <2>6 DEF SubmitLogOnly
  <2>7. CASE OpenLogOnly(m)
    BY <2>7 DEF OpenLogOnly, Return, Refused
  <2>8. CASE AppendLogOnly(m)
    BY <2>8 DEF AppendLogOnly, Return, Done, Refused
  <2>9. CASE SubmitStart(m)
    BY <2>9 DEF SubmitStart, Return, Refused
  <2>10. CASE SubmitRetry(m)
    BY <2>10 DEF SubmitRetry, Return
  <2>11. CASE Spawn(m)
    BY <2>11 DEF Spawn, Return, Done
  <2>12. QED
     BY <1>1, <2>1, <2>2, <2>3, <2>4, <2>5, <2>6, <2>7, <2>8, <2>9, <2>10, <2>11 DEF
       Sender
<1>2. CASE Burst \/ Model
  <2>1. CASE BurstStartTurn
    BY <2>1 DEF BurstStartTurn, BurstAt
  <2>2. CASE BurstBoundary
    BY <2>2 DEF BurstBoundary, BurstAt
  <2>3. CASE BurstDeliver
    BY <2>3 DEF BurstDeliver
  <2>4. CASE BurstRequest
    BY <2>4 DEF BurstRequest, BurstAt
  <2>5. CASE BurstSeeCancel
    BY <2>5 DEF BurstSeeCancel, EndTurn
  <2>6. CASE BurstDrainTitles
    BY <2>6 DEF BurstDrainTitles, BurstAt
  <2>7. CASE BurstNextFollowup
    BY <2>7 DEF BurstNextFollowup, BurstAt
  <2>8. CASE BurstPrompt
    BY <2>8 DEF BurstPrompt, BurstAt
  <2>9. CASE BurstTakeLeftovers
    BY <2>9 DEF BurstTakeLeftovers, BurstAt
  <2>10. CASE BurstLeftover
    BY <2>10 DEF BurstLeftover
  <2>11. CASE BurstLeftoversDone
    BY <2>11 DEF BurstLeftoversDone, BurstAt
  <2>12. CASE BurstGoIdle
    BY <2>12 DEF BurstGoIdle
  <2>13. CASE BurstNextStep
    BY <2>13 DEF BurstNextStep, BurstAt
  <2>14. CASE BurstEndTurn
    BY <2>14 DEF BurstEndTurn, EndTurn
  <2>15. QED
     BY <1>2, <2>1, <2>2, <2>3, <2>4, <2>5, <2>6, <2>7, <2>8, <2>9, <2>10, <2>11,
       <2>12, <2>13, <2>14 DEF Burst, Model
<1>3. ASSUME NEW t \in Title, Naming(t) PROVE QuietInv'
  <2>1. CASE SetTitle(t)
    BY <2>1 DEF SetTitle
  <2>2. CASE WriteTitle(t)
    BY <2>2 DEF WriteTitle
  <2>3. QED
    BY <1>3, <2>1, <2>2 DEF Naming
<1>4. CASE Compact
  <2>1. CASE CompactRead
    BY <2>1 DEF CompactRead
  <2>2. CASE CompactOpen
    BY <2>2 DEF CompactOpen
  <2>3. CASE CompactCommit
    BY <2>3 DEF CompactCommit
  <2>4. CASE CompactClose
    BY <2>4 DEF CompactClose
  <2>5. QED
    BY <1>4, <2>1, <2>2, <2>3, <2>4 DEF Compact
<1>5. CASE Host
  <2>1. CASE Cancel
    BY <2>1 DEF Cancel
  <2>2. CASE CloseRoot
    BY <2>2 DEF CloseRoot
  <2>3. CASE CloseAncestor
    BY <2>3 DEF CloseAncestor
  <2>4. CASE CancelDescendant
    BY <2>4 DEF CancelDescendant
  <2>5. CASE Maintain
    BY <2>5 DEF Maintain
  <2>6. CASE Crash
    BY <2>6 DEF Crash
  <2>7. QED
    BY <1>5, <2>1, <2>2, <2>3, <2>4, <2>5, <2>6 DEF Host
<1>6. QED
  BY <1>1, <1>2, <1>3, <1>4, <1>5 DEF Next

(* The hand of the burst is empty outside delivery.                          *)
LEMMA HandStep ==
  ASSUME StepTypes, FlagTypes, LogOwner, SeqTypes, HandInv, Next
  PROVE  HandInv'
<1> USE DEF StepTypes, SeqTypes, LogOwner, Reserved, Submitting, HandInv
<1>1. ASSUME NEW m \in Msg, Sender(m) PROVE HandInv'
  <2>1. CASE Admit(m)
    BY <2>1 DEF Admit, Return
  <2>2. CASE Busy(m)
    BY <2>2 DEF Busy
  <2>3. CASE CheckTeardown(m)
    BY <2>3 DEF CheckTeardown
  <2>4. CASE CancelForSettle(m)
    BY <2>4 DEF CancelForSettle
  <2>5. CASE SubmitQueued(m)
    BY <2>5 DEF SubmitQueued, SubmitIntent, Return, Done
  <2>6. CASE SubmitLogOnly(m)
    BY <2>6 DEF SubmitLogOnly
  <2>7. CASE OpenLogOnly(m)
    BY <2>7 DEF OpenLogOnly, Return, Refused
  <2>8. CASE AppendLogOnly(m)
    BY <2>8 DEF AppendLogOnly, Return, Done, Refused
  <2>9. CASE SubmitStart(m)
    BY <2>9 DEF SubmitStart, Return, Refused
  <2>10. CASE SubmitRetry(m)
    BY <2>10 DEF SubmitRetry, Return
  <2>11. CASE Spawn(m)
    BY <2>11 DEF Spawn, Return, Done
  <2>12. QED
     BY <1>1, <2>1, <2>2, <2>3, <2>4, <2>5, <2>6, <2>7, <2>8, <2>9, <2>10, <2>11 DEF
       Sender
<1>2. CASE Burst \/ Model
  <2>1. CASE BurstStartTurn
    BY <2>1 DEF BurstStartTurn, BurstAt
  <2>2. CASE BurstBoundary
    BY <2>2 DEF BurstBoundary, BurstAt
  <2>3. CASE BurstDeliver
    BY <2>3 DEF BurstDeliver
  <2>4. CASE BurstRequest
    BY <2>4 DEF BurstRequest, BurstAt
  <2>5. CASE BurstSeeCancel
    BY <2>5 DEF BurstSeeCancel, EndTurn
  <2>6. CASE BurstDrainTitles
    BY <2>6 DEF BurstDrainTitles, BurstAt
  <2>7. CASE BurstNextFollowup
    BY <2>7 DEF BurstNextFollowup, BurstAt
  <2>8. CASE BurstPrompt
    BY <2>8 DEF BurstPrompt, BurstAt
  <2>9. CASE BurstTakeLeftovers
    BY <2>9 DEF BurstTakeLeftovers, BurstAt
  <2>10. CASE BurstLeftover
    BY <2>10 DEF BurstLeftover
  <2>11. CASE BurstLeftoversDone
    BY <2>11 DEF BurstLeftoversDone, BurstAt
  <2>12. CASE BurstGoIdle
    BY <2>12 DEF BurstGoIdle
  <2>13. CASE BurstNextStep
    BY <2>13 DEF BurstNextStep, BurstAt
  <2>14. CASE BurstEndTurn
    BY <2>14 DEF BurstEndTurn, EndTurn
  <2>15. QED
     BY <1>2, <2>1, <2>2, <2>3, <2>4, <2>5, <2>6, <2>7, <2>8, <2>9, <2>10, <2>11,
       <2>12, <2>13, <2>14 DEF Burst, Model
<1>3. ASSUME NEW t \in Title, Naming(t) PROVE HandInv'
  <2>1. CASE SetTitle(t)
    BY <2>1 DEF SetTitle
  <2>2. CASE WriteTitle(t)
    BY <2>2 DEF WriteTitle
  <2>3. QED
    BY <1>3, <2>1, <2>2 DEF Naming
<1>4. CASE Compact
  <2>1. CASE CompactRead
    BY <2>1 DEF CompactRead
  <2>2. CASE CompactOpen
    BY <2>2 DEF CompactOpen
  <2>3. CASE CompactCommit
    BY <2>3 DEF CompactCommit
  <2>4. CASE CompactClose
    BY <2>4 DEF CompactClose
  <2>5. QED
    BY <1>4, <2>1, <2>2, <2>3, <2>4 DEF Compact
<1>5. CASE Host
  <2>1. CASE Cancel
    BY <2>1 DEF Cancel
  <2>2. CASE CloseRoot
    BY <2>2 DEF CloseRoot
  <2>3. CASE CloseAncestor
    BY <2>3 DEF CloseAncestor
  <2>4. CASE CancelDescendant
    BY <2>4 DEF CancelDescendant
  <2>5. CASE Maintain
    BY <2>5 DEF Maintain
  <2>6. CASE Crash
    BY <2>6 DEF Crash
  <2>7. QED
    BY <1>5, <2>1, <2>2, <2>3, <2>4, <2>5, <2>6 DEF Host
<1>6. QED
  BY <1>1, <1>2, <1>3, <1>4, <1>5 DEF Next

(* A starter holds the session until its burst is spawned.                   *)
LEMMA StarterStep ==
  ASSUME StepTypes, FlagTypes, LogOwner, StarterInv, Next
  PROVE  StarterInv'
<1> USE DEF StepTypes, LogOwner, Reserved, FlagTypes, StarterInv
<1>1. ASSUME NEW m \in Msg, Sender(m) PROVE StarterInv'
  <2>1. CASE Admit(m)
    BY <2>1 DEF Admit, Return
  <2>2. CASE Busy(m)
    BY <2>2 DEF Busy
  <2>3. CASE CheckTeardown(m)
    BY <2>3 DEF CheckTeardown
  <2>4. CASE CancelForSettle(m)
    BY <2>4 DEF CancelForSettle
  <2>5. CASE SubmitQueued(m)
    BY <2>5 DEF SubmitQueued, SubmitIntent, Return, Done, Submitting
  <2>6. CASE SubmitLogOnly(m)
    BY <2>6 DEF SubmitLogOnly
  <2>7. CASE OpenLogOnly(m)
    BY <2>7 DEF OpenLogOnly, Return, Refused
  <2>8. CASE AppendLogOnly(m)
    BY <2>8 DEF AppendLogOnly, Return, Done, Refused
  <2>9. CASE SubmitStart(m)
    BY <2>9 DEF SubmitStart, Return, Refused, Submitting, SettleMayPass, SubmitIntent
  <2>10. CASE SubmitRetry(m)
    BY <2>10 DEF SubmitRetry, Return, Submitting
  <2>11. CASE Spawn(m)
    BY <2>11 DEF Spawn, Return, Done
  <2>12. QED
     BY <1>1, <2>1, <2>2, <2>3, <2>4, <2>5, <2>6, <2>7, <2>8, <2>9, <2>10, <2>11 DEF
       Sender
<1>2. CASE Burst \/ Model
  <2>1. CASE BurstStartTurn
    BY <2>1 DEF BurstStartTurn, BurstAt
  <2>2. CASE BurstBoundary
    BY <2>2 DEF BurstBoundary, BurstAt
  <2>3. CASE BurstDeliver
    BY <2>3 DEF BurstDeliver
  <2>4. CASE BurstRequest
    BY <2>4 DEF BurstRequest, BurstAt
  <2>5. CASE BurstSeeCancel
    BY <2>5 DEF BurstSeeCancel, EndTurn
  <2>6. CASE BurstDrainTitles
    BY <2>6 DEF BurstDrainTitles, BurstAt
  <2>7. CASE BurstNextFollowup
    BY <2>7 DEF BurstNextFollowup, BurstAt
  <2>8. CASE BurstPrompt
    BY <2>8 DEF BurstPrompt, BurstAt
  <2>9. CASE BurstTakeLeftovers
    BY <2>9 DEF BurstTakeLeftovers, BurstAt
  <2>10. CASE BurstLeftover
    BY <2>10 DEF BurstLeftover
  <2>11. CASE BurstLeftoversDone
    BY <2>11 DEF BurstLeftoversDone, BurstAt
  <2>12. CASE BurstGoIdle
    BY <2>12 DEF BurstGoIdle
  <2>13. CASE BurstNextStep
    BY <2>13 DEF BurstNextStep, BurstAt
  <2>14. CASE BurstEndTurn
    BY <2>14 DEF BurstEndTurn, EndTurn
  <2>15. QED
     BY <1>2, <2>1, <2>2, <2>3, <2>4, <2>5, <2>6, <2>7, <2>8, <2>9, <2>10, <2>11,
       <2>12, <2>13, <2>14 DEF Burst, Model
<1>3. ASSUME NEW t \in Title, Naming(t) PROVE StarterInv'
  <2>1. CASE SetTitle(t)
    BY <2>1 DEF SetTitle
  <2>2. CASE WriteTitle(t)
    BY <2>2 DEF WriteTitle
  <2>3. QED
    BY <1>3, <2>1, <2>2 DEF Naming
<1>4. CASE Compact
  <2>1. CASE CompactRead
    BY <2>1 DEF CompactRead
  <2>2. CASE CompactOpen
    BY <2>2 DEF CompactOpen
  <2>3. CASE CompactCommit
    BY <2>3 DEF CompactCommit
  <2>4. CASE CompactClose
    BY <2>4 DEF CompactClose
  <2>5. QED
    BY <1>4, <2>1, <2>2, <2>3, <2>4 DEF Compact
<1>5. CASE Host
  <2>1. CASE Cancel
    BY <2>1 DEF Cancel
  <2>2. CASE CloseRoot
    BY <2>2 DEF CloseRoot, ClosingFree
  <2>3. CASE CloseAncestor
    BY <2>3 DEF CloseAncestor, ClosingFree
  <2>4. CASE CancelDescendant
    BY <2>4 DEF CancelDescendant
  <2>5. CASE Maintain
    BY <2>5 DEF Maintain
  <2>6. CASE Crash
    BY <2>6 DEF Crash
  <2>7. QED
    BY <1>5, <2>1, <2>2, <2>3, <2>4, <2>5, <2>6 DEF Host
<1>6. QED
  BY <1>1, <1>2, <1>3, <1>4, <1>5 DEF Next

(* A settle notice that started a burst did so before any teardown.          *)
LEMMA SettleStep ==
  ASSUME StepTypes, FlagTypes, LogOwner, StarterInv, SettleNeverWakesTornDown, Next
  PROVE  SettleNeverWakesTornDown'
<1> USE DEF StepTypes, LogOwner, StarterInv, SettleNeverWakesTornDown, WokenBy
<1>1. ASSUME NEW m \in Msg, Sender(m) PROVE SettleNeverWakesTornDown'
  <2>1. CASE Admit(m)
    BY <2>1 DEF Admit, Return
  <2>2. CASE Busy(m)
    BY <2>2 DEF Busy
  <2>3. CASE CheckTeardown(m)
    BY <2>3 DEF CheckTeardown
  <2>4. CASE CancelForSettle(m)
    BY <2>4 DEF CancelForSettle
  <2>5. CASE SubmitQueued(m)
    BY <2>5 DEF SubmitQueued, SubmitIntent, Return, Done
  <2>6. CASE SubmitLogOnly(m)
    BY <2>6 DEF SubmitLogOnly
  <2>7. CASE OpenLogOnly(m)
    BY <2>7 DEF OpenLogOnly, Return, Refused
  <2>8. CASE AppendLogOnly(m)
    BY <2>8 DEF AppendLogOnly, Return, Done, Refused
  <2>9. CASE SubmitStart(m)
    BY <2>9 DEF SubmitStart, Return, Refused, Submitting, SettleMayPass, SubmitIntent
  <2>10. CASE SubmitRetry(m)
    BY <2>10 DEF SubmitRetry, Return, Submitting
  <2>11. CASE Spawn(m)
    BY <2>11 DEF Spawn, Return, Done
  <2>12. QED
     BY <1>1, <2>1, <2>2, <2>3, <2>4, <2>5, <2>6, <2>7, <2>8, <2>9, <2>10, <2>11 DEF
       Sender
<1>2. CASE Burst \/ Model
  <2>1. CASE BurstStartTurn
    BY <2>1 DEF BurstStartTurn, BurstAt
  <2>2. CASE BurstBoundary
    BY <2>2 DEF BurstBoundary, BurstAt
  <2>3. CASE BurstDeliver
    BY <2>3 DEF BurstDeliver
  <2>4. CASE BurstRequest
    BY <2>4 DEF BurstRequest, BurstAt
  <2>5. CASE BurstSeeCancel
    BY <2>5 DEF BurstSeeCancel, EndTurn
  <2>6. CASE BurstDrainTitles
    BY <2>6 DEF BurstDrainTitles, BurstAt
  <2>7. CASE BurstNextFollowup
    BY <2>7 DEF BurstNextFollowup, BurstAt
  <2>8. CASE BurstPrompt
    BY <2>8 DEF BurstPrompt, BurstAt
  <2>9. CASE BurstTakeLeftovers
    BY <2>9 DEF BurstTakeLeftovers, BurstAt
  <2>10. CASE BurstLeftover
    BY <2>10 DEF BurstLeftover
  <2>11. CASE BurstLeftoversDone
    BY <2>11 DEF BurstLeftoversDone, BurstAt
  <2>12. CASE BurstGoIdle
    BY <2>12 DEF BurstGoIdle
  <2>13. CASE BurstNextStep
    BY <2>13 DEF BurstNextStep, BurstAt
  <2>14. CASE BurstEndTurn
    BY <2>14 DEF BurstEndTurn, EndTurn
  <2>15. QED
     BY <1>2, <2>1, <2>2, <2>3, <2>4, <2>5, <2>6, <2>7, <2>8, <2>9, <2>10, <2>11,
       <2>12, <2>13, <2>14 DEF Burst, Model
<1>3. ASSUME NEW t \in Title, Naming(t) PROVE SettleNeverWakesTornDown'
  <2>1. CASE SetTitle(t)
    BY <2>1 DEF SetTitle
  <2>2. CASE WriteTitle(t)
    BY <2>2 DEF WriteTitle
  <2>3. QED
    BY <1>3, <2>1, <2>2 DEF Naming
<1>4. CASE Compact
  <2>1. CASE CompactRead
    BY <2>1 DEF CompactRead
  <2>2. CASE CompactOpen
    BY <2>2 DEF CompactOpen
  <2>3. CASE CompactCommit
    BY <2>3 DEF CompactCommit
  <2>4. CASE CompactClose
    BY <2>4 DEF CompactClose
  <2>5. QED
    BY <1>4, <2>1, <2>2, <2>3, <2>4 DEF Compact
<1>5. CASE Host
  <2>1. CASE Cancel
    BY <2>1 DEF Cancel
  <2>2. CASE CloseRoot
    BY <2>2 DEF CloseRoot
  <2>3. CASE CloseAncestor
    BY <2>3 DEF CloseAncestor
  <2>4. CASE CancelDescendant
    BY <2>4 DEF CancelDescendant
  <2>5. CASE Maintain
    BY <2>5 DEF Maintain
  <2>6. CASE Crash
    BY <2>6 DEF Crash
  <2>7. QED
    BY <1>5, <2>1, <2>2, <2>3, <2>4, <2>5, <2>6 DEF Host
<1>6. QED
  BY <1>1, <1>2, <1>3, <1>4, <1>5 DEF Next

(* Every step keeps what was just shown of it.                               *)
LEMMA NextLight == ASSUME TypeOK, LogOwner, LightInv, [Next]_vars PROVE LightInv'
<1>1. CASE UNCHANGED vars
  BY <1>1 DEF vars, LightInv, HandInv, StarterInv, QuietInv, SettleNeverWakesTornDown, WokenBy,
     inbox, locks, task, history, given
<1>2. CASE Next
  BY <1>2, TypeParts, QuietStep, HandStep, StarterStep, SettleStep DEF LightInv
<1>3. QED
  BY <1>1, <1>2

(* Every reachable state has the types, the owner of the log where its code  *)
(* says, and the hand, the starter and maintenance in order.                 *)
BaseInv == TypeOK /\ LogOwner /\ LightInv

(* Every step, of any number of senders and titles, keeps all of it.         *)
THEOREM BaseInvariance == Spec => []BaseInv
<1>1. BaseInv /\ [Next]_vars => BaseInv'
  <2>1. TypeOK /\ LogOwner => OwnerInv
    BY DEF OwnerInv, OwnerTypes, TypeOK
  <2>2. OwnerInv' => LogOwner'
    BY DEF OwnerInv
  <2>3. QED
    BY <2>1, <2>2, NextType, NextOwner, NextLight DEF BaseInv
<1>2. Init => BaseInv
  BY InitType, InitOwner, InitLight DEF BaseInv, OwnerInv
<1>3. QED
  BY <1>1, <1>2, PTL DEF Spec

(* While the lifecycle lock is held for writing no turn runs and nobody but  *)
(* a title has the log open (maintain, service.rs:1602-1640).                *)
THEOREM MaintenanceIsQuiet == Spec => []MaintenanceQuiet
<1>1. BaseInv => MaintenanceQuiet
  <2> SUFFICES ASSUME BaseInv, maintenance
               PROVE  phase = "Idle" /\ burst = "none" /\ writer \in Title \cup {None}
    BY DEF MaintenanceQuiet
  <2>1. operation = None /\ burst = "none"
    BY DEF BaseInv, LightInv, QuietInv
  <2>2. phase = "Idle" /\ writer # "burst" /\ compact \notin {"committing", "closing"}
    BY <2>1 DEF BaseInv, TypeOK, LogOwner
  <2>3. \A m \in Msg : writer # m
    BY <2>1 DEF BaseInv, LogOwner, Reserved
  <2>4. writer # "compact"
    BY <2>2 DEF BaseInv, LogOwner
  <2>5. QED
    BY <2>1, <2>2, <2>3, <2>4 DEF BaseInv, TypeOK
<1>2. QED
  BY BaseInvariance, <1>1, PTL

(* A settle notice never wakes a session whose teardown reached it, because  *)
(* it holds `closing` from its check until its burst has its fresh token.    *)
THEOREM SettleSleeps == Spec => []SettleNeverWakesTornDown
<1>1. BaseInv => SettleNeverWakesTornDown
  BY DEF BaseInv, LightInv
<1>2. QED
  BY BaseInvariance, <1>1, PTL
-----------------------------------------------------------------------------
(* The conversation and the turns, seen by whoever appends.                  *)

(* Titles are no part of either.                                             *)
LEMMA DrainUnseen ==
  ASSUME NEW l \in Seq(Event), NEW ts \in Seq(Title), NEW lost, Appended(l, ts, lost)
  PROVE  /\ Select(log', Msg \cup Markers) = Select(l, Msg \cup Markers)
         /\ Turns(log') = Turns(l)
<1> DEFINE kept == Select(ts, Title \ lost)
<1>1. kept \in Seq(Title) /\ kept \in Seq(Event)
  <2>1. kept \in Seq(Title)
    BY DrainType
  <2> HIDE DEF kept
  <2>2. QED
    BY <2>1 DEF Event
<1>2. log' = l \o kept
  BY DEF Appended
<1> HIDE DEF kept
<1>3. ASSUME NEW S, S \cap Title = {} PROVE Select(log', S) = Select(l, S)
  <2>1. Select(l \o kept, S) = Select(l, S) \o Select(kept, S)
    BY <1>1, SelectConcat
  <2>2. Select(kept, S) = <<>>
    BY <1>1, <1>3, SelectNoneAll
  <2>3. Select(l, S) \in Seq(S \cap Event)
    BY SelectType
  <2> DEFINE chosen == Select(l, S)
  <2>4. chosen \o <<>> = chosen
    <3>1. chosen \in Seq(S \cap Event)
      BY <2>3
    <3> HIDE DEF chosen
    <3>2. QED
      BY <3>1
  <2>5. QED
    BY <1>2, <2>1, <2>2, <2>4
<1>4. (Msg \cup Markers) \cap Title = {} /\ TurnMarks \cap Title = {}
  BY DEF Markers
<1>5. QED
  BY <1>3, <1>4 DEF Turns

(* Whatever is drained, of the titles queued.                                *)
LEMMA DrainedUnseen ==
  ASSUME SeqTypes, NEW l \in Seq(Event), DrainedTo(l)
  PROVE  /\ Select(log', Msg \cup Markers) = Select(l, Msg \cup Markers)
         /\ Turns(log') = Turns(l)
BY DrainUnseen DEF DrainedTo, SeqTypes

(* A title and the queue before it.                                          *)
LEMMA TitleUnseen ==
  ASSUME SeqTypes, NEW t \in Title, WriteTitle(t)
  PROVE  Conversation' = Conversation /\ Turns(log') = Turns(log)
<1>1. log \in Seq(Event) /\ Append(titles, t) \in Seq(Title)
  BY SeqMoves DEF SeqTypes
<1>2. \E lost : Appended(log, Append(titles, t), lost)
  BY DEF WriteTitle
<1>3. QED
  BY <1>1, <1>2, DrainUnseen DEF Conversation

(* Nobody adds to the conversation between compact's read and its append.    *)
LEMMA SnapshotStep ==
  ASSUME StepTypes, FlagTypes, LogOwner, SeqTypes, SnapshotInv, Next
  PROVE  SnapshotInv'
<1> USE DEF StepTypes, LogOwner, Reserved, SnapshotInv, Conversation
<1>1. ASSUME NEW m \in Msg, Sender(m) PROVE SnapshotInv'
  <2>1. CASE Admit(m)
    BY <2>1 DEF Admit, Return
  <2>2. CASE Busy(m)
    BY <2>2 DEF Busy
  <2>3. CASE CheckTeardown(m)
    BY <2>3 DEF CheckTeardown
  <2>4. CASE CancelForSettle(m)
    BY <2>4 DEF CancelForSettle
  <2>5. CASE SubmitQueued(m)
    BY <2>5 DEF SubmitQueued, SubmitIntent, Return, Done, Submitting
  <2>6. CASE SubmitLogOnly(m)
    BY <2>6 DEF SubmitLogOnly, Submitting
  <2>7. CASE OpenLogOnly(m)
    BY <2>7 DEF OpenLogOnly, Return, Refused
  <2>8. CASE AppendLogOnly(m)
    BY <2>8 DEF AppendLogOnly, Return, Done, Refused
  <2>9. CASE SubmitStart(m)
    BY <2>9 DEF SubmitStart, Return, Refused, Submitting
  <2>10. CASE SubmitRetry(m)
    BY <2>10 DEF SubmitRetry, Return, Submitting
  <2>11. CASE Spawn(m)
    BY <2>11 DEF Spawn, Return, Done
  <2>12. QED
     BY <1>1, <2>1, <2>2, <2>3, <2>4, <2>5, <2>6, <2>7, <2>8, <2>9, <2>10, <2>11 DEF
       Sender
<1>2. CASE Burst \/ Model
  <2>1. CASE BurstStartTurn
    BY <2>1 DEF BurstStartTurn, BurstAt
  <2>2. CASE BurstBoundary
    BY <2>2 DEF BurstBoundary, BurstAt
  <2>3. CASE BurstDeliver
    BY <2>3 DEF BurstDeliver
  <2>4. CASE BurstRequest
    BY <2>4 DEF BurstRequest, BurstAt
  <2>5. CASE BurstSeeCancel
    BY <2>5 DEF BurstSeeCancel, EndTurn
  <2>6. CASE BurstDrainTitles
    BY <2>6 DEF BurstDrainTitles, BurstAt
  <2>7. CASE BurstNextFollowup
    BY <2>7 DEF BurstNextFollowup, BurstAt
  <2>8. CASE BurstPrompt
    BY <2>8 DEF BurstPrompt, BurstAt
  <2>9. CASE BurstTakeLeftovers
    BY <2>9 DEF BurstTakeLeftovers, BurstAt
  <2>10. CASE BurstLeftover
    BY <2>10 DEF BurstLeftover
  <2>11. CASE BurstLeftoversDone
    BY <2>11 DEF BurstLeftoversDone, BurstAt
  <2>12. CASE BurstGoIdle
    BY <2>12 DEF BurstGoIdle
  <2>13. CASE BurstNextStep
    BY <2>13 DEF BurstNextStep, BurstAt
  <2>14. CASE BurstEndTurn
    BY <2>14 DEF BurstEndTurn, EndTurn
  <2>15. QED
     BY <1>2, <2>1, <2>2, <2>3, <2>4, <2>5, <2>6, <2>7, <2>8, <2>9, <2>10, <2>11,
       <2>12, <2>13, <2>14 DEF Burst, Model
<1>3. ASSUME NEW t \in Title, Naming(t) PROVE SnapshotInv'
  <2>1. CASE SetTitle(t)
    BY <2>1 DEF SetTitle
  <2>2. CASE WriteTitle(t)
    BY <2>2, TitleUnseen DEF WriteTitle
  <2>3. QED
    BY <1>3, <2>1, <2>2 DEF Naming
<1>4. CASE Compact
  <2>1. CASE CompactRead
    BY <2>1 DEF CompactRead
  <2>2. CASE CompactOpen
    BY <2>2 DEF CompactOpen
  <2>3. CASE CompactCommit
    BY <2>3 DEF CompactCommit
  <2>4. CASE CompactClose
    BY <2>4 DEF CompactClose
  <2>5. QED
    BY <1>4, <2>1, <2>2, <2>3, <2>4 DEF Compact
<1>5. CASE Host
  <2>1. CASE Cancel
    BY <2>1 DEF Cancel
  <2>2. CASE CloseRoot
    BY <2>2 DEF CloseRoot
  <2>3. CASE CloseAncestor
    BY <2>3 DEF CloseAncestor
  <2>4. CASE CancelDescendant
    BY <2>4 DEF CancelDescendant
  <2>5. CASE Maintain
    BY <2>5 DEF Maintain
  <2>6. CASE Crash
    BY <2>6 DEF Crash
  <2>7. QED
    BY <1>5, <2>1, <2>2, <2>3, <2>4, <2>5, <2>6 DEF Host
<1>6. QED
  BY <1>1, <1>2, <1>3, <1>4, <1>5 DEF Next

(* Every reachable state has compact's snapshot up to date.                  *)
THEOREM SnapshotInvariance == Spec => []SnapshotInv
<1>1. BaseInv /\ SnapshotInv /\ [Next]_vars => SnapshotInv'
  <2>1. CASE UNCHANGED vars
    BY <2>1 DEF vars, SnapshotInv, Conversation, inbox, folding
  <2>2. CASE Next
    BY <2>2, TypeParts, SnapshotStep DEF BaseInv
  <2>3. QED
    BY <2>1, <2>2
<1>2. Init => SnapshotInv
  BY DEF Init, SnapshotInv
<1>3. QED
  BY BaseInvariance, <1>1, <1>2, PTL DEF Spec

(* The checkpoint compact appends is about the conversation as it then is:   *)
(* nothing was said while the summary was made (service.rs:2265-2378).       *)
THEOREM CheckpointFresh == Spec => CheckpointNotStale
<1>1. SnapshotInv => [Len(log') > Len(log) /\ compact = "committing" /\ compact' = "closing"
                      => Conversation = snapshot]_vars
  BY DEF SnapshotInv
<1>2. QED
  BY SnapshotInvariance, <1>1, PTL DEF CheckpointNotStale
-----------------------------------------------------------------------------
(* Turn markers.                                                             *)

(* What is kept of a log: its turn markers alternate, and where a failure    *)
(* is the last thing said the turn is closed, so that a retry may start one. *)
Said(l) == Select(l, Msg \cup Markers)
Bracketed(l) == \A i \in 1..Len(Turns(l)) :
                   Turns(l)[i] = "started" <=> i = 1 \/ Turns(l)[i - 1] # "started"
FailedClosed(l) == Said(l) # <<>> /\ Said(l)[Len(Said(l))] = "failed" => ~TurnOpen(l)
GoodLog(l) == Bracketed(l) /\ FailedClosed(l)

(* Where the burst is tells whether a turn is open.                          *)
TurnPlaces ==
    /\ burst \in {"starting", "turn", "prompting", "leftovers"} => ~TurnOpen(log)
    /\ burst \in {"step", "delivering", "model"} => TurnOpen(log)
    /\ burst \in {"ended", "deciding"} /\ outcome = "completed" => ~TurnOpen(log)

(* Together they are what TLC checks.                                        *)
LEMMA TurnParts == TurnPlaces /\ GoodLog(log) <=> TurnInv /\ TurnsBracketed
BY DEF TurnPlaces, GoodLog, Bracketed, FailedClosed, Said, TurnInv, TurnsBracketed,
   Conversation, LastConversation

(* One more event: a marker opens a turn where none is open, or closes it.   *)
LEMMA GoodAppend ==
  ASSUME NEW l \in Seq(Event), GoodLog(l), NEW e \in Msg \cup Markers,
         e \in TurnMarks => (e = "started" <=> ~TurnOpen(l))
  PROVE  /\ Append(l, e) \in Seq(Event) /\ GoodLog(Append(l, e))
         /\ TurnOpen(Append(l, e)) <=> IF e \in TurnMarks THEN e = "started" ELSE TurnOpen(l)
<1> DEFINE k == Append(l, e)
           T == Turns(l)
           S == Said(l)
<1>1. e \in Event
  BY DEF Event
<1>2. Turns(k) = IF e \in TurnMarks THEN Append(T, e) ELSE T
  BY <1>1, SelectAppend DEF Turns
<1>3. Said(k) = Append(S, e)
  BY <1>1, SelectAppend DEF Said
<1>4. T \in Seq(TurnMarks \cap Event) /\ S \in Seq((Msg \cup Markers) \cap Event)
  BY SelectType DEF Turns, Said
<1>5. k \in Seq(Event)
  BY <1>1
<1>6. TurnOpen(l) <=> T # <<>> /\ T[Len(T)] = "started"
  BY DEF TurnOpen
<1>7. TurnOpen(k) <=> Turns(k) # <<>> /\ Turns(k)[Len(Turns(k))] = "started"
  BY DEF TurnOpen
<1>8. FailedClosed(k) <=> (Said(k) # <<>> /\ Said(k)[Len(Said(k))] = "failed" => ~TurnOpen(k))
  BY DEF FailedClosed
<1>9. Bracketed(k) <=> \A i \in 1..Len(Turns(k)) :
                         Turns(k)[i] = "started" <=> i = 1 \/ Turns(k)[i - 1] # "started"
  BY DEF Bracketed
<1>10. \A i \in 1..Len(T) : T[i] = "started" <=> i = 1 \/ T[i - 1] # "started"
  BY DEF GoodLog, Bracketed
<1> HIDE DEF k, T, S
<1>11. TurnOpen(k) <=> IF e \in TurnMarks THEN e = "started" ELSE TurnOpen(l)
  <2>1. CASE e \in TurnMarks
    <3>1. Append(T, e) # <<>> /\ Append(T, e)[Len(Append(T, e))] = e
      <4>1. e \in TurnMarks \cap Event /\ T \in Seq(TurnMarks \cap Event)
        BY <2>1, <1>1, <1>4
      <4>2. QED
        BY <4>1
    <3>2. QED
      BY <2>1, <3>1, <1>2, <1>7
  <2>2. CASE e \notin TurnMarks
    BY <2>2, <1>2, <1>6, <1>7
  <2>3. QED
    BY <2>1, <2>2
<1>12. Append(S, e) # <<>> /\ Append(S, e)[Len(Append(S, e))] = e
  BY <1>4
<1>13. FailedClosed(k)
  <2>1. CASE e = "failed"
    BY <2>1, <1>8, <1>11 DEF TurnMarks
  <2>2. CASE e # "failed"
    BY <2>2, <1>3, <1>8, <1>12
  <2>3. QED
    BY <2>1, <2>2
<1>14. Bracketed(k)
  <2>1. CASE e \in TurnMarks
    <3>1. /\ Len(Append(T, e)) = Len(T) + 1 /\ Append(T, e)[Len(T) + 1] = e
          /\ \A i \in 1..Len(T) : Append(T, e)[i] = T[i]
          /\ Len(T) \in Nat /\ (T = <<>> <=> Len(T) = 0)
      BY <1>4
    <3>2. SUFFICES ASSUME NEW i \in 1..(Len(T) + 1)
                   PROVE  Append(T, e)[i] = "started"
                          <=> i = 1 \/ Append(T, e)[i - 1] # "started"
      BY <2>1, <1>2, <1>9, <3>1
    <3>3. CASE i <= Len(T)
      BY <3>1, <3>3, <1>10
    <3>4. CASE i = Len(T) + 1
      <4>1. e = "started" <=> T = <<>> \/ T[Len(T)] # "started"
        BY <2>1, <1>6
      <4>2. CASE T = <<>>
        BY <3>1, <3>4, <4>1, <4>2
      <4>3. CASE T # <<>>
        <5>1. i - 1 = Len(T) /\ Len(T) \in 1..Len(T) /\ i # 1
          BY <3>1, <3>4, <4>3
        <5>2. QED
          BY <3>1, <3>4, <4>1, <4>3, <5>1
      <4>4. QED
        BY <4>2, <4>3
    <3>5. QED
      BY <3>1, <3>3, <3>4
  <2>2. CASE e \notin TurnMarks
    BY <2>2, <1>2, <1>9, <1>10
  <2>3. QED
    BY <2>1, <2>2
<1>15. QED
  BY <1>5, <1>11, <1>13, <1>14 DEF GoodLog, k

(* recover closes a turn left open.                                          *)
LEMMA GoodRecovered ==
  ASSUME NEW l \in Seq(Event), GoodLog(l)
  PROVE  Recovered(l) \in Seq(Event) /\ GoodLog(Recovered(l)) /\ ~TurnOpen(Recovered(l))
<1>1. CASE TurnOpen(l)
  <2>1. "failed" \in TurnMarks /\ "failed" \in Msg \cup Markers
    BY DEF TurnMarks, Markers
  <2>2. QED
    BY <1>1, <2>1, GoodAppend DEF Recovered
<1>2. CASE ~TurnOpen(l)
  BY <1>2 DEF Recovered
<1>3. QED
  BY <1>1, <1>2

(* Titles are no part of it.                                                 *)
LEMMA GoodDrained ==
  ASSUME SeqTypes, NEW l \in Seq(Event), DrainedTo(l)
  PROVE  (GoodLog(l) => GoodLog(log')) /\ (TurnOpen(log') <=> TurnOpen(l))
BY DrainedUnseen DEF GoodLog, Bracketed, FailedClosed, Said, TurnOpen

(* A title written with the inbox held opens and closes no turn either.      *)
LEMMA GoodTitle ==
  ASSUME SeqTypes, NEW t \in Title, WriteTitle(t)
  PROVE  (GoodLog(log) => GoodLog(log')) /\ (TurnOpen(log') <=> TurnOpen(log))
BY TitleUnseen DEF GoodLog, Bracketed, FailedClosed, Said, TurnOpen, Conversation

(* What the steps append.                                                    *)
LEMMA TurnMoves ==
  ASSUME SeqTypes, HandInv, GoodLog(log)
  PROVE  /\ \A m \in Msg : /\ GoodLog(Append(log, m))
                           /\ TurnOpen(Append(log, m)) <=> TurnOpen(log)
                           /\ GoodLog(Append(Recovered(log), m))
                           /\ ~TurnOpen(Append(Recovered(log), m))
         /\ GoodLog(Recovered(log)) /\ ~TurnOpen(Recovered(log))
         /\ GoodLog(Append(log, "checkpoint"))
         /\ Append(log, "checkpoint") \in Seq(Event)
         /\ ~TurnOpen(log) => /\ GoodLog(Append(log, "started"))
                              /\ TurnOpen(Append(log, "started"))
         /\ TurnOpen(log) => \A o \in {"completed", "failed", "cancelled"} :
                                GoodLog(Append(log, o)) /\ ~TurnOpen(Append(log, o))
         /\ burst = "prompting" => /\ GoodLog(log \o hand)
                                   /\ TurnOpen(log \o hand) <=> TurnOpen(log)
<1>1. log \in Seq(Event) /\ Recovered(log) \in Seq(Event)
  BY GoodRecovered DEF SeqTypes
<1>2. Msg \cap TurnMarks = {} /\ "checkpoint" \notin TurnMarks /\ "checkpoint" \in Markers
  BY DEF Markers, TurnMarks
<1>3. GoodLog(Recovered(log)) /\ ~TurnOpen(Recovered(log))
  BY <1>1, GoodRecovered
<1>4. ASSUME NEW m \in Msg
      PROVE  /\ GoodLog(Append(log, m))
             /\ TurnOpen(Append(log, m)) <=> TurnOpen(log)
             /\ GoodLog(Append(Recovered(log), m)) /\ ~TurnOpen(Append(Recovered(log), m))
  <2>1. m \notin TurnMarks
    BY <1>2
  <2>2. GoodLog(Append(log, m)) /\ (TurnOpen(Append(log, m)) <=> TurnOpen(log))
    BY <1>1, <2>1, GoodAppend
  <2>3. GoodLog(Append(Recovered(log), m)) /\ ~TurnOpen(Append(Recovered(log), m))
    BY <1>1, <1>3, <2>1, GoodAppend
  <2>4. QED
    BY <2>2, <2>3
<1>5. GoodLog(Append(log, "checkpoint")) /\ Append(log, "checkpoint") \in Seq(Event)
  BY <1>1, <1>2, GoodAppend
<1>6. ~TurnOpen(log) => /\ GoodLog(Append(log, "started")) /\ TurnOpen(Append(log, "started"))
  <2>1. "started" \in TurnMarks /\ "started" \in Markers
    BY DEF Markers, TurnMarks
  <2>2. QED
    BY <1>1, <2>1, GoodAppend
<1>7. ASSUME TurnOpen(log), NEW o \in {"completed", "failed", "cancelled"}
      PROVE  GoodLog(Append(log, o)) /\ ~TurnOpen(Append(log, o))
  <2>1. o \in TurnMarks /\ o \in Markers /\ o # "started"
    BY DEF Markers, TurnMarks
  <2>2. QED
    BY <1>1, <1>7, <2>1, GoodAppend
<1>8. ASSUME burst = "prompting"
      PROVE  GoodLog(log \o hand) /\ (TurnOpen(log \o hand) <=> TurnOpen(log))
  <2>1. Len(hand) = 1
    BY <1>8 DEF HandInv
  <2>2. hand[1] \in Msg /\ log \o hand = Append(log, hand[1])
    <3>0. hand \in Seq(Msg) /\ Msg \subseteq Event
      BY EventParts DEF SeqTypes
    <3>1. hand \in Seq(Msg) /\ hand[1] \in Msg /\ hand[1] \in Event
      BY <2>1, <3>0
    <3>2. hand = <<hand[1]>>
      BY <2>1, <3>1
    <3>3. log \o <<hand[1]>> = Append(log, hand[1])
      BY <1>1, <3>1
    <3>4. QED
      BY <3>1, <3>2, <3>3
  <2>3. QED
    BY <1>4, <2>2
<1>9. QED
  BY <1>3, <1>4, <1>5, <1>6, <1>7, <1>8

(* A step opens or closes turns as the place of the burst says.              *)
LEMMA TurnStep ==
  ASSUME StepTypes, LogOwner, SeqTypes, HandInv, TurnPlaces, GoodLog(log), Next
  PROVE  TurnPlaces' /\ GoodLog(log')
<1> USE DEF StepTypes, LogOwner, Reserved, TurnPlaces
<1>0. /\ log \in Seq(Event) /\ GoodLog(log)
      /\ \A m \in Msg : /\ GoodLog(Append(log, m))
                        /\ TurnOpen(Append(log, m)) <=> TurnOpen(log)
                        /\ GoodLog(Append(Recovered(log), m))
                        /\ ~TurnOpen(Append(Recovered(log), m))
      /\ GoodLog(Recovered(log)) /\ ~TurnOpen(Recovered(log))
      /\ GoodLog(Append(log, "checkpoint")) /\ Append(log, "checkpoint") \in Seq(Event)
      /\ ~TurnOpen(log) => GoodLog(Append(log, "started")) /\ TurnOpen(Append(log, "started"))
      /\ TurnOpen(log) => \A o \in {"completed", "failed", "cancelled"} :
                             GoodLog(Append(log, o)) /\ ~TurnOpen(Append(log, o))
      /\ burst = "prompting" => /\ GoodLog(log \o hand)
                                /\ TurnOpen(log \o hand) <=> TurnOpen(log)
      /\ followups # <<>> => Head(followups) \in Msg
      /\ hand # <<>> => Head(hand) \in Msg
  BY TurnMoves, SeqMoves DEF SeqTypes
<1>1. ASSUME NEW m \in Msg, Sender(m) PROVE TurnPlaces' /\ GoodLog(log')
  <2>1. CASE Admit(m)
    BY <1>0, <2>1 DEF Admit, Return
  <2>2. CASE Busy(m)
    BY <1>0, <2>2 DEF Busy
  <2>3. CASE CheckTeardown(m)
    BY <1>0, <2>3 DEF CheckTeardown
  <2>4. CASE CancelForSettle(m)
    BY <1>0, <2>4 DEF CancelForSettle
  <2>5. CASE SubmitQueued(m)
    BY <1>0, <2>5 DEF SubmitQueued, SubmitIntent, Return, Done
  <2>6. CASE SubmitLogOnly(m)
    BY <1>0, <2>6 DEF SubmitLogOnly
  <2>7. CASE OpenLogOnly(m)
    BY <1>0, <2>7 DEF OpenLogOnly, Return, Refused
  <2>8. CASE AppendLogOnly(m)
    <3>1. log' = log \/ log' = Append(log, m)
      BY <2>8 DEF AppendLogOnly
    <3>2. GoodLog(log')
      BY <1>0, <3>1
    <3>3. burst = "none" /\ burst' = "none"
      BY <2>8 DEF AppendLogOnly, task
    <3>4. QED
      BY <3>2, <3>3
  <2>9. CASE SubmitStart(m)
    <3>1. \/ log' = log /\ burst' = "none"
          \/ log' = Recovered(log) /\ burst' = "none"
          \/ \E n \in Msg : log' = Append(Recovered(log), n) /\ burst' = "starting"
      BY <1>0, <2>9 DEF SubmitStart, Submitting
    <3>2. GoodLog(log')
      BY <1>0, <3>1
    <3>3. burst' = "starting" => ~TurnOpen(log')
      <4>1. burst' = "starting" => \E n \in Msg : log' = Append(Recovered(log), n)
        BY <3>1
      <4>2. QED
        BY <1>0, <4>1, Zenon
    <3>4. burst' \in {"none", "starting"}
      BY <3>1
    <3>5. QED
      BY <3>2, <3>3, <3>4
  <2>10. CASE SubmitRetry(m)
     BY <1>0, <2>10 DEF SubmitRetry, Return, Submitting, GoodLog, FailedClosed, Said,
       Conversation, LastConversation
  <2>11. CASE Spawn(m)
    BY <1>0, <2>11 DEF Spawn, Return, Done
  <2>12. QED
     BY <1>1, <2>1, <2>2, <2>3, <2>4, <2>5, <2>6, <2>7, <2>8, <2>9, <2>10, <2>11 DEF
       Sender
<1>2. CASE Burst \/ Model
  <2>1. CASE BurstStartTurn
    BY <1>0, <2>1 DEF BurstStartTurn, BurstAt
  <2>2. CASE BurstBoundary
    BY <1>0, <2>2 DEF BurstBoundary, BurstAt
  <2>3. CASE BurstDeliver
    <3>1. CASE log' = Append(log, Head(hand)) /\ burst' = burst
      <4>1. Head(hand) \in Msg
        BY <1>0, <2>3 DEF BurstDeliver
      <4>2. GoodLog(log') /\ (TurnOpen(log') <=> TurnOpen(log))
        BY <1>0, <3>1, <4>1, Zenon
      <4>3. QED
        BY <3>1, <4>2, <2>3 DEF BurstDeliver
    <3>2. CASE log' \in {log, Append(log, "failed")} /\ burst' = "ended" /\ outcome' = "failed"
      BY <1>0, <2>3, <3>2 DEF BurstDeliver
    <3>3. QED
      BY <2>3, <3>1, <3>2 DEF BurstDeliver
  <2>4. CASE BurstRequest
    BY <1>0, <2>4 DEF BurstRequest, BurstAt
  <2>5. CASE BurstSeeCancel
    BY <1>0, <2>5 DEF BurstSeeCancel, EndTurn
  <2>6. CASE BurstDrainTitles
    BY <1>0, <2>6, GoodDrained DEF BurstDrainTitles, BurstAt, SeqTypes
  <2>7. CASE BurstNextFollowup
    BY <1>0, <2>7 DEF BurstNextFollowup, BurstAt, Continuing
  <2>8. CASE BurstPrompt
    BY <1>0, <2>8 DEF BurstPrompt, BurstAt
  <2>9. CASE BurstTakeLeftovers
    BY <1>0, <2>9 DEF BurstTakeLeftovers, BurstAt, Continuing
  <2>10. CASE BurstLeftover
    <3>1. CASE log' = Append(log, Head(hand)) /\ burst' = burst
      <4>1. Head(hand) \in Msg
        BY <1>0, <2>10 DEF BurstLeftover
      <4>2. GoodLog(log') /\ (TurnOpen(log') <=> TurnOpen(log))
        BY <1>0, <3>1, <4>1, Zenon
      <4>3. QED
        BY <3>1, <4>2, <2>10 DEF BurstLeftover
    <3>2. CASE log' = log /\ burst' = "closing"
      BY <1>0, <2>10, <3>2 DEF BurstLeftover
    <3>3. QED
      BY <2>10, <3>1, <3>2 DEF BurstLeftover
  <2>11. CASE BurstLeftoversDone
    BY <1>0, <2>11 DEF BurstLeftoversDone, BurstAt
  <2>12. CASE BurstGoIdle
    BY <1>0, <2>12, GoodDrained DEF BurstGoIdle, SeqTypes
  <2>13. CASE BurstNextStep
    BY <1>0, <2>13 DEF BurstNextStep, BurstAt
  <2>14. CASE BurstEndTurn
    BY <1>0, <2>14, ZenonT(60) DEF BurstEndTurn, EndTurn
  <2>15. QED
     BY <1>2, <2>1, <2>2, <2>3, <2>4, <2>5, <2>6, <2>7, <2>8, <2>9, <2>10, <2>11,
       <2>12, <2>13, <2>14 DEF Burst, Model
<1>3. ASSUME NEW t \in Title, Naming(t) PROVE TurnPlaces' /\ GoodLog(log')
  <2>1. CASE SetTitle(t)
    BY <1>0, <2>1 DEF SetTitle
  <2>2. CASE WriteTitle(t)
    BY <1>0, <2>2, GoodTitle DEF WriteTitle
  <2>3. QED
    BY <1>3, <2>1, <2>2 DEF Naming
<1>4. CASE Compact
  <2>1. CASE CompactRead
    BY <1>0, <2>1 DEF CompactRead
  <2>2. CASE CompactOpen
    BY <1>0, <2>2 DEF CompactOpen
  <2>3. CASE CompactCommit
    <3>1. CASE log' = log
      BY <1>0, <2>3, <3>1 DEF CompactCommit
    <3>2. CASE DrainedTo(Append(log, "checkpoint"))
      <4>1. GoodLog(log')
        BY <1>0, <3>2, GoodDrained
      <4>2. burst = "none"
        BY <2>3 DEF CompactCommit
      <4>3. QED
        BY <4>1, <4>2, <2>3 DEF CompactCommit
    <3>3. QED
      BY <2>3, <3>1, <3>2 DEF CompactCommit
  <2>4. CASE CompactClose
    BY <1>0, <2>4 DEF CompactClose
  <2>5. QED
    BY <1>4, <2>1, <2>2, <2>3, <2>4 DEF Compact
<1>5. CASE Host
  <2>1. CASE Cancel
    BY <1>0, <2>1 DEF Cancel
  <2>2. CASE CloseRoot
    BY <1>0, <2>2 DEF CloseRoot
  <2>3. CASE CloseAncestor
    BY <1>0, <2>3 DEF CloseAncestor
  <2>4. CASE CancelDescendant
    BY <1>0, <2>4 DEF CancelDescendant
  <2>5. CASE Maintain
    BY <1>0, <2>5 DEF Maintain
  <2>6. CASE Crash
    BY <1>0, <2>6 DEF Crash
  <2>7. QED
    BY <1>5, <2>1, <2>2, <2>3, <2>4, <2>5, <2>6 DEF Host
<1>6. QED
  BY <1>1, <1>2, <1>3, <1>4, <1>5 DEF Next

(* Every reachable log has its turns bracketed, and the burst is where its   *)
(* code says.                                                                *)
THEOREM TurnInvariance == Spec => [](TurnInv /\ TurnsBracketed)
<1> DEFINE I == TurnPlaces /\ GoodLog(log)
<1>1. BaseInv /\ I /\ [Next]_vars => I'
  <2>1. CASE UNCHANGED vars
    BY <2>1 DEF vars, TurnPlaces, GoodLog, FailedClosed, Bracketed, Said, task
  <2>2. CASE Next
    BY <2>2, TypeParts, TurnStep DEF BaseInv, LightInv
  <2>3. QED
    BY <2>1, <2>2
<1>2. Init => I
  <2>1. Turns(<<>>) = <<>> /\ Said(<<>>) = <<>>
    BY SelectEmpty DEF Turns, Said
  <2>2. QED
    BY <2>1 DEF Init, TurnPlaces, GoodLog, Bracketed, FailedClosed, TurnOpen
<1>3. I => TurnInv /\ TurnsBracketed
  BY TurnParts
<1> HIDE DEF I
<1>4. QED
  BY BaseInvariance, <1>1, <1>2, <1>3, PTL DEF Spec

(* Whatever is cancelled, fails or crashes, a turn opens only when the one   *)
(* before it is closed (recover, service.rs:2034-2060; run_turn).            *)
THEOREM TurnsAlternate == Spec => []TurnsBracketed
BY TurnInvariance, PTL
-----------------------------------------------------------------------------
(* How often a message is where.                                             *)

(* Titles drained into a log, and a title written, add no message.           *)
LEMMA DrainCount ==
  ASSUME NEW l \in Seq(Event), NEW ts \in Seq(Title), NEW lost, Appended(l, ts, lost),
         NEW k \in Msg
  PROVE  Count(log', k) = Count(l, k)
<1> DEFINE kept == Select(ts, Title \ lost)
<1>1. kept \in Seq(Title)
  BY DrainType
<1>2. log' = l \o kept
  BY DEF Appended
<1> HIDE DEF kept
<1>3. k \notin Title
  OBVIOUS
<1>4. QED
  BY <1>1, <1>2, <1>3, CountConcatOther

(* Draining the queue leaves every message where it was.                     *)
LEMMA DrainedCount ==
  ASSUME SeqTypes, NEW l \in Seq(Event), DrainedTo(l), NEW k \in Msg
  PROVE  Count(log', k) = Count(l, k)
BY DrainCount DEF DrainedTo, SeqTypes

(* So does writing a title with the inbox held.                              *)
LEMMA TitleCount ==
  ASSUME SeqTypes, NEW t \in Title, WriteTitle(t), NEW k \in Msg
  PROVE  Count(log', k) = Count(log, k)
<1>1. log \in Seq(Event) /\ Append(titles, t) \in Seq(Title)
  BY SeqMoves DEF SeqTypes
<1>2. \E lost : Appended(log, Append(titles, t), lost)
  BY DEF WriteTitle
<1>3. QED
  BY <1>1, <1>2, DrainCount

(* One more, or one less.                                                    *)
Plus(x, k) == IF x = k THEN 1 ELSE 0

(* What an append makes of how often a message is somewhere.                 *)
LEMMA CountMoves ==
  ASSUME SeqTypes, NEW k \in Msg
  PROVE  /\ Count(log, k) \in Nat /\ Count(followups, k) \in Nat
         /\ Count(steers, k) \in Nat /\ Count(hand, k) \in Nat
         /\ \A e \in Event : Count(Append(log, e), k) = Count(log, k) + Plus(e, k)
         /\ Count(Recovered(log), k) = Count(log, k)
         /\ \A m \in Msg : /\ Count(Append(Recovered(log), m), k) = Count(log, k) + Plus(m, k)
                           /\ Count(Append(followups, m), k) = Count(followups, k) + Plus(m, k)
                           /\ Count(Append(steers, m), k) = Count(steers, k) + Plus(m, k)
         /\ Count(<<>>, k) = 0
<1>1. /\ log \in Seq(Event) /\ Recovered(log) \in Seq(Event) /\ followups \in Seq(Msg)
      /\ steers \in Seq(Msg) /\ hand \in Seq(Msg) /\ Msg \subseteq Event
  BY SeqMoves DEF SeqTypes
<1>2. /\ Count(log, k) \in Nat /\ Count(followups, k) \in Nat
      /\ Count(steers, k) \in Nat /\ Count(hand, k) \in Nat
  BY <1>1, CountType
<1>3. ASSUME NEW U, NEW s \in Seq(U), NEW x \in U
      PROVE  Count(Append(s, x), k) = Count(s, k) + Plus(x, k)
  <2>1. Count(Append(s, x), k) = IF x = k THEN Count(s, k) + 1 ELSE Count(s, k)
    BY CountAppend
  <2>2. Count(s, k) \in Nat
    BY CountType
  <2>3. QED
    BY <2>1, <2>2 DEF Plus
<1>4. Count(Recovered(log), k) = Count(log, k)
  <2>1. CASE TurnOpen(log)
    <3>1. "failed" # k /\ "failed" \in Event
      BY EventParts DEF Markers, TurnMarks
    <3>2. Recovered(log) = Append(log, "failed")
      BY <2>1 DEF Recovered
    <3>3. QED
      BY <1>1, <1>2, <1>3, <3>1, <3>2 DEF Plus
  <2>2. CASE ~TurnOpen(log)
    BY <2>2 DEF Recovered
  <2>3. QED
    BY <2>1, <2>2
<1>5. \A e \in Event : Count(Append(log, e), k) = Count(log, k) + Plus(e, k)
  BY <1>1, <1>3
<1>6. ASSUME NEW m \in Msg
      PROVE  /\ Count(Append(Recovered(log), m), k) = Count(log, k) + Plus(m, k)
             /\ Count(Append(followups, m), k) = Count(followups, k) + Plus(m, k)
             /\ Count(Append(steers, m), k) = Count(steers, k) + Plus(m, k)
  <2>1. m \in Event
    BY <1>1
  <2>2. Count(Append(Recovered(log), m), k) = Count(Recovered(log), k) + Plus(m, k)
    BY <1>1, <1>3, <2>1
  <2>3. QED
    BY <1>1, <1>3, <1>4, <2>2
<1>7. QED
  BY <1>2, <1>4, <1>5, <1>6, CountEmpty

(* What leaves a sequence, and what the burst takes.                         *)
LEMMA TakeMoves ==
  ASSUME SeqTypes, HandInv, NEW k \in Msg
  PROVE  /\ hand # <<>> =>
              /\ Head(hand) \in Msg /\ Count(Tail(hand), k) \in Nat
              /\ Count(hand, k) = Count(Tail(hand), k) + Plus(Head(hand), k)
         /\ followups # <<>> =>
              /\ Head(followups) \in Msg /\ Count(Tail(followups), k) \in Nat
              /\ Count(followups, k) = Count(Tail(followups), k) + Plus(Head(followups), k)
              /\ Count(<<Head(followups)>>, k) = Plus(Head(followups), k)
              /\ \A m \in Msg : Count(Append(Tail(followups), m), k)
                                = Count(Tail(followups), k) + Plus(m, k)
         /\ burst = "prompting" => Count(log \o hand, k) = Count(log, k) + Count(hand, k)
<1>1. /\ log \in Seq(Event) /\ followups \in Seq(Msg) /\ hand \in Seq(Msg)
      /\ hand # <<>> => Head(hand) \in Msg /\ Tail(hand) \in Seq(Msg)
      /\ followups # <<>> => Head(followups) \in Msg /\ Tail(followups) \in Seq(Msg)
  BY SeqMoves DEF SeqTypes
<1>2. ASSUME NEW s \in Seq(Msg), s # <<>>
      PROVE  /\ Head(s) \in Msg /\ Count(Tail(s), k) \in Nat
             /\ Count(s, k) = Count(Tail(s), k) + Plus(Head(s), k)
  <2>1. Head(s) \in Msg /\ Tail(s) \in Seq(Msg)
    BY <1>2
  <2>2. Count(Tail(s), k) \in Nat
    BY <2>1, CountType
  <2>3. Count(s, k) = IF Head(s) = k THEN Count(Tail(s), k) + 1 ELSE Count(Tail(s), k)
    BY <1>2, CountTail
  <2>4. QED
    BY <2>1, <2>2, <2>3 DEF Plus
<1>3. ASSUME NEW s \in Seq(Msg), NEW x \in Msg
      PROVE  Count(Append(s, x), k) = Count(s, k) + Plus(x, k)
  <2>1. Count(Append(s, x), k) = IF x = k THEN Count(s, k) + 1 ELSE Count(s, k)
    BY CountAppend
  <2>2. Count(s, k) \in Nat
    BY CountType
  <2>3. QED
    BY <2>1, <2>2 DEF Plus
<1>4. ASSUME NEW x \in Msg PROVE Count(<<x>>, k) = Plus(x, k)
  <2>1. <<x>> \in Seq(Msg) /\ <<x>> # <<>> /\ Head(<<x>>) = x /\ Tail(<<x>>) = <<>>
    OBVIOUS
  <2>2. Count(<<x>>, k) = Count(Tail(<<x>>), k) + Plus(Head(<<x>>), k)
    BY <1>2, <2>1
  <2>3. Plus(x, k) \in Nat
    BY DEF Plus
  <2>4. QED
    BY <2>1, <2>2, <2>3, CountEmpty
<1>5. ASSUME burst = "prompting"
      PROVE  Count(log \o hand, k) = Count(log, k) + Count(hand, k)
  <2>1. Len(hand) = 1
    BY <1>5 DEF HandInv
  <2>2. hand[1] \in Msg /\ hand = <<hand[1]>>
    BY <1>1, <2>1, SMTT(60)
  <2>3. hand[1] \in Event
    BY <2>2, EventParts
  <2>4. log \o <<hand[1]>> = Append(log, hand[1])
    BY <1>1, <2>3
  <2>5. Count(Append(log, hand[1]), k) = Count(log, k) + Plus(hand[1], k)
    BY <2>3, CountMoves
  <2>6. Count(hand, k) = Plus(hand[1], k)
    BY <1>4, <2>2
  <2>7. QED
    BY <2>2, <2>4, <2>5, <2>6
<1>6. QED
  <2>1. followups # <<>> => \A m \in Msg : Count(Append(Tail(followups), m), k)
                                          = Count(Tail(followups), k) + Plus(m, k)
    BY <1>1, <1>3
  <2>2. QED
    BY <1>1, <1>2, <1>4, <1>5, <2>1

(* A session that lost nothing so far did not lose anything before.          *)
LEMMA CalmStep ==
  ASSUME FlagTypes, Next
  PROVE  Calm' => Calm
<1> USE DEF FlagTypes, Calm
<1>1. ASSUME NEW m \in Msg, Sender(m) PROVE Calm' => Calm
  <2>1. CASE Admit(m)
    BY <2>1 DEF Admit, Return
  <2>2. CASE Busy(m)
    BY <2>2 DEF Busy
  <2>3. CASE CheckTeardown(m)
    BY <2>3 DEF CheckTeardown
  <2>4. CASE CancelForSettle(m)
    BY <2>4 DEF CancelForSettle
  <2>5. CASE SubmitQueued(m)
    BY <2>5 DEF SubmitQueued, SubmitIntent, Return, Done
  <2>6. CASE SubmitLogOnly(m)
    BY <2>6 DEF SubmitLogOnly
  <2>7. CASE OpenLogOnly(m)
    BY <2>7 DEF OpenLogOnly, Return, Refused
  <2>8. CASE AppendLogOnly(m)
    BY <2>8 DEF AppendLogOnly, Return, Done, Refused
  <2>9. CASE SubmitStart(m)
    BY <2>9 DEF SubmitStart, Return, Refused
  <2>10. CASE SubmitRetry(m)
    BY <2>10 DEF SubmitRetry, Return
  <2>11. CASE Spawn(m)
    BY <2>11 DEF Spawn, Return, Done
  <2>12. QED
     BY <1>1, <2>1, <2>2, <2>3, <2>4, <2>5, <2>6, <2>7, <2>8, <2>9, <2>10, <2>11 DEF
       Sender
<1>2. CASE Burst \/ Model
  <2>1. CASE BurstStartTurn
    BY <2>1 DEF BurstStartTurn, BurstAt
  <2>2. CASE BurstBoundary
    BY <2>2 DEF BurstBoundary, BurstAt
  <2>3. CASE BurstDeliver
    BY <2>3 DEF BurstDeliver
  <2>4. CASE BurstRequest
    BY <2>4 DEF BurstRequest, BurstAt
  <2>5. CASE BurstSeeCancel
    BY <2>5 DEF BurstSeeCancel, EndTurn
  <2>6. CASE BurstDrainTitles
    BY <2>6 DEF BurstDrainTitles, BurstAt, DrainedTo, Appended
  <2>7. CASE BurstNextFollowup
    BY <2>7 DEF BurstNextFollowup, BurstAt
  <2>8. CASE BurstPrompt
    BY <2>8 DEF BurstPrompt, BurstAt
  <2>9. CASE BurstTakeLeftovers
    BY <2>9 DEF BurstTakeLeftovers, BurstAt
  <2>10. CASE BurstLeftover
    BY <2>10 DEF BurstLeftover
  <2>11. CASE BurstLeftoversDone
    BY <2>11 DEF BurstLeftoversDone, BurstAt
  <2>12. CASE BurstGoIdle
    BY <2>12 DEF BurstGoIdle, DrainedTo, Appended
  <2>13. CASE BurstNextStep
    BY <2>13 DEF BurstNextStep, BurstAt
  <2>14. CASE BurstEndTurn
    BY <2>14 DEF BurstEndTurn, EndTurn
  <2>15. QED
     BY <1>2, <2>1, <2>2, <2>3, <2>4, <2>5, <2>6, <2>7, <2>8, <2>9, <2>10, <2>11,
       <2>12, <2>13, <2>14 DEF Burst, Model
<1>3. ASSUME NEW t \in Title, Naming(t) PROVE Calm' => Calm
  <2>1. CASE SetTitle(t)
    BY <2>1 DEF SetTitle
  <2>2. CASE WriteTitle(t)
    BY <2>2 DEF WriteTitle, Appended
  <2>3. QED
    BY <1>3, <2>1, <2>2 DEF Naming
<1>4. CASE Compact
  <2>1. CASE CompactRead
    BY <2>1 DEF CompactRead
  <2>2. CASE CompactOpen
    BY <2>2 DEF CompactOpen
  <2>3. CASE CompactCommit
    BY <2>3 DEF CompactCommit, DrainedTo, Appended
  <2>4. CASE CompactClose
    BY <2>4 DEF CompactClose
  <2>5. QED
    BY <1>4, <2>1, <2>2, <2>3, <2>4 DEF Compact
<1>5. CASE Host
  <2>1. CASE Cancel
    BY <2>1 DEF Cancel
  <2>2. CASE CloseRoot
    BY <2>2 DEF CloseRoot
  <2>3. CASE CloseAncestor
    BY <2>3 DEF CloseAncestor
  <2>4. CASE CancelDescendant
    BY <2>4 DEF CancelDescendant
  <2>5. CASE Maintain
    BY <2>5 DEF Maintain
  <2>6. CASE Crash
    BY <2>6 DEF Crash
  <2>7. QED
    BY <1>5, <2>1, <2>2, <2>3, <2>4, <2>5, <2>6 DEF Host
<1>6. QED
  BY <1>1, <1>2, <1>3, <1>4, <1>5 DEF Next

(* A sender adds its own message, once, when it is accepted, and nothing else. *)
LEMMA SenderCopies ==
  ASSUME SeqTypes, HandInv, NEW m \in Msg, Sender(m), NEW k \in Msg
  PROVE  /\ Count(log, k) <= Count(log', k)
         /\ \/ accepted' = accepted /\ Copies(k)' = Copies(k)
            \/ accepted' = Append(accepted, m) /\ Copies(k)' = Copies(k) + Plus(m, k)
<1>0. /\ Count(log, k) \in Nat /\ Count(followups, k) \in Nat
      /\ Count(steers, k) \in Nat /\ Count(hand, k) \in Nat
      /\ \A e \in Event : Count(Append(log, e), k) = Count(log, k) + Plus(e, k)
      /\ Count(Recovered(log), k) = Count(log, k)
      /\ \A n \in Msg : /\ Count(Append(Recovered(log), n), k) = Count(log, k) + Plus(n, k)
                        /\ Count(Append(followups, n), k) = Count(followups, k) + Plus(n, k)
                        /\ Count(Append(steers, n), k) = Count(steers, k) + Plus(n, k)
      /\ Count(<<>>, k) = 0
      /\ hand # <<>> =>
           /\ Head(hand) \in Msg /\ Count(Tail(hand), k) \in Nat
           /\ Count(hand, k) = Count(Tail(hand), k) + Plus(Head(hand), k)
      /\ followups # <<>> =>
           /\ Head(followups) \in Msg /\ Count(Tail(followups), k) \in Nat
           /\ Count(followups, k) = Count(Tail(followups), k) + Plus(Head(followups), k)
           /\ Count(<<Head(followups)>>, k) = Plus(Head(followups), k)
           /\ \A n \in Msg : Count(Append(Tail(followups), n), k)
                             = Count(Tail(followups), k) + Plus(n, k)
      /\ burst = "prompting" => Count(log \o hand, k) = Count(log, k) + Count(hand, k)
      /\ \A e \in {"started", "completed", "failed", "cancelled", "checkpoint"} :
            Count(Append(log, e), k) = Count(log, k)
      /\ \A x : Plus(x, k) \in Nat
  <2>1. \A e \in {"started", "completed", "failed", "cancelled", "checkpoint"} :
            e \in Event /\ Plus(e, k) = 0
    BY EventParts DEF Plus, Markers, TurnMarks
  <2>2. \A e \in {"started", "completed", "failed", "cancelled", "checkpoint"} :
            Count(Append(log, e), k) = Count(log, k)
    BY <2>1, CountMoves
  <2>3. \A x : Plus(x, k) \in Nat
    BY DEF Plus
  <2>4. QED
    BY <2>2, <2>3, CountMoves, TakeMoves
<1>a. /\ Count(log, k) \in Nat /\ Count(followups, k) \in Nat
      /\ Count(steers, k) \in Nat /\ Count(hand, k) \in Nat
      /\ \A x : Plus(x, k) \in Nat
  BY <1>0
<1> USE DEF Copies
<1>1. CASE UNCHANGED <<log, followups, steers, hand, accepted>>
  BY <1>0, <1>1
<1>2. CASE SubmitQueued(m)
  <2>1. CASE followups' = Append(followups, m) /\ steers' = steers
    <3>1. Count(followups', k) = Count(followups, k) + Plus(m, k)
      BY <1>0, <2>1
    <3>2. QED
      BY <1>a, <1>2, <2>1, <3>1 DEF SubmitQueued
  <2>2. CASE steers' = Append(steers, m) /\ followups' = followups
    <3>1. Count(steers', k) = Count(steers, k) + Plus(m, k)
      BY <1>0, <2>2
    <3>2. QED
      BY <1>a, <1>2, <2>2, <3>1 DEF SubmitQueued
  <2>3. QED
    BY <1>2, <2>1, <2>2 DEF SubmitQueued
<1>3. CASE AppendLogOnly(m)
  <2>1. CASE log' = Append(log, m) /\ accepted' = Append(accepted, m)
    <3>1. Count(log', k) = Count(log, k) + Plus(m, k)
      BY <1>0, <2>1, EventParts
    <3>2. QED
      BY <1>a, <1>3, <2>1, <3>1 DEF AppendLogOnly
  <2>2. CASE log' = log /\ accepted' = accepted
    BY <1>0, <1>3, <2>2 DEF AppendLogOnly
  <2>3. QED
    BY <1>3, <2>1, <2>2 DEF AppendLogOnly
<1>4. CASE SubmitStart(m)
  <2>1. steers' = steers /\ hand' = hand
    BY <1>4 DEF SubmitStart
  <2>2. CASE log' = Append(Recovered(log), m) /\ followups' = followups
             /\ accepted' = Append(accepted, m)
    <3>1. Count(log', k) = Count(log, k) + Plus(m, k)
      BY <1>0, <2>2
    <3>2. QED
      BY <1>a, <2>1, <2>2, <3>1
  <2>3. CASE /\ followups # <<>>
             /\ log' = Append(Recovered(log), Head(followups))
             /\ followups' = Append(Tail(followups), m)
             /\ accepted' = Append(accepted, m)
    <3>1. Count(log', k) = Count(log, k) + Plus(Head(followups), k)
      BY <1>0, <2>3
    <3>2. Count(followups', k) = Count(Tail(followups), k) + Plus(m, k)
      BY <1>0, <2>3
    <3>3. /\ Count(followups, k) = Count(Tail(followups), k) + Plus(Head(followups), k)
          /\ Count(Tail(followups), k) \in Nat
      BY <1>0, <2>3
    <3>4. QED
      BY <1>a, <2>1, <2>3, <3>1, <3>2, <3>3, SMTT(60)
  <2>4. CASE log' \in {log, Recovered(log)} /\ followups' = followups /\ accepted' = accepted
    <3>1. Count(log', k) = Count(log, k)
      BY <1>0, <2>4
    <3>2. QED
      BY <1>a, <2>1, <2>4, <3>1
  <2>5. QED
    BY <1>4, <2>2, <2>3, <2>4 DEF SubmitStart
<1>5. Admit(m) \/ Busy(m) \/ CheckTeardown(m) \/ CancelForSettle(m) \/ SubmitLogOnly(m)
      \/ OpenLogOnly(m) \/ SubmitRetry(m) \/ Spawn(m)
      => UNCHANGED <<log, followups, steers, hand, accepted>>
  BY DEF Admit, Busy, CheckTeardown, CancelForSettle, SubmitLogOnly, OpenLogOnly,
         SubmitRetry, Spawn
<1>6. QED
  BY <1>1, <1>2, <1>3, <1>4, <1>5 DEF Sender

(* The log only grows, and unless something failed everybody else only moves *)
(* messages, from the inbox to the hand to the log.                          *)
Moved(k) == /\ Count(log, k) <= Count(log', k) /\ Copies(k)' <= Copies(k)
            /\ Calm' => Copies(k)' = Copies(k)

(* The burst and the model move messages, and lose none unless they fail.    *)
LEMMA BurstMoves ==
  ASSUME SeqTypes, HandInv, Burst \/ Model, NEW k \in Msg
  PROVE  Moved(k)
<1>0. /\ Count(log, k) \in Nat /\ Count(followups, k) \in Nat
      /\ Count(steers, k) \in Nat /\ Count(hand, k) \in Nat
      /\ \A e \in Event : Count(Append(log, e), k) = Count(log, k) + Plus(e, k)
      /\ Count(Recovered(log), k) = Count(log, k)
      /\ \A m \in Msg : /\ Count(Append(Recovered(log), m), k) = Count(log, k) + Plus(m, k)
                        /\ Count(Append(followups, m), k) = Count(followups, k) + Plus(m, k)
                        /\ Count(Append(steers, m), k) = Count(steers, k) + Plus(m, k)
      /\ Count(<<>>, k) = 0
      /\ hand # <<>> =>
           /\ Head(hand) \in Msg /\ Count(Tail(hand), k) \in Nat
           /\ Count(hand, k) = Count(Tail(hand), k) + Plus(Head(hand), k)
      /\ followups # <<>> =>
           /\ Head(followups) \in Msg /\ Count(Tail(followups), k) \in Nat
           /\ Count(followups, k) = Count(Tail(followups), k) + Plus(Head(followups), k)
           /\ Count(<<Head(followups)>>, k) = Plus(Head(followups), k)
           /\ \A m \in Msg : Count(Append(Tail(followups), m), k)
                             = Count(Tail(followups), k) + Plus(m, k)
      /\ burst = "prompting" => Count(log \o hand, k) = Count(log, k) + Count(hand, k)
      /\ \A e \in {"started", "completed", "failed", "cancelled", "checkpoint"} :
            Count(Append(log, e), k) = Count(log, k)
      /\ \A x : Plus(x, k) \in Nat
  <2>1. \A e \in {"started", "completed", "failed", "cancelled", "checkpoint"} :
            e \in Event /\ Plus(e, k) = 0
    BY EventParts DEF Plus, Markers, TurnMarks
  <2>2. \A e \in {"started", "completed", "failed", "cancelled", "checkpoint"} :
            Count(Append(log, e), k) = Count(log, k)
    BY <2>1, CountMoves
  <2>3. \A x : Plus(x, k) \in Nat
    BY DEF Plus
  <2>4. QED
    BY <2>2, <2>3, CountMoves, TakeMoves
<1>a. /\ Count(log, k) \in Nat /\ Count(followups, k) \in Nat
      /\ Count(steers, k) \in Nat /\ Count(hand, k) \in Nat
      /\ \A x : Plus(x, k) \in Nat
  BY <1>0
<1> USE DEF Moved, Copies
<1>1. CASE UNCHANGED <<log, followups, steers, hand>>
  BY <1>0, <1>1
<1>2. ASSUME NEW o \in {"started", "completed", "failed", "cancelled"},
             log' \in {log, Append(log, o)}, UNCHANGED <<followups, steers, hand>>
      PROVE  Moved(k)
  <2>1. Count(log', k) = Count(log, k)
    BY <1>0, <1>2
  <2>2. QED
    BY <1>a, <1>2, <2>1
<1>3. CASE hand = <<>> /\ hand' = steers /\ steers' = <<>> /\ UNCHANGED <<log, followups>>
  BY <1>0, <1>3
<1>4. ASSUME hand # <<>>, UNCHANGED <<followups, steers>>,
             \/ log' = Append(log, Head(hand)) /\ hand' = Tail(hand)
             \/ failed' = TRUE /\ hand' = <<>> /\ log' \in {log, Append(log, "failed")}
      PROVE  Moved(k)
  <2>1. CASE log' = Append(log, Head(hand)) /\ hand' = Tail(hand)
    <3>1. Count(log', k) = Count(log, k) + Plus(Head(hand), k)
      BY <1>0, <1>4, <2>1, EventParts
    <3>2. Count(hand, k) = Count(Tail(hand), k) + Plus(Head(hand), k) /\ Count(Tail(hand), k) \in Nat
      BY <1>0, <1>4
    <3>3. QED
      BY <1>a, <1>4, <2>1, <3>1, <3>2
  <2>2. CASE failed' = TRUE /\ hand' = <<>> /\ log' \in {log, Append(log, "failed")}
    <3>1. Count(log', k) = Count(log, k)
      BY <1>0, <2>2
    <3>2. ~Calm'
      BY <2>2 DEF Calm
    <3>3. QED
      BY <1>0, <1>4, <2>2, <3>1, <3>2
  <2>3. QED
    BY <1>4, <2>1, <2>2
<1>5. CASE BurstStartTurn
  <2>1. "started" \in {"started", "completed", "failed", "cancelled"}
    OBVIOUS
  <2>2. QED
    BY <1>2, <1>5, <2>1 DEF BurstStartTurn
<1>6. CASE BurstBoundary
  BY <1>3, <1>6 DEF BurstBoundary, BurstAt, HandInv
<1>7. CASE BurstDeliver
  BY <1>4, <1>7 DEF BurstDeliver
<1>8. CASE BurstSeeCancel \/ BurstEndTurn
  <2>1. \E o \in {"completed", "failed", "cancelled"} : EndTurn(o)
    BY <1>8 DEF BurstSeeCancel, BurstEndTurn
  <2>2. QED
    BY <1>2, <2>1 DEF EndTurn
<1>9. CASE BurstDrainTitles \/ BurstGoIdle
  <2>1. Count(log', k) = Count(log, k)
    BY <1>9, DrainedCount DEF BurstDrainTitles, BurstGoIdle, SeqTypes
  <2>2. UNCHANGED <<followups, steers, hand>>
    BY <1>9 DEF BurstDrainTitles, BurstGoIdle
  <2>3. QED
    BY <1>0, <2>1, <2>2
<1>10. CASE BurstNextFollowup
  <2>1. /\ hand = <<>> /\ followups # <<>> /\ hand' = <<Head(followups)>>
        /\ followups' = Tail(followups) /\ UNCHANGED <<log, steers>>
    BY <1>10 DEF BurstNextFollowup, BurstAt, HandInv
  <2>2. Count(hand', k) = Plus(Head(followups), k)
    BY <1>0, <2>1
  <2>3. Count(followups, k) = Count(Tail(followups), k) + Plus(Head(followups), k)
        /\ Count(Tail(followups), k) \in Nat
    BY <1>0, <2>1
  <2>4. hand = <<>> /\ Count(hand, k) = 0
    BY <1>0, <2>1
  <2>5. QED
    BY <1>a, <2>1, <2>2, <2>3, <2>4
<1>11. CASE BurstPrompt
  <2>1. Count(hand', k) = 0
    BY <1>0, <1>11 DEF BurstPrompt
  <2>2. CASE log' = log \o hand
    <3>1. Count(log', k) = Count(log, k) + Count(hand, k)
      BY <1>0, <1>11, <2>2 DEF BurstPrompt, BurstAt
    <3>2. QED
      BY <1>a, <1>11, <2>1, <3>1 DEF BurstPrompt
  <2>3. CASE failed' = TRUE /\ log' = log
    <3>1. ~Calm'
      BY <2>3 DEF Calm
    <3>2. QED
      BY <1>a, <1>11, <2>3, <2>1, <3>1 DEF BurstPrompt
  <2>4. QED
    BY <1>11, <2>2, <2>3 DEF BurstPrompt
<1>12. CASE BurstTakeLeftovers
  BY <1>3, <1>12 DEF BurstTakeLeftovers, BurstAt, HandInv
<1>13. CASE BurstLeftover
  BY <1>4, <1>13 DEF BurstLeftover
<1>14. BurstRequest \/ BurstNextStep \/ BurstLeftoversDone
       => UNCHANGED <<log, followups, steers, hand>>
  BY DEF BurstRequest, BurstNextStep, BurstLeftoversDone
<1>15. QED
  BY <1>1, <1>5, <1>6, <1>7, <1>8, <1>9, <1>10, <1>11, <1>12, <1>13, <1>14
     DEF Burst, Model

(* So do titles, compact and the host.                                       *)
LEMMA OtherMoves ==
  ASSUME SeqTypes, FlagTypes, NEW k \in Msg, Compact \/ Host \/ \E t \in Title : Naming(t)
  PROVE  Moved(k)
<1>0. /\ Count(log, k) \in Nat /\ Count(followups, k) \in Nat
      /\ Count(steers, k) \in Nat /\ Count(hand, k) \in Nat
      /\ Count(<<>>, k) = 0
  BY CountMoves
<1> USE DEF Moved, Copies
<1>1. CASE UNCHANGED <<log, followups, steers, hand>>
  BY <1>0, <1>1
<1>2. CASE CompactCommit
  <2>1. Count(log', k) = Count(log, k)
    <3>1. CASE log' = log
      BY <3>1
    <3>2. CASE DrainedTo(Append(log, "checkpoint"))
      <4>1. "checkpoint" \in Event /\ Plus("checkpoint", k) = 0
        BY EventParts DEF Plus, Markers
      <4>2. Append(log, "checkpoint") \in Seq(Event)
        BY <4>1, SeqMoves
      <4>3. Count(Append(log, "checkpoint"), k) = Count(log, k)
        BY <1>0, <4>1, CountMoves
      <4>4. QED
        BY <3>2, <4>2, <4>3, DrainedCount
    <3>3. QED
      BY <1>2, <3>1, <3>2 DEF CompactCommit
  <2>2. UNCHANGED <<followups, steers, hand>>
    BY <1>2 DEF CompactCommit
  <2>3. QED
    BY <1>0, <2>1, <2>2
<1>3. ASSUME NEW t \in Title, WriteTitle(t) PROVE Moved(k)
  <2>1. Count(log', k) = Count(log, k)
    BY <1>3, TitleCount
  <2>2. UNCHANGED <<followups, steers, hand>>
    BY <1>3 DEF WriteTitle
  <2>3. QED
    BY <1>0, <2>1, <2>2
<1>4. CASE Crash
  <2>1. crashes' # 0 \/ crashes \notin Nat
    BY <1>4 DEF Crash
  <2>2. /\ log' = log /\ followups' = <<>> /\ steers' = <<>> /\ hand' = <<>>
    BY <1>4 DEF Crash
  <2>3. ~Calm'
    BY <1>4, <2>1 DEF Calm, FlagTypes
  <2>4. QED
    BY <1>0, <2>2, <2>3
<1>5. ASSUME NEW t \in Title, SetTitle(t) PROVE UNCHANGED <<log, followups, steers, hand>>
  BY <1>5 DEF SetTitle
<1>6. CompactRead \/ CompactOpen \/ CompactClose => UNCHANGED <<log, followups, steers, hand>>
  BY DEF CompactRead, CompactOpen, CompactClose
<1>7. Cancel \/ CloseRoot \/ CloseAncestor \/ CancelDescendant \/ Maintain
      => UNCHANGED <<log, followups, steers, hand>>
  BY DEF Cancel, CloseRoot, CloseAncestor, CancelDescendant, Maintain
<1>8. QED
  BY <1>1, <1>2, <1>3, <1>4, <1>5, <1>6, <1>7 DEF Compact, Host, Naming

(* What OnceInv says of one message.                                         *)
OnceAt(m) ==
    /\ Copies(m) <= 1
    /\ pc[m] \in {"admitted", "submitting", "opening", "appending", "refused"}
          => Copies(m) = 0
    /\ pc[m] = "ready" => IF Calm \/ kind[m] # "external" THEN Copies(m) = 0
                                               ELSE Copies(m) = Count(log, m)
    /\ Calm /\ pc[m] \in {"spawning", "done"} /\ kind[m] # "retry" => Copies(m) = 1

(* Copies are counted.                                                       *)
LEMMA CopiesType ==
  ASSUME SeqTypes, NEW k \in Msg
  PROVE  Count(log, k) \in Nat /\ Copies(k) \in Nat /\ Count(log, k) <= Copies(k)
BY CountMoves DEF Copies

(* Who does nothing keeps what is said of them while others move the input.  *)
LEMMA OnceKept ==
  ASSUME SeqTypes, SeqTypes', NEW k \in Msg, OnceAt(k), Moved(k), Calm' => Calm,
         kind' = kind,
         \/ pc'[k] = pc[k]
         \/ Copies(k) = 0 /\ pc'[k] = "ready"
         \/ pc'[k] = "lost"
  PROVE  OnceAt(k)'
<1>1. Count(log, k) \in Nat /\ Copies(k) \in Nat /\ Count(log, k) <= Copies(k)
  BY CopiesType
<1>2. Count(log', k) \in Nat /\ Copies(k)' \in Nat /\ Count(log', k) <= Copies(k)'
  <2>1. /\ log' \in Seq(Event) /\ followups' \in Seq(Msg)
        /\ steers' \in Seq(Msg) /\ hand' \in Seq(Msg)
    BY DEF SeqTypes
  <2>2. /\ Count(log', k) \in Nat /\ Count(followups', k) \in Nat
        /\ Count(steers', k) \in Nat /\ Count(hand', k) \in Nat
    BY <2>1, CountType
  <2>3. QED
    BY <2>2 DEF Copies
<1>3. /\ Count(log, k) <= Count(log', k) /\ Copies(k)' <= Copies(k)
      /\ Calm' => Copies(k)' = Copies(k)
  BY DEF Moved
<1>4. OnceAt(k)' <=>
        /\ Copies(k)' <= 1
        /\ pc'[k] \in {"admitted", "submitting", "opening", "appending", "refused"}
              => Copies(k)' = 0
        /\ pc'[k] = "ready" => IF Calm' \/ kind'[k] # "external" THEN Copies(k)' = 0
                                                   ELSE Copies(k)' = Count(log', k)
        /\ Calm' /\ pc'[k] \in {"spawning", "done"} /\ kind'[k] # "retry" => Copies(k)' = 1
  BY DEF OnceAt
<1> DEFINE c == Copies(k)
           d == Copies(k)'
           l == Count(log, k)
           h == Count(log', k)
           now == Calm
           then == Calm'
<1>5. /\ c \in Nat /\ d \in Nat /\ l \in Nat /\ h \in Nat /\ l <= c /\ h <= d /\ l <= h
      /\ d <= c /\ (then => d = c) /\ (then => now)
  BY <1>1, <1>2, <1>3
<1>6. /\ c <= 1
      /\ pc[k] \in {"admitted", "submitting", "opening", "appending", "refused"} => c = 0
      /\ pc[k] = "ready" => IF now \/ kind[k] # "external" THEN c = 0 ELSE c = l
      /\ now /\ pc[k] \in {"spawning", "done"} /\ kind[k] # "retry" => c = 1
  BY DEF OnceAt
<1>7. pc'[k] = pc[k] \/ (c = 0 /\ pc'[k] = "ready") \/ pc'[k] = "lost"
  OBVIOUS
<1> HIDE DEF c, d, l, h, now, then
<1>8. /\ d <= 1
      /\ pc'[k] \in {"admitted", "submitting", "opening", "appending", "refused"} => d = 0
      /\ pc'[k] = "ready" => IF then \/ kind'[k] # "external" THEN d = 0 ELSE d = h
      /\ then /\ pc'[k] \in {"spawning", "done"} /\ kind'[k] # "retry" => d = 1
  BY <1>5, <1>6, <1>7
<1>9. QED
  BY <1>4, <1>8 DEF c, d, l, h, now, then

(* What becomes of a message its own thread takes on.                        *)
Unsent == {"admitted", "submitting", "opening", "appending"}
Same == accepted' = accepted

(* The steps of a message's own thread, by where they take it.               *)
LEMMA OwnSteps ==
  ASSUME StepTypes, FlagTypes, SeqTypes, NEW k \in Msg, kind[k] # "job", Sender(k)
  PROVE  /\ kind' = kind
         /\ \/ /\ Same /\ pc[k] = "ready" /\ pc'[k] \in {"done", "ready"} \cup Unsent
               /\ pc'[k] = "done" => kind[k] = "external" /\ k \in Logged
               /\ pc'[k] # "done" => kind[k] # "external" \/ k \notin Logged
            \/ Same /\ pc[k] = "ready" /\ kind[k] # "external" /\ pc'[k] = "refused"
            \/ Same /\ pc[k] \in Unsent /\ pc'[k] \in Unsent \cup {"ready", "refused"}
            \/ Same /\ pc[k] \in Unsent /\ kind[k] = "retry" /\ pc'[k] = "spawning"
            \/ Same /\ pc[k] = "spawning" /\ pc'[k] = "done"
            \/ /\ accepted' = Append(accepted, k)
               /\ pc[k] \in Unsent /\ pc'[k] \in {"done", "spawning"}
<1> USE DEF Unsent, Same, StepTypes
<1>1. CASE Admit(k)
  BY <1>1 DEF Admit, Return
<1>2. CASE Busy(k)
  BY <1>2 DEF Busy
<1>3. CASE CheckTeardown(k)
  BY <1>3 DEF CheckTeardown
<1>4. CASE CancelForSettle(k)
  BY <1>4 DEF CancelForSettle
<1>5. CASE SubmitQueued(k)
  BY <1>5 DEF SubmitQueued, Submitting, Return, Done
<1>6. CASE SubmitLogOnly(k)
  BY <1>6 DEF SubmitLogOnly, Submitting
<1>7. CASE OpenLogOnly(k)
  BY <1>7 DEF OpenLogOnly, Return, Refused
<1>8. CASE AppendLogOnly(k)
  BY <1>8 DEF AppendLogOnly, Return, Done, Refused
<1>9. CASE SubmitStart(k)
  BY <1>9 DEF SubmitStart, Submitting, Return, Refused
<1>10. CASE SubmitRetry(k)
  BY <1>10 DEF SubmitRetry, Submitting, Return
<1>11. CASE Spawn(k)
  BY <1>11 DEF Spawn, Return, Done
<1>12. QED
  BY <1>1, <1>2, <1>3, <1>4, <1>5, <1>6, <1>7, <1>8, <1>9, <1>10, <1>11 DEF Sender

(* And what becomes of its copies.                                           *)
LEMMA OnceOwn ==
  ASSUME StepTypes, FlagTypes, SeqTypes, SeqTypes', HandInv, NEW k \in Msg,
         kind[k] # "job", OnceAt(k), Sender(k), Calm' => Calm
  PROVE  OnceAt(k)'
<1> DEFINE c == Copies(k)
           d == Copies(k)'
           l == Count(log, k)
           h == Count(log', k)
           now == Calm
           then == Calm'
<1>1. c \in Nat /\ l \in Nat /\ l <= c
  BY CopiesType
<1>2. h \in Nat /\ d \in Nat /\ h <= d
  <2>1. /\ log' \in Seq(Event) /\ followups' \in Seq(Msg)
        /\ steers' \in Seq(Msg) /\ hand' \in Seq(Msg)
    BY DEF SeqTypes
  <2>2. /\ Count(log', k) \in Nat /\ Count(followups', k) \in Nat
        /\ Count(steers', k) \in Nat /\ Count(hand', k) \in Nat
    BY <2>1, CountType
  <2>3. QED
    BY <2>2 DEF Copies
<1>3. (k \in Logged <=> l # 0)
  BY CountType DEF Logged, SeqTypes
<1>4. Append(accepted, k) # accepted
  <2>1. accepted \in Seq(Msg)
    BY DEF SeqTypes
  <2>2. Len(Append(accepted, k)) # Len(accepted)
    BY <2>1
  <2>3. QED
    BY <2>2
<1>5. Same => d = c
  BY SenderCopies, <1>4 DEF Same
<1>6. accepted' = Append(accepted, k) => d = c + 1
  BY SenderCopies, <1>4 DEF Plus
<1>7. /\ c <= 1
      /\ pc[k] \in Unsent \cup {"refused"} => c = 0
      /\ pc[k] = "ready" => IF now \/ kind[k] # "external" THEN c = 0 ELSE c = l
      /\ now /\ pc[k] \in {"spawning", "done"} /\ kind[k] # "retry" => c = 1
  BY DEF OnceAt, Unsent
<1>8. then => now
  OBVIOUS
<1> HIDE DEF c, d, l, h, now, then
<1>9. /\ d <= 1
      /\ pc'[k] \in Unsent \cup {"refused"} => d = 0
      /\ pc'[k] = "ready" => IF then \/ kind'[k] # "external" THEN d = 0 ELSE d = h
      /\ then /\ pc'[k] \in {"spawning", "done"} /\ kind'[k] # "retry" => d = 1
  BY <1>1, <1>2, <1>3, <1>5, <1>6, <1>7, <1>8, OwnSteps DEF Unsent
<1>10. QED
  BY <1>9 DEF OnceAt, Unsent, c, d, h, then

(* Which entry point submits a message is given.                             *)
LEMMA KindFixed == Next => kind' = kind
<1>1. \A m \in Msg : Sender(m) => kind' = kind
  BY DEF Sender, Admit, Busy, CheckTeardown, CancelForSettle, SubmitQueued, SubmitLogOnly,
     OpenLogOnly, AppendLogOnly, SubmitStart, SubmitRetry, Spawn, history, given
<1>2. Burst \/ Model => kind' = kind
  BY DEF Burst, Model, BurstStartTurn, BurstBoundary, BurstDeliver, BurstRequest,
     BurstSeeCancel, BurstDrainTitles, BurstNextFollowup, BurstPrompt, BurstTakeLeftovers,
     BurstLeftover, BurstLeftoversDone, BurstGoIdle, BurstNextStep, BurstEndTurn, EndTurn
<1>3. Compact \/ Host \/ (\E t \in Title : Naming(t)) => kind' = kind
  BY DEF Compact, Host, Naming, CompactRead, CompactOpen, CompactCommit, CompactClose,
     Cancel, CloseRoot, CloseAncestor, CancelDescendant, Maintain, Crash, SetTitle,
     WriteTitle
<1>4. QED
  BY <1>1, <1>2, <1>3 DEF Next

(* A step takes one message on and moves the others.                         *)
LEMMA OnceStep ==
  ASSUME TypeOK, TypeOK', HandInv, NEW k \in Msg, kind[k] # "job", OnceAt(k), Next
  PROVE  kind' = kind /\ OnceAt(k)'
<1>1. StepTypes /\ FlagTypes /\ SeqTypes /\ SeqTypes'
  BY TypeParts DEF TypeOK, SeqTypes, Event
<1>2. (Calm' => Calm) /\ Append(accepted, k) # accepted
  <2>1. accepted \in Seq(Msg)
    BY <1>1 DEF SeqTypes
  <2>2. Len(Append(accepted, k)) # Len(accepted)
    BY <2>1
  <2>3. QED
    BY <1>1, <2>2, CalmStep
<1>3. ASSUME NEW m \in Msg, Sender(m), m # k PROVE kind' = kind /\ OnceAt(k)'
  <2>1. Moved(k)
    <3>1. Copies(k) \in Nat /\ Plus(m, k) = 0
      BY <1>1, <1>3, CopiesType DEF Plus
    <3>2. Count(log, k) <= Count(log', k) /\ Copies(k)' \in {Copies(k), Copies(k) + 0}
      BY <1>1, <1>3, <3>1, SenderCopies
    <3>3. QED
      BY <3>1, <3>2 DEF Moved
  <2>2. kind' = kind /\ pc'[k] = pc[k]
    BY <1>1, <1>3 DEF Sender, Admit, Busy, CheckTeardown, CancelForSettle, SubmitQueued,
       SubmitLogOnly, OpenLogOnly, AppendLogOnly, SubmitStart, SubmitRetry, Spawn, Return,
       StepTypes, history, given
  <2>3. QED
    BY <1>1, <1>2, <2>1, <2>2, OnceKept
<1>4. ASSUME Sender(k) PROVE kind' = kind /\ OnceAt(k)'
  BY <1>1, <1>2, <1>4, OwnSteps, OnceOwn
<1>5. CASE Burst \/ Model
  <2>1. kind' = kind /\ pc' = pc
    BY <1>5 DEF Burst, Model, BurstStartTurn, BurstBoundary, BurstDeliver, BurstRequest,
       BurstSeeCancel, BurstDrainTitles, BurstNextFollowup, BurstPrompt,
       BurstTakeLeftovers, BurstLeftover, BurstLeftoversDone, BurstGoIdle,
       BurstNextStep, BurstEndTurn, EndTurn
  <2>2. QED
    BY <1>1, <1>2, <1>5, <2>1, BurstMoves, OnceKept
<1>6. CASE Compact \/ Host \/ \E t \in Title : Naming(t)
  <2>1. Moved(k)
    BY <1>1, <1>6, OtherMoves
  <2>2. CASE Crash
    <3>1. kind' = kind
      BY <2>2 DEF Crash
    <3>2. \/ pc'[k] = pc[k]
          \/ kind[k] = "external" /\ pc'[k] = "ready"
          \/ pc'[k] = "lost"
      BY <1>1, <2>2 DEF Crash
    <3>3. CASE kind[k] = "external" /\ pc'[k] = "ready"
      <4>1. ~Calm'
        BY <1>1, <2>2 DEF Crash, Calm, FlagTypes
      <4>2. log' \in Seq(Event) /\ followups' = <<>> /\ steers' = <<>> /\ hand' = <<>>
        BY <1>1, <2>2 DEF Crash, SeqTypes
      <4>3. Count(log', k) \in Nat /\ Copies(k)' = Count(log', k)
        <5>1. Count(log', k) \in Nat
          BY <4>2, CountType
        <5>2. Count(followups', k) = 0 /\ Count(steers', k) = 0 /\ Count(hand', k) = 0
          BY <4>2, CountEmpty
        <5>3. QED
          BY <5>1, <5>2 DEF Copies
      <4>4. Copies(k)' <= 1
        <5>1. Copies(k) <= 1 /\ Copies(k)' <= Copies(k)
          BY <2>1 DEF OnceAt, Moved
        <5>2. Copies(k) \in Nat
          BY <1>1, CopiesType
        <5>3. QED
          BY <4>3, <5>1, <5>2
      <4>5. QED
        BY <3>1, <3>3, <4>1, <4>3, <4>4 DEF OnceAt
    <3>4. QED
      BY <1>1, <1>2, <2>1, <3>1, <3>2, <3>3, OnceKept
  <2>3. CASE ~Crash
    <3>1. kind' = kind /\ pc' = pc
      BY <1>6, <2>3 DEF Compact, Host, Naming, CompactRead, CompactOpen, CompactCommit,
         CompactClose, Cancel, CloseRoot, CloseAncestor, CancelDescendant, Maintain,
         SetTitle, WriteTitle
    <3>2. QED
      BY <1>1, <1>2, <2>1, <3>1, OnceKept
  <2>4. QED
    BY <2>2, <2>3
<1>7. QED
  BY <1>3, <1>4, <1>5, <1>6 DEF Next

(* Where a message is follows from where its thread is, in every state.      *)
THEOREM OnceInvariance == Spec => []OnceInv
<1>1. OnceInv <=> \A k \in Msg : kind[k] # "job" => OnceAt(k)
  BY DEF OnceInv, OnceAt
<1> DEFINE I == \A k \in Msg : kind[k] # "job" => OnceAt(k)
<1>2. BaseInv /\ BaseInv' /\ I /\ [Next]_vars => I'
  <2> SUFFICES ASSUME BaseInv, BaseInv', I, [Next]_vars, NEW k \in Msg, kind'[k] # "job"
               PROVE  OnceAt(k)'
    OBVIOUS
  <2>1. CASE UNCHANGED vars
    <3>1. UNCHANGED <<log, followups, steers, hand, kind, pc, crashes, failed>>
      BY <2>1 DEF vars, inbox, task, history, given
    <3>2. kind[k] # "job" /\ OnceAt(k)
      BY <3>1
    <3>3. QED
      BY <3>1, <3>2 DEF OnceAt, Copies, Calm
  <2>2. CASE Next
    <3>1. kind' = kind
      BY <2>2, KindFixed
    <3>2. QED
      BY <2>2, <3>1, OnceStep DEF BaseInv, LightInv
  <2>3. QED
    BY <2>1, <2>2
<1>3. Init => I
  <2> SUFFICES ASSUME Init, NEW k \in Msg PROVE OnceAt(k)
    OBVIOUS
  <2>1. Copies(k) = 0
    BY CountEmpty DEF Init, Copies
  <2>2. pc[k] = "ready" /\ Calm
    BY DEF Init, Calm
  <2>3. QED
    BY <2>1, <2>2 DEF OnceAt
<1> HIDE DEF I
<1>4. Spec => []I
  BY BaseInvariance, <1>2, <1>3, PTL DEF Spec
<1>5. I => OnceInv
  BY <1>1 DEF I
<1>6. QED
  BY <1>4, <1>5, PTL

(* An accepted input is in the log, in the inbox or between the two, once,   *)
(* and a refused one nowhere (service.rs:1901-2177, 2857-3168).              *)
THEOREM AcceptedOnce == Spec => []AcceptedExactlyOnce
<1>1. OnceInv => AcceptedExactlyOnce
  BY DEF OnceInv, AcceptedExactlyOnce, User, Notices
<1>2. QED
  BY OnceInvariance, <1>1, PTL
-----------------------------------------------------------------------------
(* Titles.                                                                   *)

(* Nothing but a title adds to the titles of a log.                          *)
LEMMA TitleMoves ==
  ASSUME SeqTypes, HandInv
  PROVE  /\ \A m \in Msg : /\ Select(Append(log, m), Title) = LoggedTitles
                           /\ Select(Append(Recovered(log), m), Title) = LoggedTitles
         /\ Select(Recovered(log), Title) = LoggedTitles
         /\ \A e \in {"started", "completed", "failed", "cancelled", "checkpoint"} :
               Select(Append(log, e), Title) = LoggedTitles
         /\ burst = "prompting" => Select(log \o hand, Title) = LoggedTitles
<1>1. log \in Seq(Event) /\ Recovered(log) \in Seq(Event) /\ hand \in Seq(Msg)
  BY SeqMoves DEF SeqTypes
<1>2. ASSUME NEW l \in Seq(Event), NEW e \in Event, e \notin Title
      PROVE  Select(Append(l, e), Title) = Select(l, Title)
  BY <1>2, SelectAppend
<1>3. \A e \in {"started", "completed", "failed", "cancelled", "checkpoint"} :
         e \in Event /\ e \notin Title
  BY EventParts DEF Markers, TurnMarks
<1>4. \A m \in Msg : m \in Event /\ m \notin Title
  BY EventParts
<1>5. \A e \in {"started", "completed", "failed", "cancelled", "checkpoint"} :
         Select(Append(log, e), Title) = LoggedTitles
  BY <1>1, <1>2, <1>3 DEF LoggedTitles
<1>6. Select(Recovered(log), Title) = LoggedTitles
  <2>1. Recovered(log) \in {log, Append(log, "failed")}
    BY DEF Recovered
  <2>2. Select(Append(log, "failed"), Title) = LoggedTitles
    BY <1>5
  <2>3. QED
    BY <2>1, <2>2 DEF LoggedTitles
<1>7. ASSUME NEW m \in Msg
      PROVE  /\ Select(Append(log, m), Title) = LoggedTitles
             /\ Select(Append(Recovered(log), m), Title) = LoggedTitles
  <2>1. Select(Append(log, m), Title) = LoggedTitles
    BY <1>1, <1>2, <1>4 DEF LoggedTitles
  <2>2. Select(Append(Recovered(log), m), Title) = Select(Recovered(log), Title)
    BY <1>1, <1>2, <1>4
  <2>3. QED
    BY <1>6, <2>1, <2>2
<1>8. ASSUME burst = "prompting" PROVE Select(log \o hand, Title) = LoggedTitles
  <2>1. Len(hand) = 1
    BY <1>8 DEF HandInv
  <2>2. hand[1] \in Msg /\ hand = <<hand[1]>>
    BY <1>1, <2>1
  <2>3. log \o <<hand[1]>> = Append(log, hand[1])
    BY <1>1, <1>4, <2>2
  <2>4. Select(Append(log, hand[1]), Title) = LoggedTitles
    BY <1>7, <2>2
  <2>5. QED
    BY <2>2, <2>3, <2>4
<1>9. QED
  BY <1>5, <1>6, <1>7, <1>8

(* Neither a sender nor the burst's turns nor the host touch the titles.     *)
NamingKept == UNCHANGED <<titles, titled, titlePc, LoggedTitles>>

(* A sender appends no title and queues none.                                *)
LEMMA SenderKeepsTitles ==
  ASSUME SeqTypes, HandInv, NEW m \in Msg, Sender(m)
  PROVE  NamingKept
<1>0. UNCHANGED <<titles, titled, titlePc>>
  BY DEF Sender, Admit, Busy, CheckTeardown, CancelForSettle, SubmitQueued, SubmitLogOnly,
     OpenLogOnly, AppendLogOnly, SubmitStart, SubmitRetry, Spawn, naming
<1>1. CASE log' = log
  BY <1>0, <1>1 DEF NamingKept, LoggedTitles
<1>2. log' # log => AppendLogOnly(m) \/ SubmitStart(m)
  BY DEF Sender, Admit, Busy, CheckTeardown, CancelForSettle, SubmitQueued, SubmitLogOnly,
     OpenLogOnly, SubmitRetry, Spawn
<1>3. followups # <<>> => Head(followups) \in Msg
  BY SeqMoves
<1>4. AppendLogOnly(m) => log' \in {log, Append(log, m)}
  BY DEF AppendLogOnly
<1>5. SubmitStart(m) => \/ log' \in {log, Recovered(log)}
                        \/ \E n \in Msg : log' = Append(Recovered(log), n)
  BY <1>3 DEF SubmitStart
<1>6. Select(log', Title) = LoggedTitles
  <2>1. \/ log' = log \/ log' = Recovered(log)
        \/ \E n \in Msg : log' = Append(Recovered(log), n) \/ log' = Append(log, n)
    BY <1>2, <1>4, <1>5
  <2>2. CASE log' = log
    BY <2>2 DEF LoggedTitles
  <2>3. CASE log' = Recovered(log)
    BY <2>3, TitleMoves
  <2>4. ASSUME NEW n \in Msg, log' \in {Append(Recovered(log), n), Append(log, n)}
        PROVE  Select(log', Title) = LoggedTitles
    <3>1. /\ Select(Append(log, n), Title) = LoggedTitles
          /\ Select(Append(Recovered(log), n), Title) = LoggedTitles
      BY TitleMoves
    <3>2. QED
      BY <2>4, <3>1
  <2>5. QED
    BY <2>1, <2>2, <2>3, <2>4
<1>7. QED
  BY <1>0, <1>6 DEF NamingKept, LoggedTitles

(* Nor does the burst, but for the two places where it drains the queue.     *)
LEMMA BurstKeepsTitles ==
  ASSUME SeqTypes, HandInv, Burst \/ Model, ~BurstDrainTitles, ~BurstGoIdle
  PROVE  NamingKept
<1>0. UNCHANGED <<titles, titled, titlePc>>
  BY DEF Burst, Model, BurstStartTurn, BurstBoundary, BurstDeliver, BurstRequest,
     BurstSeeCancel, BurstNextFollowup, BurstPrompt, BurstTakeLeftovers,
     BurstLeftover, BurstLeftoversDone, BurstNextStep, BurstEndTurn, EndTurn, naming
<1>1. hand # <<>> => Head(hand) \in Msg
  BY SeqMoves
<1>2. \/ log' = log \/ \E n \in Msg : log' = Append(log, n)
      \/ \E e \in {"started", "completed", "failed", "cancelled", "checkpoint"} :
            log' = Append(log, e)
      \/ burst = "prompting" /\ log' = log \o hand
  BY <1>1 DEF Burst, Model, BurstStartTurn, BurstBoundary, BurstDeliver, BurstRequest,
     BurstSeeCancel, BurstNextFollowup, BurstPrompt, BurstTakeLeftovers, BurstAt,
     BurstLeftover, BurstLeftoversDone, BurstNextStep, BurstEndTurn, EndTurn
<1>3. Select(log', Title) = LoggedTitles
  <2>1. CASE log' = log
    BY <2>1 DEF LoggedTitles
  <2>2. ASSUME NEW n \in Msg, log' = Append(log, n) PROVE Select(log', Title) = LoggedTitles
    <3>1. Select(Append(log, n), Title) = LoggedTitles
      BY TitleMoves
    <3>2. QED
      BY <2>2, <3>1
  <2>3. ASSUME NEW e \in {"started", "completed", "failed", "cancelled", "checkpoint"},
               log' = Append(log, e)
        PROVE  Select(log', Title) = LoggedTitles
    <3>1. Select(Append(log, e), Title) = LoggedTitles
      BY TitleMoves
    <3>2. QED
      BY <2>3, <3>1
  <2>4. CASE burst = "prompting" /\ log' = log \o hand
    BY <2>4, TitleMoves
  <2>5. QED
    BY <1>2, <2>1, <2>2, <2>3, <2>4
<1>4. QED
  BY <1>0, <1>3 DEF NamingKept, LoggedTitles

(* Nothing lost, all the titles drained are in the log, behind the others.   *)
LEMMA TitlesDrained ==
  ASSUME NEW l \in Seq(Event), NEW ts \in Seq(Title), NEW lost, Appended(l, ts, lost),
         failed \in BOOLEAN, ~failed'
  PROVE  Select(log', Title) = Select(l, Title) \o ts /\ lost = {}
<1>1. lost = {}
  BY DEF Appended
<1>2. Select(ts, Title \ lost) = ts /\ Select(ts, Title) = ts
  BY <1>1, SelectNoneAll
<1>3. log' = l \o ts
  BY <1>2 DEF Appended
<1>4. ts \in Seq(Event)
  BY EventParts
<1>5. Select(l \o ts, Title) = Select(l, Title) \o Select(ts, Title)
  BY <1>4, SelectConcat
<1>6. QED
  BY <1>1, <1>2, <1>3, <1>5

(* A user's title, once announced, is only followed by others of the user's; *)
(* whoever may announce one keeps that.                                      *)
UserLast(s) == \A i, j \in 1..Len(s) : i < j /\ s[i] \in UserTitle => s[j] \in UserTitle

(* One more title, that may be announced, keeps it so.                       *)
LEMMA UserLastAppend ==
  ASSUME NEW s \in Seq(Title), NEW t \in Title, UserLast(s), t \in UserTitle \/ ~Pinned(s)
  PROVE  UserLast(Append(s, t))
<1> DEFINE r == Append(s, t)
<1>1. /\ Len(r) = Len(s) + 1 /\ Len(s) \in Nat /\ r[Len(s) + 1] = t
      /\ \A i \in 1..Len(s) : r[i] = s[i]
      /\ s = <<>> => Len(s) = 0
  OBVIOUS
<1> HIDE DEF r
<1>2. SUFFICES ASSUME NEW i \in 1..Len(r), NEW j \in 1..Len(r), i < j, r[i] \in UserTitle
               PROVE  r[j] \in UserTitle
  BY DEF UserLast, r
<1>3. CASE j <= Len(s)
  BY <1>1, <1>2, <1>3 DEF UserLast
<1>4. CASE j = Len(s) + 1
  <2>1. i \in 1..Len(s) /\ s[i] \in UserTitle
    BY <1>1, <1>2, <1>4
  <2>2. s[Len(s)] \in UserTitle
    <3>1. CASE i = Len(s)
      BY <2>1, <3>1
    <3>2. CASE i < Len(s)
      BY <1>1, <2>1, <3>2 DEF UserLast
    <3>3. QED
      BY <1>1, <2>1, <3>1, <3>2
  <2>3. Pinned(s)
    BY <1>1, <2>1, <2>2 DEF Pinned
  <2>4. QED
    BY <1>1, <1>4, <2>3
<1>5. QED
  BY <1>1, <1>2, <1>3, <1>4

(* What TitlesInOrder and TitleInv say.                                      *)
NamingInv ==
    Calm => /\ LoggedTitles \o titles = titled /\ UserLast(titled)
            /\ \A t \in Title : titlePc[t] = "writing" => t \in UserTitle \/ ~Pinned(titled)

(* It is the property and the invariant it rests on.                         *)
LEMMA NamingParts == NamingInv <=> TitlesInOrder /\ TitleInv
BY DEF NamingInv, TitlesInOrder, TitleInv, UserLast

(* Who drains the queue keeps it.                                            *)
LEMMA DrainKeepsNaming ==
  ASSUME SeqTypes, FlagTypes, NamingInv, Calm' => Calm, NEW l \in Seq(Event), DrainedTo(l),
         Select(l, Title) = LoggedTitles, titles' = <<>>, UNCHANGED <<titled, titlePc>>
  PROVE  NamingInv'
<1> SUFFICES ASSUME Calm' PROVE NamingInv'
  BY DEF NamingInv
<1>1. Calm /\ ~failed' /\ failed \in BOOLEAN /\ titles \in Seq(Title)
  BY DEF Calm, FlagTypes, SeqTypes
<1>2. Select(log', Title) = LoggedTitles \o titles
  BY <1>1, TitlesDrained DEF DrainedTo
<1>3. LoggedTitles' = titled
  BY <1>1, <1>2 DEF NamingInv, LoggedTitles
<1>4. LoggedTitles' \o titles' = titled'
  <2>1. titled \in Seq(Title)
    BY DEF SeqTypes
  <2>2. titled \o <<>> = titled
    BY <2>1
  <2>3. QED
    BY <1>3, <2>2
<1>5. QED
  BY <1>1, <1>4 DEF NamingInv

(* Every step keeps it.                                                      *)
LEMMA NamingStep ==
  ASSUME SeqTypes, FlagTypes, StepTypes, LogOwner, HandInv, NamingInv, Next
  PROVE  NamingInv'
<1>0. Calm' => Calm
  BY CalmStep
<1>1. CASE NamingKept
  BY <1>0, <1>1 DEF NamingKept, NamingInv
<1>2. ASSUME BurstDrainTitles \/ BurstGoIdle PROVE NamingInv'
  <2>1. DrainedTo(log) /\ titles' = <<>> /\ UNCHANGED <<titled, titlePc>>
    BY <1>2 DEF BurstDrainTitles, BurstGoIdle
  <2>2. log \in Seq(Event) /\ Select(log, Title) = LoggedTitles
    BY DEF SeqTypes, LoggedTitles
  <2>3. QED
    BY <1>0, <2>1, <2>2, DrainKeepsNaming
<1>3. ASSUME NEW t \in Title, SetTitle(t) PROVE NamingInv'
  <2>1. Calm' <=> Calm
    BY <1>3 DEF SetTitle, Calm, history, given
  <2>2. SUFFICES ASSUME Calm, Calm' PROVE NamingInv'
    BY <2>1 DEF NamingInv
  <2>3. /\ LoggedTitles \o titles = titled /\ UserLast(titled)
        /\ LoggedTitles' = LoggedTitles
        /\ \A u \in Title : titlePc[u] # "writing"
        /\ titlePc \in [Title -> {"ready", "writing", "done"}]
    <3>1. LoggedTitles \o titles = titled /\ UserLast(titled)
      BY <2>2 DEF NamingInv
    <3>2. LoggedTitles' = LoggedTitles
      BY <1>3 DEF SetTitle, LoggedTitles
    <3>3. \A u \in Title : titlePc[u] # "writing"
      BY <1>3 DEF SetTitle, InboxFree, LogOwner
    <3>4. QED
      BY <3>1, <3>2, <3>3 DEF StepTypes
  <2>4. Admitted(t) => t \in UserTitle \/ ~Pinned(titled)
    BY <2>3 DEF Admitted
  <2>5. CASE UNCHANGED <<titles, titled>> /\ titlePc' = [titlePc EXCEPT ![t] = "done"]
    BY <2>2, <2>3, <2>5 DEF NamingInv
  <2>6. CASE /\ Admitted(t) /\ titlePc' = [titlePc EXCEPT ![t] = "done"]
             /\ titles' = Append(titles, t) /\ titled' = Append(titled, t)
    <3>1. UserLast(titled')
      <4>1. titled \in Seq(Title)
        BY DEF SeqTypes
      <4>2. QED
        BY <2>3, <2>4, <2>6, <4>1, UserLastAppend
    <3>2. LoggedTitles \o Append(titles, t) = Append(titled, t)
      <4> DEFINE logged == LoggedTitles
      <4>1. logged \in Seq(Title) /\ titles \in Seq(Title)
        <5>1. LoggedTitles \in Seq(Title \cap Event)
          BY SelectType DEF LoggedTitles, SeqTypes
        <5>2. Title \cap Event = Title
          BY EventParts
        <5>3. QED
          BY <5>1, <5>2 DEF SeqTypes
      <4> HIDE DEF logged
      <4>2. logged \o Append(titles, t) = Append(logged \o titles, t)
        BY <4>1
      <4>3. QED
        BY <2>3, <4>2 DEF logged
    <3>3. \A u \in Title : titlePc'[u] # "writing"
      BY <2>3, <2>6
    <3>4. QED
      BY <2>3, <2>6, <3>1, <3>2, <3>3 DEF NamingInv
  <2>7. CASE Admitted(t) /\ titlePc' = [titlePc EXCEPT ![t] = "writing"]
             /\ UNCHANGED <<titles, titled>>
    BY <2>2, <2>3, <2>4, <2>7 DEF NamingInv
  <2>8. QED
    BY <1>3, <2>5, <2>6, <2>7 DEF SetTitle
<1>4. ASSUME NEW t \in Title, WriteTitle(t) PROVE NamingInv'
  <2>1. SUFFICES ASSUME Calm, Calm' PROVE NamingInv'
    BY <1>0 DEF NamingInv
  <2>2. /\ LoggedTitles \o titles = titled /\ UserLast(titled)
        /\ t \in UserTitle \/ ~Pinned(titled)
    BY <1>4, <2>1 DEF NamingInv, WriteTitle
  <2>3. \A u \in Title : titlePc'[u] # "writing"
    BY <1>4 DEF WriteTitle, LogOwner, StepTypes
  <2>4. PICK lost : /\ Appended(log, Append(titles, t), lost)
                    /\ titled' = IF t \in lost THEN titled ELSE Append(titled, t)
    BY <1>4 DEF WriteTitle
  <2>5. /\ log \in Seq(Event) /\ titles \in Seq(Title) /\ titled \in Seq(Title)
        /\ Append(titles, t) \in Seq(Title) /\ failed \in BOOLEAN /\ ~failed'
    BY <2>1 DEF SeqTypes, FlagTypes, Calm
  <2>6. Select(log', Title) = LoggedTitles \o Append(titles, t) /\ lost = {}
    BY <2>4, <2>5, TitlesDrained DEF LoggedTitles
  <2>7. titled' = Append(titled, t)
    BY <2>4, <2>6
  <2>8. UserLast(titled')
    BY <2>2, <2>5, <2>7, UserLastAppend
  <2>9. LoggedTitles' \o titles' = titled'
    <3> DEFINE logged == LoggedTitles
    <3>1. logged \in Seq(Title)
      <4>1. LoggedTitles \in Seq(Title \cap Event)
        BY SelectType DEF LoggedTitles, SeqTypes
      <4>2. Title \cap Event = Title
        BY EventParts
      <4>3. QED
        BY <4>1, <4>2
    <3>2. logged \o titles = titled
      BY <2>2
    <3>3. LoggedTitles' = logged \o Append(titles, t) /\ titles' = <<>>
      BY <1>4, <2>6 DEF WriteTitle, LoggedTitles
    <3> HIDE DEF logged
    <3>4. logged \o Append(titles, t) = Append(titled, t)
      BY <2>5, <3>1, <3>2
    <3>5. Append(titled, t) \o <<>> = Append(titled, t)
      BY <2>5
    <3>6. QED
      BY <2>7, <3>3, <3>4, <3>5
  <2>10. QED
    BY <2>3, <2>8, <2>9 DEF NamingInv
<1>5. ASSUME CompactCommit PROVE NamingInv'
  <2>1. UNCHANGED <<titled, titlePc>>
    BY <1>5 DEF CompactCommit
  <2>2. CASE failed' = TRUE
    BY <2>2 DEF NamingInv, Calm
  <2>3. CASE DrainedTo(Append(log, "checkpoint")) /\ titles' = <<>>
    <3>1. Append(log, "checkpoint") \in Seq(Event)
      BY SeqMoves
    <3>2. Select(Append(log, "checkpoint"), Title) = LoggedTitles
      BY TitleMoves
    <3>3. QED
      BY <1>0, <2>1, <2>3, <3>1, <3>2, DrainKeepsNaming
  <2>4. QED
    BY <1>5, <2>2, <2>3 DEF CompactCommit
<1>6. ASSUME Crash PROVE NamingInv'
  <2>1. ~Calm'
    BY <1>6 DEF Crash, Calm, FlagTypes
  <2>2. QED
    BY <2>1 DEF NamingInv
<1>7. CompactRead \/ CompactOpen \/ CompactClose \/ Cancel \/ CloseRoot \/ CloseAncestor
      \/ CancelDescendant \/ Maintain => NamingKept
  BY DEF CompactRead, CompactOpen, CompactClose, Cancel, CloseRoot, CloseAncestor,
     CancelDescendant, Maintain, NamingKept, naming, LoggedTitles
<1>8. QED
  BY <1>1, <1>2, <1>3, <1>4, <1>5, <1>6, <1>7, SenderKeepsTitles, BurstKeepsTitles
     DEF Next, Naming, Compact, Host

(* Whoever may write a title, nobody announced one that stands against it.   *)
THEOREM TitleInvariance == Spec => [](TitlesInOrder /\ TitleInv)
<1>1. BaseInv /\ NamingInv /\ [Next]_vars => NamingInv'
  <2>1. CASE UNCHANGED vars
    BY <2>1 DEF vars, NamingInv, Calm, LoggedTitles, naming, history, given
  <2>2. CASE Next
    BY <2>2, TypeParts, NamingStep DEF BaseInv, LightInv
  <2>3. QED
    BY <2>1, <2>2
<1>2. Init => NamingInv
  <2>1. ASSUME Init PROVE LoggedTitles = <<>> /\ titles = <<>> /\ titled = <<>>
    BY <2>1, SelectEmpty DEF Init, LoggedTitles
  <2>2. <<>> \o <<>> = <<>> /\ Len(<<>>) = 0
    OBVIOUS
  <2>3. Init => \A t \in Title : titlePc[t] # "writing"
    BY DEF Init
  <2>4. QED
    BY <2>1, <2>2, <2>3 DEF NamingInv, UserLast
<1>3. NamingInv => TitlesInOrder /\ TitleInv
  BY NamingParts
<1>4. QED
  BY BaseInvariance, <1>1, <1>2, <1>3, PTL DEF Spec

(* Titles are logged in the order they were announced, and no offered title  *)
(* follows one of the user's (commit_title, service.rs:354-394).             *)
THEOREM TitlesOrdered == Spec => []TitlesInOrder
BY TitleInvariance, PTL
-----------------------------------------------------------------------------
(* The order of followups.                                                   *)

(* An element more, or the first one less.                                   *)
LEMMA InAppend ==
  ASSUME NEW U, NEW s \in Seq(U), NEW x \in U, NEW e
  PROVE  In(e, Append(s, x)) <=> In(e, s) \/ e = x
<1> DEFINE r == Append(s, x)
<1>1. /\ Len(r) = Len(s) + 1 /\ Len(s) \in Nat /\ r[Len(s) + 1] = x
      /\ \A i \in 1..Len(s) : r[i] = s[i]
  OBVIOUS
<1> HIDE DEF r
<1>2. In(e, r) <=> In(e, s) \/ e = x
  <2>1. ASSUME In(e, r) PROVE In(e, s) \/ e = x
    BY <1>1, <2>1 DEF In
  <2>2. ASSUME In(e, s) PROVE In(e, r)
    BY <1>1, <2>2 DEF In
  <2>3. ASSUME e = x PROVE In(e, r)
    <3>1. Len(s) + 1 \in 1..Len(r)
      BY <1>1
    <3>2. QED
      BY <1>1, <2>3, <3>1 DEF In
  <2>4. QED
    BY <2>1, <2>2, <2>3
<1>3. QED
  BY <1>2 DEF r

(* Two elements are in order if they were, or if the second is the new one.  *)
LEMMA PrecedesAppend ==
  ASSUME NEW U, NEW s \in Seq(U), NEW x \in U, NEW a, NEW b
  PROVE  Precedes(a, b, Append(s, x)) <=> Precedes(a, b, s) \/ (In(a, s) /\ b = x)
<1> DEFINE r == Append(s, x)
<1>1. /\ Len(r) = Len(s) + 1 /\ Len(s) \in Nat /\ r[Len(s) + 1] = x
      /\ \A i \in 1..Len(s) : r[i] = s[i]
  OBVIOUS
<1> HIDE DEF r
<1>2. ASSUME Precedes(a, b, r) PROVE Precedes(a, b, s) \/ (In(a, s) /\ b = x)
  <2>1. PICK k, l \in 1..Len(r) : k < l /\ r[k] = a /\ r[l] = b
    BY <1>2 DEF Precedes
  <2>2. k \in 1..Len(s) /\ s[k] = a
    BY <1>1, <2>1
  <2>3. CASE l = Len(s) + 1
    BY <1>1, <2>1, <2>2, <2>3 DEF In
  <2>4. CASE l \in 1..Len(s)
    BY <1>1, <2>1, <2>2, <2>4 DEF Precedes
  <2>5. QED
    BY <1>1, <2>1, <2>3, <2>4
<1>3. ASSUME Precedes(a, b, s) PROVE Precedes(a, b, r)
  <2>1. PICK k, l \in 1..Len(s) : k < l /\ s[k] = a /\ s[l] = b
    BY <1>3 DEF Precedes
  <2>2. k \in 1..Len(r) /\ l \in 1..Len(r) /\ r[k] = a /\ r[l] = b
    BY <1>1, <2>1
  <2>3. QED
    BY <2>1, <2>2 DEF Precedes
<1>4. ASSUME In(a, s), b = x PROVE Precedes(a, b, r)
  <2>1. PICK k \in 1..Len(s) : s[k] = a
    BY <1>4 DEF In
  <2>2. k \in 1..Len(r) /\ Len(s) + 1 \in 1..Len(r) /\ r[k] = a /\ r[Len(s) + 1] = b
    BY <1>1, <1>4, <2>1
  <2>3. k < Len(s) + 1
    BY <1>1, <2>1
  <2>4. QED
    BY <2>2, <2>3 DEF Precedes
<1>5. QED
  BY <1>2, <1>3, <1>4 DEF r

(* Whoever queues last has everybody ahead of it.                            *)
LEMMA AheadAppend ==
  ASSUME NEW U, NEW s \in Seq(U), NEW x \in U, NEW a, NEW b,
         Ahead(a, b, s), b = x => In(a, s)
  PROVE  Ahead(a, b, Append(s, x))
<1> DEFINE r == Append(s, x)
<1>1. /\ Len(r) = Len(s) + 1 /\ Len(s) \in Nat /\ r[Len(s) + 1] = x
      /\ \A i \in 1..Len(s) : r[i] = s[i]
  OBVIOUS
<1> HIDE DEF r
<1>2. SUFFICES ASSUME NEW l \in 1..Len(r), r[l] = b PROVE \E k \in 1..(l - 1) : r[k] = a
  BY DEF Ahead, r
<1>3. CASE l \in 1..Len(s)
  <2>1. PICK k \in 1..(l - 1) : s[k] = a
    BY <1>1, <1>2, <1>3 DEF Ahead
  <2>2. r[k] = a
    BY <1>1, <1>3, <2>1
  <2>3. QED
    BY <2>2
<1>4. CASE l = Len(s) + 1
  <2>1. PICK k \in 1..Len(s) : s[k] = a
    BY <1>1, <1>2, <1>4 DEF In
  <2>2. k \in 1..(l - 1) /\ r[k] = a
    BY <1>1, <1>4, <2>1
  <2>3. QED
    BY <2>2
<1>5. QED
  BY <1>1, <1>3, <1>4

(* The first element and the others are all there are.                       *)
LEMMA InTail ==
  ASSUME NEW U, NEW s \in Seq(U), s # <<>>, NEW e
  PROVE  In(e, s) <=> e = Head(s) \/ In(e, Tail(s))
<1> DEFINE r == Tail(s)
           h == Head(s)
<1>1. /\ Len(s) = Len(r) + 1 /\ Len(r) \in Nat /\ s[1] = h
      /\ \A i \in 1..Len(r) : r[i] = s[i + 1]
  OBVIOUS
<1> HIDE DEF r, h
<1>2. ASSUME In(e, s) PROVE e = h \/ In(e, r)
  <2>1. PICK i \in 1..Len(s) : s[i] = e
    BY <1>2 DEF In
  <2>2. CASE i = 1
    BY <1>1, <2>1, <2>2
  <2>3. CASE i # 1
    <3>1. i - 1 \in 1..Len(r) /\ r[i - 1] = s[(i - 1) + 1] /\ (i - 1) + 1 = i
      BY <1>1, <2>1, <2>3
    <3>2. QED
      BY <2>1, <3>1 DEF In
  <2>4. QED
    BY <2>2, <2>3
<1>3. ASSUME e = h PROVE In(e, s)
  <2>1. 1 \in 1..Len(s)
    BY <1>1
  <2>2. QED
    BY <1>1, <1>3, <2>1 DEF In
<1>4. ASSUME In(e, r) PROVE In(e, s)
  <2>1. PICK i \in 1..Len(r) : r[i] = e
    BY <1>4 DEF In
  <2>2. i + 1 \in 1..Len(s) /\ s[i + 1] = e
    BY <1>1, <2>1
  <2>3. QED
    BY <2>2 DEF In
<1>5. QED
  BY <1>2, <1>3, <1>4 DEF r, h

(* Who comes first leaves the order of the others as it was.                 *)
LEMMA AheadTail ==
  ASSUME NEW U, NEW s \in Seq(U), s # <<>>, NEW a, NEW b, Ahead(a, b, s)
  PROVE  Head(s) # b /\ (a # Head(s) => Ahead(a, b, Tail(s)))
<1> DEFINE r == Tail(s)
           h == Head(s)
<1>1. /\ Len(s) = Len(r) + 1 /\ Len(r) \in Nat /\ s[1] = h
      /\ \A i \in 1..Len(r) : r[i] = s[i + 1]
  OBVIOUS
<1> HIDE DEF r, h
<1>2. h # b
  <2>1. 1 \in 1..Len(s) /\ 1..(1 - 1) = {}
    BY <1>1
  <2>2. QED
    BY <1>1, <2>1 DEF Ahead
<1>3. ASSUME a # h, NEW l \in 1..Len(r), r[l] = b PROVE \E k \in 1..(l - 1) : r[k] = a
  <2>1. l + 1 \in 1..Len(s) /\ s[l + 1] = b /\ (l + 1) - 1 = l
    BY <1>1, <1>3
  <2>2. PICK k \in 1..l : s[k] = a
    BY <2>1 DEF Ahead
  <2>3. k # 1
    BY <1>1, <1>3, <2>2
  <2>4. k - 1 \in 1..(l - 1) /\ k - 1 \in 1..Len(r) /\ (k - 1) + 1 = k
    BY <1>1, <1>3, <2>2, <2>3
  <2>5. r[k - 1] = a
    BY <1>1, <2>2, <2>4
  <2>6. QED
    BY <2>4, <2>5
<1>4. QED
  BY <1>2, <1>3 DEF Ahead, r, h

(* What follows a log and is not in question.                                *)
LEMMA InConcatOther ==
  ASSUME NEW U, NEW s \in Seq(U), NEW V, NEW t \in Seq(V), NEW a, NEW b, b \notin V
  PROVE  /\ In(b, s \o t) => In(b, s)
         /\ In(a, s) => In(a, s \o t)
         /\ Precedes(a, b, s) => Precedes(a, b, s \o t)
<1> DEFINE r == s \o t
<1>1. /\ Len(r) = Len(s) + Len(t) /\ Len(s) \in Nat /\ Len(t) \in Nat
      /\ \A i \in 1..Len(s) : r[i] = s[i]
      /\ \A i \in 1..Len(r) : i > Len(s) => i - Len(s) \in 1..Len(t) /\ r[i] = t[i - Len(s)]
  OBVIOUS
<1>2. \A i \in 1..Len(t) : t[i] \in V
  OBVIOUS
<1> HIDE DEF r
<1>3. ASSUME NEW i \in 1..Len(r), r[i] = b PROVE In(b, s)
  <2>1. CASE i > Len(s)
    BY <1>1, <1>2, <1>3, <2>1
  <2>2. CASE i <= Len(s)
    <3>1. i \in 1..Len(s)
      BY <1>1, <2>2
    <3>2. QED
      BY <1>1, <1>3, <3>1 DEF In
  <2>3. QED
    BY <1>1, <2>1, <2>2
<1>4. \A i \in 1..Len(s) : i \in 1..Len(r)
  BY <1>1
<1>5. In(a, s) => In(a, r)
  BY <1>1, <1>4 DEF In
<1>6. Precedes(a, b, s) => Precedes(a, b, r)
  BY <1>1, <1>4 DEF Precedes
<1>7. QED
  BY <1>3, <1>5, <1>6 DEF r, In

(* In it: counted.                                                           *)
LEMMA InCount ==
  ASSUME NEW U, NEW s \in Seq(U), NEW e
  PROVE  In(e, s) <=> Count(s, e) # 0
BY CountType DEF In

(* A message whose thread has yet to submit it is nowhere in the inbox.      *)
LEMMA UnsentNowhere ==
  ASSUME SeqTypes, NEW m \in Msg, OnceAt(m), pc[m] \in Unsent \cup {"ready"}
  PROVE  /\ ~In(m, followups) /\ ~In(m, steers) /\ ~In(m, hand)
         /\ Calm \/ pc[m] # "ready" => ~In(m, log)
<1>1. /\ Count(log, m) \in Nat /\ Count(followups, m) \in Nat
      /\ Count(steers, m) \in Nat /\ Count(hand, m) \in Nat
  BY CountMoves
<1>2. Copies(m) = 0 \/ Copies(m) = Count(log, m)
  BY DEF OnceAt, Unsent
<1>3. Count(followups, m) = 0 /\ Count(steers, m) = 0 /\ Count(hand, m) = 0
  BY <1>1, <1>2 DEF Copies
<1>4. Calm \/ pc[m] # "ready" => Copies(m) = 0
  BY DEF OnceAt, Unsent
<1>5. Calm \/ pc[m] # "ready" => Count(log, m) = 0
  BY <1>1, <1>4 DEF Copies
<1>6. QED
  BY <1>3, <1>5, InCount DEF SeqTypes

(* What IntentInv says of one message.                                       *)
IntentAt(m) ==
    /\ pc[m] = "admitted" => kind[m] = "job"
    /\ pc[m] \in {"opening", "appending"} => intent[m] = "inject"
    /\ kind[m] = "followup" => intent[m] = "followup"
    /\ kind[m] # "job" /\ (In(m, steers) \/ (burst # "prompting" /\ In(m, hand)))
          => intent[m] # "followup"

(* A sender leaves the hand of the burst alone, and starts one when idle.    *)
LEMMA SenderHand ==
  ASSUME StepTypes, LogOwner, NEW m \in Msg, Sender(m)
  PROVE  kind' = kind /\ hand' = hand /\ (burst' = "prompting" <=> burst = "prompting")
<1> USE DEF StepTypes
<1>1. kind' = kind /\ hand' = hand
  BY DEF Sender, Admit, Busy, CheckTeardown, CancelForSettle, SubmitQueued, SubmitLogOnly,
     OpenLogOnly, AppendLogOnly, SubmitStart, SubmitRetry, Spawn, history, given, task
<1>2. burst' # burst => SubmitStart(m) \/ SubmitRetry(m) \/ Spawn(m)
  BY DEF Sender, Admit, Busy, CheckTeardown, CancelForSettle, SubmitQueued,
     SubmitLogOnly, OpenLogOnly, AppendLogOnly, task
<1>3. SubmitStart(m) => burst' \in {burst, "starting"} /\ burst = "none"
  BY DEF SubmitStart, LogOwner
<1>4. SubmitRetry(m) /\ burst' # burst => burst' = "starting" /\ burst = "none"
  BY DEF SubmitRetry, LogOwner
<1>5. Spawn(m) => burst' = "turn" /\ burst = "starting"
  BY DEF Spawn, LogOwner
<1>6. QED
  BY <1>1, <1>2, <1>3, <1>4, <1>5

(* A sender settles the intent of its own message while that is nowhere.     *)
LEMMA IntentSender ==
  ASSUME StepTypes, FlagTypes, LogOwner, SeqTypes, NEW k \in Msg, IntentAt(k),
         kind[k] # "job" => OnceAt(k), NEW m \in Msg, Sender(m)
  PROVE  IntentAt(k)'
<1> USE DEF StepTypes, FlagTypes
<1>1. kind[k] # "job" /\ pc[k] \in Unsent \cup {"ready"} => ~In(k, steers) /\ ~In(k, hand)
  BY UnsentNowhere
<1>2. kind' = kind /\ hand' = hand /\ (burst' = "prompting" <=> burst = "prompting")
  BY SenderHand
<1>3. \/ steers' = steers
      \/ SubmitQueued(m) /\ SubmitIntent(m) # "followup" /\ steers' = Append(steers, m)
  BY DEF Sender, Admit, Busy, CheckTeardown, CancelForSettle, SubmitQueued, SubmitLogOnly,
     OpenLogOnly, AppendLogOnly, SubmitStart, SubmitRetry, Spawn, inbox
<1>4. In(k, Append(steers, m)) <=> In(k, steers) \/ k = m
  BY InAppend DEF SeqTypes
<1>5. CASE m # k
  <2>1. pc'[k] = pc[k] /\ intent'[k] = intent[k]
    BY <1>5 DEF Sender, Admit, Busy, CheckTeardown, CancelForSettle, SubmitQueued,
       SubmitLogOnly, OpenLogOnly, AppendLogOnly, SubmitStart, SubmitRetry, Spawn, Return,
       inbox
  <2>2. In(k, steers') <=> In(k, steers)
    BY <1>3, <1>4, <1>5
  <2>3. QED
    BY <1>2, <2>1, <2>2 DEF IntentAt
<1>6. CASE m = k
  <2>1. CASE SubmitQueued(k)
    <3>1. pc[k] = "submitting" /\ pc'[k] \in {"ready", "done"} /\ intent'[k] = SubmitIntent(k)
      BY <2>1 DEF SubmitQueued, Submitting, Return, Done
    <3>2. kind[k] = "followup" => SubmitIntent(k) = "followup"
      BY DEF IntentAt, SubmitIntent
    <3>3. kind[k] # "job" => ~In(k, steers) /\ ~In(k, hand)
      BY <1>1, <3>1 DEF Unsent
    <3>4. In(k, steers') => In(k, steers) \/ SubmitIntent(k) # "followup"
      BY <1>3, <1>4, <1>6
    <3>5. QED
      BY <1>2, <3>1, <3>2, <3>3, <3>4 DEF IntentAt
  <2>2. CASE ~SubmitQueued(k)
    <3>1. steers' = steers
      BY <1>3, <1>6, <2>2
    <3>2. CASE pc[k] \notin Unsent \cup {"ready"}
      <4>1. pc'[k] \in {pc[k], "done", "ready"} /\ intent'[k] = intent[k]
        BY <1>6, <3>2 DEF Sender, Admit, Busy, CheckTeardown, CancelForSettle, SubmitQueued,
           SubmitLogOnly, OpenLogOnly, AppendLogOnly, SubmitStart, SubmitRetry, Spawn,
           Submitting, Return, Done, inbox, Unsent
      <4>2. QED
        BY <1>2, <3>1, <4>1 DEF IntentAt
    <3>3. CASE pc[k] \in Unsent \cup {"ready"}
      <4>1. kind[k] # "job" => ~In(k, steers) /\ ~In(k, hand)
        BY <1>1, <3>3
      <4>2. SUFFICES /\ pc'[k] = "admitted" => kind[k] = "job"
                     /\ pc'[k] \in {"opening", "appending"} => intent'[k] = "inject"
                     /\ kind[k] = "followup" => intent'[k] = "followup"
        BY <1>2, <3>1, <4>1 DEF IntentAt
      <4>3. CASE Admit(k)
        BY <4>3 DEF Admit, Return
      <4>4. CASE CheckTeardown(k)
        BY <4>4 DEF CheckTeardown, IntentAt
      <4>5. CASE SubmitLogOnly(k)
        BY <4>5 DEF SubmitLogOnly, SubmitIntent, IntentAt
      <4>6. CASE OpenLogOnly(k)
        BY <4>6 DEF OpenLogOnly, Return, Refused, IntentAt, inbox
      <4>7. CASE AppendLogOnly(k)
        BY <4>7 DEF AppendLogOnly, Return, Done, Refused, IntentAt, inbox
      <4>8. CASE SubmitStart(k)
        BY <4>8 DEF SubmitStart, Return, Refused, IntentAt
      <4>9. CASE Busy(k) \/ CancelForSettle(k)
        BY <4>9 DEF Busy, CancelForSettle, IntentAt, inbox
      <4>10. CASE SubmitRetry(k) \/ Spawn(k)
        BY <4>10 DEF SubmitRetry, Spawn, Return, Done, IntentAt, inbox
      <4>11. QED
        BY <1>6, <2>2, <4>3, <4>4, <4>5, <4>6, <4>7, <4>8, <4>9, <4>10 DEF Sender
    <3>4. QED
      BY <3>2, <3>3
  <2>3. QED
    BY <2>1, <2>2
<1>7. QED
  BY <1>5, <1>6

(* Nobody else does; the burst takes what it takes.                          *)
LEMMA IntentOthers ==
  ASSUME StepTypes, FlagTypes, SeqTypes, HandInv, NEW k \in Msg, IntentAt(k),
         \/ Burst \/ Model \/ Compact \/ Host
         \/ \E t \in Title : Naming(t)
  PROVE  IntentAt(k)'
<1> USE DEF StepTypes, FlagTypes
<1>1. kind' = kind
  <2>1. Next
    BY DEF Next
  <2>2. QED
    BY <2>1, KindFixed
<1>2. CASE Crash
  <2>1. steers' = <<>> /\ hand' = <<>> /\ intent' = intent
    BY <1>2 DEF Crash
  <2>2. ~In(k, <<>>)
    BY DEF In
  <2>3. pc'[k] \in {"ready", "done", "refused", "lost"}
    BY <1>2 DEF Crash
  <2>4. QED
    BY <1>1, <2>1, <2>2, <2>3 DEF IntentAt
<1>3. CASE ~Crash
  <2>1. pc' = pc /\ intent' = intent
    BY <1>3 DEF Burst, Model, BurstStartTurn, BurstBoundary, BurstDeliver, BurstRequest,
       BurstSeeCancel, BurstDrainTitles, BurstNextFollowup, BurstPrompt,
       BurstTakeLeftovers, BurstLeftover, BurstLeftoversDone, BurstGoIdle,
       BurstNextStep, BurstEndTurn, EndTurn, Compact, Host, Naming, CompactRead,
       CompactOpen, CompactCommit, CompactClose, Cancel, CloseRoot, CloseAncestor,
       CancelDescendant, Maintain, SetTitle, WriteTitle, inbox
  <2>2. hand # <<>> => (In(k, Tail(hand)) => In(k, hand))
    BY InTail DEF SeqTypes
  <2>3. ~In(k, <<>>)
    BY DEF In
  <2>4. In(k, steers') \/ (burst' # "prompting" /\ In(k, hand'))
        => In(k, steers) \/ (burst # "prompting" /\ In(k, hand))
    <3>1. CASE UNCHANGED <<steers, hand, burst>>
      BY <3>1
    <3>2. CASE BurstBoundary \/ BurstTakeLeftovers
      BY <2>3, <3>2 DEF BurstBoundary, BurstTakeLeftovers
    <3>3. CASE BurstDeliver \/ BurstLeftover
      BY <2>2, <2>3, <3>3 DEF BurstDeliver, BurstLeftover, inbox
    <3>4. CASE BurstNextFollowup
      BY <3>4 DEF BurstNextFollowup, BurstAt
    <3>5. CASE BurstPrompt
      BY <2>3, <3>5 DEF BurstPrompt, inbox
    <3>6. CASE BurstStartTurn \/ BurstRequest \/ BurstNextStep \/ BurstEndTurn
               \/ BurstSeeCancel \/ BurstDrainTitles \/ BurstLeftoversDone \/ BurstGoIdle
      BY <3>6 DEF BurstStartTurn, BurstRequest, BurstNextStep, BurstEndTurn,
         BurstSeeCancel, EndTurn, BurstDrainTitles, BurstLeftoversDone, BurstGoIdle,
         BurstAt, inbox
    <3>7. Compact \/ Host \/ (\E t \in Title : Naming(t)) => UNCHANGED <<steers, hand, burst>>
      BY <1>3 DEF Compact, Host, Naming, CompactRead, CompactOpen, CompactCommit,
         CompactClose, Cancel, CloseRoot, CloseAncestor, CancelDescendant, Maintain,
         SetTitle, WriteTitle, inbox, task
    <3>8. QED
      BY <3>1, <3>2, <3>3, <3>4, <3>5, <3>6, <3>7 DEF Burst, Model
  <2>5. QED
    BY <1>1, <2>1, <2>4 DEF IntentAt
<1>4. QED
  BY <1>2, <1>3

(* Every reachable state has the intents of its messages settled.            *)
THEOREM IntentInvariance == Spec => []IntentInv
<1> DEFINE I == \A k \in Msg : IntentAt(k)
           O == \A k \in Msg : kind[k] # "job" => OnceAt(k)
<1>1. OnceInv => O
  BY DEF OnceInv, OnceAt
<1>2. BaseInv /\ O /\ I /\ [Next]_vars => I'
  <2> SUFFICES ASSUME BaseInv, O, I, [Next]_vars, NEW k \in Msg PROVE IntentAt(k)'
    OBVIOUS
  <2>1. CASE UNCHANGED vars
    BY <2>1 DEF vars, inbox, task, history, given, IntentAt
  <2>2. CASE Next
    <3>1. /\ StepTypes /\ FlagTypes /\ SeqTypes /\ LogOwner /\ HandInv
          /\ IntentAt(k) /\ (kind[k] # "job" => OnceAt(k))
      BY TypeParts DEF BaseInv, LightInv
    <3>2. QED
      BY <2>2, <3>1, IntentSender, IntentOthers DEF Next
  <2>3. QED
    BY <2>1, <2>2
<1>3. Init => I
  <2>1. ASSUME NEW k \in Msg PROVE ~In(k, <<>>)
    BY DEF In
  <2>2. QED
    BY <2>1 DEF Init, IntentAt
<1>4. I <=> IntentInv
  BY DEF IntentAt, IntentInv
<1> HIDE DEF I, O
<1>5. QED
  BY BaseInvariance, OnceInvariance, <1>1, <1>2, <1>3, <1>4, PTL DEF Spec

(* What QueueInv and FollowupsInOrder say of a followup and one after it.    *)
OrderAt(a, b) ==
    Calm /\ kind[a] = "followup" =>
        /\ In(a, accepted) => In(a, log) \/ Prompting(a) \/ In(a, followups)
        /\ Ordered(b) /\ Precedes(a, b, accepted) =>
              /\ In(b, log) => Precedes(a, b, log)
              /\ Prompting(b) => In(a, log)
              /\ In(a, log) \/ Prompting(a) \/ Ahead(a, b, followups)

(* Said for every two messages, it is the property and the invariant.        *)
LEMMA OrderParts ==
  ASSUME TypeOK
  PROVE  (\A a, b \in Msg : OrderAt(a, b)) <=> QueueInv /\ FollowupsInOrder
<1>1. accepted \in Seq(Msg)
  BY DEF TypeOK
<1>2. FollowupsInOrder <=>
        (Calm => \A a, b \in Msg :
            kind[a] = "followup" /\ Ordered(b) /\ Precedes(a, b, accepted) /\ In(b, log)
            => Precedes(a, b, log))
  <2>1. \A b : b \in Logged <=> In(b, log)
    BY DEF Logged, In
  <2>2. ASSUME FollowupsInOrder, Calm, NEW a \in Msg, NEW b \in Msg,
               kind[a] = "followup", Ordered(b), Precedes(a, b, accepted), In(b, log)
        PROVE  Precedes(a, b, log)
    <3>1. PICK i, j \in 1..Len(accepted) : i < j /\ accepted[i] = a /\ accepted[j] = b
      BY <2>2 DEF Precedes
    <3>2. accepted[j] \in Logged
      BY <2>1, <2>2, <3>1
    <3>3. \E k, l \in 1..Len(log) : k < l /\ log[k] = accepted[i] /\ log[l] = accepted[j]
      BY <2>2, <3>1, <3>2 DEF FollowupsInOrder, Ordered
    <3>4. QED
      BY <3>1, <3>3 DEF Precedes
  <2>3. ASSUME Calm,
               \A a, b \in Msg :
                 kind[a] = "followup" /\ Ordered(b) /\ Precedes(a, b, accepted) /\ In(b, log)
                 => Precedes(a, b, log),
               NEW i \in 1..Len(accepted), NEW j \in 1..Len(accepted), i < j,
               kind[accepted[i]] = "followup", kind[accepted[j]] # "job",
               intent[accepted[j]] = "followup", accepted[j] \in Logged
        PROVE  \E k, l \in 1..Len(log) : k < l /\ log[k] = accepted[i] /\ log[l] = accepted[j]
    <3>1. accepted[i] \in Msg /\ accepted[j] \in Msg
      BY <1>1
    <3>2. Precedes(accepted[i], accepted[j], accepted)
      BY <2>3 DEF Precedes
    <3>3. Ordered(accepted[j]) /\ In(accepted[j], log)
      BY <2>1, <2>3 DEF Ordered
    <3>4. Precedes(accepted[i], accepted[j], log)
      BY <2>3, <3>1, <3>2, <3>3
    <3>5. QED
      BY <3>4 DEF Precedes
  <2>4. QED
    BY <2>2, <2>3 DEF FollowupsInOrder
<1>3. QED
  BY <1>2 DEF OrderAt, QueueInv

(* A log that grows by nothing a followup must precede.                      *)
LogGrew(a, b) ==
    /\ In(a, log) => In(a, log')
    /\ Precedes(a, b, log) => Precedes(a, b, log')
    /\ Ordered(b) /\ In(b, log') => In(b, log)

(* Such a log and an inbox nobody touched keep the order.                    *)
LEMMA OrderKept ==
  ASSUME NEW a \in Msg, NEW b \in Msg, OrderAt(a, b), LogGrew(a, b), Calm' => Calm,
         UNCHANGED <<kind, followups, accepted>>,
         Prompting(a)' <=> Prompting(a), Prompting(b)' <=> Prompting(b),
         \/ intent'[b] = intent[b]
         \/ ~Ordered(b)'
         \/ ~In(b, log) /\ log' = log /\ ~Prompting(b) /\ ~In(b, followups)
  PROVE  OrderAt(a, b)'
<1>1. ~In(b, followups) => Ahead(a, b, followups)
  BY DEF Ahead, In
<1>2. Ordered(b)' <=> kind[b] # "job" /\ intent'[b] = "followup"
  BY DEF Ordered
<1>3. Ordered(b) <=> kind[b] # "job" /\ intent[b] = "followup"
  BY DEF Ordered
<1>4. In(a, log)' = In(a, log') /\ In(b, log)' = In(b, log')
  BY DEF In
<1>5. SUFFICES ASSUME Calm, Calm', kind[a] = "followup"
      PROVE  /\ In(a, accepted) => In(a, log') \/ Prompting(a) \/ In(a, followups)
             /\ Ordered(b)' /\ Precedes(a, b, accepted) =>
                  /\ In(b, log') => Precedes(a, b, log')
                  /\ Prompting(b) => In(a, log')
                  /\ In(a, log') \/ Prompting(a) \/ Ahead(a, b, followups)
  BY DEF OrderAt
<1>6. /\ In(a, accepted) => In(a, log) \/ Prompting(a) \/ In(a, followups)
      /\ Ordered(b) /\ Precedes(a, b, accepted) =>
            /\ In(b, log) => Precedes(a, b, log)
            /\ Prompting(b) => In(a, log)
            /\ In(a, log) \/ Prompting(a) \/ Ahead(a, b, followups)
  BY <1>5 DEF OrderAt
<1>7. QED
  BY <1>1, <1>2, <1>3, <1>6 DEF LogGrew

(* What appends make of a log.                                               *)
LEMMA LogMoves ==
  ASSUME SeqTypes, NEW a \in Msg, NEW b \in Msg, NEW l \in {log, Recovered(log)}
  PROVE  /\ \A m \in Msg :
              /\ In(a, Append(l, m)) <=> In(a, log) \/ a = m
              /\ In(b, Append(l, m)) <=> In(b, log) \/ b = m
              /\ Precedes(a, b, Append(l, m)) <=> Precedes(a, b, log) \/ (In(a, log) /\ b = m)
         /\ \A e \in {"started", "completed", "failed", "cancelled", "checkpoint"} :
              /\ In(a, Append(log, e)) <=> In(a, log)
              /\ In(b, Append(log, e)) <=> In(b, log)
              /\ Precedes(a, b, Append(log, e)) <=> Precedes(a, b, log)
<1>1. log \in Seq(Event) /\ l \in Seq(Event) /\ Msg \subseteq Event
  BY SeqMoves DEF SeqTypes
<1>2. \A e \in {"started", "completed", "failed", "cancelled", "checkpoint"} :
         e \in Event /\ e # a /\ e # b
  BY EventParts DEF Markers, TurnMarks
<1>3. \A e \in {"started", "completed", "failed", "cancelled", "checkpoint"} :
         /\ In(a, Append(log, e)) <=> In(a, log)
         /\ In(b, Append(log, e)) <=> In(b, log)
         /\ Precedes(a, b, Append(log, e)) <=> Precedes(a, b, log)
  BY <1>1, <1>2, InAppend, PrecedesAppend
<1>4. /\ In(a, l) <=> In(a, log)
      /\ In(b, l) <=> In(b, log)
      /\ Precedes(a, b, l) <=> Precedes(a, b, log)
  <2>1. l \in {log, Append(log, "failed")}
    BY DEF Recovered
  <2>2. QED
    BY <1>3, <2>1
<1>5. ASSUME NEW m \in Msg
      PROVE  /\ In(a, Append(l, m)) <=> In(a, log) \/ a = m
             /\ In(b, Append(l, m)) <=> In(b, log) \/ b = m
             /\ Precedes(a, b, Append(l, m)) <=> Precedes(a, b, log) \/ (In(a, log) /\ b = m)
  <2>1. m \in Event
    BY <1>1
  <2>2. /\ In(a, Append(l, m)) <=> In(a, l) \/ a = m
        /\ In(b, Append(l, m)) <=> In(b, l) \/ b = m
        /\ Precedes(a, b, Append(l, m)) <=> Precedes(a, b, l) \/ (In(a, l) /\ b = m)
    BY <1>1, <2>1, InAppend, PrecedesAppend
  <2>3. QED
    BY <1>4, <2>2
<1>6. QED
  BY <1>3, <1>5

(* What the inbox is after a message was parked, or after its oldest one was *)
(* taken.                                                                    *)
LEMMA QueueMoves ==
  ASSUME SeqTypes, NEW a \in Msg, NEW b \in Msg
  PROVE  /\ \A m \in Msg :
              /\ In(a, Append(followups, m)) <=> In(a, followups) \/ a = m
              /\ Ahead(a, b, followups) /\ (b = m => In(a, followups))
                 => Ahead(a, b, Append(followups, m))
              /\ In(a, Append(accepted, m)) <=> In(a, accepted) \/ a = m
              /\ Precedes(a, b, Append(accepted, m))
                 <=> Precedes(a, b, accepted) \/ (In(a, accepted) /\ b = m)
         /\ Precedes(a, b, accepted) => In(a, accepted)
         /\ ~In(b, followups) => Ahead(a, b, followups)
         /\ followups # <<>> =>
              /\ In(a, followups) <=> a = Head(followups) \/ In(a, Tail(followups))
              /\ In(b, followups) <=> b = Head(followups) \/ In(b, Tail(followups))
              /\ Ahead(a, b, followups) =>
                   /\ Head(followups) # b
                   /\ a # Head(followups) => Ahead(a, b, Tail(followups))
              /\ \A m \in Msg :
                   /\ In(a, Append(Tail(followups), m)) <=> In(a, Tail(followups)) \/ a = m
                   /\ Ahead(a, b, Tail(followups)) /\ (b = m => In(a, Tail(followups)))
                      => Ahead(a, b, Append(Tail(followups), m))
              /\ ~In(b, Tail(followups)) => Ahead(a, b, Tail(followups))
<1>1. followups \in Seq(Msg) /\ accepted \in Seq(Msg)
  BY DEF SeqTypes
<1>2. \A s : ~In(b, s) => Ahead(a, b, s)
  BY DEF In, Ahead
<1>3. Precedes(a, b, accepted) => In(a, accepted)
  BY DEF Precedes, In
<1>4. ASSUME NEW s \in Seq(Msg), NEW m \in Msg
      PROVE  /\ In(a, Append(s, m)) <=> In(a, s) \/ a = m
             /\ Ahead(a, b, s) /\ (b = m => In(a, s)) => Ahead(a, b, Append(s, m))
             /\ Precedes(a, b, Append(s, m)) <=> Precedes(a, b, s) \/ (In(a, s) /\ b = m)
  BY InAppend, AheadAppend, PrecedesAppend
<1>5. ASSUME followups # <<>>
      PROVE  /\ Tail(followups) \in Seq(Msg)
             /\ In(a, followups) <=> a = Head(followups) \/ In(a, Tail(followups))
             /\ In(b, followups) <=> b = Head(followups) \/ In(b, Tail(followups))
             /\ Ahead(a, b, followups) =>
                  /\ Head(followups) # b
                  /\ a # Head(followups) => Ahead(a, b, Tail(followups))
  <2>1. Tail(followups) \in Seq(Msg)
    BY <1>1, <1>5
  <2>2. QED
    BY <1>1, <1>5, <2>1, InTail, AheadTail
<1>6. QED
  BY <1>1, <1>2, <1>3, <1>4, <1>5

(* A sender parks its message behind the others, or starts the turn with the *)
(* oldest of them.                                                           *)
LEMMA OrderSender ==
  ASSUME StepTypes, FlagTypes, LogOwner, SeqTypes, HandInv, NEW a \in Msg, NEW b \in Msg,
         OrderAt(a, b), NEW m \in Msg, IntentAt(m), kind[m] # "job" => OnceAt(m),
         Sender(m), Calm' => Calm
  PROVE  OrderAt(a, b)'
<1> USE DEF StepTypes, FlagTypes
<1>1. SUFFICES ASSUME Calm, Calm', kind[a] = "followup" PROVE OrderAt(a, b)'
  BY SenderHand DEF OrderAt
<1>2. kind' = kind /\ (Prompting(a)' <=> Prompting(a)) /\ (Prompting(b)' <=> Prompting(b))
  BY SenderHand DEF Prompting
<1>3. kind[m] # "job" /\ pc[m] \in Unsent \cup {"ready"}
      => /\ ~In(m, log) /\ ~In(m, followups) /\ ~In(m, steers) /\ ~In(m, hand)
         /\ ~Prompting(m)
  BY <1>1, UnsentNowhere DEF Prompting
<1>4. /\ In(a, accepted) => In(a, log) \/ Prompting(a) \/ In(a, followups)
      /\ Ordered(b) /\ Precedes(a, b, accepted) =>
            /\ In(b, log) => Precedes(a, b, log)
            /\ Prompting(b) => In(a, log)
            /\ In(a, log) \/ Prompting(a) \/ Ahead(a, b, followups)
  BY <1>1 DEF OrderAt
<1>5. /\ Ordered(b)' <=> kind[b] # "job" /\ intent'[b] = "followup"
      /\ Ordered(b) <=> kind[b] # "job" /\ intent[b] = "followup"
  BY <1>2 DEF Ordered
<1>6. SUFFICES /\ In(a, accepted') => In(a, log') \/ Prompting(a) \/ In(a, followups')
               /\ Ordered(b)' /\ Precedes(a, b, accepted') =>
                    /\ In(b, log') => Precedes(a, b, log')
                    /\ Prompting(b) => In(a, log')
                    /\ In(a, log') \/ Prompting(a) \/ Ahead(a, b, followups')
  BY <1>2 DEF OrderAt
<1>7. CASE UNCHANGED <<log, followups, accepted>>
  <2>1. intent'[b] # intent[b] => b = m /\ pc[m] \in Unsent \cup {"ready"}
    BY <1>7 DEF Sender, Admit, Busy, CheckTeardown, CancelForSettle, SubmitQueued,
       SubmitLogOnly, OpenLogOnly, AppendLogOnly, SubmitStart, SubmitRetry, Spawn,
       Submitting, Unsent, inbox
  <2>2. ~In(b, followups) => Ahead(a, b, followups)
    BY QueueMoves
  <2>3. QED
    BY <1>3, <1>4, <1>5, <1>7, <2>1, <2>2
<1>8. /\ \A n \in Msg :
           /\ In(a, Append(log, n)) <=> In(a, log) \/ a = n
           /\ In(b, Append(log, n)) <=> In(b, log) \/ b = n
           /\ Precedes(a, b, Append(log, n)) <=> Precedes(a, b, log) \/ (In(a, log) /\ b = n)
           /\ In(a, Append(Recovered(log), n)) <=> In(a, log) \/ a = n
           /\ In(b, Append(Recovered(log), n)) <=> In(b, log) \/ b = n
           /\ Precedes(a, b, Append(Recovered(log), n))
              <=> Precedes(a, b, log) \/ (In(a, log) /\ b = n)
  <2>1. log \in {log, Recovered(log)} /\ Recovered(log) \in {log, Recovered(log)}
    OBVIOUS
  <2>2. QED
    BY <2>1, LogMoves
<1>9. /\ In(a, Append(accepted, m)) <=> In(a, accepted) \/ a = m
      /\ Precedes(a, b, Append(accepted, m))
         <=> Precedes(a, b, accepted) \/ (In(a, accepted) /\ b = m)
      /\ Precedes(a, b, accepted) => In(a, accepted)
      /\ ~In(b, followups) => Ahead(a, b, followups)
      /\ In(a, Append(followups, m)) <=> In(a, followups) \/ a = m
      /\ Ahead(a, b, followups) /\ (b = m => In(a, followups))
         => Ahead(a, b, Append(followups, m))
  BY QueueMoves
<1>10. CASE AppendLogOnly(m)
  <2>1. intent[m] = "inject" /\ intent' = intent /\ kind[m] # "followup"
    BY <1>10 DEF AppendLogOnly, IntentAt, inbox
  <2>2. followups' = followups
    BY <1>10 DEF AppendLogOnly, inbox
  <2>3. CASE UNCHANGED <<log, accepted>>
    BY <1>7, <2>2, <2>3
  <2>4. CASE log' = Append(log, m) /\ accepted' = Append(accepted, m)
    <3>1. /\ In(a, log') <=> In(a, log) \/ a = m
          /\ In(b, log') <=> In(b, log) \/ b = m
          /\ Precedes(a, b, log') <=> Precedes(a, b, log) \/ (In(a, log) /\ b = m)
      BY <1>8, <2>4
    <3>2. /\ In(a, accepted') <=> In(a, accepted) \/ a = m
          /\ Precedes(a, b, accepted')
             <=> Precedes(a, b, accepted) \/ (In(a, accepted) /\ b = m)
      BY <1>9, <2>4
    <3>3. a # m /\ (Ordered(b)' => b # m /\ Ordered(b))
      BY <1>1, <1>5, <2>1
    <3>4. QED
      BY <1>4, <2>2, <3>1, <3>2, <3>3
  <2>5. QED
    BY <1>10, <2>3, <2>4 DEF AppendLogOnly
<1>11. CASE SubmitQueued(m)
  <2>1. /\ log' = log /\ accepted' = Append(accepted, m) /\ pc[m] \in Unsent
        /\ intent' = [intent EXCEPT ![m] = SubmitIntent(m)]
    BY <1>11 DEF SubmitQueued, Submitting, Unsent
  <2>2. kind[m] = "followup" => SubmitIntent(m) = "followup"
    BY DEF IntentAt, SubmitIntent
  <2>3. /\ In(a, accepted') <=> In(a, accepted) \/ a = m
        /\ Precedes(a, b, accepted')
           <=> Precedes(a, b, accepted) \/ (In(a, accepted) /\ b = m)
    BY <1>9, <2>1
  <2>4. In(a, accepted) => a # m
    BY <1>1, <1>3, <1>4, <2>1
  <2>5. /\ b # m => (Ordered(b)' <=> Ordered(b))
        /\ Ordered(m)' <=> kind[m] # "job" /\ SubmitIntent(m) = "followup"
    BY <1>2, <2>1 DEF Ordered
  <2>6. CASE SubmitIntent(m) = "followup"
    <3>1. followups' = Append(followups, m)
      BY <1>11, <2>6 DEF SubmitQueued
    <3>2. /\ In(a, followups') <=> In(a, followups) \/ a = m
          /\ Ahead(a, b, followups) /\ (b = m => In(a, followups)) => Ahead(a, b, followups')
      BY <1>9, <3>1
    <3>3. CASE b = m
      BY <1>3, <1>4, <1>5, <1>9, <2>1, <2>3, <2>4, <2>5, <3>2, <3>3
    <3>4. CASE b # m
      BY <1>4, <1>9, <2>1, <2>3, <2>4, <2>5, <3>2, <3>4
    <3>5. QED
      BY <3>3, <3>4
  <2>7. CASE SubmitIntent(m) # "followup"
    <3>1. followups' = followups
      BY <1>11, <2>7 DEF SubmitQueued
    <3>2. a # m
      BY <1>1, <2>2, <2>7
    <3>3. QED
      BY <1>4, <2>1, <2>3, <2>5, <2>7, <3>1, <3>2
  <2>8. QED
    BY <2>6, <2>7
<1>12. CASE SubmitStart(m)
  <2>1. pc[m] \in Unsent /\ ~Prompting(a) /\ ~Prompting(b)
    BY <1>12 DEF SubmitStart, Submitting, LogOwner, Unsent, Prompting
  <2>2. CASE UNCHANGED <<log, followups, accepted>>
    BY <1>7, <2>2
  <2>3. ASSUME intent' = [intent EXCEPT ![m] = "followup"], accepted' = Append(accepted, m)
        PROVE  /\ In(a, accepted') <=> In(a, accepted) \/ a = m
               /\ Precedes(a, b, accepted')
                  <=> Precedes(a, b, accepted) \/ (In(a, accepted) /\ b = m)
               /\ In(a, accepted) => a # m
               /\ b # m => (Ordered(b)' <=> Ordered(b))
               /\ Ordered(m)' => kind[m] # "job"
    <3>1. In(a, accepted) => a # m
      BY <1>1, <1>3, <1>4, <2>1
    <3>2. b # m => (Ordered(b)' <=> Ordered(b))
      BY <1>2, <2>3 DEF Ordered
    <3>3. Ordered(m)' => kind[m] # "job"
      BY <1>2 DEF Ordered
    <3>4. QED
      BY <1>9, <2>3, <3>1, <3>2, <3>3
  <2>4. CASE /\ followups = <<>> /\ followups' = followups
             /\ log' = Append(Recovered(log), m)
             /\ intent' = [intent EXCEPT ![m] = "followup"] /\ accepted' = Append(accepted, m)
    <3>1. /\ In(a, log') <=> In(a, log) \/ a = m
          /\ In(b, log') <=> In(b, log) \/ b = m
          /\ Precedes(a, b, log') <=> Precedes(a, b, log) \/ (In(a, log) /\ b = m)
      BY <1>8, <2>4
    <3>2. ~In(a, followups) /\ Ahead(a, b, followups')
      BY <2>4 DEF In, Ahead
    <3>3. /\ In(a, accepted') <=> In(a, accepted) \/ a = m
          /\ Precedes(a, b, accepted')
             <=> Precedes(a, b, accepted) \/ (In(a, accepted) /\ b = m)
          /\ In(a, accepted) => a # m
          /\ b # m => (Ordered(b)' <=> Ordered(b))
          /\ Ordered(m)' => kind[m] # "job"
      BY <2>3, <2>4
    <3>4. In(a, accepted) => In(a, log)
      BY <1>4, <2>1, <3>2
    <3>5. CASE b = m
      BY <1>9, <1>3, <2>1, <2>4, <3>1, <3>2, <3>3, <3>4, <3>5
    <3>6. CASE b # m
      BY <1>4, <2>1, <2>4, <3>1, <3>2, <3>3, <3>4, <3>6
    <3>7. QED
      BY <3>5, <3>6
  <2>5. CASE /\ followups # <<>> /\ followups' = Append(Tail(followups), m)
             /\ log' = Append(Recovered(log), Head(followups))
             /\ intent' = [intent EXCEPT ![m] = "followup"] /\ accepted' = Append(accepted, m)
    <3> DEFINE h == Head(followups)
               t == Tail(followups)
    <3>1. h \in Msg
      BY <2>5, SeqMoves
    <3>2. /\ In(a, log') <=> In(a, log) \/ a = h
          /\ In(b, log') <=> In(b, log) \/ b = h
          /\ Precedes(a, b, log') <=> Precedes(a, b, log) \/ (In(a, log) /\ b = h)
      BY <1>8, <2>5, <3>1
    <3>3. /\ In(a, followups) <=> a = h \/ In(a, t)
          /\ In(b, followups) <=> b = h \/ In(b, t)
          /\ Ahead(a, b, followups) => h # b /\ (a # h => Ahead(a, b, t))
          /\ In(a, followups') <=> In(a, t) \/ a = m
          /\ Ahead(a, b, t) /\ (b = m => In(a, t)) => Ahead(a, b, followups')
          /\ ~In(b, t) => Ahead(a, b, t)
      BY <2>5, QueueMoves
    <3> HIDE DEF h, t
    <3>4. kind[m] # "job" => ~In(m, log) /\ ~In(m, followups)
      BY <1>3, <2>1
    <3>5. /\ In(a, accepted') <=> In(a, accepted) \/ a = m
          /\ Precedes(a, b, accepted')
             <=> Precedes(a, b, accepted) \/ (In(a, accepted) /\ b = m)
          /\ In(a, accepted) => a # m
          /\ b # m => (Ordered(b)' <=> Ordered(b))
          /\ Ordered(m)' => kind[m] # "job"
      BY <2>3, <2>5
    <3>6. In(a, accepted) => In(a, log) \/ In(a, followups)
      BY <1>4, <2>1
    <3>7. CASE b = m
      <4>1. In(a, accepted') => In(a, log') \/ In(a, followups')
        BY <3>2, <3>3, <3>5, <3>6
      <4>2. In(a, accepted) /\ a # h => In(a, log) \/ In(a, t)
        BY <3>3, <3>6
      <4>3. Ordered(b)' => ~In(b, log) /\ b # h /\ ~In(b, t) /\ ~In(b, log')
        BY <3>2, <3>3, <3>4, <3>5, <3>7
      <4>4. Ordered(b)' /\ Precedes(a, b, accepted') => In(a, accepted)
        BY <1>9, <3>5, <3>7
      <4>5. Ordered(b)' /\ Precedes(a, b, accepted')
            => In(a, log') \/ Ahead(a, b, followups')
        BY <3>2, <3>3, <3>7, <4>2, <4>3, <4>4
      <4>6. QED
        BY <2>1, <4>1, <4>3, <4>5
    <3>8. CASE b # m
      BY <1>4, <2>1, <3>2, <3>3, <3>5, <3>8, <1>9
    <3>9. QED
      BY <3>7, <3>8
  <2>6. QED
    <3>1. ~(failed' = TRUE)
      BY <1>1 DEF Calm
    <3>2. QED
      BY <1>12, <2>2, <2>4, <2>5, <3>1 DEF SubmitStart
<1>13. ~(AppendLogOnly(m) \/ SubmitQueued(m) \/ SubmitStart(m))
       => UNCHANGED <<log, followups, accepted>>
  BY DEF Sender, Admit, Busy, CheckTeardown, CancelForSettle, SubmitLogOnly, OpenLogOnly,
     SubmitRetry, Spawn, inbox, history
<1>14. QED
  BY <1>7, <1>10, <1>11, <1>12, <1>13

(* Titles that go to the log leave the order of the rest alone.              *)
LEMMA DrainGrew ==
  ASSUME SeqTypes, NEW a \in Msg, NEW b \in Msg,
         NEW l \in {log, Append(log, "checkpoint")}, NEW ts \in Seq(Title), NEW lost,
         Appended(l, ts, lost)
  PROVE  LogGrew(a, b)
<1> DEFINE kept == Select(ts, Title \ lost)
<1>1. l \in Seq(Event) /\ b \notin Title
  <2>1. "checkpoint" \in Event
    BY SeqMoves
  <2>2. Append(log, "checkpoint") \in Seq(Event) /\ log \in Seq(Event)
    BY <2>1, SeqMoves DEF SeqTypes
  <2>3. QED
    BY <2>2, ServiceAssumption
<1>2. kept \in Seq(Title)
  BY <1>1, DrainType
<1>3. log' = l \o kept
  BY DEF Appended
<1> HIDE DEF kept
<1>4. /\ In(b, log') => In(b, l)
      /\ In(a, l) => In(a, log')
      /\ Precedes(a, b, l) => Precedes(a, b, log')
  BY <1>1, <1>2, <1>3, InConcatOther
<1>5. /\ In(a, l) <=> In(a, log)
      /\ In(b, l) <=> In(b, log)
      /\ Precedes(a, b, l) <=> Precedes(a, b, log)
  <2>1. CASE l = log
    BY <2>1
  <2>2. CASE l = Append(log, "checkpoint")
    <3>1. log \in {log, Recovered(log)}
      OBVIOUS
    <3>2. QED
      BY <2>2, <3>1, LogMoves
  <2>3. QED
    BY <2>1, <2>2
<1>6. QED
  BY <1>4, <1>5 DEF LogGrew

(* The burst takes the oldest parked message and says it before any other.   *)
LEMMA OrderBurst ==
  ASSUME StepTypes, FlagTypes, SeqTypes, HandInv, NEW a \in Msg, NEW b \in Msg,
         OrderAt(a, b), \A n \in Msg : IntentAt(n), Burst \/ Model, Calm' => Calm
  PROVE  OrderAt(a, b)'
<1> USE DEF StepTypes, FlagTypes
<1>1. kind' = kind /\ intent' = intent /\ accepted' = accepted
  BY DEF Burst, Model, BurstStartTurn, BurstBoundary, BurstDeliver, BurstRequest,
     BurstSeeCancel, BurstDrainTitles, BurstNextFollowup, BurstPrompt,
     BurstTakeLeftovers, BurstLeftover, BurstLeftoversDone, BurstGoIdle,
     BurstNextStep, BurstEndTurn, EndTurn, inbox, history, given
<1>2. SUFFICES ASSUME Calm, Calm', kind[a] = "followup" PROVE OrderAt(a, b)'
  BY <1>1 DEF OrderAt
<1>3. failed' # TRUE
  BY <1>2 DEF Calm
<1>4. ASSUME LogGrew(a, b), followups' = followups,
             burst # "prompting", burst' # "prompting"
      PROVE  OrderAt(a, b)'
  <2>1. (Prompting(a)' <=> Prompting(a)) /\ (Prompting(b)' <=> Prompting(b))
    BY <1>4 DEF Prompting
  <2>2. QED
    BY <1>1, <1>4, <2>1, OrderKept
<1>5. /\ log' = log => LogGrew(a, b)
      /\ \A e \in {"started", "completed", "failed", "cancelled", "checkpoint"} :
           log' = Append(log, e) => LogGrew(a, b)
      /\ \A n \in Msg : n # b \/ ~Ordered(b) =>
           (log' = Append(log, n) => LogGrew(a, b))
  <2>1. log \in {log, Recovered(log)}
    OBVIOUS
  <2>2. log' = log => LogGrew(a, b)
    BY DEF LogGrew
  <2>3. ASSUME NEW e \in {"started", "completed", "failed", "cancelled", "checkpoint"},
               log' = Append(log, e)
        PROVE  LogGrew(a, b)
    <3>1. /\ In(a, log') <=> In(a, log)
          /\ In(b, log') <=> In(b, log)
          /\ Precedes(a, b, log') <=> Precedes(a, b, log)
      BY <2>1, <2>3, LogMoves
    <3>2. QED
      BY <3>1 DEF LogGrew
  <2>4. ASSUME NEW n \in Msg, n # b \/ ~Ordered(b), log' = Append(log, n)
        PROVE  LogGrew(a, b)
    <3>1. /\ In(a, log') <=> In(a, log) \/ a = n
          /\ In(b, log') <=> In(b, log) \/ b = n
          /\ Precedes(a, b, log') <=> Precedes(a, b, log) \/ (In(a, log) /\ b = n)
      BY <2>1, <2>4, LogMoves
    <3>2. QED
      BY <2>4, <3>1 DEF LogGrew
  <2>5. QED
    BY <2>2, <2>3, <2>4
<1>6. CASE BurstStartTurn
  BY <1>3, <1>4, <1>5, <1>6 DEF BurstStartTurn, BurstAt, inbox
<1>7. CASE BurstBoundary \/ BurstRequest \/ BurstNextStep \/ BurstTakeLeftovers
           \/ BurstLeftoversDone
  BY <1>4, <1>5, <1>7 DEF BurstBoundary, BurstRequest, BurstNextStep, BurstTakeLeftovers,
     BurstLeftoversDone, BurstAt, inbox
<1>8. CASE BurstDeliver \/ BurstLeftover
  <2>1. /\ hand # <<>> /\ log' = Append(log, Head(hand)) /\ followups' = followups
        /\ burst # "prompting" /\ burst' # "prompting"
    BY <1>3, <1>8 DEF BurstDeliver, BurstLeftover, inbox
  <2>2. Head(hand) \in Msg /\ In(Head(hand), hand)
    <3>1. hand \in Seq(Msg)
      BY DEF SeqTypes
    <3>2. Head(hand) \in Msg /\ 1 \in 1..Len(hand) /\ hand[1] = Head(hand)
      BY <2>1, <3>1
    <3>3. QED
      BY <3>2 DEF In
  <2>3. Head(hand) # b \/ ~Ordered(b)
    BY <2>1, <2>2 DEF IntentAt, Ordered
  <2>4. QED
    BY <1>4, <1>5, <2>1, <2>2, <2>3
<1>9. CASE BurstEndTurn \/ BurstSeeCancel
  BY <1>3, <1>4, <1>5, <1>9 DEF BurstEndTurn, BurstSeeCancel, EndTurn, inbox
<1>10. CASE BurstDrainTitles \/ BurstGoIdle
  <2>1. \E lost : Appended(log, titles, lost)
    BY <1>10 DEF BurstDrainTitles, BurstGoIdle, DrainedTo
  <2>2. LogGrew(a, b)
    <3>1. titles \in Seq(Title) /\ log \in {log, Append(log, "checkpoint")}
      BY DEF SeqTypes
    <3>2. QED
      BY <2>1, <3>1, DrainGrew
  <2>3. followups' = followups /\ burst # "prompting" /\ burst' # "prompting"
    BY <1>10 DEF BurstDrainTitles, BurstGoIdle, BurstAt, inbox
  <2>4. QED
    BY <1>4, <2>2, <2>3
<1>11. /\ In(a, accepted) => In(a, log) \/ Prompting(a) \/ In(a, followups)
       /\ Ordered(b) /\ Precedes(a, b, accepted) =>
            /\ In(b, log) => Precedes(a, b, log)
            /\ Prompting(b) => In(a, log)
            /\ In(a, log) \/ Prompting(a) \/ Ahead(a, b, followups)
  BY <1>2 DEF OrderAt
<1>12. Ordered(b)' <=> Ordered(b)
  BY <1>1 DEF Ordered
<1>13. CASE BurstNextFollowup
  <2> DEFINE h == Head(followups)
             t == Tail(followups)
  <2>1. followups # <<>> /\ hand' = <<h>> /\ followups' = t /\ log' = log
    BY <1>13 DEF BurstNextFollowup
  <2>2. burst # "prompting" /\ burst' = "prompting"
    BY <1>13 DEF BurstNextFollowup, BurstAt
  <2>3. \A x \in Msg : In(x, <<h>>) <=> x = h
    BY DEF In
  <2>4. /\ In(a, followups) <=> a = h \/ In(a, t)
        /\ Ahead(a, b, followups) => h # b /\ (a # h => Ahead(a, b, t))
    BY <2>1, QueueMoves
  <2> HIDE DEF h, t
  <2>5. /\ (Prompting(a)' <=> a = h) /\ (Prompting(b)' <=> b = h)
        /\ ~Prompting(a) /\ ~Prompting(b)
    BY <2>1, <2>2, <2>3 DEF Prompting
  <2>6. /\ In(a, accepted) => In(a, log) \/ a = h \/ In(a, t)
        /\ Ordered(b) /\ Precedes(a, b, accepted) =>
             /\ In(b, log) => Precedes(a, b, log)
             /\ b = h => In(a, log)
             /\ In(a, log) \/ a = h \/ Ahead(a, b, t)
    BY <1>11, <2>4, <2>5
  <2>7. /\ In(a, accepted)' <=> In(a, accepted)
        /\ Precedes(a, b, accepted)' <=> Precedes(a, b, accepted)
        /\ In(a, log)' <=> In(a, log)
        /\ In(b, log)' <=> In(b, log)
        /\ Precedes(a, b, log)' <=> Precedes(a, b, log)
        /\ In(a, followups)' <=> In(a, t)
        /\ Ahead(a, b, followups)' <=> Ahead(a, b, t)
    BY <1>1, <2>1 DEF In, Precedes, Ahead
  <2>8. QED
    BY <1>12, <2>5, <2>6, <2>7 DEF OrderAt
<1>14. CASE BurstPrompt
  <2> DEFINE h == hand[1]
  <2>1. /\ burst = "prompting" /\ burst' # "prompting"
        /\ log' = log \o hand /\ followups' = followups /\ hand' = <<>>
    BY <1>3, <1>14 DEF BurstPrompt, BurstAt, inbox
  <2>2. h \in Msg /\ log \o hand = Append(log, h) /\ \A x \in Msg : In(x, hand) <=> x = h
    <3>1. Len(hand) = 1 /\ hand \in Seq(Msg) /\ log \in Seq(Event) /\ hand \in Seq(Event)
      BY <2>1, EventParts DEF HandInv, SeqTypes
    <3>2. hand = <<h>>
      BY <3>1
    <3>3. h \in Msg
      <4>1. hand \in Seq(Msg) /\ 1 \in 1..Len(hand)
        BY <3>1
      <4>2. hand[1] \in Msg
        BY <4>1
      <4>3. QED
        BY <4>2
    <3>4. \A x \in Msg : In(x, hand) <=> x = h
      BY <3>1 DEF In
    <3> HIDE DEF h
    <3>5. h \in Event
      BY <3>3, EventParts
    <3>6. log \o <<h>> = Append(log, h)
      BY <3>1, <3>5
    <3>7. QED
      BY <3>2, <3>3, <3>4, <3>6
  <2> HIDE DEF h
  <2>3. /\ In(a, log') <=> In(a, log) \/ a = h
        /\ In(b, log') <=> In(b, log) \/ b = h
        /\ Precedes(a, b, log') <=> Precedes(a, b, log) \/ (In(a, log) /\ b = h)
    <3>1. log \in {log, Recovered(log)}
      OBVIOUS
    <3>2. QED
      BY <2>1, <2>2, <3>1, LogMoves
  <2>4. (Prompting(a) <=> a = h) /\ (Prompting(b) <=> b = h)
        /\ ~Prompting(a)' /\ ~Prompting(b)'
    BY <2>1, <2>2 DEF Prompting
  <2>5. /\ In(a, accepted) => In(a, log') \/ In(a, followups)
        /\ Ordered(b) /\ Precedes(a, b, accepted) =>
             /\ In(b, log') => Precedes(a, b, log')
             /\ In(a, log') \/ Ahead(a, b, followups)
    BY <1>11, <2>3, <2>4
  <2>6. /\ In(a, accepted)' <=> In(a, accepted)
        /\ Precedes(a, b, accepted)' <=> Precedes(a, b, accepted)
        /\ In(a, followups)' <=> In(a, followups)
        /\ Ahead(a, b, followups)' <=> Ahead(a, b, followups)
    BY <1>1, <2>1 DEF In, Precedes, Ahead
  <2>7. QED
    BY <1>12, <2>4, <2>5, <2>6 DEF OrderAt
<1>15. QED
  BY <1>6, <1>7, <1>8, <1>9, <1>10, <1>13, <1>14 DEF Burst, Model

(* Nobody else touches the inbox or what the burst holds, but for a crash.   *)
LEMMA OrderOthers ==
  ASSUME StepTypes, FlagTypes, SeqTypes, NEW a \in Msg, NEW b \in Msg, OrderAt(a, b),
         Compact \/ Host \/ \E t \in Title : Naming(t), Calm' => Calm
  PROVE  OrderAt(a, b)'
<1> USE DEF StepTypes, FlagTypes
<1>1. CASE Crash
  <2>1. ~(Calm')
    BY <1>1 DEF Crash, Calm
  <2>2. QED
    BY <2>1 DEF OrderAt
<1>2. CASE ~Crash
  <2>1. /\ UNCHANGED <<kind, followups, accepted, intent>>
        /\ UNCHANGED <<burst, hand>>
    BY <1>2 DEF Compact, Host, Naming, CompactRead, CompactOpen, CompactCommit,
       CompactClose, Cancel, CloseRoot, CloseAncestor, CancelDescendant, Maintain,
       SetTitle, WriteTitle, inbox, task, history, given
  <2>2. (Prompting(a)' <=> Prompting(a)) /\ (Prompting(b)' <=> Prompting(b))
    BY <2>1 DEF Prompting
  <2>3. \/ log' = log
        \/ \E l \in {log, Append(log, "checkpoint")}, ts \in Seq(Title) :
              \E lost : Appended(l, ts, lost)
    <3>1. CASE CompactCommit
      BY <3>1 DEF CompactCommit, DrainedTo, SeqTypes
    <3>2. ASSUME NEW t \in Title, WriteTitle(t)
          PROVE  \E l \in {log, Append(log, "checkpoint")}, ts \in Seq(Title) :
                    \E lost : Appended(l, ts, lost)
      <4>1. Append(titles, t) \in Seq(Title)
        BY SeqMoves
      <4>2. \E lost : Appended(log, Append(titles, t), lost)
        BY <3>2 DEF WriteTitle
      <4>3. QED
        BY <4>1, <4>2
    <3>3. QED
      BY <1>2, <3>1, <3>2 DEF Compact, Host, Naming, CompactRead, CompactOpen,
         CompactClose, Cancel, CloseRoot, CloseAncestor, CancelDescendant, Maintain,
         SetTitle
  <2>4. LogGrew(a, b)
    <3>1. log' = log => LogGrew(a, b)
      BY DEF LogGrew
    <3>2. QED
      BY <2>3, <3>1, DrainGrew
  <2>5. QED
    BY <2>1, <2>2, <2>4, OrderKept
<1>3. QED
  BY <1>1, <1>2

(* Parked followups wait in the order they were accepted, behind those the   *)
(* burst took, in every reachable state.                                     *)
THEOREM QueueInvariance == Spec => [](QueueInv /\ FollowupsInOrder)
<1> DEFINE J == \A a, b \in Msg : OrderAt(a, b)
           O == \A k \in Msg : kind[k] # "job" => OnceAt(k)
           I == \A k \in Msg : IntentAt(k)
<1>1. OnceInv => O
  BY DEF OnceInv, OnceAt
<1>2. IntentInv => I
  BY DEF IntentInv, IntentAt
<1>3. BaseInv /\ O /\ I /\ J /\ [Next]_vars => J'
  <2> SUFFICES ASSUME BaseInv, O, I, J, [Next]_vars, NEW a \in Msg, NEW b \in Msg
               PROVE  OrderAt(a, b)'
    OBVIOUS
  <2>1. CASE UNCHANGED vars
    <3>1. OrderAt(a, b)
      OBVIOUS
    <3>2. UNCHANGED <<log, followups, hand, burst, kind, intent, accepted, crashes, failed>>
      BY <2>1 DEF vars, inbox, task, history, given
    <3>3. QED
      BY <3>1, <3>2 DEF OrderAt, Calm, In, Precedes, Ahead, Prompting, Ordered
  <2>2. CASE Next
    <3>1. /\ StepTypes /\ FlagTypes /\ SeqTypes /\ LogOwner /\ HandInv
      BY TypeParts DEF BaseInv, LightInv
    <3>2. Calm' => Calm
      BY <2>2, <3>1, CalmStep
    <3>3. OrderAt(a, b) /\ \A m \in Msg : IntentAt(m) /\ (kind[m] # "job" => OnceAt(m))
      OBVIOUS
    <3> HIDE DEF O, I, J
    <3>4. ASSUME NEW m \in Msg, Sender(m) PROVE OrderAt(a, b)'
      BY <3>1, <3>2, <3>3, <3>4, OrderSender
    <3>5. CASE Burst \/ Model
      BY <3>1, <3>2, <3>3, <3>5, OrderBurst
    <3>6. CASE Compact \/ Host \/ \E t \in Title : Naming(t)
      BY <3>1, <3>2, <3>3, <3>6, OrderOthers
    <3>7. QED
      BY <2>2, <3>4, <3>5, <3>6 DEF Next
  <2>3. QED
    BY <2>1, <2>2
<1>4. Init => J
  <2>1. ASSUME NEW a, NEW b PROVE ~In(a, <<>>) /\ ~Precedes(a, b, <<>>)
    BY DEF In, Precedes
  <2>2. QED
    BY <2>1 DEF Init, OrderAt
<1>5. BaseInv /\ J => QueueInv /\ FollowupsInOrder
  BY OrderParts DEF BaseInv, LightInv
<1> HIDE DEF J, O, I
<1>6. Spec => []J
  BY BaseInvariance, OnceInvariance, IntentInvariance, <1>1, <1>2, <1>3, <1>4, PTL DEF Spec
<1>7. QED
  BY BaseInvariance, <1>5, <1>6, PTL

(* Followups reach the log in the order they were accepted: the oldest       *)
(* parked one opens the next turn and a new one queues behind                *)
(* (service.rs:2096-2155, 3032-3060).                                        *)
THEOREM FollowupsOrdered == Spec => []FollowupsInOrder
BY QueueInvariance, PTL

(* The invariant of a live session, whole.                                   *)
THEOREM Invariance == Spec => []IInv
BY BaseInvariance, SnapshotInvariance, TurnInvariance, OnceInvariance, TitleInvariance,
   IntentInvariance, QueueInvariance, PTL DEF IInv, BaseInv, LightInv
=============================================================================
