--------------------------- MODULE SessionService ---------------------------
(* One live session of crates/rness-engine/src/service.rs: the threads that  *)
(* submit input and notices, the inbox they go through (inbox.rs), the burst *)
(* task that runs turns and owns the log meanwhile, and what contends with   *)
(* them: titles, compaction, cancel, teardown, maintenance and a crash.      *)
(*                                                                           *)
(* A critical section of the inbox lock is one step, except where the code   *)
(* reaches for the log inside it and somebody else may hold the log.         *)
EXTENDS Naturals, Sequences, FiniteSets, SeqSelect

CONSTANTS
    Msg,          \* inputs and notices, each with a thread that submits it
    Mixes,        \* the assignments of entry points to messages to check
    Title,        \* titles, each with a thread that sets it
    UserTitle,    \* those a user sets (set_title); the others are offered
    Compactions,  \* may compact run?
    Crashes,      \* how many times the process may be killed
    Failures,     \* may an append to the log fail?
    None

Kinds == {"followup", "steer", "inject", "retry", "job", "settle", "external"}

TurnMarks == {"started", "completed", "failed", "cancelled"}
Markers == TurnMarks \cup {"checkpoint"}

ASSUME ServiceAssumption ==
    /\ Mixes \subseteq [Msg -> Kinds]
    /\ UserTitle \subseteq Title
    /\ Compactions \in BOOLEAN /\ Crashes \in Nat /\ Failures \in BOOLEAN
    /\ Msg \cap Title = {}
    /\ ({"compact", "burst"} \cup Markers) \cap (Msg \cup Title) = {}
    /\ None \notin {"compact", "burst"} \cup Msg \cup Title

VARIABLES
    kind,         \* [Msg -> Kinds]: the entry point that submits each message
    log,          \* the session's log, as far as this module tells events apart
    phase,        \* of the inbox: "Idle", "Running"
    followups,    \* followups waiting for the current turn to end
    steers,       \* steers and injects waiting for the next step boundary
    intent,       \* per message: the intent its submission went through with
    inboxHeld,    \* the title thread inside the inbox lock, or None
    operation,    \* who holds the operation lock: a message, "compact" or None
    writer,       \* who has the log open: the same, a title, "burst" or None
    cancelled,    \* is the session's cancel token cancelled?
    closing,      \* teardown: none ("open"); of an ancestor, before and after
                  \* this session is cancelled; of this session ("root")
    maintenance,  \* is the lifecycle lock held for writing?
    burst,        \* the step the burst task is at
    hand,         \* messages the burst took from the inbox, still to append
    degraded,     \* has a leftover steer of this burst become a followup?
    outcome,      \* of the turn that just ended
    starter,      \* the message whose submission started the burst
    jobPending,   \* job_pending: notices submitted in this process
    pc,           \* per message: the step its thread is at
    titles,       \* titles queued for whoever next has the log open
    titlePc,      \* per title: the step its thread is at
    compact,      \* the step compact is at
    snapshot,     \* the conversation compact read
    crashes,      \* bound: crashes so far
    failed,       \* history: has an append failed?
    accepted,     \* history: messages accepted, in order
    titled        \* history: titles accepted, in order

inbox == <<phase, followups, steers, intent>>
locks == <<inboxHeld, operation, writer, cancelled, closing, maintenance>>
task == <<burst, hand, degraded, outcome, starter>>
naming == <<titles, titlePc, titled>>
folding == <<compact, snapshot>>
given == <<kind, crashes>>
history == <<given, failed, accepted>>
vars == <<log, inbox, locks, task, jobPending, pc, naming, folding, history>>

Notices == {"job", "settle"}

Logged == {log[i] : i \in 1..Len(log)}
Queued == {followups[i] : i \in 1..Len(followups)} \cup {steers[i] : i \in 1..Len(steers)}
Conversation == Select(log, Msg \cup Markers)

TypeOK ==
    /\ kind \in Mixes
    /\ log \in Seq(Msg \cup Title \cup Markers)
    /\ phase \in {"Idle", "Running"}
    /\ followups \in Seq(Msg) /\ steers \in Seq(Msg) /\ hand \in Seq(Msg)
    /\ intent \in [Msg -> {"followup", "steer", "inject"}]
    /\ inboxHeld \in Title \cup {None}
    /\ operation \in Msg \cup {"compact", None}
    /\ writer \in Msg \cup Title \cup {"compact", "burst", None}
    /\ cancelled \in BOOLEAN /\ maintenance \in BOOLEAN /\ degraded \in BOOLEAN
    /\ closing \in {"open", "ancestor", "cancelled", "root"}
    /\ burst \in {"none", "starting", "turn", "step", "delivering", "model", "ended",
                  "deciding", "prompting", "leftovers", "closing"}
    /\ outcome \in {"none", "completed", "failed", "cancelled"}
    /\ starter \in Msg \cup {None}
    /\ jobPending \subseteq Msg
    /\ pc \in [Msg -> {"ready", "admitted", "submitting", "spawning", "opening",
                       "appending", "done", "refused", "lost"}]
    /\ accepted \in Seq(Msg)
    /\ titles \in Seq(Title) /\ titled \in Seq(Title)
    /\ titlePc \in [Title -> {"ready", "writing", "done"}]
    /\ compact \in {"ready", "summarizing", "committing", "closing", "done"}
    /\ snapshot \in Seq(Msg \cup Markers)
    /\ crashes \in 0..Crashes /\ failed \in BOOLEAN

Init ==
    /\ kind \in Mixes
    /\ log = <<>> /\ phase = "Idle" /\ followups = <<>> /\ steers = <<>>
    /\ intent = [m \in Msg |-> "followup"]
    /\ inboxHeld = None /\ operation = None /\ writer = None
    /\ cancelled = FALSE /\ closing = "open" /\ maintenance = FALSE
    /\ burst = "none" /\ hand = <<>> /\ degraded = FALSE /\ outcome = "none"
    /\ starter = None /\ jobPending = {}
    /\ pc = [m \in Msg |-> "ready"]
    /\ titles = <<>> /\ titled = <<>> /\ titlePc = [t \in Title |-> "ready"]
    /\ compact = IF Compactions THEN "ready" ELSE "done"
    /\ snapshot = <<>> /\ crashes = 0 /\ failed = FALSE /\ accepted = <<>>
-----------------------------------------------------------------------------
InboxFree == inboxHeld = None

(* A settle notice holds `closing` from its check to the end of admission.   *)
ClosingFree == \A m \in Msg : kind[m] = "settle" =>
                  pc[m] \notin {"spawning", "opening", "appending"}

(* drain_titles: what is queued goes to the log; a title whose append fails  *)
(* leaves the queue all the same.                                            *)
Appended(l, ts, lost) ==
    /\ lost # {} => Failures
    /\ log' = l \o Select(ts, Title \ lost)
    /\ failed' = (failed \/ lost # {})
DrainedTo(l) == \E lost \in SUBSET {titles[i] : i \in 1..Len(titles)} : Appended(l, titles, lost)

Return(m, where) == /\ pc' = [pc EXCEPT ![m] = where]
                    /\ operation' = None

(* A notice with a durable id is submitted again until it is in the log.     *)
Done(m) == IF kind[m] = "job" THEN "ready" ELSE "done"
Refused(m) == IF kind[m] \in {"job", "external"} THEN "ready" ELSE "refused"

(* Reservations (the lifecycle lock for reading, the operation lock), then   *)
(* what each entry point looks at before it submits:                         *)
(* - notice_once: the notice is in the log, or pending in this process;      *)
(* - deliver_external_once: the prompt is in the log, or now is no time.     *)
Admit(m) ==
    /\ pc[m] = "ready"
    /\ operation = None /\ ~maintenance
    /\ \/ /\ kind[m] \in {"job", "external"} /\ m \in Logged
          /\ Return(m, "done")
          /\ UNCHANGED jobPending
       \/ /\ kind[m] = "job" /\ m \notin Logged /\ InboxFree
          /\ IF m \in jobPending /\ phase = "Running"
             THEN Return(m, "ready") /\ UNCHANGED jobPending
             ELSE /\ jobPending' = jobPending \ {m}
                  /\ operation' = m
                  /\ pc' = [pc EXCEPT ![m] = "admitted"]
       \/ /\ kind[m] = "external" /\ m \notin Logged /\ InboxFree
          /\ IF closing = "root" \/ phase = "Running"
             THEN Return(m, "ready")
             ELSE operation' = m /\ pc' = [pc EXCEPT ![m] = "submitting"]
          /\ UNCHANGED jobPending
       \/ /\ kind[m] \notin {"job", "external"}
          /\ operation' = m
          /\ pc' = [pc EXCEPT ![m] = "submitting"]
          /\ UNCHANGED jobPending
    /\ intent' = [intent EXCEPT ![m] =
          CASE kind[m] \in {"job", "settle", "steer"} -> "steer"
            [] kind[m] = "inject" -> "inject"
            [] OTHER -> "followup"]
    /\ UNCHANGED <<log, phase, followups, steers, inboxHeld, writer, cancelled, closing,
                   maintenance, task, naming, folding, history>>

(* The lock stays taken (send_blocking gives up waiting), or maintenance is  *)
(* on: Busy.                                                                 *)
Busy(m) ==
    /\ pc[m] = "ready"
    /\ operation # None \/ maintenance
    /\ kind[m] \in {"followup", "steer", "inject", "retry"}
    /\ pc' = [pc EXCEPT ![m] = "refused"]
    /\ UNCHANGED <<log, inbox, locks, task, jobPending, naming, folding, history>>

(* A job notice looks at `closing` and lets go of it.                        *)
CheckTeardown(m) ==
    /\ pc[m] = "admitted"
    /\ pc' = [pc EXCEPT ![m] = "submitting"]
    /\ intent' = [intent EXCEPT ![m] = IF closing = "open" THEN "steer" ELSE "inject"]
    /\ UNCHANGED <<log, phase, followups, steers, locks, task, jobPending, naming,
                   folding, history>>

(* A settle notice decides with `closing` held; a running burst of a session *)
(* that is torn down is waited for first (CancelForSettle).                  *)
SettleMayPass(m) == kind[m] = "settle" => closing = "open" \/ phase = "Idle"
(* Bug: the notice wakes its owner whether torn down or not.                 *)
SubmitIntentUnchecked(m) == intent[m]

SubmitIntent(m) ==
    IF kind[m] = "settle" /\ closing # "open" THEN "inject" ELSE intent[m]

(* Bug: only a teardown of this very session is waited out with a cancel.    *)
CancelForSettleOfRoot(m) ==
    /\ pc[m] = "submitting" /\ closing = "root"
    /\ ~SettleMayPass(m)
    /\ ~cancelled
    /\ cancelled' = TRUE
    /\ UNCHANGED <<log, inbox, inboxHeld, operation, writer, closing, maintenance, task,
                   jobPending, pc, naming, folding, history>>

CancelForSettle(m) ==
    /\ pc[m] = "submitting"
    /\ ~SettleMayPass(m)
    /\ ~cancelled
    /\ cancelled' = TRUE
    /\ UNCHANGED <<log, inbox, inboxHeld, operation, writer, closing, maintenance, task,
                   jobPending, pc, naming, folding, history>>

Submitting(m) == pc[m] = "submitting" /\ InboxFree /\ SettleMayPass(m)

(* Running: Queued.                                                          *)
SubmitQueued(m) ==
    /\ Submitting(m) /\ phase = "Running" /\ kind[m] # "retry"
    /\ IF SubmitIntent(m) = "followup"
       THEN followups' = Append(followups, m) /\ UNCHANGED steers
       ELSE steers' = Append(steers, m) /\ UNCHANGED followups
    /\ intent' = [intent EXCEPT ![m] = SubmitIntent(m)]
    /\ jobPending' = IF kind[m] = "job" THEN jobPending \cup {m} ELSE jobPending
    /\ Return(m, Done(m))
    /\ accepted' = Append(accepted, m)
    /\ UNCHANGED <<log, phase, inboxHeld, writer, cancelled, closing, maintenance, task,
                   naming, folding, given, failed>>

(* Idle, inject: LogOnly.  The inbox is let go before the log is opened.     *)
SubmitLogOnly(m) ==
    /\ Submitting(m) /\ phase = "Idle" /\ SubmitIntent(m) = "inject"
    /\ intent' = [intent EXCEPT ![m] = "inject"]
    /\ pc' = [pc EXCEPT ![m] = "opening"]
    /\ UNCHANGED <<log, phase, followups, steers, locks, task, jobPending, naming,
                   folding, history>>

OpenLogOnly(m) ==
    /\ pc[m] = "opening"
    /\ IF writer = None
       THEN writer' = m /\ pc' = [pc EXCEPT ![m] = "appending"] /\ UNCHANGED operation
       ELSE Return(m, Refused(m)) /\ UNCHANGED writer
    /\ UNCHANGED <<log, inbox, inboxHeld, cancelled, closing, maintenance, task,
                   jobPending, naming, folding, history>>

AppendLogOnly(m) ==
    /\ pc[m] = "appending"
    /\ writer' = None
    /\ \/ /\ log' = Append(log, m)
          /\ accepted' = Append(accepted, m)
          /\ jobPending' = IF kind[m] = "job" THEN jobPending \cup {m} ELSE jobPending
          /\ Return(m, Done(m)) /\ UNCHANGED failed
       \/ /\ Failures /\ failed' = TRUE
          /\ Return(m, Refused(m)) /\ UNCHANGED <<log, jobPending, accepted>>
    /\ UNCHANGED <<inbox, inboxHeld, cancelled, closing, maintenance, task, naming,
                   folding, given>>

(* recover: a turn left open by a crash or a failed append is closed.        *)
Turns(l) == Select(l, TurnMarks)
TurnOpen(l) == Turns(l) # <<>> /\ Turns(l)[Len(Turns(l))] = "started"
(* Bug: a turn left open stays open.                                         *)
Unrecovered(l) == l

Recovered(l) == IF TurnOpen(l) THEN Append(l, "failed") ELSE l

(* Bug: the new input opens the turn, the parked ones stay parked.           *)
SubmitStartAhead(m) ==
    /\ Submitting(m) /\ phase = "Idle" /\ kind[m] # "retry" /\ SubmitIntent(m) # "inject"
    /\ writer = None
    /\ log' = Append(Recovered(log), m)
    /\ intent' = [intent EXCEPT ![m] = "followup"]
    /\ phase' = "Running" /\ writer' = "burst" /\ burst' = "starting"
    /\ starter' = m
    /\ pc' = [pc EXCEPT ![m] = "spawning"]
    /\ accepted' = Append(accepted, m)
    /\ UNCHANGED <<followups, steers, inboxHeld, operation, cancelled, closing,
                   maintenance, hand, degraded, outcome, jobPending, naming, folding,
                   given, failed>>

(* Idle, anything else: StartTurn.  The oldest parked followup opens the     *)
(* turn and the new one queues behind; a retry appends nothing.              *)
SubmitStart(m) ==
    /\ Submitting(m) /\ phase = "Idle" /\ kind[m] # "retry" /\ SubmitIntent(m) # "inject"
    /\ \/ /\ writer = None
          /\ IF followups = <<>>
             THEN log' = Append(Recovered(log), m) /\ UNCHANGED followups
             ELSE /\ log' = Append(Recovered(log), Head(followups))
                  /\ followups' = Append(Tail(followups), m)
          /\ intent' = [intent EXCEPT ![m] = "followup"]
          /\ phase' = "Running" /\ writer' = "burst" /\ burst' = "starting"
          /\ starter' = m
          /\ pc' = [pc EXCEPT ![m] = "spawning"]
          /\ accepted' = Append(accepted, m)
          /\ UNCHANGED <<operation, failed>>
       \/ /\ \/ Failures /\ writer = None /\ log' \in {log, Recovered(log)} /\ failed' = TRUE
             \/ writer # None /\ UNCHANGED <<log, failed>>
          /\ Return(m, Refused(m))
          /\ UNCHANGED <<followups, intent, phase, writer, burst, starter, accepted>>
    /\ UNCHANGED <<steers, inboxHeld, cancelled, closing, maintenance, hand, degraded,
                   outcome, jobPending, naming, folding, given>>

LastConversation == Conversation[Len(Conversation)]

SubmitRetry(m) ==
    /\ Submitting(m) /\ kind[m] = "retry"
    /\ IF phase = "Idle" /\ Conversation # <<>> /\ LastConversation = "failed"
          /\ writer = None
       THEN /\ phase' = "Running" /\ writer' = "burst" /\ burst' = "starting"
            /\ starter' = m
            /\ pc' = [pc EXCEPT ![m] = "spawning"]
            /\ UNCHANGED operation
       ELSE Return(m, "refused") /\ UNCHANGED <<phase, writer, burst, starter>>
    /\ UNCHANGED <<log, followups, steers, intent, inboxHeld, cancelled, closing,
                   maintenance, hand, degraded, outcome, jobPending, naming, folding,
                   history>>

(* A fresh token replaces the session's, the burst task is spawned with it.  *)
Spawn(m) ==
    /\ pc[m] = "spawning"
    /\ cancelled' = FALSE
    /\ burst' = "turn"
    /\ jobPending' = IF kind[m] = "job" THEN jobPending \cup {m} ELSE jobPending
    /\ Return(m, Done(m))
    /\ UNCHANGED <<log, inbox, inboxHeld, writer, closing, maintenance, hand, degraded,
                   outcome, starter, naming, folding, history>>
-----------------------------------------------------------------------------
(* The burst: run_turn, and what happens between turns.                      *)

BurstAt(here, there) == burst = here /\ burst' = there

(* run_turn appends turn/started, or fails.                                  *)
BurstStartTurn ==
    /\ \/ BurstAt("turn", "step") /\ log' = Append(log, "started")
          /\ UNCHANGED <<outcome, failed>>
       \/ Failures /\ BurstAt("turn", "ended") /\ failed' = TRUE
          /\ outcome' = "failed" /\ UNCHANGED log
    /\ degraded' = FALSE
    /\ UNCHANGED <<inbox, locks, hand, starter, jobPending, pc, naming, folding, given,
                   accepted>>

(* A step begins: the steers due are taken, then appended one by one.        *)
BurstBoundary ==
    /\ BurstAt("step", "delivering")
    /\ ~cancelled /\ InboxFree
    /\ hand' = steers /\ steers' = <<>>
    /\ UNCHANGED <<log, phase, followups, intent, locks, degraded, outcome, starter,
                   jobPending, pc, naming, folding, history>>

BurstDeliver ==
    /\ burst = "delivering" /\ hand # <<>>
    /\ \/ log' = Append(log, Head(hand)) /\ hand' = Tail(hand)
          /\ UNCHANGED <<burst, outcome, failed>>
       \/ /\ Failures /\ failed' = TRUE
          /\ hand' = <<>> /\ burst' = "ended" /\ outcome' = "failed"
          /\ log' \in {log, Append(log, "failed")}
    /\ UNCHANGED <<inbox, locks, degraded, starter, jobPending, pc, naming, folding,
                   given, accepted>>

BurstRequest ==
    /\ hand = <<>> /\ BurstAt("delivering", "model")
    /\ UNCHANGED <<log, inbox, locks, hand, degraded, outcome, starter, jobPending, pc,
                   naming, folding, history>>

(* The model called tools: another step.                                     *)
BurstNextStep ==
    /\ BurstAt("model", "step")
    /\ UNCHANGED <<log, inbox, locks, hand, degraded, outcome, starter, jobPending, pc,
                   naming, folding, history>>

EndTurn(o) ==
    /\ burst' = "ended"
    /\ \/ log' = Append(log, o) /\ outcome' = o /\ UNCHANGED failed
       \/ Failures /\ failed' = TRUE /\ outcome' = "failed" /\ UNCHANGED log
    /\ UNCHANGED <<inbox, locks, hand, degraded, starter, jobPending, pc, naming, folding,
                   given, accepted>>

(* A step may fail before it asks the model, or be over without asking it.   *)
BurstEndTurn ==
    \/ burst = "model" /\ \E o \in {"completed", "failed"} : EndTurn(o)
    \/ burst = "step" /\ EndTurn("failed")

(* Bug: a request in flight is not abandoned when it is cancelled.           *)
SeeCancelAtStep == burst = "step" /\ cancelled /\ EndTurn("cancelled")

BurstSeeCancel == burst \in {"step", "model"} /\ cancelled /\ EndTurn("cancelled")

(* Titles queued during the turn are persisted under the inbox lock.         *)
BurstDrainTitles ==
    /\ BurstAt("ended", "deciding")
    /\ InboxFree
    /\ DrainedTo(log) /\ titles' = <<>>
    /\ UNCHANGED <<inbox, locks, hand, degraded, outcome, starter, jobPending, pc, titlePc,
                   titled, folding, given, accepted>>

Continuing == outcome = "completed" /\ ~cancelled

BurstNextFollowup ==
    /\ BurstAt("deciding", "prompting")
    /\ InboxFree /\ Continuing /\ followups # <<>>
    /\ hand' = <<Head(followups)>> /\ followups' = Tail(followups)
    /\ UNCHANGED <<log, phase, steers, intent, locks, degraded, outcome, starter,
                   jobPending, pc, naming, folding, history>>

BurstPrompt ==
    /\ \/ BurstAt("prompting", "turn") /\ log' = log \o hand /\ UNCHANGED failed
       \/ Failures /\ failed' = TRUE /\ BurstAt("prompting", "closing") /\ UNCHANGED log
    /\ hand' = <<>>
    /\ UNCHANGED <<inbox, locks, degraded, outcome, starter, jobPending, pc, naming,
                   folding, given, accepted>>

(* Steers that came after the last boundary; appended without the lock.      *)
BurstTakeLeftovers ==
    /\ BurstAt("deciding", "leftovers")
    /\ InboxFree /\ Continuing /\ followups = <<>> /\ steers # <<>>
    /\ hand' = steers /\ steers' = <<>>
    /\ UNCHANGED <<log, phase, followups, intent, locks, degraded, outcome, starter,
                   jobPending, pc, naming, folding, history>>

BurstLeftover ==
    /\ burst = "leftovers" /\ hand # <<>>
    /\ \/ /\ log' = Append(log, Head(hand)) /\ hand' = Tail(hand)
          /\ degraded' = (degraded \/ intent[Head(hand)] = "steer")
          /\ UNCHANGED <<burst, failed>>
       \/ /\ Failures /\ failed' = TRUE
          /\ hand' = <<>> /\ burst' = "closing" /\ UNCHANGED <<log, degraded>>
    /\ UNCHANGED <<inbox, locks, outcome, starter, jobPending, pc, naming, folding,
                   given, accepted>>

BurstLeftoversDone ==
    /\ hand = <<>>
    /\ BurstAt("leftovers", IF degraded THEN "turn" ELSE "closing")
    /\ UNCHANGED <<log, inbox, locks, hand, degraded, outcome, starter, jobPending, pc,
                   naming, folding, history>>

(* Bug: what is left in the inbox is thrown away.                            *)
GoIdleEmptied ==
    /\ \/ burst = "closing"
       \/ burst = "deciding" /\ ~(Continuing /\ (followups # <<>> \/ steers # <<>>))
    /\ InboxFree
    /\ DrainedTo(log) /\ titles' = <<>>
    /\ burst' = "none" /\ writer' = None /\ phase' = "Idle"
    /\ followups' = <<>> /\ steers' = <<>>
    /\ UNCHANGED <<intent, inboxHeld, operation, cancelled, closing, maintenance, hand,
                   degraded, outcome, starter, jobPending, pc, titlePc, titled, folding,
                   given, accepted>>

(* Under the inbox lock: titles, then the log is let go, then Idle.          *)
BurstGoIdle ==
    /\ \/ burst = "closing"
       \/ burst = "deciding" /\ ~(Continuing /\ (followups # <<>> \/ steers # <<>>))
    /\ InboxFree
    /\ DrainedTo(log) /\ titles' = <<>>
    /\ burst' = "none" /\ writer' = None /\ phase' = "Idle"
    /\ UNCHANGED <<followups, steers, intent, inboxHeld, operation, cancelled, closing,
                   maintenance, hand, degraded, outcome, starter, jobPending, pc, titlePc,
                   titled, folding, given, accepted>>
-----------------------------------------------------------------------------
(* commit_title.                                                             *)

LoggedTitles == Select(log, Title)
(* A title of the user's replaces any; an offered one not the user's last.   *)
Pinned(ts) == ts # <<>> /\ ts[Len(ts)] \in UserTitle

(* Bug: the titles still queued are not looked at.                           *)
AdmittedByLog(t) == t \in UserTitle \/ ~Pinned(LoggedTitles)

Admitted(t) == t \in UserTitle \/ ~Pinned(LoggedTitles \o titles)

(* Bug: the title is written with the inbox free.                            *)
SetTitleUnlocked(t) ==
    /\ titlePc[t] = "ready" /\ InboxFree /\ Admitted(t)
    /\ phase = "Idle" /\ writer = None
    /\ titlePc' = [titlePc EXCEPT ![t] = "writing"] /\ writer' = t
    /\ UNCHANGED <<log, inbox, inboxHeld, operation, cancelled, closing, maintenance, task,
                   jobPending, pc, titles, titled, folding, history>>
SetTitle(t) ==
    /\ titlePc[t] = "ready" /\ InboxFree
    /\ IF ~Admitted(t)
       THEN titlePc' = [titlePc EXCEPT ![t] = "done"]
            /\ UNCHANGED <<titles, titled, writer, inboxHeld>>
       ELSE IF phase = "Running" \/ writer # None
       THEN /\ titlePc' = [titlePc EXCEPT ![t] = "done"]
            /\ titles' = Append(titles, t) /\ titled' = Append(titled, t)
            /\ UNCHANGED <<writer, inboxHeld>>
       ELSE /\ titlePc' = [titlePc EXCEPT ![t] = "writing"]
            /\ writer' = t /\ inboxHeld' = t
            /\ UNCHANGED <<titles, titled>>
    /\ UNCHANGED <<log, inbox, operation, cancelled, closing, maintenance, task,
                   jobPending, pc, folding, history>>

WriteTitle(t) ==
    /\ titlePc[t] = "writing"
    /\ titlePc' = [titlePc EXCEPT ![t] = "done"]
    /\ titles' = <<>> /\ writer' = None /\ inboxHeld' = None
    /\ \E lost \in SUBSET ({t} \cup {titles[i] : i \in 1..Len(titles)}) :
          /\ Appended(log, Append(titles, t), lost)
          /\ titled' = IF t \in lost THEN titled ELSE Append(titled, t)
    /\ UNCHANGED <<inbox, operation, cancelled, closing, maintenance, task, jobPending, pc,
                   folding, given, accepted>>
-----------------------------------------------------------------------------
(* compact: reads, asks the model for a summary with no lock on the log,     *)
(* then appends the checkpoint.                                              *)

(* Bug: the operation lock is not kept while the summary is made.            *)
CompactReadUnlocked ==
    /\ compact = "ready"
    /\ operation = None /\ ~maintenance /\ InboxFree /\ phase = "Idle"
    /\ Conversation # <<>>
    /\ compact' = "summarizing"
    /\ cancelled' = FALSE
    /\ snapshot' = Conversation
    /\ UNCHANGED <<log, inbox, inboxHeld, operation, writer, closing, maintenance, task,
                   jobPending, pc, naming, history>>

CompactRead ==
    /\ compact = "ready"
    /\ operation = None /\ ~maintenance /\ InboxFree /\ phase = "Idle"
    /\ Conversation # <<>>
    /\ compact' = "summarizing" /\ operation' = "compact"
    /\ cancelled' = FALSE
    /\ snapshot' = Conversation
    /\ UNCHANGED <<log, inbox, inboxHeld, writer, closing, maintenance, task, jobPending,
                   pc, naming, history>>

(* The summarizer may also fail or be cancelled, the log be open elsewhere.  *)
CompactOpen ==
    /\ compact = "summarizing"
    /\ \/ /\ writer = None
          /\ compact' = "committing" /\ writer' = "compact" /\ UNCHANGED operation
       \/ compact' = "done" /\ operation' = None /\ UNCHANGED writer
    /\ UNCHANGED <<log, inbox, inboxHeld, cancelled, closing, maintenance, task,
                   jobPending, pc, naming, snapshot, history>>

CompactCommit ==
    /\ compact = "committing" /\ InboxFree
    /\ \/ /\ DrainedTo(Append(log, "checkpoint")) /\ titles' = <<>>
          /\ compact' = "closing" /\ UNCHANGED <<operation, writer>>
       \/ /\ Failures /\ failed' = TRUE
          /\ compact' = "done" /\ operation' = None /\ writer' = None
          /\ UNCHANGED <<log, titles>>
    /\ UNCHANGED <<inbox, inboxHeld, cancelled, closing, maintenance, task, jobPending, pc,
                   titlePc, titled, snapshot, given, accepted>>

CompactClose ==
    /\ compact = "closing"
    /\ compact' = "done" /\ operation' = None /\ writer' = None
    /\ UNCHANGED <<log, inbox, inboxHeld, cancelled, closing, maintenance, task,
                   jobPending, pc, naming, snapshot, history>>
-----------------------------------------------------------------------------
(* cancel, teardown, maintenance, a crash.                                   *)

Cancel ==
    /\ ~cancelled /\ cancelled' = TRUE
    /\ UNCHANGED <<log, inbox, inboxHeld, operation, writer, closing, maintenance, task,
                   jobPending, pc, naming, folding, history>>

(* close_tree of this session marks and cancels it under one lock; that of   *)
(* an ancestor marks the ancestor and comes to this session later.           *)
CloseRoot ==
    /\ closing = "open" /\ ClosingFree
    /\ closing' = "root" /\ cancelled' = TRUE
    /\ UNCHANGED <<log, inbox, inboxHeld, operation, writer, maintenance, task, jobPending,
                   pc, naming, folding, history>>

CloseAncestor ==
    /\ closing = "open" /\ ClosingFree
    /\ closing' = "ancestor"
    /\ UNCHANGED <<log, inbox, inboxHeld, operation, writer, cancelled, maintenance, task,
                   jobPending, pc, naming, folding, history>>

CancelDescendant ==
    /\ closing = "ancestor"
    /\ closing' = "cancelled" /\ cancelled' = TRUE
    /\ UNCHANGED <<log, inbox, inboxHeld, operation, writer, maintenance, task, jobPending,
                   pc, naming, folding, history>>

(* Bug: the burst does not keep the lifecycle lock.                          *)
MaintainBesideBurst ==
    /\ maintenance \/ operation = None
    /\ maintenance' = ~maintenance
    /\ UNCHANGED <<log, inbox, inboxHeld, operation, writer, cancelled, closing, task,
                   jobPending, pc, naming, folding, history>>

(* Senders and compact hold the lifecycle lock for reading while they hold   *)
(* the operation lock, a burst as long as it runs.                           *)
Maintain ==
    /\ \/ ~maintenance /\ operation = None /\ burst = "none"
       \/ maintenance
    /\ maintenance' = ~maintenance
    /\ UNCHANGED <<log, inbox, inboxHeld, operation, writer, cancelled, closing, task,
                   jobPending, pc, naming, folding, history>>

(* The process is killed: only the log is left.  The job registry and the    *)
(* external queue are durable and submit what is not acknowledged again.     *)
Crash ==
    /\ crashes < Crashes /\ crashes' = crashes + 1
    /\ phase' = "Idle" /\ followups' = <<>> /\ steers' = <<>>
    /\ inboxHeld' = None /\ operation' = None /\ writer' = None
    /\ cancelled' = FALSE /\ closing' = "open" /\ maintenance' = FALSE
    /\ burst' = "none" /\ hand' = <<>> /\ degraded' = FALSE /\ outcome' = "none"
    /\ starter' = None /\ jobPending' = {}
    /\ pc' = [m \in Msg |-> CASE pc[m] \in {"ready", "done", "refused"} -> pc[m]
                              [] pc[m] \notin {"ready", "done", "refused"} ->
                                   IF kind[m] \in {"job", "external"} THEN "ready" ELSE "lost"]
    /\ titles' = <<>>
    /\ titlePc' = [t \in Title |-> IF titlePc[t] = "writing" THEN "done" ELSE titlePc[t]]
    /\ compact' = IF compact = "ready" THEN "ready" ELSE "done"
    /\ UNCHANGED <<kind, log, intent, titled, snapshot, failed, accepted>>

Sender(m) ==
    \/ Admit(m) \/ Busy(m) \/ CheckTeardown(m) \/ CancelForSettle(m)
    \/ SubmitQueued(m) \/ SubmitLogOnly(m) \/ OpenLogOnly(m) \/ AppendLogOnly(m)
    \/ SubmitStart(m) \/ SubmitRetry(m) \/ Spawn(m)

Burst ==
    \/ BurstStartTurn \/ BurstBoundary \/ BurstDeliver \/ BurstRequest
    \/ BurstSeeCancel \/ BurstDrainTitles \/ BurstNextFollowup \/ BurstPrompt
    \/ BurstTakeLeftovers \/ BurstLeftover \/ BurstLeftoversDone \/ BurstGoIdle

(* How long the model takes, and whether it calls tools, is up to it.        *)
Model == BurstNextStep \/ BurstEndTurn

Naming(t) == SetTitle(t) \/ WriteTitle(t)
Compact == CompactRead \/ CompactOpen \/ CompactCommit \/ CompactClose
Host == Cancel \/ CloseRoot \/ CloseAncestor \/ CancelDescendant \/ Maintain \/ Crash

Next ==
    \/ \E m \in Msg : Sender(m)
    \/ Burst \/ Model
    \/ \E t \in Title : Naming(t)
    \/ Compact \/ Host

(* Threads and tasks run until they return: the scheduler of the runtime     *)
(* starves none.  Nobody has to submit, cancel, tear down or crash, and the  *)
(* model need never answer; a cancelled turn does not wait for it.           *)
Fairness ==
    /\ WF_vars(Burst)
    /\ \A m \in Msg : WF_vars(pc[m] # "ready" /\ Sender(m))
    /\ \A t \in Title : WF_vars(WriteTitle(t))
    /\ WF_vars(CompactOpen \/ CompactCommit \/ CompactClose)

Spec == Init /\ [][Next]_vars
FairSpec == Spec /\ Fairness
-----------------------------------------------------------------------------
(* Properties.                                                               *)

Calm == crashes = 0 /\ ~failed
User == {m \in Msg : kind[m] \notin Notices}
Copies(m) == Count(log, m) + Count(followups, m) + Count(steers, m) + Count(hand, m)

(* Whatever the interleaving of senders, burst, cancel and teardown, an      *)
(* input that was accepted is in the log, in the inbox or on its way from    *)
(* one to the other, once; one that was refused is nowhere.                  *)
AcceptedExactlyOnce ==
    \A m \in User \cup {n \in Msg : kind[n] = "settle"} :
        /\ Copies(m) <= 1
        /\ pc[m] = "refused" => Copies(m) = 0
        /\ Calm /\ pc[m] = "done" /\ kind[m] # "retry" => Copies(m) = 1

(* Followups reach the log in the order they were accepted: parked ones are  *)
(* delivered first, the new one queues behind (architecture.md, section 4).  *)
FollowupsInOrder ==
    Calm => \A i, j \in 1..Len(accepted) :
        /\ i < j /\ kind[accepted[i]] = "followup"
        /\ kind[accepted[j]] # "job" /\ intent[accepted[j]] = "followup"
        /\ accepted[j] \in Logged
        => \E k, l \in 1..Len(log) :
              k < l /\ log[k] = accepted[i] /\ log[l] = accepted[j]

(* The submission that starts a turn never finds the log open elsewhere: the *)
(* burst lets go of it before it turns Idle, a title is written with the     *)
(* inbox held, compaction and log-only notices hold the operation lock.      *)
StartFindsLogFree ==
    \A m \in Msg :
        Submitting(m) /\ phase = "Idle" /\ SubmitIntent(m) # "inject" => writer = None

(* Turn markers alternate, whatever failed or crashed: a turn opens only     *)
(* when the one before it is closed.                                         *)
TurnsBracketed ==
    \A i \in 1..Len(Turns(log)) :
        Turns(log)[i] = "started" <=> i = 1 \/ Turns(log)[i - 1] # "started"

(* Accepted titles reach the log in the order they were announced, wherever  *)
(* they were queued; and a user's title is never replaced by an offered one. *)
TitlesInOrder ==
    Calm => /\ LoggedTitles \o titles = titled
            /\ \A i, j \in 1..Len(titled) :
                  i < j /\ titled[i] \in UserTitle => titled[j] \in UserTitle

(* The checkpoint compact appends follows the conversation it summarized:    *)
(* nothing of it was said between the read and the append.                   *)
CheckpointNotStale ==
    [][Len(log') > Len(log) /\ compact = "committing" /\ compact' = "closing"
       => Conversation = snapshot]_vars

(* While the lifecycle lock is held for writing the session is quiet: no     *)
(* turn runs, nothing but a title reaches the log.                           *)
MaintenanceQuiet ==
    maintenance => /\ phase = "Idle" /\ burst = "none"
                   /\ writer \in Title \cup {None}

(* A settle notice never wakes a session whose tree is torn down: a turn it  *)
(* started is cancelled as soon as the teardown got to this session.         *)
WokenBy(k) == starter # None /\ kind[starter] = k /\ burst # "none"
SettleNeverWakesTornDown ==
    closing \in {"root", "cancelled"} /\ WokenBy("settle") => cancelled

(* A cancelled turn ends: once the token of a running burst is cancelled the *)
(* session gets back to Idle without waiting for the model.                  *)
CancelStops == cancelled /\ burst \notin {"none", "starting"} ~> phase = "Idle"

(* A settle notice that waits out a teardown gets through.                   *)
SettleGetsThrough ==
    \A m \in Msg : kind[m] = "settle" /\ pc[m] = "submitting"
                   ~> pc[m] \in {"done", "refused", "lost"}

(* "a followup queued at this exact moment is either popped here or          *)
(* submitted after the phase flips to Idle" (service.rs:3032): after a turn  *)
(* that completed, no followup is left behind in an idle session.            *)
FollowupNeverStranded ==
    burst = "none" /\ outcome = "completed" /\ ~cancelled => followups = <<>>

(* "suppress automatic wakes for this session and its descendants for the    *)
(* remainder of this host" (service.rs:1669).                                *)
JobNeverWakesTornDown ==
    closing \in {"root", "cancelled"} /\ WokenBy("job") => cancelled

(* "Deduplicated by the same durable source id" (service.rs:1814).           *)
NoticeLoggedOnce ==
    \A m \in Msg : kind[m] = "job" => Count(log, m) <= 1

(* "The ID is committed in the same fsynced envelope as the prompt           *)
(* [...] false means busy: the caller must retain its durable pending        *)
(* record" (service.rs:1758): true means that it is in the log.              *)
ExternalTrueMeansDurable ==
    \A m \in Msg : kind[m] = "external" /\ pc[m] = "done" => m \in Logged

(* Who has the log open, the inbox lock or the operation lock is where it    *)
(* should be in its own code: what StartFindsLogFree rests on.               *)
Reserved == {"admitted", "submitting", "spawning", "opening", "appending"}
LogOwner ==
    /\ phase = "Running" <=> writer = "burst"
    /\ phase = "Running" <=> burst # "none"
    /\ writer = "compact" <=> compact \in {"committing", "closing"}
    /\ operation = "compact" <=> compact \in {"summarizing", "committing", "closing"}
    /\ \A m \in Msg : /\ operation = m <=> pc[m] \in Reserved
                      /\ writer = m <=> pc[m] = "appending"
                      /\ pc[m] = "spawning" => burst = "starting"
    /\ \A t \in Title : /\ writer = t <=> titlePc[t] = "writing"
                        /\ inboxHeld = t <=> titlePc[t] = "writing"

(* What the burst took from the inbox is where its code says.                *)
HandInv ==
    /\ burst \notin {"delivering", "prompting", "leftovers"} => hand = <<>>
    /\ burst = "prompting" => Len(hand) = 1

(* A settle notice that starts a turn holds `closing`.                       *)
StarterInv ==
    /\ burst = "starting" => starter \in Msg /\ pc[starter] = "spawning"
    /\ \A m \in Msg : pc[m] = "spawning" =>
          starter = m /\ (kind[m] = "settle" => closing = "open")

(* Nobody starts a turn while compact holds the operation lock.              *)
SnapshotInv ==
    compact \in {"summarizing", "committing"} => phase = "Idle" /\ Conversation = snapshot

QuietInv == maintenance => operation = None /\ burst = "none"

(* Where the burst is tells whether a turn is open in the log.               *)
TurnInv ==
    /\ burst \in {"starting", "turn", "prompting", "leftovers"} => ~TurnOpen(log)
    /\ burst \in {"step", "delivering", "model"} => TurnOpen(log)
    /\ burst \in {"ended", "deciding"} /\ outcome = "completed" => ~TurnOpen(log)
    /\ Conversation # <<>> /\ LastConversation = "failed" => ~TurnOpen(log)

(* Where a message is follows from where its thread is.                      *)
OnceInv ==
    \A m \in {n \in Msg : kind[n] # "job"} :
        /\ Copies(m) <= 1
        /\ pc[m] \in {"admitted", "submitting", "opening", "appending", "refused"}
              => Copies(m) = 0
        /\ pc[m] = "ready" => IF Calm \/ kind[m] # "external" THEN Copies(m) = 0
                                                   ELSE Copies(m) = Count(log, m)
        /\ Calm /\ pc[m] \in {"spawning", "done"} /\ kind[m] # "retry" => Copies(m) = 1

(* A title that is being written was admitted, and nobody else can be.       *)
TitleInv ==
    Calm => \A t \in Title : titlePc[t] = "writing" => t \in UserTitle \/ ~Pinned(titled)

(* What the entry points intend is settled before the message is anywhere.   *)
In(e, s) == \E i \in 1..Len(s) : s[i] = e
IntentInv ==
    \A m \in Msg :
        /\ pc[m] = "admitted" => kind[m] = "job"
        /\ pc[m] \in {"opening", "appending"} => intent[m] = "inject"
        /\ kind[m] = "followup" => intent[m] = "followup"
        /\ kind[m] # "job" /\ (In(m, steers) \/ (burst # "prompting" /\ In(m, hand)))
              => intent[m] # "followup"

(* Accepted followups are in the log, in the burst's hand or parked, in this *)
(* order, and each of the three keeps the order of their acceptance.         *)
Precedes(a, b, s) == \E k, l \in 1..Len(s) : k < l /\ s[k] = a /\ s[l] = b
Ahead(a, b, s) == \A l \in 1..Len(s) : s[l] = b => \E k \in 1..(l - 1) : s[k] = a
Prompting(m) == burst = "prompting" /\ In(m, hand)
Ordered(m) == kind[m] # "job" /\ intent[m] = "followup"
QueueInv ==
    Calm => \A a \in {m \in Msg : kind[m] = "followup"} :
        /\ In(a, accepted) => In(a, log) \/ Prompting(a) \/ In(a, followups)
        /\ \A b \in Msg : Ordered(b) /\ Precedes(a, b, accepted) =>
              /\ Prompting(b) => In(a, log)
              /\ In(a, log) \/ Prompting(a) \/ Ahead(a, b, followups)

IInv == /\ TypeOK /\ LogOwner /\ HandInv /\ StarterInv /\ SnapshotInv /\ QuietInv
        /\ TurnInv /\ OnceInv /\ TitleInv /\ IntentInv /\ QueueInv
=============================================================================
