---------------------------- MODULE SessionStore ----------------------------
(* Branches (crates/rness-engine/src/session/branch.rs): a fork is a log of  *)
(* its own whose header names an event of another log; its history is the    *)
(* prefixes of its ancestors, then its own events.  Here forks are made of   *)
(* the one log of SessionLog, and of forks, through the store's readers      *)
(* while the log is written, cut and lost.  An event is <<session, id>>.     *)
EXTENDS LogReader, Functions

CONSTANTS
    Root,           \* the session whose log SessionLog models
    Child,          \* sessions that may be forked
    MaxOwn          \* bound: events of a child behind its header

ASSUME StoreAssumption == Root \notin Child /\ MaxOwn \in Nat

Session == {Root} \cup Child

VARIABLES
    born,       \* children whose log has its header
    ref,        \* child -> what its header names: session and event
    own,        \* child -> events behind its header
    forking,    \* per store: the fork it is making, or None
    seen        \* history: child -> the transcript it was forked from

forks == <<born, ref, own, seen>>
storeVars == <<allVars, forks, forking>>

StoreInit ==
    /\ Init /\ ReaderInit
    /\ born = {} /\ ref = [c \in Child |-> None]
    /\ own = [c \in Child |-> 0]
    /\ seen = [c \in Child |-> <<>>]
    /\ forking = [r \in Reader |-> None]
-----------------------------------------------------------------------------
(* Lineage and history.  `root` is what the reader in question hands out of  *)
(* the root's log; the first event of a log is its header.                   *)

Events(root, s) ==
    IF s = Root THEN [i \in 1..Len(root) |-> <<Root, root[i]>>]
                ELSE [i \in 1..(own[s] + 1) |-> <<s, i>>]

FirstAt(seq, at) == CHOOSE i \in DOMAIN seq : seq[i] = at /\ \A j \in 1..(i - 1) : seq[j] # at
UpTo(seq, at) == IF at \in Range(seq) THEN SubSeq(seq, 1, FirstAt(seq, at)) ELSE seq

(* ancestry: what is on the way from the root to each session, where every   *)
(* hop, [session, at], names the log that was forked and adds its part.      *)
Along(hop, part) ==
    LET along[s \in {Root} \cup DOMAIN hop] ==
          IF s = Root THEN <<>> ELSE along[hop[s].session] \o part[s]
    IN  along

Parents == Restrict(ref, born)
Hops == Along(Parents, [c \in born |-> <<ref[c]>>])

(* history: what a session inherits.  The header of a hop is skipped before  *)
(* it is compared with the fork point.                                       *)
Shown(root, hop) == UpTo(Tail(Events(root, hop.session)), hop.at)
Inherited(root) == Along(Parents, [c \in born |-> Shown(root, ref[c])])

History(root, s) == Inherited(root)[s] \o Tail(Events(root, s))

(* Bug: the fork point is taken to be an event of the session itself.        *)
OwnerItself(root, s, at) ==
    IF at \in Range(History(root, s)) THEN {s} ELSE {}

(* fork_inner, inherited_owner: the log that owns the event, where s can see *)
(* it and it is no header.                                                   *)
Owner(root, s, at) ==
    {t \in {s} : at \in Range(Tail(Events(root, s)))}
    \cup {h.session : h \in {h \in Range(Hops[s]) :
                        at \in Range(Tail(UpTo(Events(root, h.session), h.at)))}}

(* fork: at an event the transcript shows, or at the tip.                    *)
ForkAt(r, c, s, at) ==
    /\ \E owner \in Owner(cached'[r], s, at) :
          forking' = [forking EXCEPT ![r] =
              [child |-> c, session |-> owner, at |-> at,
               seen |-> UpTo(History(cached'[r], s), at)]]
ForkTip(r, c, s) ==
    LET events == Events(cached'[r], s)
    IN  forking' = [forking EXCEPT ![r] =
            [child |-> c, session |-> s, at |-> events[Len(events)],
             seen |-> History(cached'[r], s)]]

(* The logs are read through the store's reader, and fail with Corrupt; the  *)
(* child does not exist yet.                                                 *)
Fork(r, c, s) ==
    /\ forking[r] = None /\ c \in Child \ born /\ s \in {Root} \cup born
    /\ Read(r) /\ answer'[r] = "ok"
    /\ \/ ForkTip(r, c, s)
       \/ \E at \in Range(History(cached'[r], s)) : ForkAt(r, c, s, at)
    /\ UNCHANGED forks

(* SessionLog::create of the child: its header is synced when it returns.    *)
ForkCreates(r) ==
    /\ forking[r] # None /\ forking[r].child \notin born
    /\ born' = born \cup {forking[r].child}
    /\ ref' = [ref EXCEPT ![forking[r].child] =
                  [session |-> forking[r].session, at |-> forking[r].at]]
    /\ seen' = [seen EXCEPT ![forking[r].child] = forking[r].seen]
    /\ forking' = [forking EXCEPT ![r] = None]
    /\ UNCHANGED <<allVars, own>>

AppendOwn(c) ==
    /\ c \in born /\ own[c] < MaxOwn
    /\ own' = [own EXCEPT ![c] = @ + 1]
    /\ UNCHANGED <<allVars, born, ref, seen, forking>>

StoreNext ==
    \/ Write /\ UNCHANGED <<forks, forking>>
    \/ Restart /\ forking' = [r \in Reader |-> None] /\ UNCHANGED forks
    \/ \E r \in Reader : Read(r) /\ UNCHANGED <<forks, forking>>
    \/ \E r \in Reader : ForkCreates(r) \/ \E c \in Child, s \in Session : Fork(r, c, s)
    \/ \E c \in Child : AppendOwn(c)

StoreSpec == StoreInit /\ [][StoreNext]_storeVars
-----------------------------------------------------------------------------
(* Properties.                                                               *)

Now == EventsAt(ValidEnds(file))

Acknowledged(at) == at[1] = Root => \E n \in EndsBelow(committed) : file[n].ev = at[2]
IsHeader(at) == at = Events(Now, at[1])[1]

(* "ancestor prefixes up to each fork point, then its own events"            *)
(* (branch.rs:594): wherever all fork points of its lineage are acknowledged *)
(* events, a fork's transcript is what it was forked from, and stays it,     *)
(* whatever its ancestors log afterwards.                                    *)
ChildSeesItsPrefix ==
    \A c \in born :
        (\A h \in Range(Hops[c]) : Acknowledged(h.at)) => Inherited(Now)[c] = seen[c]

(* The same where no fork point is a header; and every event such a          *)
(* transcript shows, "inherited from an ancestor (visible in the transcript)"*)
(* (branch.rs:473), can be forked at and has one owner.                      *)
Settled(c) == \A h \in Range(Hops[c]) : Acknowledged(h.at) /\ ~IsHeader(h.at)
ForkKeepsPrefix ==
    \A c \in born : Settled(c) =>
        /\ Inherited(Now)[c] = seen[c]
        /\ \A at \in Range(History(Now, c)) : Cardinality(Owner(Now, c, at)) = 1

(* "Branch lineage is acyclic and fork points reference events that exist in *)
(* the parent's committed log" (docs/invariants.md #4).                      *)
ForkPointsCommitted == \A c \in born : Acknowledged(ref[c].at)
-----------------------------------------------------------------------------
(* What ForkKeepsPrefix rests on, where no write fails and power losses keep *)
(* the order of writes.                                                      *)

(* Ids are not written twice, and what parses on the disk is in the file.    *)
UniqueInv ==
    /\ \A m, n \in ValidEnds(file) : file[m].ev = file[n].ev => m = n
    /\ \A p \in Proc : pc[p] = "writing" => \A i \in LineEnds(buf) :
          /\ \A n \in ValidEnds(file) : file[n].ev # buf[i].ev
          /\ \A j \in LineEnds(buf) : buf[j].ev = buf[i].ev => i = j
StableInv ==
    \A n \in ValidEnds(stable) : n <= Len(file) /\ \A i \in 1..n : file[i] = stable[i]

(* A fork is made of what was there before it.                               *)
Born == {Root} \cup born
Hop == [session : Session, at : Session \X Nat]
LineageInv ==
    /\ born \subseteq Child /\ own \in [Child -> Nat]
    /\ DOMAIN ref = Child /\ DOMAIN seen = Child /\ DOMAIN forking = Reader
    /\ \A c \in born : ref[c] \in Hop /\ ref[c].session \in Born
    /\ \E depth \in Nat : \E rank \in [Session -> 0..depth] :
          \A c \in born : rank[ref[c].session] < rank[c]
    /\ \A r \in Reader : forking[r] # None => forking[r].child \in Child

(* A fork point is an event the log it names has, or will not have again;    *)
(* where all those of a lineage are there, and are no headers, what is       *)
(* inherited up to it is what was read.                                      *)
Final(e) ==
    /\ e < nextId
    /\ \A p \in Proc : pc[p] = "writing" => \A i \in LineEnds(buf) : buf[i].ev # e
Shows(at) == \E i \in 2..Len(Events(Now, at[1])) : Events(Now, at[1])[i] = at
ForkPoint(s, at) ==
    /\ s \in Born /\ at \in {s} \X Nat
    /\ IF s = Root THEN Final(at[2]) ELSE at[2] \in 1..(own[s] + 1)
Keeps(s, at, line) ==
    /\ ForkPoint(s, at)
    /\ (\A h \in Range(Hops[s]) : Shows(h.at)) /\ Shows(at)
          => Inherited(Now)[s] \o Shown(Now, [session |-> s, at |-> at]) = line
ForkInv ==
    /\ \A c \in born : Keeps(ref[c].session, ref[c].at, seen[c])
    /\ \A r \in Reader : forking[r] # None =>
          Keeps(forking[r].session, forking[r].at, forking[r].seen)

StoreInv == ReaderInv /\ UniqueInv /\ StableInv /\ LineageInv /\ ForkInv
=============================================================================
