------------------------------ MODULE LogReader ------------------------------
(* The incremental readers of a session log (SessionReader of                *)
(* crates/rness-engine/src/session/log.rs): a reader remembers the events it *)
(* has parsed and the offset behind them, and on every read parses what has  *)
(* been appended since.  Readers take no lock and run beside any writer.     *)
EXTENDS SessionLog

CONSTANT Reader

VARIABLES
    offset,     \* per reader: cells of the file it has consumed
    cached,     \* per reader: the events it hands out
    answer      \* per reader: how its last read ended

readerVars == <<offset, cached, answer>>
allVars == <<vars, readerVars>>

ReaderInit ==
    /\ offset = [r \in Reader |-> 0]
    /\ cached = [r \in Reader |-> <<>>]
    /\ answer = [r \in Reader |-> "none"]

(* The lines a read that starts behind cell o finds, and those it parses:    *)
(* an event whose first cell follows o or a newline.                         *)
EndsFrom(o) == {n \in LineEnds(file) : n > o}
ParsesFrom(o, n) ==
    /\ file[n].of <= n - o
    /\ \A i \in 1..file[n].of :
          file[n - file[n].of + i] = [ev |-> file[n].ev, part |-> i, of |-> file[n].of]
    /\ \/ n - file[n].of = o
       \/ Newline(file[n - file[n].of])
ParsedFrom(o) ==
    {n \in EndsFrom(o) : \A m \in EndsFrom(o) : m <= n => ParsesFrom(o, m)}

(* The events of the lines that end there, in their order.                   *)
Marks(f, ends) == [n \in 1..Len(f) |-> IF n \in ends THEN f[n].ev ELSE 0]
EventsAt(ends) == Select(Marks(file, ends), 1..MaxId)

(* Bug: the offset is the length of the file.                                *)
ReadToTheEnd(r) ==
    /\ exists
    /\ LET parsed == ParsedFrom(offset[r])
       IN  /\ offset' = [offset EXCEPT ![r] = Len(file)]
           /\ cached' = [cached EXCEPT ![r] = @ \o EventsAt(parsed)]
           /\ answer' = [answer EXCEPT ![r] =
                            IF parsed = EndsFrom(offset[r]) /\ cached'[r] # <<>> THEN "ok"
                                                                             ELSE "corrupt"]
    /\ UNCHANGED vars

(* refresh: a file shorter than the offset was truncated, so start over; a   *)
(* line that does not parse ends the read with Corrupt, behind it nothing is *)
(* consumed.  The length check and the reads are one step: what is appended  *)
(* meanwhile is read by this refresh or by the next.                         *)
Read(r) ==
    /\ exists
    /\ LET restart == Len(file) < offset[r]
           from == IF restart THEN 0 ELSE offset[r]
           kept == IF restart THEN <<>> ELSE cached[r]
           parsed == ParsedFrom(from)
           events == kept \o EventsAt(parsed)
       IN  /\ offset' = [offset EXCEPT ![r] = CHOOSE n \in parsed \cup {from} :
                                                \A m \in parsed : m <= n]
           /\ cached' = [cached EXCEPT ![r] = events]
           /\ answer' = [answer EXCEPT ![r] =
                            IF parsed = EndsFrom(from) /\ events # <<>> THEN "ok"
                                                                      ELSE "corrupt"]
    /\ UNCHANGED vars

(* No reader outlives a power loss; a killed writer does not take with it    *)
(* the readers of the other processes.                                       *)
Restart == PowerLoss /\ offset' = [r \in Reader |-> 0]
                     /\ cached' = [r \in Reader |-> <<>>]
                     /\ answer' = [r \in Reader |-> "none"]

Write == (Writeback \/ \E p \in Proc : Step(p)) /\ UNCHANGED readerVars

ReaderNext == Write \/ Restart \/ \E r \in Reader : Read(r)

ReaderSpec == Init /\ ReaderInit /\ [][ReaderNext]_allVars
-----------------------------------------------------------------------------
(* Properties.                                                               *)

(* "Incremental reader for an immutable committed prefix" (log.rs:903): what *)
(* a reader holds after a read is what the file holds up to the reader's     *)
(* offset, and no acknowledged event before that offset is missing.          *)
CacheMatchesFile ==
    \A r \in Reader : offset[r] <= Len(file) =>
        cached[r] = EventsAt({n \in ValidEnds(file) : n <= offset[r]})

(* A read that answers Ok hands out every acknowledged event.                *)
ReadsSeeCommitted ==
    [][\A r \in Reader : answer'[r] = "ok" /\ Read(r) =>
          {file[n].ev : n \in EndsBelow(committed)} \subseteq
             {cached'[r][i] : i \in DOMAIN cached'[r]}]_allVars
-----------------------------------------------------------------------------
(* What they rest on, where no write fails: a reader is behind a complete    *)
(* line that parses, no such line is behind the cut of a region, and nothing *)
(* is rolled back.                                                           *)
ReaderTypeOK ==
    /\ offset \in [Reader -> Nat]
    /\ cached \in [Reader -> Seq(1..MaxId)]
    /\ answer \in [Reader -> {"none", "ok", "corrupt"}]
RegionAt(p) ==
    pc[p] \in {"sidecar", "cutting"} => \A n \in ValidEnds(file) : n <= base
RegionInv == \A p \in Proc : RegionAt(p)
NothingBack == \A p \in Proc : pc[p] \notin {"rollback", "rbsync"}
BehindLine == \A r \in Reader : offset[r] = 0 \/ offset[r] \in ValidEnds(file)

ReaderInv == /\ LineInv /\ ReaderTypeOK
             /\ RegionInv /\ NothingBack
             /\ BehindLine /\ CacheMatchesFile
=============================================================================
