----------------------------- MODULE Jobs_proofs -----------------------------
(* Proofs about Jobs: for every set of runs and jobs, however many of them   *)
(* are alive, killed or cut off by a power failure, no completion is owed    *)
(* by two runs, none counts as delivered before the session log has it, and  *)
(* the record of one that is owed is not lost.                               *)
EXTENDS Jobs, FiniteSetTheorems, TLAPS
-----------------------------------------------------------------------------
(* The registry of a run.                                                    *)

(* What a registry holds.                                                    *)
LEMMA RegistryFacts ==
    ASSUME NEW R \in Registry
    PROVE  DOMAIN R \subseteq Job /\ \A j \in DOMAIN R : R[j] \in State
  BY DEF Registry

(* A registry with a job's state replaced or added.                          *)
LEMMA WithFacts ==
    ASSUME NEW R \in Registry, NEW j \in Job, NEW s \in State
    PROVE  /\ With(R, j, s) \in Registry
           /\ DOMAIN With(R, j, s) = DOMAIN R \cup {j}
           /\ With(R, j, s)[j] = s
           /\ \A x \in DOMAIN R : x # j => With(R, j, s)[x] = R[x]
  <1>1. DOMAIN R \cup {j} \in SUBSET Job
    BY RegistryFacts
  <1>2. With(R, j, s) \in [DOMAIN R \cup {j} -> State]
    BY RegistryFacts DEF With
  <1> QED BY <1>1, <1>2 DEF With, Registry

(* A registry with the state of a job it has replaced.                       *)
LEMMA ExceptFacts ==
    ASSUME NEW R \in Registry, NEW j \in DOMAIN R, NEW s \in State
    PROVE  /\ [R EXCEPT ![j] = s] \in Registry
           /\ DOMAIN [R EXCEPT ![j] = s] = DOMAIN R
           /\ [R EXCEPT ![j] = s][j] = s
           /\ \A x \in DOMAIN R : x # j => [R EXCEPT ![j] = s][x] = R[x]
  <1>1. DOMAIN R \in SUBSET Job /\ R \in [DOMAIN R -> State]
    BY DEF Registry
  <1>2. [R EXCEPT ![j] = s] \in [DOMAIN R -> State]
    BY <1>1
  <1> QED BY <1>1, <1>2 DEF Registry

(* A registry without a job.                                                 *)
LEMMA WithoutFacts ==
    ASSUME NEW R \in Registry, NEW j \in Job
    PROVE  /\ Without(R, j) \in Registry
           /\ DOMAIN Without(R, j) = DOMAIN R \ {j}
           /\ \A x \in DOMAIN R : x # j => Without(R, j)[x] = R[x]
  <1>1. DOMAIN R \ {j} \in SUBSET Job
    BY RegistryFacts
  <1>2. Without(R, j) \in [DOMAIN R \ {j} -> State]
    BY RegistryFacts DEF Without
  <1> QED BY <1>1, <1>2 DEF Without, Registry

(* The empty registry.                                                       *)
LEMMA EmptyFacts == Empty \in Registry /\ DOMAIN Empty = {}
  <1>1. DOMAIN Empty = {} /\ Empty \in [{} -> State]
    BY DEF Empty
  <1> QED BY <1>1 DEF Registry

(* Run i learns that job j is in state s, or sees its state change.          *)
Knows(i, j, s) ==
    /\ mem' \in [Inst -> Registry]
    /\ DOMAIN mem'[i] = DOMAIN mem[i] \cup {j}
    /\ mem'[i][j] = s
    /\ \A x \in DOMAIN mem[i] : x # j => mem'[i][x] = mem[i][x]
    /\ \A k \in Inst : k # i => mem'[k] = mem[k]

(* Run i forgets job j.                                                      *)
Forgets(i, j) ==
    /\ mem' \in [Inst -> Registry]
    /\ DOMAIN mem'[i] = DOMAIN mem[i] \ {j}
    /\ \A x \in DOMAIN mem[i] : x # j => mem'[i][x] = mem[i][x]
    /\ \A k \in Inst : k # i => mem'[k] = mem[k]

(* The three ways the code changes a registry, as these relations.           *)
LEMMA RegistryChanges ==
    ASSUME TypeRegistry, NEW i \in Inst, NEW j \in Job, NEW s \in State
    PROVE  /\ mem' = [mem EXCEPT ![i] = With(@, j, s)] => Knows(i, j, s)
           /\ j \in DOMAIN mem[i] /\ mem' = [mem EXCEPT ![i][j] = s] => Knows(i, j, s)
           /\ mem' = [mem EXCEPT ![i] = Without(@, j)] => Forgets(i, j)
  <1>1. mem \in [Inst -> Registry] /\ mem[i] \in Registry
    BY DEF TypeRegistry
  <1>2. ASSUME mem' = [mem EXCEPT ![i] = With(@, j, s)] PROVE Knows(i, j, s)
    <2>1. With(mem[i], j, s) \in Registry
      BY <1>1, WithFacts
    <2>2. /\ mem' \in [Inst -> Registry] /\ mem'[i] = With(mem[i], j, s)
          /\ \A k \in Inst : k # i => mem'[k] = mem[k]
      BY <1>1, <1>2, <2>1
    <2> QED BY <1>1, <2>2, WithFacts DEF Knows
  <1>3. ASSUME j \in DOMAIN mem[i], mem' = [mem EXCEPT ![i][j] = s] PROVE Knows(i, j, s)
    <2>1. [mem[i] EXCEPT ![j] = s] \in Registry
      BY <1>1, <1>3, ExceptFacts
    <2>2. /\ mem' \in [Inst -> Registry] /\ mem'[i] = [mem[i] EXCEPT ![j] = s]
          /\ \A k \in Inst : k # i => mem'[k] = mem[k]
      BY <1>1, <1>3, <2>1
    <2>3. /\ DOMAIN mem'[i] = DOMAIN mem[i] /\ mem'[i][j] = s
          /\ \A x \in DOMAIN mem[i] : x # j => mem'[i][x] = mem[i][x]
      BY <1>1, <1>3, <2>2, ExceptFacts
    <2> QED BY <1>3, <2>2, <2>3 DEF Knows
  <1>4. ASSUME mem' = [mem EXCEPT ![i] = Without(@, j)] PROVE Forgets(i, j)
    <2>1. Without(mem[i], j) \in Registry
      BY <1>1, WithoutFacts
    <2>2. /\ mem' \in [Inst -> Registry] /\ mem'[i] = Without(mem[i], j)
          /\ \A k \in Inst : k # i => mem'[k] = mem[k]
      BY <1>1, <1>4, <2>1
    <2> QED BY <1>1, <2>2, WithoutFacts DEF Forgets
  <1> QED BY <1>2, <1>3, <1>4
-----------------------------------------------------------------------------
(* The files of a job.                                                       *)

(* Job j's record is written or left alone, everything else stays; what is   *)
(* on the disk is as before or as the files are now.                         *)
Writes(j, s) ==
    /\ file' \in [Job -> Files] /\ disk' \in [Job -> Files]
    /\ \A x \in Job : x # j => file'[x] = file[x]
    /\ file'[j].tomb = file[j].tomb /\ file'[j].out = file[j].out
    /\ file'[j].rec \in {file[j].rec, s}
    /\ \A x \in Job : disk'[x] \in {disk[x], file'[x]}

(* persist does that, and a settled record of a background job is durable    *)
(* when it returns, unless the directory is gone.                            *)
LEMMA PersistFacts ==
    ASSUME TypeStore, NEW j \in Job, NEW s \in State, Persist(j, s)
    PROVE  /\ Writes(j, s)
           /\ kind[j] # "capture" /\ s # "running" =>
                 \/ file' = file /\ disk' = disk
                 \/ disk'[j] = file'[j] /\ file'[j].rec = s
  <1>1. file \in [Job -> Files] /\ disk \in [Job -> Files]
    BY DEF TypeStore
  <1>2. CASE home[j] \notin dirs
    <2>1. file' = file /\ disk' = disk
      BY <1>2 DEF Persist
    <2> QED BY <1>1, <2>1 DEF Writes
  <1>3. CASE home[j] \in dirs
    <2>1. /\ file' = [file EXCEPT ![j].rec = s]
          /\ disk' = IF kind[j] # "capture" /\ s # "running"
                     THEN Synced(home[j], file') ELSE disk
      BY <1>3 DEF Persist
    <2>2. file[j] \in Files /\ [file[j] EXCEPT !.rec = s] \in Files
      BY <1>1 DEF Files
    <2>3. /\ file' \in [Job -> Files] /\ file'[j] = [file[j] EXCEPT !.rec = s]
          /\ \A x \in Job : x # j => file'[x] = file[x]
      BY <1>1, <2>1, <2>2
    <2>4. /\ file'[j].tomb = file[j].tomb /\ file'[j].out = file[j].out
          /\ file'[j].rec = s
      BY <2>2, <2>3 DEF Files
    <2>5. disk' \in [Job -> Files] /\ \A x \in Job : disk'[x] \in {disk[x], file'[x]}
      BY <1>1, <2>1, <2>3 DEF Synced
    <2>6. kind[j] # "capture" /\ s # "running" => disk'[j] = file'[j]
      BY <2>1 DEF Synced
    <2> QED BY <2>3, <2>4, <2>5, <2>6 DEF Writes
  <1> QED BY <1>2, <1>3
(* Only job j's files change; what is synced are files as they were or are.  *)
Touches(j) ==
    /\ file' \in [Job -> Files] /\ disk' \in [Job -> Files]
    /\ \A x \in Job : x # j => file'[x] = file[x] /\ disk'[x] \in {disk[x], file[x]}
    /\ file'[j].out => file[j].out

(* A job that is written is one whose files change.                          *)
LEMMA WritesTouches ==
    ASSUME NEW j \in Job, NEW s, Writes(j, s)
    PROVE  Touches(j)
  BY DEF Writes, Touches

(* A step of a removal, and a failed one, touch the files of the job that is *)
(* removed; a run may forget that job.                                       *)
LEMMA RemovalFacts ==
    ASSUME IInv, NEW i \in Inst, RemoveStep(i) \/ RemoveFails(i)
    PROVE  /\ Touches(removing[i].job)
           /\ mem' = mem \/ Forgets(i, removing[i].job)
           /\ removing' \in [Inst -> [job : Job \cup {"none"}, step : 0..5]]
           /\ \A k \in Inst : k # i => removing'[k] = removing[k]
           /\ \/ removing'[i] = NoRemoval
              \/ mem' = mem /\ removing'[i].job = removing[i].job
  <1> DEFINE j == removing[i].job
  <1>1. /\ ~Free(i) /\ j \in Job /\ j \in DOMAIN mem[i] /\ mem[i][j] \in State
        /\ file \in [Job -> Files] /\ disk \in [Job -> Files]
        /\ removing \in [Inst -> [job : Job \cup {"none"}, step : 0..5]]
        /\ file[j] \in Files /\ TypeRegistry
    <2>1. ~Free(i)
      BY DEF RemoveStep, RemoveFails
    <2>2. TypeRegistry /\ mem[i] \in Registry
      BY DEF IInv, TypeOK, TypeRegistry
    <2>3. j \in DOMAIN mem[i]
      BY <2>1 DEF IInv, RemovingInv
    <2>4. file \in [Job -> Files] /\ disk \in [Job -> Files]
      BY DEF IInv, TypeOK, TypeStore
    <2> QED BY <2>1, <2>2, <2>3, <2>4, RegistryFacts DEF TypeRegistry
  <1> HIDE DEF j
  <1>2. ASSUME NEW f \in Files, file' = [file EXCEPT ![j] = f], f.out => file[j].out
        PROVE  /\ file' \in [Job -> Files] /\ file'[j] = f
               /\ \A x \in Job : x # j => file'[x] = file[x]
    BY <1>1, <1>2
  <1>3. ASSUME NEW r \in State \cup {"none"}, NEW b \in BOOLEAN
        PROVE  /\ [file[j] EXCEPT !.rec = r] \in Files
               /\ [file[j] EXCEPT !.rec = r].out = file[j].out
               /\ [[file[j] EXCEPT !.rec = r] EXCEPT !.tomb = b] \in Files
               /\ [[file[j] EXCEPT !.rec = r] EXCEPT !.tomb = b].out = file[j].out
               /\ [file[j] EXCEPT !.out = FALSE] \in Files
               /\ ~[file[j] EXCEPT !.out = FALSE].out
               /\ [file[j] EXCEPT !.tomb = b] \in Files
               /\ [file[j] EXCEPT !.tomb = b].out = file[j].out
    BY <1>1 DEF Files
  <1>4. NoRemoval \in [job : Job \cup {"none"}, step : 0..5]
    BY DEF NoRemoval
  <1>5. ASSUME NEW n \in 0..5, Step(i, n), mem' = mem
        PROVE  /\ removing' \in [Inst -> [job : Job \cup {"none"}, step : 0..5]]
               /\ \A k \in Inst : k # i => removing'[k] = removing[k]
               /\ removing'[i].job = j
    <2>1. [removing[i] EXCEPT !.step = n] \in [job : Job \cup {"none"}, step : 0..5]
      BY <1>1
    <2>2. /\ removing' = [removing EXCEPT ![i] = [removing[i] EXCEPT !.step = n]]
      BY <1>5 DEF Step
    <2>3. [removing[i] EXCEPT !.step = n].job = removing[i].job
      BY <1>1
    <2> QED BY <1>1, <2>1, <2>2, <2>3 DEF j
  <1>6. ASSUME removing' = [removing EXCEPT ![i] = NoRemoval]
        PROVE  /\ removing' \in [Inst -> [job : Job \cup {"none"}, step : 0..5]]
               /\ \A k \in Inst : k # i => removing'[k] = removing[k]
               /\ removing'[i] = NoRemoval
    BY <1>1, <1>4, <1>6
  <1>7. ASSUME Removed(i, j)
        PROVE  /\ removing' = [removing EXCEPT ![i] = NoRemoval]
               /\ Forgets(i, j)
    BY <1>1, <1>7, RegistryChanges DEF Removed, State
  <1>8. ASSUME NEW d, NEW g \in [Job -> Files], \A x \in Job : x # j => g[x] = file[x],
               disk' = disk \/ disk' = Synced(d, g),
               file' \in [Job -> Files], \A x \in Job : x # j => file'[x] = file[x],
               file'[j].out => file[j].out
        PROVE  Touches(j)
    <2>1. disk' \in [Job -> Files] /\ \A x \in Job : x # j => disk'[x] \in {disk[x], file[x]}
      BY <1>1, <1>8 DEF Synced
    <2> QED BY <1>8, <2>1 DEF Touches
  <1>9. CASE RemoveStep(i)
    <2> DEFINE n == removing[i].step
               d == home[j]
    <2>1. CASE kind[j] = "capture" /\ n = 1 /\ file' = [file EXCEPT ![j].rec = "none"]
               /\ Step(i, 2) /\ UNCHANGED <<disk, mem>>
      <3>1. Touches(j)
        BY <1>1, <1>2, <1>3, <1>8, <2>1
      <3> QED BY <1>5, <2>1, <3>1 DEF j
    <2>2. CASE kind[j] = "capture" /\ n = 2 /\ file' = [file EXCEPT ![j].out = FALSE]
               /\ Removed(i, j) /\ UNCHANGED disk
      <3>1. Touches(j)
        BY <1>1, <1>2, <1>3, <1>8, <2>2
      <3> QED BY <1>6, <1>7, <2>2, <3>1 DEF j
    <2>3. CASE /\ kind[j] # "capture" /\ n = 1
               /\ IF d \in dirs
                  THEN LET stored == [file EXCEPT ![j].rec = mem[i][j]]
                       IN  /\ disk' = Synced(d, stored)
                           /\ file' = [stored EXCEPT ![j].rec = "none", ![j].tomb = TRUE]
                  ELSE UNCHANGED <<file, disk>>
               /\ Step(i, 2) /\ UNCHANGED mem
      <3>1. Touches(j)
        <4>1. CASE d \in dirs
          <5>1. PICK g : g = [file EXCEPT ![j] = [file[j] EXCEPT !.rec = mem[i][j]]]
            OBVIOUS
          <5>2. g \in [Job -> Files] /\ \A x \in Job : x # j => g[x] = file[x]
            BY <1>1, <1>3, <5>1
          <5>3. /\ disk' = Synced(d, g)
                /\ file' = [g EXCEPT ![j].rec = "none", ![j].tomb = TRUE]
            BY <2>3, <4>1, <5>1
          <5>4. g[j] \in Files /\ g[j].out = file[j].out
            BY <1>1, <1>3, <5>1
          <5>5. PICK h : h = [[g[j] EXCEPT !.rec = "none"] EXCEPT !.tomb = TRUE]
            OBVIOUS
          <5>6. h \in Files /\ h.out = file[j].out
            BY <5>4, <5>5 DEF Files
          <5>7. file' = [g EXCEPT ![j] = h]
            BY <5>2, <5>3, <5>5
          <5>8. /\ file' \in [Job -> Files] /\ file'[j] = h
                /\ \A x \in Job : x # j => file'[x] = file[x]
            BY <1>1, <5>2, <5>6, <5>7
          <5> HIDE DEF d
          <5> QED BY <1>8, <5>2, <5>3, <5>6, <5>8
        <4>2. CASE d \notin dirs
          BY <1>1, <2>3, <4>2 DEF Touches
        <4> QED BY <4>1, <4>2
      <3> QED BY <1>5, <2>3, <3>1 DEF j
    <2>4. CASE /\ kind[j] # "capture" /\ n \in {2, 4}
               /\ disk' = IF d \in dirs THEN Synced(d, file) ELSE disk
               /\ Step(i, n + 1) /\ UNCHANGED <<file, mem>>
      <3>1. Touches(j)
        <4> HIDE DEF d
        <4> QED BY <1>1, <1>8, <2>4
      <3>2. n + 1 \in 0..5
        BY <2>4
      <3> QED BY <1>5, <2>4, <3>1, <3>2 DEF j
    <2>5. CASE kind[j] # "capture" /\ n = 3 /\ file' = [file EXCEPT ![j].out = FALSE]
               /\ Step(i, 4) /\ UNCHANGED <<disk, mem>>
      <3>1. Touches(j)
        BY <1>1, <1>2, <1>3, <1>8, <2>5
      <3> QED BY <1>5, <2>5, <3>1 DEF j
    <2>6. CASE kind[j] # "capture" /\ n = 5 /\ file' = [file EXCEPT ![j].tomb = FALSE]
               /\ Removed(i, j) /\ UNCHANGED disk
      <3>1. Touches(j)
        BY <1>1, <1>2, <1>3, <1>8, <2>6
      <3> QED BY <1>6, <1>7, <2>6, <3>1 DEF j
    <2> QED BY <1>9, <2>1, <2>2, <2>3, <2>4, <2>5, <2>6 DEF RemoveStep, j
  <1>10. CASE RemoveFails(i)
    <2> DEFINE n == removing[i].step
    <2>1. /\ file' = IF n = 3 /\ file[j].tomb
                     THEN [file EXCEPT ![j].rec = mem[i][j], ![j].tomb = FALSE] ELSE file
          /\ disk' = disk
          /\ \/ Removed(i, j)
             \/ removing' = [removing EXCEPT ![i] = NoRemoval] /\ mem' = mem
      BY <1>10 DEF RemoveFails, j
    <2>2. Touches(j)
      <3>1. PICK h : h = [[file[j] EXCEPT !.rec = mem[i][j]] EXCEPT !.tomb = FALSE]
        OBVIOUS
      <3>2. h \in Files /\ h.out = file[j].out
        BY <1>1, <3>1 DEF Files
      <3>3. file' = file \/ file' = [file EXCEPT ![j] = h]
        BY <1>1, <2>1, <3>1
      <3> QED BY <1>1, <1>2, <1>8, <2>1, <3>2, <3>3
    <2> QED BY <1>6, <1>7, <2>1, <2>2 DEF j
  <1> QED BY <1>9, <1>10
-----------------------------------------------------------------------------
(* What the invariants say, in the form the proofs use.                      *)

(* The types, by variable.                                                   *)
LEMMA Types ==
    ASSUME TypeOK
    PROVE  /\ boot \in [Inst -> {"new", "listed", "made", "created", "up", "failed", "dead"}]
           /\ todo \in [Inst -> SUBSET Inst] /\ scan \in [Inst -> Scan]
           /\ dirs \subseteq Inst /\ lockFile \in [Inst -> Nat] /\ made \in [Inst -> Nat]
           /\ held \subseteq Inst \X Inst \X Nat
           /\ mem \in [Inst -> Registry]
           /\ removing \in [Inst -> [job : Job \cup {"none"}, step : 0..5]]
           /\ file \in [Job -> Files] /\ disk \in [Job -> Files]
           /\ kind \in [Job -> Kind \cup {"none"}] /\ home \in [Job -> Inst \cup {Nobody}]
           /\ log \in [Job -> {"none", "written", "synced"}]
           /\ parked \in [Inst -> SUBSET Job] /\ pend \in [Inst -> SUBSET Job]
           /\ writer \in Inst \cup {Nobody} /\ peeked \subseteq Job
           /\ turns \in Nat /\ faults \in Nat
  BY DEF TypeOK, TypeStartup, TypeLocks, TypeRegistry, TypeStore, TypeSession

(* Nobody is no run.                                                         *)
LEMMA NobodyElse == Nobody \notin Inst
  BY InstNumbers DEF Nobody

(* What is known of a job in a registry.                                     *)
LEMMA KnownFacts ==
    ASSUME IInv, NEW i \in Inst, NEW j \in DOMAIN mem[i]
    PROVE  /\ j \in Job /\ mem[i] \in Registry /\ mem[i][j] \in State
           /\ boot[i] = "up"
           /\ home[j] \in Inst /\ home[j] \notin todo[i] /\ j \notin scan[i].names
           /\ scan[i].dir = home[j] => scan[i].step = "load"
           /\ mem[i][j] = "running" => home[j] = i
  <1>1. mem[i] \in Registry
    BY Types DEF IInv
  <1>2. j \in Job /\ mem[i][j] \in State
    BY <1>1, RegistryFacts
  <1>3. boot[i] = "up"
    BY EmptyFacts DEF IInv, HomeInv
  <1>4. home[j] \in Inst \cup {Nobody}
    BY <1>2, Types DEF IInv
  <1> QED BY <1>1, <1>2, <1>3, <1>4 DEF IInv, KnownInv

(* A job that a run knows and another one runs: its owner is the other one,  *)
(* alive, so the lock file its owner made is gone.                           *)
LEMMA OneRunner ==
    ASSUME IInv, NEW i \in Inst, NEW k \in Inst, NEW j \in DOMAIN mem[i],
           j \in DOMAIN mem[k], mem[k][j] = "running", LockIntact(j)
    PROVE  i = k
  <1>1. j \in Job /\ home[j] = k /\ boot[k] = "up"
    BY KnownFacts
  <1> QED BY <1>1 DEF IInv, OwnerInv

(* A run that is up holds its own directory's lock, a run that recovers the  *)
(* one of the directory it recovers, of a generation that was made.          *)
LEMMA HeldFacts ==
    ASSUME IInv, NEW i \in Inst
    PROVE  /\ \A d \in Inst : Holds(i, d) => \E g \in 1..made[d] : <<i, d, g>> \in held
           /\ boot[i] = "up" => Holds(i, i)
           /\ Recovering(i) => Holds(i, scan[i].dir)
  <1>1. /\ held \subseteq Inst \X Inst \X Nat /\ made \in [Inst -> Nat]
        /\ \A h \in held : 1 <= h[3] /\ h[3] <= made[h[2]]
        /\ boot[i] = "up" => Holds(i, i)
        /\ Recovering(i) => <<i, scan[i].dir, scan[i].gen>> \in held
    BY Types DEF IInv, LockInv, ScanInv, ScanOf
  <1>2. ASSUME NEW d \in Inst, Holds(i, d) PROVE \E g \in 1..made[d] : <<i, d, g>> \in held
    <2>1. PICK h \in held : h[1] = i /\ h[2] = d
      BY <1>2 DEF Holds
    <2>2. h[3] \in 1..made[d] /\ h = <<i, d, h[3]>>
      BY <1>1, <2>1
    <2> QED BY <2>1, <2>2
  <1>3. Recovering(i) => Holds(i, scan[i].dir)
    BY <1>1 DEF Holds
  <1> QED BY <1>1, <1>2, <1>3

(* While only the first generation of a lock was made, one run holds it.     *)
LEMMA OneHolder ==
    ASSUME IInv, NEW i \in Inst, NEW k \in Inst, NEW d \in Inst, made[d] = 1,
           Holds(i, d), Holds(k, d)
    PROVE  i = k
  <1>1. <<i, d, 1>> \in held /\ <<k, d, 1>> \in held
    <2>1. PICK g \in 1..made[d] : <<i, d, g>> \in held
      BY HeldFacts
    <2>2. PICK h \in 1..made[d] : <<k, d, h>> \in held
      BY HeldFacts
    <2>3. g = 1 /\ h = 1
      OBVIOUS
    <2> QED BY <2>1, <2>2, <2>3
  <1>2. <<i, d, 1>> = <<k, d, 1>>
    BY <1>1 DEF IInv, LockInv
  <1> QED BY <1>2

(* A completion is owed by one live run.                                     *)
LEMMA OneDebtor ==
    ASSUME IInv PROVE SingleDeliverer
  <1> SUFFICES ASSUME NEW i \in Inst, NEW k \in Inst, NEW j \in Job,
                      Pending(i, j), Pending(k, j), LockIntact(j)
               PROVE  i = k
    BY DEF SingleDeliverer
  <1>1. Holds(i, home[j]) /\ Holds(k, home[j]) /\ home[j] \in Inst
    <2>1. home[j] \in Inst
      BY KnownFacts DEF Pending
    <2>2. /\ j \in DOMAIN mem[i] /\ kind[j] = "owned" /\ mem[i][j] # "delivered"
          /\ j \in DOMAIN mem[k] /\ mem[k][j] # "delivered"
      BY DEF Pending, Owed
    <2> QED BY <2>1, <2>2 DEF IInv, DebtInv
  <1> QED BY <1>1, OneHolder DEF LockIntact

(* No completion counts as delivered before the log has it.                  *)
LEMMA NoticesKept ==
    ASSUME IInv PROVE NoticeKept
  BY DEF IInv, ToldInv, Told, NoticeKept
-----------------------------------------------------------------------------
(* Steps of a run that is up, and of its session.                            *)

(* The notice of j is in the log, or was seen there, after the step.         *)
ToldNext(j) == j \in peeked' \/ log'[j] = "synced"

(* Steps that leave the startup, the locks and where jobs are keep what is   *)
(* said of the locks, the scans and the jobs' homes.                         *)
LEMMA QuietSteps ==
    ASSUME IInv, UNCHANGED <<startup, locks, kind, home>>
    PROVE  /\ TypeStartup' /\ TypeLocks' /\ LockInv' /\ ScanInv'
           /\ \A j \in Job : LockIntact(j)' <=> LockIntact(j)
           /\ \A i \in Inst, d \in Inst \cup {Nobody} : Holds(i, d)' <=> Holds(i, d)
  <1>1. /\ boot' = boot /\ todo' = todo /\ scan' = scan /\ home' = home /\ kind' = kind
        /\ dirs' = dirs /\ lockFile' = lockFile /\ made' = made /\ held' = held
    BY DEF startup, locks
  <1>2. TypeStartup' /\ TypeLocks'
    BY <1>1 DEF IInv, TypeOK, TypeStartup, TypeLocks
  <1>3. LockInv'
    BY <1>1 DEF IInv, LockInv, Holds
  <1>4. ScanInv'
    BY <1>1 DEF IInv, ScanInv, ScanOf, Recovering
  <1> QED BY <1>1, <1>2, <1>3, <1>4 DEF LockIntact, Holds

(* A step on one job that run i knows: its registry keeps, forgets or        *)
(* settles the job, only the job's files are touched, what is told stays     *)
(* told, and what says that the job was told is true.                        *)
LEMMA WorkStep ==
    ASSUME IInv, NEW i \in Inst, NEW j \in DOMAIN mem[i],
           UNCHANGED <<startup, locks, kind, home>>, Touches(j),
           NEW s \in State, s # "running", s = "delivered" \/ mem[i][j] # "delivered",
           mem' = mem \/ Forgets(i, j) \/ Knows(i, j, s),
           removing' \in [Inst -> [job : Job \cup {"none"}, step : 0..5]],
           TypeSession', RemovingInv', \A x \in Job : Told(x) => ToldNext(x),
           kind[j] = "owned" => /\ s = "delivered" => ToldNext(j)
                                /\ file'[j].rec = "delivered" \/ file'[j].tomb => ToldNext(j)
                                /\ disk'[j].rec = "delivered" \/ disk'[j].tomb => ToldNext(j),
           LockIntact(j) /\ j \in DOMAIN mem'[i] /\ mem'[i][j] = "running"
               => file'[j].rec \in {"none", "running"},
           LockIntact(j) /\ Owed(j, file'[j].rec) /\ ~ToldNext(j)
               => disk'[j].rec \in {"settled", "delivered"}
    PROVE  IInv'
  <1>1. /\ boot' = boot /\ todo' = todo /\ scan' = scan /\ home' = home /\ kind' = kind
        /\ dirs' = dirs /\ lockFile' = lockFile /\ made' = made /\ held' = held
    BY DEF startup, locks
  <1>2. mem \in [Inst -> Registry] /\ j \in Job /\ boot[i] = "up" /\ home[j] \in Inst
    BY KnownFacts, Types DEF IInv
  <1>3. mem' \in [Inst -> Registry]
    BY <1>2 DEF Forgets, Knows
  <1>4. \A k \in Inst : /\ DOMAIN mem'[k] \subseteq DOMAIN mem[k]
                        /\ \A x \in DOMAIN mem'[k] : \/ mem'[k][x] = mem[k][x]
                                                     \/ k = i /\ x = j /\ mem'[k][x] = s
    BY <1>2 DEF Forgets, Knows
  <1>5. TypeOK'
    <2>1. TypeStore'
      BY <1>1, Types DEF IInv, TypeStore, Touches
    <2>2. TypeRegistry'
      BY <1>3 DEF TypeRegistry
    <2> QED BY <2>1, <2>2, QuietSteps DEF TypeOK
  <1>6. HomeInv'
    <2>1. \A x \in Job : home[x] = Nobody => file'[x] = NoFile /\ disk'[x] = NoFile
      BY <1>2, NobodyElse DEF IInv, HomeInv, Touches
    <2>2. \A k \in Inst : boot[k] # "up" => mem'[k] = Empty
      BY <1>2 DEF IInv, HomeInv, Forgets, Knows
    <2> QED BY <1>1, <2>1, <2>2 DEF IInv, HomeInv
  <1>7. KnownInv'
    <2> SUFFICES ASSUME NEW k \in Inst, NEW x \in DOMAIN mem'[k]
                 PROVE  /\ home[x] # Nobody /\ home[x] \notin todo[k] /\ x \notin scan[k].names
                        /\ scan[k].dir = home[x] => scan[k].step = "load"
                        /\ mem'[k][x] = "running" => home[x] = k
      BY <1>1 DEF KnownInv
    <2> QED BY <1>4 DEF IInv, KnownInv
  <1>8. DebtInv'
    <2> SUFFICES ASSUME NEW k \in Inst, NEW x \in DOMAIN mem'[k], kind[x] = "owned",
                        mem'[k][x] # "delivered"
                 PROVE  Holds(k, home[x]) /\ (scan[k].dir = home[x] => scan[k].pending)
      BY <1>1 DEF DebtInv, Holds
    <2>1. x \in DOMAIN mem[k] /\ mem[k][x] # "delivered"
      BY <1>4
    <2> QED BY <2>1 DEF IInv, DebtInv
  <1>9. LeftInv'
    <2> SUFFICES ASSUME NEW k \in Inst, scan[k].step = "load"
                 PROVE  \E kept \in SUBSET {x \in Job : home[x] # Nobody} :
                          \E outs \in SUBSET kept : LeftBy(k, kept, outs)'
      BY <1>1 DEF LeftInv
    <2>1. PICK kept \in SUBSET {x \in Job : home[x] # Nobody} :
            \E outs \in SUBSET kept : LeftBy(k, kept, outs)
      BY DEF IInv, LeftInv
    <2>2. PICK outs \in SUBSET kept : LeftBy(k, kept, outs)
      BY <2>1
    <2>3. {x \in scan[k].names : file'[x].out} \subseteq outs
      <3> SUFFICES ASSUME NEW x \in scan[k].names, file'[x].out PROVE x \in outs
        OBVIOUS
      <3>1. x \in Job
        BY <2>2 DEF LeftBy
      <3> QED BY <2>2, <3>1 DEF Touches, LeftBy
    <2>4. {x \in DOMAIN mem'[k] : home[x] = scan[k].dir} \subseteq kept
      BY <1>4, <2>2 DEF LeftBy
    <2>5. LeftBy(k, kept, outs)'
      BY <1>1, <2>2, <2>3, <2>4 DEF LeftBy
    <2> QED BY <2>5
  <1>10. ToldInv'
    <2> SUFFICES ASSUME NEW x \in Job, kind[x] = "owned"
                 PROVE  /\ file'[x].rec = "delivered" \/ file'[x].tomb => ToldNext(x)
                        /\ disk'[x].rec = "delivered" \/ disk'[x].tomb => ToldNext(x)
                        /\ \A k \in Inst : x \in DOMAIN mem'[k] /\ mem'[k][x] = "delivered"
                                           => ToldNext(x)
      BY <1>1 DEF ToldInv, Told, ToldNext
    <2>1. \A k \in Inst : x \in DOMAIN mem'[k] /\ mem'[k][x] = "delivered" => ToldNext(x)
      BY <1>4 DEF IInv, ToldInv
    <2>2. CASE x = j
      BY <2>1, <2>2
    <2>3. CASE x # j
      <3>1. file'[x] = file[x] /\ disk'[x] \in {disk[x], file[x]}
        BY <2>3 DEF Touches
      <3>2. /\ file[x].rec = "delivered" \/ file[x].tomb => ToldNext(x)
            /\ disk[x].rec = "delivered" \/ disk[x].tomb => ToldNext(x)
        BY DEF IInv, ToldInv
      <3> QED BY <2>1, <3>1, <3>2
    <2> QED BY <2>2, <2>3
  <1>11. OwnerInv'
    <2> SUFFICES ASSUME NEW x \in Job, LockIntact(x)
                 PROVE  /\ \A k \in Inst : x \in DOMAIN mem'[k] /\ home[x] # k
                                           => boot[home[x]] = "dead"
                        /\ \A k \in Inst : x \in DOMAIN mem'[k] /\ mem'[k][x] = "running"
                                           => file'[x].rec \in {"none", "running"}
                        /\ Owed(x, file'[x].rec) /\ ~ToldNext(x)
                             => disk'[x].rec \in {"settled", "delivered"}
      BY <1>1 DEF OwnerInv, Told, ToldNext, LockIntact, Owed
    <2>1. \A k \in Inst : x \in DOMAIN mem'[k] /\ home[x] # k => boot[home[x]] = "dead"
      BY <1>4 DEF IInv, OwnerInv
    <2>2. ASSUME NEW k \in Inst, x \in DOMAIN mem'[k], mem'[k][x] = "running"
          PROVE  file'[x].rec \in {"none", "running"}
      <3>1. x \in DOMAIN mem[k] /\ mem[k][x] = "running"
        BY <1>4, <2>2
      <3>2. CASE x = j
        BY <2>2, <3>1, <3>2, OneRunner
      <3>3. CASE x # j
        <4>1. file'[x] = file[x]
          BY <3>3 DEF Touches
        <4> QED BY <3>1, <4>1 DEF IInv, OwnerInv
      <3> QED BY <3>2, <3>3
    <2>3. ASSUME Owed(x, file'[x].rec), ~ToldNext(x)
          PROVE  disk'[x].rec \in {"settled", "delivered"}
      <3>1. CASE x = j
        BY <2>3, <3>1
      <3>2. CASE x # j
        <4>1. file'[x] = file[x] /\ disk'[x] \in {disk[x], file[x]}
          BY <3>2 DEF Touches
        <4>2. Owed(x, file[x].rec) /\ ~Told(x)
          BY <2>3, <4>1
        <4>3. disk[x].rec \in {"settled", "delivered"} /\ file[x].rec = "settled"
          BY <4>2 DEF IInv, OwnerInv, Owed
        <4> QED BY <4>1, <4>3
      <3> QED BY <3>1, <3>2
    <2> QED BY <2>1, <2>2, <2>3
  <1> QED BY <1>5, <1>6, <1>7, <1>8, <1>9, <1>10, <1>11, QuietSteps DEF IInv
(* A removal under way stays one of a job that may be removed, when the job  *)
(* that a run learns of or settles is another one.                           *)
LEMMA RemovingKept ==
    ASSUME IInv, NEW i \in Inst, NEW j \in Job, NEW s \in State, Knows(i, j, s),
           removing' = removing, Free(i) \/ removing[i].job # j,
           \A k \in Inst : \A x \in DOMAIN mem[k] : kind'[x] = kind[x]
    PROVE  RemovingInv'
  <1> SUFFICES ASSUME NEW k \in Inst, ~Free(k)
               PROVE  /\ removing[k].job \in DOMAIN mem'[k]
                      /\ mem'[k][removing[k].job] # "running"
                      /\ \/ mem'[k][removing[k].job] = "delivered"
                         \/ kind'[removing[k].job] # "owned"
    BY DEF RemovingInv, Free, Releasable
  <1>1. /\ removing[k].job \in DOMAIN mem[k]
        /\ mem[k][removing[k].job] # "running"
        /\ mem[k][removing[k].job] = "delivered" \/ kind'[removing[k].job] # "owned"
    BY DEF IInv, RemovingInv, Releasable
  <1>2. removing[k].job \in DOMAIN mem'[k]
        /\ mem'[k][removing[k].job] = mem[k][removing[k].job]
    BY <1>1 DEF Knows
  <1> QED BY <1>1, <1>2

(* Steps of the session alone.                                               *)
LEMMA SessionStep ==
    ASSUME IInv, UNCHANGED <<startup, locks, registry, store>>, TypeSession',
           \A x \in Job : Told(x) => ToldNext(x)
    PROVE  IInv'
  <1>1. /\ boot' = boot /\ todo' = todo /\ scan' = scan /\ home' = home /\ kind' = kind
        /\ dirs' = dirs /\ lockFile' = lockFile /\ made' = made /\ held' = held
        /\ mem' = mem /\ removing' = removing /\ file' = file /\ disk' = disk
    BY DEF startup, locks, registry, store
  <1>2. TypeRegistry' /\ TypeStore'
    BY <1>1 DEF IInv, TypeOK, TypeRegistry, TypeStore
  <1>3. HomeInv' /\ KnownInv' /\ DebtInv' /\ RemovingInv'
    BY <1>1 DEF IInv, HomeInv, KnownInv, DebtInv, RemovingInv, Holds, Free, Releasable
  <1>4. LeftInv'
    <2>1. ASSUME NEW k \in Inst, NEW kept, NEW outs, LeftBy(k, kept, outs)
          PROVE  LeftBy(k, kept, outs)'
      BY <1>1, <2>1 DEF LeftBy
    <2>2. ASSUME NEW k \in Inst, scan[k].step = "load"
          PROVE  \E kept \in SUBSET {x \in Job : home[x] # Nobody} :
                   \E outs \in SUBSET kept : LeftBy(k, kept, outs)'
      <3>1. PICK kept \in SUBSET {x \in Job : home[x] # Nobody} :
              \E outs \in SUBSET kept : LeftBy(k, kept, outs)
        BY <2>2 DEF IInv, LeftInv
      <3> QED BY <2>1, <3>1
    <2> QED BY <1>1, <2>2 DEF LeftInv
  <1>5. ToldInv'
    BY <1>1 DEF IInv, ToldInv, Told, ToldNext
  <1>6. OwnerInv'
    <2> SUFFICES ASSUME NEW x \in Job, LockIntact(x)
                 PROVE  /\ \A k \in Inst : x \in DOMAIN mem[k] /\ home[x] # k
                                           => boot[home[x]] = "dead"
                        /\ \A k \in Inst : x \in DOMAIN mem[k] /\ mem[k][x] = "running"
                                           => file[x].rec \in {"none", "running"}
                        /\ Owed(x, file[x].rec) /\ ~ToldNext(x)
                             => disk[x].rec \in {"settled", "delivered"}
      BY <1>1 DEF OwnerInv, Told, ToldNext, LockIntact, Owed
    <2> QED BY DEF IInv, OwnerInv
  <1> QED BY <1>1, <1>2, <1>3, <1>4, <1>5, <1>6, QuietSteps DEF IInv, TypeOK

(* Nothing happens.                                                          *)
LEMMA NothingHappens ==
    ASSUME IInv, UNCHANGED vars
    PROVE  IInv'
  <1>1. UNCHANGED <<startup, locks, registry, store>> /\ UNCHANGED session /\ UNCHANGED bounds
    BY DEF vars
  <1>2. TypeSession'
    BY <1>1, Types DEF IInv, TypeSession, session, bounds
  <1>3. \A x \in Job : Told(x) => ToldNext(x)
    BY <1>1 DEF Told, ToldNext, session
  <1> QED BY <1>1, <1>2, <1>3, SessionStep
-----------------------------------------------------------------------------
(* The session's actions.                                                    *)

(* A commit writes every line there is.                                      *)
LEMMA CommitFacts ==
    ASSUME TypeOK, NEW new
    PROVE  /\ Commit(new) \in [Job -> {"none", "written", "synced"}]
           /\ \A x \in Job : log[x] = "synced" => Commit(new)[x] = "synced"
  BY Types DEF Commit

(* The poller and turns of an idle or running session.                       *)
LEMMA SessionActions ==
    ASSUME IInv, NEW i \in Inst,
           \/ \E j \in Job : NotifyIdle(i, j) \/ NotifyRunning(i, j)
           \/ Turn(i) \/ BoundaryFails(i) \/ TurnBegins(i)
    PROVE  IInv'
  <1>1. /\ TypeOK
        /\ log \in [Job -> {"none", "written", "synced"}]
        /\ parked \in [Inst -> SUBSET Job] /\ pend \in [Inst -> SUBSET Job]
        /\ writer \in Inst \cup {Nobody} /\ peeked \subseteq Job
        /\ turns \in Nat /\ faults \in Nat
    BY Types DEF IInv
  <1>2. ASSUME NEW S
        PROVE  LET new == [x \in Job |-> IF x \in S /\ log[x] = "none" THEN "written" ELSE log[x]]
               IN  /\ new \in [Job -> {"none", "written", "synced"}]
                   /\ \A x \in Job : log[x] = "synced" => new[x] = "synced"
    BY <1>1
  <1>3. ASSUME NEW j \in Job, NotifyIdle(i, j) PROVE IInv'
    <2>1. UNCHANGED <<startup, locks, registry, store>> /\ UNCHANGED <<parked, peeked, turns>>
      BY <1>3 DEF NotifyIdle
    <2>2. /\ pend' \in [Inst -> SUBSET Job] /\ writer' \in Inst \cup {Nobody}
          /\ log' = log \/ log' = Commit({j})
          /\ faults' \in Nat
      BY <1>1, <1>3 DEF NotifyIdle
    <2>3. TypeSession' /\ \A x \in Job : Told(x) => ToldNext(x)
      BY <1>1, <2>1, <2>2, CommitFacts DEF TypeSession, Told, ToldNext
    <2> QED BY <2>1, <2>3, SessionStep
  <1>4. ASSUME NEW j \in Job, NotifyRunning(i, j) PROVE IInv'
    <2>1. /\ UNCHANGED <<startup, locks, registry, store>>
          /\ UNCHANGED <<log, writer, peeked, turns, faults>>
      BY <1>4 DEF NotifyRunning, bounds
    <2>2. pend' \in [Inst -> SUBSET Job] /\ parked' \in [Inst -> SUBSET Job]
      BY <1>1, <1>4 DEF NotifyRunning
    <2>3. TypeSession' /\ \A x \in Job : Told(x) => ToldNext(x)
      BY <1>1, <2>1, <2>2 DEF TypeSession, Told, ToldNext
    <2> QED BY <2>1, <2>3, SessionStep
  <1>5. CASE Boundary(i)
    <2>1. /\ UNCHANGED <<startup, locks, registry, store>>
          /\ UNCHANGED <<pend, writer, peeked, turns, faults>>
      BY <1>5 DEF Boundary, bounds
    <2>2. /\ parked' \in [Inst -> SUBSET Job]
          /\ log' \in [Job -> {"none", "written", "synced"}]
          /\ \A x \in Job : log[x] = "synced" => log'[x] = "synced"
      BY <1>1, <1>2, <1>5 DEF Boundary
    <2>3. TypeSession' /\ \A x \in Job : Told(x) => ToldNext(x)
      BY <1>1, <2>1, <2>2 DEF TypeSession, Told, ToldNext
    <2> QED BY <2>1, <2>3, SessionStep
  <1>6. CASE BoundarySynced(i)
    <2>1. /\ UNCHANGED <<startup, locks, registry, store>>
          /\ UNCHANGED <<pend, parked, writer, peeked, turns, faults>> /\ log' = Commit({})
      BY <1>6 DEF BoundarySynced, bounds
    <2>2. TypeSession' /\ \A x \in Job : Told(x) => ToldNext(x)
      BY <1>1, <2>1, CommitFacts DEF TypeSession, Told, ToldNext
    <2> QED BY <2>1, <2>2, SessionStep
  <1>7. CASE BoundaryFails(i)
    <2>1. /\ UNCHANGED <<startup, locks, registry, store>>
          /\ UNCHANGED <<parked, pend, peeked, turns>>
          /\ writer' = Nobody /\ faults' = faults + 1
          /\ log' = [x \in Job |-> IF x \in Unsynced THEN "none" ELSE log[x]]
      BY <1>7 DEF BoundaryFails
    <2>2. /\ log' \in [Job -> {"none", "written", "synced"}]
          /\ \A x \in Job : log[x] = "synced" => log'[x] = "synced"
      BY <1>1, <2>1 DEF Unsynced
    <2>3. TypeSession' /\ \A x \in Job : Told(x) => ToldNext(x)
      BY <1>1, <2>1, <2>2 DEF TypeSession, Told, ToldNext
    <2> QED BY <2>1, <2>3, SessionStep
  <1>8. CASE TurnBegins(i)
    <2>1. /\ UNCHANGED <<startup, locks, registry, store>>
          /\ UNCHANGED <<parked, pend, peeked, faults>>
          /\ writer' = i /\ turns' = turns + 1 /\ log' = Commit({})
      BY <1>8 DEF TurnBegins
    <2>2. TypeSession' /\ \A x \in Job : Told(x) => ToldNext(x)
      BY <1>1, <2>1, CommitFacts DEF TypeSession, Told, ToldNext
    <2> QED BY <2>1, <2>2, SessionStep
  <1>9. CASE TurnEnds(i)
    <2>1. /\ UNCHANGED <<startup, locks, registry, store>>
          /\ UNCHANGED <<log, parked, pend, peeked, turns, faults>> /\ writer' = Nobody
      BY <1>9 DEF TurnEnds, bounds
    <2>2. TypeSession' /\ \A x \in Job : Told(x) => ToldNext(x)
      BY <1>1, <2>1 DEF TypeSession, Told, ToldNext
    <2> QED BY <2>1, <2>2, SessionStep
  <1> QED BY <1>3, <1>4, <1>5, <1>6, <1>7, <1>8, <1>9 DEF Turn
-----------------------------------------------------------------------------
(* The work of a run: jobs settle, are read, acknowledged and removed.       *)

(* The types of what the work leaves alone.                                  *)
LEMMA SessionKept ==
    ASSUME IInv, UNCHANGED session, turns' = turns, faults' \in Nat
    PROVE  TypeSession' /\ \A x \in Job : Told(x) => ToldNext(x)
  BY Types DEF IInv, TypeSession, session, Told, ToldNext

(* A job of its own settles.                                                 *)
LEMMA SettleJobStep ==
    ASSUME IInv, NEW i \in Inst, NEW j \in Job, SettleJob(i, j)
    PROVE  IInv'
  <1> DEFINE s == IF kind[j] = "capture" THEN "delivered" ELSE "settled"
  <1>1. /\ j \in DOMAIN mem[i] /\ mem[i][j] = "running" /\ mem' = [mem EXCEPT ![i][j] = s]
        /\ Persist(j, s) /\ UNCHANGED <<startup, locks, removing, kind, home, session, bounds>>
    BY DEF SettleJob
  <1>2. /\ s \in State /\ s # "running" /\ home[j] = i /\ TypeRegistry /\ TypeStore
        /\ faults \in Nat
    BY <1>1, KnownFacts, Types DEF State, IInv, TypeOK
  <1> HIDE DEF s
  <1>3. Knows(i, j, s)
    BY <1>1, <1>2, RegistryChanges
  <1>4. /\ Writes(j, s)
        /\ kind[j] # "capture" => \/ file' = file /\ disk' = disk
                                  \/ disk'[j] = file'[j] /\ file'[j].rec = s
    BY <1>1, <1>2, PersistFacts
  <1>5. TypeSession' /\ \A x \in Job : Told(x) => ToldNext(x)
    BY <1>1, <1>2, SessionKept DEF bounds
  <1>6. RemovingInv'
    <2>1. Free(i) \/ removing[i].job # j
      BY <1>1 DEF IInv, RemovingInv
    <2> QED BY <1>1, <1>2, <1>3, <2>1, RemovingKept
  <1>7. removing' \in [Inst -> [job : Job \cup {"none"}, step : 0..5]]
    BY <1>1, Types DEF IInv
  <1>8. kind[j] = "owned" =>
          /\ s = "settled"
          /\ file'[j].rec = "delivered" \/ file'[j].tomb => ToldNext(j)
          /\ disk'[j].rec = "delivered" \/ disk'[j].tomb => ToldNext(j)
    <2> SUFFICES ASSUME kind[j] = "owned" PROVE s = "settled"
          /\ (file'[j].rec = "delivered" \/ file'[j].tomb => ToldNext(j))
          /\ (disk'[j].rec = "delivered" \/ disk'[j].tomb => ToldNext(j))
      OBVIOUS
    <2>1. s = "settled"
      BY DEF s
    <2>2. file[j].rec = "delivered" \/ file[j].tomb \/ disk[j].rec = "delivered" \/ disk[j].tomb
          => ToldNext(j)
      BY <1>5 DEF IInv, ToldInv
    <2>3. /\ file'[j].tomb = file[j].tomb /\ file'[j].rec \in {file[j].rec, s}
          /\ disk'[j] \in {disk[j], file'[j]}
      BY <1>4 DEF Writes
    <2> QED BY <2>1, <2>2, <2>3
  <1>9. mem'[i][j] # "running"
    BY <1>2, <1>3 DEF Knows
  <1>10. LockIntact(j) /\ Owed(j, file'[j].rec) /\ ~ToldNext(j)
           => disk'[j].rec \in {"settled", "delivered"}
    <2>1. CASE file' = file /\ disk' = disk
      BY <1>5, <2>1 DEF IInv, OwnerInv
    <2>2. CASE disk'[j] = file'[j]
      BY <2>2 DEF Owed
    <2> QED BY <1>4, <2>1, <2>2 DEF Owed
  <1>11. Touches(j) /\ (s = "delivered" \/ mem[i][j] # "delivered")
    BY <1>1, <1>4, WritesTouches
  <1> QED BY <1>1, <1>2, <1>3, <1>5, <1>6, <1>7, <1>8, <1>9, <1>10, <1>11, WorkStep, ZenonT(60)

(* A job is read, and its record stored again.                               *)
LEMMA ReadJobStep ==
    ASSUME IInv, NEW i \in Inst, NEW j \in Job, ReadJob(i, j)
    PROVE  IInv'
  <1> DEFINE s == IF mem[i][j] = "running" THEN "settled" ELSE mem[i][j]
  <1>1. /\ j \in DOMAIN mem[i] /\ Persist(j, mem[i][j])
        /\ mem' = mem /\ removing' = removing
        /\ UNCHANGED <<startup, locks, kind, home, session, bounds>>
    BY DEF ReadJob, registry
  <1>2. /\ mem[i][j] \in State /\ s \in State /\ s # "running"
        /\ s = "delivered" \/ mem[i][j] # "delivered"
        /\ s = "delivered" => mem[i][j] = "delivered"
        /\ TypeStore /\ faults \in Nat
    BY <1>1, KnownFacts, Types DEF State, IInv, TypeOK
  <1> HIDE DEF s
  <1>3. /\ Writes(j, mem[i][j])
        /\ kind[j] # "capture" /\ mem[i][j] # "running" =>
              \/ file' = file /\ disk' = disk
              \/ disk'[j] = file'[j] /\ file'[j].rec = mem[i][j]
    BY <1>1, <1>2, PersistFacts
  <1>4. TypeSession' /\ \A x \in Job : Told(x) => ToldNext(x)
    BY <1>1, <1>2, SessionKept DEF bounds
  <1>5. RemovingInv'
    BY <1>1 DEF IInv, RemovingInv, Free, Releasable
  <1>6. removing' \in [Inst -> [job : Job \cup {"none"}, step : 0..5]]
    BY <1>1, Types DEF IInv
  <1>7. /\ file'[j].tomb = file[j].tomb /\ file'[j].rec \in {file[j].rec, mem[i][j]}
        /\ disk'[j] \in {disk[j], file'[j]}
    BY <1>3 DEF Writes
  <1>8. kind[j] = "owned" =>
          /\ s = "delivered" => ToldNext(j)
          /\ file'[j].rec = "delivered" \/ file'[j].tomb => ToldNext(j)
          /\ disk'[j].rec = "delivered" \/ disk'[j].tomb => ToldNext(j)
    <2>1. kind[j] = "owned" =>
            /\ file[j].rec = "delivered" \/ file[j].tomb => ToldNext(j)
            /\ disk[j].rec = "delivered" \/ disk[j].tomb => ToldNext(j)
            /\ mem[i][j] = "delivered" => ToldNext(j)
      BY <1>1, <1>4 DEF IInv, ToldInv
    <2> QED BY <1>2, <1>7, <2>1
  <1>9. LockIntact(j) /\ mem'[i][j] = "running" => file'[j].rec \in {"none", "running"}
    <2>1. LockIntact(j) /\ mem[i][j] = "running" => file[j].rec \in {"none", "running"}
      BY <1>1 DEF IInv, OwnerInv
    <2> QED BY <1>1, <1>7, <2>1
  <1>10. LockIntact(j) /\ Owed(j, file'[j].rec) /\ ~ToldNext(j)
           => disk'[j].rec \in {"settled", "delivered"}
    <2>1. CASE file'[j].rec = file[j].rec
      <3>1. LockIntact(j) /\ Owed(j, file'[j].rec) /\ ~ToldNext(j)
              => disk[j].rec \in {"settled", "delivered"}
        BY <1>4, <2>1 DEF IInv, OwnerInv
      <3> QED BY <1>7, <3>1 DEF Owed
    <2>2. CASE file'[j].rec # file[j].rec /\ Owed(j, file'[j].rec)
      <3>1. disk'[j] = file'[j]
        BY <1>3, <1>7, <2>2 DEF Owed
      <3> QED BY <2>2, <3>1 DEF Owed
    <2> QED BY <2>1, <2>2
  <1>11. Touches(j)
    BY <1>3, WritesTouches
  <1> QED BY <1>1, <1>2, <1>4, <1>5, <1>6, <1>8, <1>9, <1>10, <1>11, WorkStep, ZenonT(60)

(* A job is picked for removal.                                              *)
LEMMA RemovePicked ==
    ASSUME IInv, NEW i \in Inst, NEW j \in Job, Remove(i, j)
    PROVE  IInv'
  <1>1. /\ j \in DOMAIN mem[i] /\ mem[i][j] # "running" /\ Releasable(j, mem[i][j])
        /\ removing' = [removing EXCEPT ![i] = [job |-> j, step |-> 1]]
        /\ mem' = mem /\ file' = file /\ disk' = disk
        /\ UNCHANGED <<startup, locks, kind, home, session, bounds>>
    BY DEF Remove, store
  <1>2. /\ mem[i][j] \in State /\ faults \in Nat /\ file \in [Job -> Files]
        /\ disk \in [Job -> Files]
        /\ removing \in [Inst -> [job : Job \cup {"none"}, step : 0..5]]
    BY <1>1, KnownFacts, Types DEF IInv
  <1>3. /\ removing' \in [Inst -> [job : Job \cup {"none"}, step : 0..5]]
        /\ removing'[i].job = j /\ \A k \in Inst : k # i => removing'[k] = removing[k]
    BY <1>1, <1>2
  <1>4. RemovingInv'
    BY <1>1, <1>3 DEF IInv, RemovingInv, Free, Releasable
  <1>5. TypeSession' /\ \A x \in Job : Told(x) => ToldNext(x)
    BY <1>1, <1>2, SessionKept DEF bounds
  <1>6. Touches(j)
    BY <1>1, <1>2 DEF Touches
  <1>7. kind[j] = "owned" =>
          /\ mem[i][j] = "delivered" => ToldNext(j)
          /\ file'[j].rec = "delivered" \/ file'[j].tomb => ToldNext(j)
          /\ disk'[j].rec = "delivered" \/ disk'[j].tomb => ToldNext(j)
    BY <1>1, <1>5 DEF IInv, ToldInv
  <1>8. LockIntact(j) /\ Owed(j, file'[j].rec) /\ ~ToldNext(j)
           => disk'[j].rec \in {"settled", "delivered"}
    BY <1>1, <1>5 DEF IInv, OwnerInv
  <1> DEFINE s == mem[i][j]
  <1>9. /\ s \in State /\ s # "running" /\ (s = "delivered" \/ mem[i][j] # "delivered")
        /\ s = "delivered" => mem[i][j] = "delivered"
        /\ mem'[i][j] # "running"
    BY <1>1, <1>2
  <1>10. UNCHANGED <<startup, locks, kind, home>>
    BY <1>1
  <1> HIDE DEF s
  <1> QED BY <1>1, <1>3, <1>4, <1>5, <1>6, <1>7, <1>8, <1>9, <1>10, WorkStep, ZenonT(60)
(* A removal goes on or fails: its job is one that was told.                 *)
LEMMA RemovalSteps ==
    ASSUME IInv, NEW i \in Inst, RemoveStep(i) \/ RemoveFails(i)
    PROVE  IInv'
  <1> DEFINE j == removing[i].job
             s == mem[i][j]
  <1>1. /\ UNCHANGED <<startup, locks, kind, home>> /\ UNCHANGED session
        /\ turns' = turns /\ faults' \in Nat /\ ~Free(i)
    <2>1. faults \in Nat
      BY Types DEF IInv
    <2>2. CASE RemoveStep(i)
      BY <2>1, <2>2 DEF RemoveStep, bounds
    <2>3. CASE RemoveFails(i)
      BY <2>1, <2>3 DEF RemoveFails
    <2> QED BY <2>2, <2>3
  <1>2. /\ j \in DOMAIN mem[i] /\ s # "running" /\ Releasable(j, s)
    BY <1>1 DEF IInv, RemovingInv
  <1>3. s \in State /\ (s = "delivered" \/ mem[i][j] # "delivered")
    BY <1>2, KnownFacts
  <1>4. /\ Touches(j)
        /\ mem' = mem \/ Forgets(i, j)
        /\ removing' \in [Inst -> [job : Job \cup {"none"}, step : 0..5]]
        /\ \A k \in Inst : k # i => removing'[k] = removing[k]
        /\ \/ removing'[i] = NoRemoval
           \/ mem' = mem /\ removing'[i].job = j
    BY RemovalFacts
  <1>5. TypeSession' /\ \A x \in Job : Told(x) => ToldNext(x)
    BY <1>1, SessionKept
  <1> HIDE DEF j
  <1>6. kind[j] = "owned" => ToldNext(j)
    <2>1. kind[j] = "owned" => Told(j)
      BY <1>2, <1>3, KnownFacts DEF IInv, ToldInv, Releasable
    <2>2. j \in Job
      BY <1>2, KnownFacts
    <2> QED BY <1>5, <2>1, <2>2
  <1>7. \A k \in Inst : k # i => mem'[k] = mem[k]
    BY <1>4 DEF Forgets
  <1>8. RemovingInv'
    <2> SUFFICES ASSUME NEW k \in Inst, removing'[k] # NoRemoval
                 PROVE  /\ removing'[k].job \in DOMAIN mem'[k]
                        /\ mem'[k][removing'[k].job] # "running"
                        /\ \/ mem'[k][removing'[k].job] = "delivered"
                           \/ kind[removing'[k].job] # "owned"
      BY <1>1 DEF RemovingInv, Free, Releasable
    <2>1. CASE k = i
      BY <1>2, <1>4, <2>1 DEF Releasable
    <2>2. CASE k # i
      <3>1. removing'[k] = removing[k] /\ mem'[k] = mem[k]
        BY <1>4, <1>7, <2>2
      <3> QED BY <3>1 DEF IInv, RemovingInv, Free, Releasable
    <2> QED BY <2>1, <2>2
  <1>9. j \in DOMAIN mem'[i] => mem'[i][j] # "running"
    BY <1>2, <1>4 DEF Forgets
  <1>10. Owed(j, file'[j].rec) /\ ~ToldNext(j) => disk'[j].rec \in {"settled", "delivered"}
    BY <1>6 DEF Owed
  <1> HIDE DEF s
  <1> QED BY <1>1, <1>2, <1>3, <1>4, <1>5, <1>6, <1>8, <1>9, <1>10, WorkStep, ZenonT(60)

(* The poller finds the notice of a job in the log.                          *)
LEMMA AcknowledgeStep ==
    ASSUME IInv, NEW i \in Inst, NEW j \in Job, Acknowledge(i, j)
    PROVE  IInv'
  <1>1. /\ Free(i) /\ j \in DOMAIN mem[i] /\ mem[i][j] = "settled" /\ log[j] # "none"
        /\ mem' = [mem EXCEPT ![i][j] = "delivered"]
        /\ peeked' = IF log[j] = "written" THEN peeked \cup {j} ELSE peeked
        /\ removing' = removing /\ log' = log
        /\ UNCHANGED <<startup, locks, kind, home>>
        /\ UNCHANGED <<parked, pend, writer, turns>>
    BY DEF Acknowledge, Pending, Owed
  <1>2. /\ "delivered" \in State /\ TypeRegistry /\ TypeStore /\ faults \in Nat
        /\ log \in [Job -> {"none", "written", "synced"}] /\ peeked \subseteq Job
    BY Types DEF State, IInv, TypeOK
  <1>3. Knows(i, j, "delivered")
    BY <1>1, <1>2, RegistryChanges
  <1>4. Writes(j, "delivered") /\ faults' \in Nat
    <2>1. CASE Persist(j, "delivered") /\ UNCHANGED faults
      BY <1>2, <2>1, PersistFacts
    <2>2. CASE faults < MaxFaults /\ faults' = faults + 1 /\ UNCHANGED <<file, disk>>
      BY <1>2, <2>2 DEF Writes, TypeStore
    <2> QED BY <2>1, <2>2 DEF Acknowledge
  <1>5. TypeSession' /\ \A x \in Job : Told(x) => ToldNext(x)
    BY <1>1, <1>2, <1>4, Types DEF IInv, TypeSession, Told, ToldNext
  <1>6. ToldNext(j)
    BY <1>1, <1>2 DEF ToldNext
  <1>7. RemovingInv'
    BY <1>1, <1>2, <1>3, RemovingKept
  <1>8. removing' \in [Inst -> [job : Job \cup {"none"}, step : 0..5]]
    BY <1>1, Types DEF IInv
  <1>9. Touches(j)
    BY <1>4, WritesTouches
  <1>10. mem'[i][j] # "running"
    BY <1>3 DEF Knows
  <1> QED BY <1>1, <1>2, <1>3, <1>5, <1>6, <1>7, <1>8, <1>9, <1>10, WorkStep, ZenonT(60)
(* A job starts in the directory of its run: nobody knew of it before.       *)
LEMMA StartJobStep ==
    ASSUME IInv, NEW i \in Inst, NEW j \in Job, NEW k \in Kinds, StartJob(i, j, k)
    PROVE  IInv'
  <1>1. /\ boot[i] = "up" /\ Free(i) /\ home[j] = Nobody
        /\ home' = [home EXCEPT ![j] = i] /\ kind' = [kind EXCEPT ![j] = k]
        /\ mem' = [mem EXCEPT ![i] = With(@, j, "running")]
        /\ boot' = boot /\ todo' = todo /\ scan' = scan
        /\ dirs' = dirs /\ lockFile' = lockFile /\ made' = made /\ held' = held
        /\ removing' = removing /\ disk' = disk
        /\ UNCHANGED <<session, bounds>>
    BY DEF StartJob, startup, locks
  <1>2. /\ "running" \in State /\ TypeRegistry /\ faults \in Nat /\ turns \in Nat
        /\ mem \in [Inst -> Registry] /\ file \in [Job -> Files] /\ disk \in [Job -> Files]
        /\ kind \in [Job -> Kind \cup {"none"}] /\ home \in [Job -> Inst \cup {Nobody}]
        /\ held \subseteq Inst \X Inst \X Nat /\ made \in [Inst -> Nat] /\ k \in Kind
    BY Types, KindsKnown DEF State, IInv, TypeOK
  <1>3. Knows(i, j, "running")
    BY <1>1, <1>2, RegistryChanges
  <1>4. /\ home' \in [Job -> Inst \cup {Nobody}] /\ kind' \in [Job -> Kind \cup {"none"}]
        /\ home'[j] = i /\ \A x \in Job : x # j => home'[x] = home[x] /\ kind'[x] = kind[x]
    BY <1>1, <1>2
  <1>5. \A l \in Inst : \A x \in DOMAIN mem[l] : x \in Job /\ x # j /\ home[x] \in Inst
    BY <1>1, KnownFacts, NobodyElse
  <1>6. /\ \A l \in Inst : l # i => mem'[l] = mem[l]
        /\ DOMAIN mem'[i] = DOMAIN mem[i] \cup {j} /\ mem'[i][j] = "running"
        /\ \A l \in Inst : \A x \in DOMAIN mem'[l] :
              x # j => x \in DOMAIN mem[l] /\ mem'[l][x] = mem[l][x]
        /\ \A l \in Inst : j \in DOMAIN mem'[l] => l = i
    BY <1>3, <1>5 DEF Knows
  <1>7. /\ file' \in [Job -> Files] /\ \A x \in Job : x # j => file'[x] = file[x]
        /\ file'[j].rec \in {"none", "running"} /\ ~file'[j].tomb
    <2>1. file[j] = NoFile
      BY <1>1 DEF IInv, HomeInv
    <2>2. CASE i \notin dirs
      BY <1>2, <2>1, <2>2 DEF StartJob, NoFile
    <2>3. CASE i \in dirs
      <3>1. PICK f : f = [rec |-> IF k = "capture" THEN "none" ELSE "running",
                          tomb |-> FALSE, out |-> TRUE]
        OBVIOUS
      <3>2. f \in Files /\ f.rec \in {"none", "running"} /\ ~f.tomb
        BY <3>1 DEF Files, State
      <3>3. file' = [file EXCEPT ![j] = f]
        BY <2>3, <3>1 DEF StartJob
      <3> QED BY <1>2, <3>2, <3>3
    <2> QED BY <2>2, <2>3
  <1>8. disk[j] = NoFile /\ NoFile.rec = "none" /\ ~NoFile.tomb
    BY <1>1 DEF IInv, HomeInv, NoFile
  <1>9. /\ \A l \in Inst : boot[l] = "up" => Holds(l, l)
        /\ i \notin todo[i] /\ scan[i].dir # i /\ 1 <= made[i]
    <2>1. Holds(i, i)
      BY <1>1, HeldFacts
    <2>2. PICK g \in 1..made[i] : TRUE
      BY <2>1, HeldFacts
    <2>3. 1 <= made[i]
      BY <1>2, <2>2
    <2> QED BY <2>3, HeldFacts DEF IInv, ScanInv, ScanOf
  <1>10. \A l \in Inst : j \notin scan[l].names
    <2> SUFFICES ASSUME NEW l \in Inst, j \in scan[l].names PROVE FALSE
      OBVIOUS
    <2>0. NoScan.names = {}
      BY DEF NoScan
    <2>1. scan[l].dir = Nobody /\ scan[l] # NoScan
      BY <1>1, <2>0 DEF IInv, ScanInv, ScanOf
    <2>2. boot[l] = "created" \/ scan[l].dir \in Inst
      BY <2>1 DEF IInv, ScanInv, ScanOf
    <2> QED BY <2>1, <2>2, NobodyElse DEF IInv, ScanInv, ScanOf
  <1>11. TypeOK'
    <2>1. TypeStartup' /\ TypeLocks'
      BY <1>1 DEF IInv, TypeOK, TypeStartup, TypeLocks
    <2>2. TypeRegistry'
      BY <1>1, <1>3 DEF IInv, TypeOK, TypeRegistry, Knows
    <2>3. TypeStore'
      BY <1>1, <1>2, <1>4, <1>7 DEF TypeStore
    <2>4. TypeSession'
      BY <1>1, <1>2, SessionKept DEF bounds
    <2> QED BY <2>1, <2>2, <2>3, <2>4 DEF TypeOK
  <1>12. LockInv' /\ ScanInv'
    <2>1. LockInv'
      BY <1>1 DEF IInv, LockInv, Holds
    <2>2. \A l \in Inst : \A x \in scan[l].names : home'[x] = scan[l].dir
      <3> SUFFICES ASSUME NEW l \in Inst, NEW x \in scan[l].names PROVE home'[x] = scan[l].dir
        OBVIOUS
      <3>1. x \in Job
        BY Types DEF IInv, Scan
      <3>2. home[x] = scan[l].dir
        BY DEF IInv, ScanInv, ScanOf
      <3>3. x # j
        BY <1>10
      <3> QED BY <1>4, <3>1, <3>2, <3>3
    <2> QED BY <1>1, <2>1, <2>2 DEF IInv, ScanInv, ScanOf, Recovering
  <1>13. HomeInv'
    <2>1. IsFiniteSet({x \in Job : home'[x] # Nobody})
      <3>1. {x \in Job : home'[x] # Nobody} \subseteq {x \in Job : home[x] # Nobody} \cup {j}
        BY <1>4
      <3>2. IsFiniteSet({x \in Job : home[x] # Nobody} \cup {j})
        BY FS_AddElement DEF IInv, HomeInv
      <3> QED BY <3>1, <3>2, FS_Subset
    <2>2. \A x \in Job : home'[x] = Nobody => /\ kind'[x] = "none"
                                              /\ file'[x] = NoFile /\ disk[x] = NoFile
      BY <1>4, <1>7, NobodyElse DEF IInv, HomeInv
    <2>3. \A x \in Job : home'[x] # Nobody =>
                            boot[home'[x]] \in {"up", "dead"} /\ 1 <= made[home'[x]]
      BY <1>1, <1>4, <1>9 DEF IInv, HomeInv
    <2>4. \A l \in Inst : boot[l] # "up" => mem'[l] = Empty
      BY <1>1, <1>6 DEF IInv, HomeInv
    <2> QED BY <1>1, <2>1, <2>2, <2>3, <2>4 DEF HomeInv
  <1>14. KnownInv'
    <2> SUFFICES ASSUME NEW l \in Inst, NEW x \in DOMAIN mem'[l]
                 PROVE  /\ home'[x] # Nobody /\ home'[x] \notin todo[l]
                        /\ x \notin scan[l].names
                        /\ scan[l].dir = home'[x] => scan[l].step = "load"
                        /\ mem'[l][x] = "running" => home'[x] = l
      BY <1>1 DEF KnownInv
    <2>1. CASE x = j
      BY <1>4, <1>6, <1>9, <1>10, <2>1, NobodyElse
    <2>2. CASE x # j
      <3>1. x \in DOMAIN mem[l] /\ mem'[l][x] = mem[l][x] /\ home'[x] = home[x]
        BY <1>4, <1>5, <1>6, <2>2
      <3> QED BY <3>1 DEF IInv, KnownInv
    <2> QED BY <2>1, <2>2
  <1>15. DebtInv'
    <2> SUFFICES ASSUME NEW l \in Inst, NEW x \in DOMAIN mem'[l], kind'[x] = "owned",
                        mem'[l][x] # "delivered"
                 PROVE  Holds(l, home'[x]) /\ (scan[l].dir = home'[x] => scan[l].pending)
      BY <1>1 DEF DebtInv, Holds
    <2>1. CASE x = j
      BY <1>1, <1>4, <1>6, <1>9, <2>1
    <2>2. CASE x # j
      <3>1. /\ x \in DOMAIN mem[l] /\ mem'[l][x] = mem[l][x]
            /\ home'[x] = home[x] /\ kind'[x] = kind[x]
        BY <1>4, <1>5, <1>6, <2>2
      <3> QED BY <3>1 DEF IInv, DebtInv
    <2> QED BY <2>1, <2>2
  <1>16. LeftInv'
    <2> SUFFICES ASSUME NEW l \in Inst, scan[l].step = "load"
                 PROVE  \E kept \in SUBSET {x \in Job : home'[x] # Nobody} :
                          \E outs \in SUBSET kept : LeftBy(l, kept, outs)'
      BY <1>1 DEF LeftInv
    <2>1. PICK kept \in SUBSET {x \in Job : home[x] # Nobody} :
            \E outs \in SUBSET kept : LeftBy(l, kept, outs)
      BY DEF IInv, LeftInv
    <2>2. PICK outs \in SUBSET kept : LeftBy(l, kept, outs)
      BY <2>1
    <2>3. kept \in SUBSET {x \in Job : home'[x] # Nobody}
      BY <1>4, <2>1, NobodyElse
    <2>4. {x \in scan[l].names : file'[x].out} \subseteq outs
      <3> SUFFICES ASSUME NEW x \in scan[l].names, file'[x].out PROVE x \in outs
        OBVIOUS
      <3>1. x \in Job
        BY <2>2 DEF LeftBy
      <3> QED BY <1>7, <1>10, <2>2, <3>1 DEF LeftBy
    <2>5. {x \in DOMAIN mem'[l] : home'[x] = scan[l].dir} \subseteq kept
      <3> SUFFICES ASSUME NEW x \in DOMAIN mem'[l], home'[x] = scan[l].dir PROVE x \in kept
        OBVIOUS
      <3>1. x # j
        BY <1>4, <1>6, <1>9
      <3>2. x \in DOMAIN mem[l] /\ home[x] = scan[l].dir
        BY <1>4, <1>5, <1>6, <3>1
      <3> QED BY <2>2, <3>2 DEF LeftBy
    <2>6. LeftBy(l, kept, outs)'
      BY <1>1, <2>2, <2>4, <2>5 DEF LeftBy
    <2> QED BY <2>3, <2>6
  <1>17. RemovingInv'
    BY <1>1, <1>2, <1>3, <1>4, <1>5, RemovingKept
  <1>18. ToldInv'
    <2>1. \A x \in Job : ToldNext(x) <=> Told(x)
      BY <1>1 DEF Told, ToldNext, session
    <2> SUFFICES ASSUME NEW x \in Job, kind'[x] = "owned"
                 PROVE  /\ file'[x].rec = "delivered" \/ file'[x].tomb => ToldNext(x)
                        /\ disk[x].rec = "delivered" \/ disk[x].tomb => ToldNext(x)
                        /\ \A l \in Inst : x \in DOMAIN mem'[l] /\ mem'[l][x] = "delivered"
                                           => ToldNext(x)
      BY <1>1 DEF ToldInv, Told, ToldNext
    <2>2. CASE x = j
      BY <1>6, <1>7, <1>8, <2>2
    <2>3. CASE x # j
      BY <1>4, <1>6, <1>7, <2>1, <2>3 DEF IInv, ToldInv
    <2> QED BY <2>2, <2>3
  <1>19. OwnerInv'
    <2>1. \A x \in Job : ToldNext(x) <=> Told(x)
      BY <1>1 DEF Told, ToldNext, session
    <2> SUFFICES ASSUME NEW x \in Job, LockIntact(x)'
                 PROVE  /\ \A l \in Inst : x \in DOMAIN mem'[l] /\ home'[x] # l
                                           => boot[home'[x]] = "dead"
                        /\ \A l \in Inst : x \in DOMAIN mem'[l] /\ mem'[l][x] = "running"
                                           => file'[x].rec \in {"none", "running"}
                        /\ kind'[x] = "owned" /\ file'[x].rec = "settled" /\ ~ToldNext(x)
                             => disk[x].rec \in {"settled", "delivered"}
      BY <1>1 DEF OwnerInv, Told, ToldNext, Owed
    <2>2. CASE x = j
      BY <1>4, <1>6, <1>7, <2>2
    <2>3. CASE x # j
      <3>1. home'[x] = home[x] /\ kind'[x] = kind[x] /\ file'[x] = file[x]
        BY <1>4, <1>7, <2>3
      <3>2. LockIntact(x)
        BY <1>1, <3>1 DEF LockIntact
      <3> QED BY <1>6, <2>1, <2>3, <3>1, <3>2 DEF IInv, OwnerInv, Owed
    <2> QED BY <2>2, <2>3
  <1> QED BY <1>11, <1>12, <1>13, <1>14, <1>15, <1>16, <1>17, <1>18, <1>19 DEF IInv
-----------------------------------------------------------------------------
(* Startup.                                                                  *)

(* No scan under way.                                                        *)
LEMMA NoScanFacts ==
    /\ NoScan \in Scan /\ NoScan.dir = Nobody /\ NoScan.step = "idle" /\ NoScan.names = {}
    /\ ~NoScan.pending
  BY DEF NoScan, Scan

(* The lock file that a starting run has opened.                             *)
LEMMA NoScanGen ==
    ASSUME NEW g \in Nat
    PROVE  LET s == [NoScan EXCEPT !.gen = g]
           IN  /\ s \in Scan /\ s.dir = Nobody /\ s.gen = g /\ s.step = "idle" /\ s.names = {}
  <1>1. PICK s : s = [NoScan EXCEPT !.gen = g]
    OBVIOUS
  <1>2. s = [dir |-> Nobody, gen |-> g, step |-> "idle", names |-> {}, left |-> 0,
             pending |-> FALSE]
    BY <1>1 DEF NoScan
  <1>3. s \in Scan
    BY <1>2 DEF Scan
  <1>4. s.dir = Nobody /\ s.gen = g /\ s.step = "idle" /\ s.names = {}
    BY <1>2
  <1> QED BY <1>1, <1>3, <1>4

(* The scan of a run that takes no part in a step.                           *)
LEMMA ScanKept ==
    ASSUME IInv, TypeLocks', home' = home, NEW k \in Inst,
           boot'[k] = boot[k], todo'[k] = todo[k], scan'[k] = scan[k],
           \A d \in Inst : made[d] <= made'[d],
           \A h \in held : h[1] = k => h \in held'
    PROVE  ScanOf(k)'
  <1>1. ScanOf(k)
    BY DEF IInv, ScanInv
  <1>2. ASSUME NEW d \in Inst, scan[k].gen \in 1..made[d] PROVE scan[k].gen \in 1..made'[d]
    <2>1. made[d] \in Nat /\ made'[d] \in Nat /\ made[d] <= made'[d]
      BY Types DEF IInv, TypeLocks
    <2> QED BY <1>2, <2>1
  <1>3. Recovering(k) => <<k, scan[k].dir, scan[k].gen>> \in held'
    BY <1>1 DEF ScanOf
  <1> QED BY <1>1, <1>2, <1>3 DEF ScanOf, Recovering

(* A step of run i on the locks and its own scan, that keeps what it says of *)
(* the jobs the run knows and of what is left in the directory it scans, and *)
(* takes no lock from another run.                                           *)
LEMMA LockStep ==
    ASSUME IInv, NEW i \in Inst, UNCHANGED <<registry, store, session, bounds>>,
           TypeStartup', TypeLocks', LockInv', ScanOf(i)',
           \A k \in Inst : k # i => /\ boot'[k] = boot[k] /\ todo'[k] = todo[k]
                                    /\ scan'[k] = scan[k],
           boot'[i] = boot[i] \/ boot[i] \notin {"up", "dead"},
           \A d \in Inst : made[d] <= made'[d],
           \A h \in held : h[1] # i => h \in held',
           \A x \in Job : LockIntact(x)' => LockIntact(x),
           \A j \in DOMAIN mem[i] :
               /\ home[j] \notin todo'[i] /\ j \notin scan'[i].names
               /\ scan'[i].dir = home[j] => scan'[i].step = "load"
               /\ kind[j] = "owned" /\ mem[i][j] # "delivered" =>
                     Holds(i, home[j])' /\ (scan'[i].dir = home[j] => scan'[i].pending),
           scan'[i].step = "load" =>
               \E kept \in SUBSET {x \in Job : home[x] # Nobody} :
                   \E outs \in SUBSET kept : LeftBy(i, kept, outs)'
    PROVE  IInv'
  <1>1. /\ mem' = mem /\ removing' = removing /\ file' = file /\ disk' = disk
        /\ kind' = kind /\ home' = home
    BY DEF registry, store
  <1>2. TypeOK'
    BY DEF IInv, TypeOK, TypeRegistry, TypeStore, TypeSession, registry, store, session, bounds
  <1>3. HomeInv'
    <2>1. \A j \in Job : home[j] # Nobody =>
             boot'[home[j]] \in {"up", "dead"} /\ 1 <= made'[home[j]]
      <3> SUFFICES ASSUME NEW j \in Job, home[j] # Nobody
                   PROVE  boot'[home[j]] \in {"up", "dead"} /\ 1 <= made'[home[j]]
        OBVIOUS
      <3>1. home[j] \in Inst /\ boot[home[j]] \in {"up", "dead"} /\ 1 <= made[home[j]]
        BY Types DEF IInv, HomeInv
      <3>2. boot'[home[j]] = boot[home[j]]
        BY <3>1
      <3>3. made[home[j]] \in Nat /\ made'[home[j]] \in Nat /\ made[home[j]] <= made'[home[j]]
        BY <3>1, Types DEF IInv, TypeLocks
      <3>4. 1 <= made'[home[j]]
        BY <3>1, <3>3
      <3> QED BY <3>1, <3>2, <3>4
    <2>2. \A k \in Inst : boot'[k] # "up" => mem[k] = Empty
      <3> SUFFICES ASSUME NEW k \in Inst, boot'[k] # "up" PROVE boot[k] # "up"
        BY DEF IInv, HomeInv
      <3> QED OBVIOUS
    <2> QED BY <1>1, <2>1, <2>2 DEF IInv, HomeInv
  <1>4. KnownInv'
    <2> SUFFICES ASSUME NEW k \in Inst, NEW x \in DOMAIN mem[k]
                 PROVE  /\ home[x] # Nobody /\ home[x] \notin todo'[k]
                        /\ x \notin scan'[k].names
                        /\ scan'[k].dir = home[x] => scan'[k].step = "load"
                        /\ mem[k][x] = "running" => home[x] = k
      BY <1>1 DEF KnownInv
    <2>1. /\ home[x] # Nobody /\ home[x] \notin todo[k] /\ x \notin scan[k].names
          /\ scan[k].dir = home[x] => scan[k].step = "load"
          /\ mem[k][x] = "running" => home[x] = k
      BY DEF IInv, KnownInv
    <2> QED BY <2>1
  <1>5. DebtInv'
    <2> SUFFICES ASSUME NEW k \in Inst, NEW x \in DOMAIN mem[k], kind[x] = "owned",
                        mem[k][x] # "delivered"
                 PROVE  Holds(k, home[x])' /\ (scan'[k].dir = home[x] => scan'[k].pending)
      BY <1>1 DEF DebtInv, Holds
    <2>1. Holds(k, home[x]) /\ (scan[k].dir = home[x] => scan[k].pending)
      BY DEF IInv, DebtInv
    <2>2. home[x] \in Inst
      BY KnownFacts
    <2>3. CASE k = i
      BY <2>3
    <2>4. CASE k # i
      <3>1. Holds(k, home[x])' /\ scan'[k] = scan[k]
        <4>1. PICK h \in held : h[1] = k /\ h[2] = home[x]
          BY <2>1 DEF Holds
        <4> QED BY <1>1, <2>4, <4>1 DEF Holds
      <3> QED BY <2>1, <3>1
    <2> QED BY <2>3, <2>4
  <1>6. LeftInv'
    <2> SUFFICES ASSUME NEW k \in Inst, scan'[k].step = "load"
                 PROVE  \E kept \in SUBSET {x \in Job : home[x] # Nobody} :
                          \E outs \in SUBSET kept : LeftBy(k, kept, outs)'
      BY <1>1 DEF LeftInv
    <2>1. CASE k = i
      BY <2>1
    <2>2. CASE k # i
      <3>1. scan'[k] = scan[k]
        BY <2>2
      <3>2. PICK kept \in SUBSET {x \in Job : home[x] # Nobody} :
              \E outs \in SUBSET kept : LeftBy(k, kept, outs)
        BY <3>1 DEF IInv, LeftInv
      <3>3. PICK outs \in SUBSET kept : LeftBy(k, kept, outs)
        BY <3>2
      <3>4. LeftBy(k, kept, outs)'
        BY <1>1, <3>1, <3>3 DEF LeftBy
      <3> QED BY <3>4
    <2> QED BY <2>1, <2>2
  <1>7. RemovingInv' /\ ToldInv'
    BY <1>1 DEF IInv, RemovingInv, ToldInv, Told, Free, Releasable, session
  <1>8. OwnerInv'
    <2> SUFFICES ASSUME NEW x \in Job, LockIntact(x)
                 PROVE  /\ \A k \in Inst : x \in DOMAIN mem[k] /\ home[x] # k
                                           => boot'[home[x]] = "dead"
                        /\ \A k \in Inst : x \in DOMAIN mem[k] /\ mem[k][x] = "running"
                                           => file[x].rec \in {"none", "running"}
                        /\ Owed(x, file[x].rec) /\ ~Told(x)
                             => disk[x].rec \in {"settled", "delivered"}
      BY <1>1 DEF OwnerInv, Told, Owed, session
    <2>1. \A k \in Inst : x \in DOMAIN mem[k] /\ home[x] # k => boot[home[x]] = "dead"
      BY DEF IInv, OwnerInv
    <2>2. \A k \in Inst : x \in DOMAIN mem[k] => home[x] \in Inst
      BY KnownFacts
    <2>3. \A k \in Inst : x \in DOMAIN mem[k] /\ home[x] # k => boot'[home[x]] = "dead"
      BY <2>1, <2>2
    <2> QED BY <2>3 DEF IInv, OwnerInv
  <1>9. ScanInv'
    <2> SUFFICES ASSUME NEW k \in Inst PROVE ScanOf(k)'
      BY DEF ScanInv
    <2>1. CASE k = i
      BY <2>1
    <2>2. CASE k # i
      BY <1>1, <2>2, ScanKept
    <2> QED BY <2>1, <2>2
  <1> QED BY <1>2, <1>3, <1>4, <1>5, <1>6, <1>7, <1>8, <1>9 DEF IInv

(* A run that is not up yet knows no job and has started none.               *)
LEMMA NewcomerFacts ==
    ASSUME IInv, NEW i \in Inst, boot[i] \notin {"up", "dead"}
    PROVE  DOMAIN mem[i] = {} /\ \A j \in Job : home[j] # i
  <1>1. DOMAIN mem[i] = {}
    BY KnownFacts
  <1>2. \A j \in Job : home[j] # i
    BY NobodyElse DEF IInv, HomeInv
  <1> QED BY <1>1, <1>2

(* A run of a startup lists the directories, makes its own, and its lock.    *)
LEMMA StartupSteps ==
    ASSUME IInv, NEW i \in Inst, Startup(i)
    PROVE  IInv'
  <1>1. /\ boot \in [Inst -> {"new", "listed", "made", "created", "up", "failed", "dead"}]
        /\ todo \in [Inst -> SUBSET Inst] /\ scan \in [Inst -> Scan]
        /\ dirs \subseteq Inst /\ lockFile \in [Inst -> Nat] /\ made \in [Inst -> Nat]
        /\ held \subseteq Inst \X Inst \X Nat
    BY Types DEF IInv
  <1>2. LockInv /\ ScanOf(i) /\ home' = home
    BY DEF IInv, ScanInv, Startup, ListRoot, MakeDirectory, CreateLock, TakeLock, store
  <1>3. CASE ListRoot(i)
    <2>1. /\ boot[i] = "new" /\ boot' = [boot EXCEPT ![i] = "listed"]
          /\ todo' = [todo EXCEPT ![i] = dirs]
          /\ scan' = scan /\ dirs' = dirs /\ lockFile' = lockFile /\ made' = made
          /\ held' = held /\ UNCHANGED <<registry, store, session, bounds>>
      BY <1>3 DEF ListRoot, locks
    <2>2. /\ boot'[i] = "listed" /\ todo'[i] = dirs
          /\ \A k \in Inst : k # i => boot'[k] = boot[k] /\ todo'[k] = todo[k]
          /\ TypeStartup' /\ TypeLocks'
      BY <1>1, <2>1 DEF TypeStartup, TypeLocks
    <2>3. LockInv'
      BY <1>2, <2>1, <2>2 DEF LockInv, Holds
    <2>4. ScanOf(i)'
      <3>1. i \notin dirs /\ scan[i] = NoScan
        BY <1>2, <2>1 DEF LockInv, ScanOf
      <3>2. /\ scan[i].dir = Nobody /\ scan[i].step = "idle" /\ scan[i].dir \notin dirs
            /\ scan[i].names = {}
        BY <1>1, <3>1, NoScanFacts, NobodyElse
      <3> QED BY <1>2, <2>1, <2>2, <3>1, <3>2, NobodyElse DEF ScanOf, Recovering
    <2>5. DOMAIN mem[i] = {} /\ scan'[i].step # "load" /\ \A d \in Inst : made[d] <= made'[d]
      <3>1. DOMAIN mem[i] = {} /\ scan[i] = NoScan
        BY <1>2, <2>1, NewcomerFacts DEF ScanOf
      <3> QED BY <1>1, <2>1, <3>1, NoScanFacts
    <2>6. \A x \in Job : LockIntact(x)' => LockIntact(x)
      BY <1>2, <2>1 DEF LockIntact
    <2> QED BY <2>1, <2>2, <2>3, <2>4, <2>5, <2>6, LockStep
  <1>4. CASE MakeDirectory(i)
    <2>1. /\ boot[i] = "listed" /\ boot' = [boot EXCEPT ![i] = "made"] /\ dirs' = dirs \cup {i}
          /\ scan' = scan /\ todo' = todo /\ lockFile' = lockFile /\ made' = made
          /\ held' = held /\ UNCHANGED <<registry, store, session, bounds>>
      BY <1>4 DEF MakeDirectory
    <2>2. /\ boot'[i] = "made" /\ \A k \in Inst : k # i => boot'[k] = boot[k]
          /\ TypeStartup' /\ TypeLocks'
      BY <1>1, <2>1 DEF TypeStartup, TypeLocks
    <2>3. LockInv'
      BY <1>2, <2>1, <2>2 DEF LockInv, Holds
    <2>4. ScanOf(i)'
      BY <1>2, <2>1, <2>2 DEF ScanOf, Recovering
    <2>5. DOMAIN mem[i] = {} /\ scan'[i].step # "load" /\ \A d \in Inst : made[d] <= made'[d]
      <3>1. DOMAIN mem[i] = {} /\ scan[i] = NoScan
        BY <1>2, <2>1, NewcomerFacts DEF ScanOf
      <3> QED BY <1>1, <2>1, <3>1, NoScanFacts
    <2>6. \A x \in Job : LockIntact(x)' => LockIntact(x)
      BY <1>2, <2>1 DEF LockIntact
    <2> QED BY <2>1, <2>2, <2>3, <2>4, <2>5, <2>6, LockStep
  <1>5. CASE CreateLock(i)
    <2>1. /\ boot[i] = "made" /\ todo' = todo /\ dirs' = dirs /\ held' = held
          /\ UNCHANGED <<registry, store, session, bounds>>
      BY <1>5 DEF CreateLock
    <2>2. DOMAIN mem[i] = {} /\ (\A x \in Job : home[x] # i) /\ scan[i] = NoScan
      BY <1>2, <2>1, NewcomerFacts DEF ScanOf
    <2>3. CASE i \in dirs /\ lockFile[i] = 0
      <3>1. PICK s : s = [NoScan EXCEPT !.gen = made[i] + 1]
        OBVIOUS
      <3>2. /\ s \in Scan /\ s.dir = Nobody /\ s.gen = made[i] + 1 /\ s.step = "idle"
            /\ s.names = {}
        BY <1>1, <3>1, NoScanGen
      <3>3. /\ boot' = [boot EXCEPT ![i] = "created"]
            /\ lockFile' = [lockFile EXCEPT ![i] = made[i] + 1]
            /\ made' = [made EXCEPT ![i] = made[i] + 1]
            /\ scan' = [scan EXCEPT ![i] = s]
        BY <1>5, <2>3, <3>1 DEF CreateLock
      <3>4. /\ boot'[i] = "created" /\ scan'[i] = s
            /\ lockFile'[i] = made[i] + 1 /\ made'[i] = made[i] + 1
            /\ \A k \in Inst : k # i => /\ boot'[k] = boot[k] /\ scan'[k] = scan[k]
                                        /\ lockFile'[k] = lockFile[k] /\ made'[k] = made[k]
            /\ TypeStartup' /\ TypeLocks'
        BY <1>1, <2>1, <3>2, <3>3 DEF TypeStartup, TypeLocks
      <3>5. \A d \in Inst : /\ made[d] \in Nat /\ made'[d] \in Nat /\ made[d] <= made'[d]
                            /\ lockFile'[d] <= made'[d]
        BY <1>1, <1>2, <3>4 DEF LockInv
      <3>6. LockInv'
        <4>1. \A h \in held : 1 <= h[3] /\ h[3] <= made'[h[2]]
          <5> SUFFICES ASSUME NEW h \in held PROVE 1 <= h[3] /\ h[3] <= made'[h[2]]
            OBVIOUS
          <5>1. h[2] \in Inst /\ h[3] \in Nat /\ 1 <= h[3] /\ h[3] <= made[h[2]]
            BY <1>1, <1>2 DEF LockInv
          <5>2. made[h[2]] <= made'[h[2]] /\ made[h[2]] \in Nat /\ made'[h[2]] \in Nat
            BY <3>5, <5>1
          <5> QED BY <5>1, <5>2
        <4>2. \A k \in Inst : boot'[k] = "up" => Holds(k, k)'
          BY <1>2, <2>1, <3>4 DEF LockInv, Holds
        <4>3. \A d \in dirs : boot'[d] \notin {"new", "listed"}
          BY <1>1, <1>2, <3>4 DEF LockInv
        <4>4. \A a, b \in held : a[2] = b[2] /\ a[3] = b[3] => a = b
          BY <1>2 DEF LockInv
        <4> QED BY <2>1, <3>5, <4>1, <4>2, <4>3, <4>4 DEF LockInv
      <3>7. ScanOf(i)'
        <4>1. made[i] + 1 \in 1..made'[i]
          BY <3>4, <3>5
        <4> QED BY <1>1, <1>2, <2>1, <3>2, <3>4, <4>1, NobodyElse DEF ScanOf, Recovering
      <3>8. \A x \in Job : LockIntact(x)' => LockIntact(x)
        <4>1. \A x \in Job : home[x] \in Inst \cup {Nobody}
          BY Types DEF IInv
        <4> QED BY <1>2, <2>2, <3>4, <4>1 DEF LockIntact
      <3>9. scan'[i].step # "load"
        BY <3>2, <3>4
      <3> QED BY <2>1, <2>2, <3>4, <3>5, <3>6, <3>7, <3>8, <3>9, LockStep, ZenonT(60)
    <2>4. CASE ~(i \in dirs /\ lockFile[i] = 0)
      <3>1. /\ boot' = [boot EXCEPT ![i] = "failed"]
            /\ lockFile' = lockFile /\ made' = made /\ scan' = scan
        BY <1>5, <2>4 DEF CreateLock
      <3>2. /\ boot'[i] = "failed" /\ \A k \in Inst : k # i => boot'[k] = boot[k]
            /\ TypeStartup' /\ TypeLocks'
        BY <1>1, <2>1, <3>1 DEF TypeStartup, TypeLocks
      <3>3. LockInv'
        BY <1>2, <2>1, <3>1, <3>2 DEF LockInv, Holds
      <3>4. ScanOf(i)'
        BY <1>2, <2>1, <2>2, <3>1, <3>2 DEF ScanOf, Recovering
      <3>5. \A x \in Job : LockIntact(x)' => LockIntact(x)
        BY <1>2, <2>1, <3>1 DEF LockIntact
      <3>6. scan'[i].step # "load" /\ \A d \in Inst : made[d] <= made'[d]
        BY <1>1, <2>2, <3>1, NoScanFacts
      <3> QED BY <2>1, <2>2, <3>1, <3>2, <3>3, <3>4, <3>5, <3>6, LockStep
    <2> QED BY <2>3, <2>4
  <1>6. CASE TakeLock(i)
    <2> DEFINE g == scan[i].gen
    <2>1. /\ boot[i] = "created" /\ todo' = todo /\ dirs' = dirs
          /\ lockFile' = lockFile /\ made' = made /\ scan' = [scan EXCEPT ![i] = NoScan]
          /\ UNCHANGED <<registry, store, session, bounds>>
          /\ \/ boot' = [boot EXCEPT ![i] = "failed"] /\ held' = held
             \/ /\ boot' = [boot EXCEPT ![i] = "up"] /\ held' = held \cup {<<i, i, g>>}
                /\ ~Locked(i, g)
      BY <1>6 DEF TakeLock
    <2>2. g \in 1..made[i] /\ g \in Nat
      BY <1>1, <1>2, <2>1 DEF ScanOf
    <2>3. DOMAIN mem[i] = {}
      BY <2>1, NewcomerFacts
    <2> HIDE DEF g
    <2>4. /\ boot'[i] \in {"failed", "up"} /\ scan'[i] = NoScan
          /\ boot'[i] = "up" => <<i, i, g>> \in held'
          /\ \A k \in Inst : k # i => boot'[k] = boot[k] /\ scan'[k] = scan[k]
          /\ held \subseteq held' /\ held' \subseteq held \cup {<<i, i, g>>}
          /\ TypeStartup' /\ TypeLocks'
      BY <1>1, <2>1, <2>2, NoScanFacts DEF TypeStartup, TypeLocks
    <2>5. LockInv'
      <3>1. \A h \in held' : 1 <= h[3] /\ h[3] <= made[h[2]]
        BY <1>2, <2>2, <2>4 DEF LockInv
      <3>2. ASSUME NEW a \in held', NEW b \in held', a[2] = b[2], a[3] = b[3] PROVE a = b
        <4>1. CASE held' = held
          BY <1>2, <3>2, <4>1 DEF LockInv
        <4>2. CASE ~Locked(i, g)
          <5>1. \A h \in held : ~(h[2] = i /\ h[3] = g)
            <6> SUFFICES ASSUME NEW h \in held, h[2] = i, h[3] = g PROVE FALSE
              OBVIOUS
            <6>1. h[1] \in Inst /\ h = <<h[1], i, g>>
              BY <1>1
            <6> QED BY <4>2, <6>1 DEF Locked
          <5> QED BY <1>2, <2>4, <3>2, <5>1 DEF LockInv
        <4> QED BY <2>1, <4>1, <4>2
      <3>3. \A k \in Inst : boot'[k] = "up" => Holds(k, k)'
        <4>1. boot'[i] = "up" => Holds(i, i)'
          BY <2>4 DEF Holds
        <4>2. \A k \in Inst : k # i /\ boot'[k] = "up" => Holds(k, k)'
          BY <1>2, <2>4 DEF LockInv, Holds
        <4> QED BY <4>1, <4>2
      <3>4. \A d \in dirs : boot'[d] \notin {"new", "listed"}
        BY <1>1, <1>2, <2>4 DEF LockInv
      <3> QED BY <1>2, <2>1, <3>1, <3>2, <3>3, <3>4 DEF LockInv
    <2>6. ScanOf(i)'
      BY <1>1, <1>2, <2>1, <2>4, NoScanFacts, NobodyElse DEF ScanOf, Recovering
    <2>7. \A x \in Job : LockIntact(x)' => LockIntact(x)
      BY <1>2, <2>1 DEF LockIntact
    <2>8. scan'[i].step # "load" /\ \A d \in Inst : made[d] <= made'[d]
      BY <1>1, <2>1, <2>4, NoScanFacts
    <2> QED BY <2>1, <2>3, <2>4, <2>5, <2>6, <2>7, <2>8, LockStep, ZenonT(60)
  <1> QED BY <1>3, <1>4, <1>5, <1>6 DEF Startup
-----------------------------------------------------------------------------
(* Recovery of what dead runs left: the locks and the scan.                  *)

(* A scan under way.                                                         *)
LEMMA ScanFacts ==
    ASSUME IInv, NEW i \in Inst, scan[i].step # "idle"
    PROVE  /\ boot[i] = "up" /\ scan[i] \in Scan /\ scan[i].dir \in Inst
           /\ scan[i].dir # i /\ scan[i].dir \notin todo[i] /\ i \notin todo[i]
           /\ scan[i].gen \in 1..made[scan[i].dir]
           /\ Recovering(i) => <<i, scan[i].dir, scan[i].gen>> \in held
           /\ \A j \in scan[i].names : j \in Job /\ home[j] = scan[i].dir
  <1>1. ScanOf(i) /\ scan[i] \in Scan
        /\ boot[i] \in {"new", "listed", "made", "created", "up", "failed", "dead"}
    BY Types DEF IInv, ScanInv
  <1>2. scan[i] # NoScan
    BY NoScanFacts
  <1>3. scan[i].names \subseteq Job
    BY <1>1 DEF Scan
  <1> QED BY <1>1, <1>2, <1>3 DEF ScanOf

(* The next step of a scan.                                                  *)
LEMMA NextStep ==
    ASSUME NEW s \in Scan, NEW t \in {"idle", "lock", "list", "load", "rmdir"}
    PROVE  LET n == [s EXCEPT !.step = t]
           IN  /\ n \in Scan /\ n.step = t /\ n.dir = s.dir /\ n.gen = s.gen
               /\ n.names = s.names /\ n.left = s.left /\ n.pending = s.pending
  BY DEF Scan

(* A scan that is over.                                                      *)
LEMMA ScanEnds ==
    ASSUME IInv, NEW i \in Inst, boot[i] = "up", boot' = boot, todo' = todo,
           scan' = [scan EXCEPT ![i] = NoScan]
    PROVE  /\ scan'[i] = NoScan /\ \A k \in Inst : k # i => scan'[k] = scan[k]
           /\ TypeStartup' /\ ScanOf(i)'
  <1>1. scan \in [Inst -> Scan] /\ todo \in [Inst -> SUBSET Inst] /\ TypeStartup
    BY Types DEF IInv, TypeOK
  <1>2. scan'[i] = NoScan /\ scan' \in [Inst -> Scan]
    BY <1>1, NoScanFacts
  <1>3. ScanOf(i)
    BY DEF IInv, ScanInv
  <1>4. ScanOf(i)'
    BY <1>1, <1>2, <1>3, NoScanFacts, NobodyElse DEF ScanOf, Recovering
  <1> QED BY <1>1, <1>2, <1>4 DEF TypeStartup

(* A scan that goes on in the directory it is in.                            *)
LEMMA ScanGoes ==
    ASSUME IInv, NEW i \in Inst, scan[i].step # "idle", boot' = boot, todo' = todo,
           made' = made, home' = home,
           NEW s \in Scan, scan' = [scan EXCEPT ![i] = s],
           s.dir = scan[i].dir, s.gen = scan[i].gen, s.step # "idle",
           s.step \in {"list", "load", "rmdir"} => <<i, s.dir, s.gen>> \in held',
           \A j \in s.names : home[j] = s.dir
    PROVE  /\ scan'[i] = s /\ \A k \in Inst : k # i => scan'[k] = scan[k]
           /\ TypeStartup' /\ ScanOf(i)'
  <1>1. scan \in [Inst -> Scan] /\ TypeStartup
    BY Types DEF IInv, TypeOK
  <1>2. scan'[i] = s /\ scan' \in [Inst -> Scan]
    BY <1>1
  <1>3. ScanOf(i)'
    BY <1>2, ScanFacts DEF ScanOf, Recovering
  <1> QED BY <1>1, <1>2, <1>3 DEF TypeStartup

(* Locks, lock files and directories that only go.                           *)
LEMMA LockLess ==
    ASSUME IInv, NEW i \in Inst, NEW d \in Inst, NEW g, d # i, boot' = boot, made' = made,
           held' = held \/ held' = held \ {<<i, d, g>>}, dirs' \subseteq dirs,
           lockFile' = lockFile \/ lockFile' = [lockFile EXCEPT ![d] = 0]
    PROVE  /\ TypeLocks' /\ LockInv' /\ \A h \in held : h[1] # i => h \in held'
           /\ \A k \in Inst, e \in Inst : k # i \/ e # d => (Holds(k, e) => Holds(k, e)')
           /\ home' = home => \A x \in Job : LockIntact(x)' => LockIntact(x)
           /\ \A e \in Inst : made[e] <= made'[e]
  <1>1. /\ held \subseteq Inst \X Inst \X Nat /\ made \in [Inst -> Nat]
        /\ lockFile \in [Inst -> Nat] /\ dirs \subseteq Inst
        /\ home \in [Job -> Inst \cup {Nobody}] /\ LockInv
    BY Types DEF IInv
  <1>2. /\ lockFile' \in [Inst -> Nat] /\ held' \subseteq held
        /\ \A e \in Inst : lockFile'[e] = lockFile[e] \/ lockFile'[e] = 0
    BY <1>1
  <1>3. TypeLocks'
    BY <1>1, <1>2 DEF TypeLocks
  <1>4. \A k \in Inst, e \in Inst : k # i \/ e # d => (Holds(k, e) => Holds(k, e)')
    <2> SUFFICES ASSUME NEW k \in Inst, NEW e \in Inst, k # i \/ e # d, Holds(k, e)
                 PROVE  Holds(k, e)'
      OBVIOUS
    <2>1. PICK h \in held : h[1] = k /\ h[2] = e
      BY DEF Holds
    <2>2. h \in held'
      BY <2>1
    <2> QED BY <2>1, <2>2 DEF Holds
  <1>5. LockInv'
    <2>1. \A k \in Inst : boot'[k] = "up" => Holds(k, k)'
      BY <1>1, <1>4 DEF LockInv
    <2>2. \A e \in Inst : lockFile'[e] <= made'[e]
      BY <1>1, <1>2 DEF LockInv
    <2> QED BY <1>1, <1>2, <2>1, <2>2 DEF LockInv
  <1>6. ASSUME home' = home, NEW x \in Job, LockIntact(x)' PROVE LockIntact(x)
    <2>1. home[x] \in Inst /\ lockFile'[home[x]] = 1 /\ made[home[x]] = 1
      BY <1>1, <1>6 DEF LockIntact
    <2>2. lockFile[home[x]] = 1
      BY <1>2, <2>1
    <2> QED BY <2>1, <2>2, NobodyElse DEF LockIntact
  <1>7. \A h \in held : h[1] # i => h \in held'
    OBVIOUS
  <1>8. \A e \in Inst : made[e] <= made'[e]
    BY <1>1
  <1> QED BY <1>3, <1>4, <1>5, <1>6, <1>7, <1>8
(* A step of recovery by run i leaves the other runs alone, makes no lock    *)
(* file intact again, ...                                                    *)
Others(i) ==
    /\ boot'[i] = boot[i]
    /\ \A k \in Inst : k # i => /\ boot'[k] = boot[k] /\ todo'[k] = todo[k]
                                /\ scan'[k] = scan[k]
    /\ \A d \in Inst : made[d] <= made'[d]
    /\ \A h \in held : h[1] # i => h \in held'
    /\ \A x \in Job : LockIntact(x)' => LockIntact(x)

(* ... keeps what the run says of the jobs it knows, ...                     *)
KeepsKnown(i) ==
    \A j \in DOMAIN mem[i] :
        /\ home[j] \notin todo'[i] /\ j \notin scan'[i].names
        /\ scan'[i].dir = home[j] => scan'[i].step = "load"
        /\ kind[j] = "owned" /\ mem[i][j] # "delivered" =>
              Holds(i, home[j])' /\ (scan'[i].dir = home[j] => scan'[i].pending)

(* ... and counts what is left where it is.                                  *)
LeavesOver(i) ==
    scan'[i].step = "load" =>
        \E kept \in SUBSET {x \in Job : home[x] # Nobody} :
            \E outs \in SUBSET kept : LeftBy(i, kept, outs)'

(* Such a step keeps the invariant.                                          *)
LEMMA RecoveryStep ==
    ASSUME IInv, NEW i \in Inst, UNCHANGED <<registry, store, session, bounds>>,
           TypeStartup', TypeLocks', LockInv', ScanOf(i)',
           Others(i), KeepsKnown(i), LeavesOver(i)
    PROVE  IInv'
  BY LockStep DEF Others, KeepsKnown, LeavesOver

(* A stale directory is opened, and its lock file made if it is gone.        *)
LEMMA RecoverOpenStep ==
    ASSUME IInv, NEW i \in Inst, NEW d \in Inst, RecoverOpen(i, d)
    PROVE  IInv'
  <1>1. /\ boot[i] = "up" /\ scan[i] = NoScan /\ d \in todo[i]
        /\ todo' = [todo EXCEPT ![i] = @ \ {d}]
        /\ boot' = boot /\ dirs' = dirs /\ held' = held /\ home' = home
        /\ UNCHANGED <<registry, store, session, bounds>>
    BY DEF RecoverOpen, Taken, store
  <1>2. /\ todo \in [Inst -> SUBSET Inst] /\ scan \in [Inst -> Scan]
        /\ dirs \subseteq Inst /\ lockFile \in [Inst -> Nat] /\ made \in [Inst -> Nat]
        /\ held \subseteq Inst \X Inst \X Nat
        /\ boot \in [Inst -> {"new", "listed", "made", "created", "up", "failed", "dead"}]
        /\ home \in [Job -> Inst \cup {Nobody}] /\ LockInv /\ ScanOf(i)
    BY Types DEF IInv, ScanInv
  <1>3. /\ todo'[i] = todo[i] \ {d} /\ \A k \in Inst : k # i => todo'[k] = todo[k]
        /\ todo' \in [Inst -> SUBSET Inst] /\ i # d
    BY <1>1, <1>2 DEF ScanOf
  <1> DEFINE o == Opened(d)
  <1>4. o \in Nat /\ o = IF lockFile[d] = 0 THEN made[d] + 1 ELSE lockFile[d]
    BY <1>2 DEF Opened
  <1>5. \A j \in DOMAIN mem[i] :
           /\ home[j] \notin todo'[i] /\ home[j] # d
           /\ kind[j] = "owned" /\ mem[i][j] # "delivered" => Holds(i, home[j])
    BY <1>1, <1>3, KnownFacts DEF IInv, DebtInv
  <1> HIDE DEF o
  <1>6. CASE d \in dirs
    <2>1. PICK s : s = [[[NoScan EXCEPT !.dir = d] EXCEPT !.gen = o] EXCEPT !.step = "lock"]
      OBVIOUS
    <2>2. /\ s \in Scan /\ s.dir = d /\ s.gen = o /\ s.step = "lock" /\ s.names = {}
      <3>1. s = [dir |-> d, gen |-> o, step |-> "lock", names |-> {}, left |-> 0,
                 pending |-> FALSE]
        BY <2>1 DEF NoScan
      <3> QED BY <1>4, <3>1 DEF Scan
    <2>3. [NoScan EXCEPT !.dir = d, !.gen = o, !.step = "lock"] = s
      BY <2>1
    <2>4. /\ lockFile' = [lockFile EXCEPT ![d] = o]
          /\ made' = [made EXCEPT ![d] = IF @ < o THEN o ELSE @]
          /\ scan' = [scan EXCEPT ![i] = s]
      BY <1>6, <2>3 DEF RecoverOpen, o
    <2>5. /\ scan'[i] = s /\ scan' \in [Inst -> Scan]
          /\ \A k \in Inst : k # i => scan'[k] = scan[k]
          /\ lockFile'[d] = o /\ lockFile' \in [Inst -> Nat] /\ made' \in [Inst -> Nat]
          /\ made'[d] = (IF made[d] < o THEN o ELSE made[d])
          /\ \A e \in Inst : e # d => lockFile'[e] = lockFile[e] /\ made'[e] = made[e]
      BY <1>2, <1>4, <2>2, <2>4
    <2>6. /\ 1 <= o /\ o <= made'[d] /\ made[d] <= made'[d] /\ o \in 1..made'[d]
      BY <1>2, <1>4, <2>5 DEF LockInv
    <2>7. \A e \in Inst : made[e] <= made'[e]
      BY <1>2, <2>5, <2>6
    <2>8. TypeStartup' /\ TypeLocks'
      BY <1>1, <1>2, <1>3, <2>5 DEF TypeStartup, TypeLocks
    <2>9. LockInv'
      <3>1. \A h \in held : 1 <= h[3] /\ h[3] <= made'[h[2]]
        <4> SUFFICES ASSUME NEW h \in held PROVE 1 <= h[3] /\ h[3] <= made'[h[2]]
          OBVIOUS
        <4>1. h[2] \in Inst /\ h[3] \in Nat /\ 1 <= h[3] /\ h[3] <= made[h[2]]
          BY <1>2 DEF LockInv
        <4>2. made[h[2]] <= made'[h[2]] /\ made[h[2]] \in Nat /\ made'[h[2]] \in Nat
          BY <1>2, <2>5, <2>7, <4>1
        <4> QED BY <4>1, <4>2
      <3>2. \A e \in Inst : lockFile'[e] <= made'[e]
        BY <1>2, <2>5, <2>6 DEF LockInv
      <3>3. \A k \in Inst : boot'[k] = "up" => Holds(k, k)'
        BY <1>1, <1>2 DEF LockInv, Holds
      <3> QED BY <1>1, <1>2, <3>1, <3>2, <3>3 DEF LockInv
    <2>10. ScanOf(i)'
      BY <1>1, <1>2, <1>3, <2>2, <2>5, <2>6 DEF ScanOf, Recovering
    <2>11. \A x \in Job : LockIntact(x)' => LockIntact(x)
      <3> SUFFICES ASSUME NEW x \in Job, LockIntact(x)' PROVE LockIntact(x)
        OBVIOUS
      <3>1. home[x] # Nobody /\ lockFile'[home[x]] = 1 /\ made'[home[x]] = 1
        BY <1>1 DEF LockIntact
      <3>2. home[x] \in Inst /\ 1 <= made[home[x]]
        BY <1>2, <3>1 DEF IInv, HomeInv
      <3>3. CASE home[x] # d
        BY <2>5, <3>1, <3>2, <3>3 DEF LockIntact
      <3>4. CASE home[x] = d
        <4>1. made[d] = 1 /\ o = 1
          BY <1>2, <1>4, <2>5, <2>6, <3>1, <3>2, <3>4
        <4>2. lockFile[d] = 1
          BY <1>2, <1>4, <4>1
        <4> QED BY <3>1, <3>4, <4>1, <4>2 DEF LockIntact
      <3> QED BY <3>3, <3>4
    <2>12. KeepsKnown(i) /\ LeavesOver(i)
      BY <1>1, <1>5, <2>2, <2>5 DEF Holds, KeepsKnown, LeavesOver
    <2>13. Others(i)
      BY <1>1, <1>3, <2>5, <2>7, <2>11 DEF Others
    <2> QED BY <1>1, <2>8, <2>9, <2>10, <2>12, <2>13, RecoveryStep
  <1>7. CASE d \notin dirs
    <2>1. lockFile' = lockFile /\ made' = made /\ scan' = scan
      BY <1>7 DEF RecoverOpen
    <2>2. TypeStartup' /\ TypeLocks' /\ LockInv'
      BY <1>1, <1>2, <1>3, <2>1 DEF TypeStartup, TypeLocks, LockInv, Holds
    <2>3. ScanOf(i)'
      BY <1>1, <1>2, <1>3, <2>1, NoScanFacts DEF ScanOf, Recovering
    <2>4. \A x \in Job : LockIntact(x)' => LockIntact(x)
      BY <1>1, <2>1 DEF LockIntact
    <2>5. KeepsKnown(i) /\ LeavesOver(i)
      <3>1. \A j \in DOMAIN mem[i] : home[j] # Nobody
        BY KnownFacts, NobodyElse
      <3> QED BY <1>1, <1>5, <2>1, <3>1, NoScanFacts DEF Holds, KeepsKnown, LeavesOver
    <2>6. \A e \in Inst : made[e] <= made'[e]
      BY <1>2, <2>1
    <2>7. Others(i)
      BY <1>1, <1>3, <2>1, <2>4, <2>6 DEF Others
    <2> QED BY <1>1, <2>2, <2>3, <2>5, <2>7, RecoveryStep
  <1> QED BY <1>6, <1>7

(* The lock of a stale directory is taken, or somebody has it.               *)
LEMMA RecoverLockStep ==
    ASSUME IInv, NEW i \in Inst, RecoverLock(i)
    PROVE  IInv'
  <1> DEFINE d == scan[i].dir
             g == scan[i].gen
  <1>1. /\ scan[i].step = "lock" /\ boot' = boot /\ todo' = todo /\ dirs' = dirs
        /\ lockFile' = lockFile /\ made' = made /\ home' = home
        /\ UNCHANGED <<registry, store, session, bounds>>
    BY DEF RecoverLock, store
  <1>2. /\ scan[i] \in Scan /\ boot[i] = "up" /\ d \in Inst /\ d # i /\ g \in 1..made[d]
        /\ held \subseteq Inst \X Inst \X Nat /\ made \in [Inst -> Nat] /\ LockInv
        /\ \A j \in scan[i].names : home[j] = d
    BY <1>1, ScanFacts, Types DEF IInv
  <1>3. \A j \in DOMAIN mem[i] :
           /\ home[j] \in Inst /\ home[j] \notin todo'[i] /\ home[j] # d
           /\ j \notin scan[i].names
           /\ kind[j] = "owned" /\ mem[i][j] # "delivered" => Holds(i, home[j])
    BY <1>1, KnownFacts DEF IInv, DebtInv
  <1>4. (\A x \in Job : LockIntact(x)' => LockIntact(x)) /\ \A e \in Inst : made[e] <= made'[e]
    BY <1>1, <1>2 DEF LockIntact
  <1>5. CASE Locked(d, g)
    <2>1. scan' = [scan EXCEPT ![i] = NoScan] /\ held' = held
      BY <1>5 DEF RecoverLock
    <2>2. /\ scan'[i] = NoScan /\ \A k \in Inst : k # i => scan'[k] = scan[k]
          /\ TypeStartup' /\ ScanOf(i)'
      BY <1>1, <1>2, <2>1, ScanEnds
    <2>3. TypeLocks' /\ LockInv'
      BY <1>1, <1>2, <2>1 DEF IInv, TypeOK, TypeLocks, LockInv, Holds
    <2>4. KeepsKnown(i) /\ LeavesOver(i)
      <3>1. /\ scan'[i].dir = Nobody /\ scan'[i].names = {} /\ scan'[i].step = "idle"
            /\ \A j \in DOMAIN mem[i] : home[j] # Nobody
        BY <1>3, <2>2, NoScanFacts, NobodyElse
      <3>2. \A j \in DOMAIN mem[i] : Holds(i, home[j]) => Holds(i, home[j])'
        BY <1>1, <2>1 DEF Holds
      <3> QED BY <1>3, <3>1, <3>2 DEF KeepsKnown, LeavesOver
    <2>5. Others(i)
      BY <1>1, <1>4, <2>1, <2>2 DEF Others
    <2> QED BY <1>1, <2>2, <2>3, <2>4, <2>5, RecoveryStep
  <1>6. CASE ~Locked(d, g)
    <2>1. PICK s : s = [scan[i] EXCEPT !.step = "list"]
      OBVIOUS
    <2>2. /\ scan' = [scan EXCEPT ![i] = s] /\ held' = held \cup {<<i, d, g>>}
      BY <1>6, <2>1 DEF RecoverLock
    <2>3. /\ s \in Scan /\ s.step = "list" /\ s.dir = d /\ s.gen = g /\ s.names = scan[i].names
      BY <1>2, <2>1, NextStep
    <2>4. /\ scan'[i] = s /\ \A k \in Inst : k # i => scan'[k] = scan[k]
          /\ TypeStartup' /\ ScanOf(i)'
      <3>1. scan[i].step # "idle" /\ <<i, s.dir, s.gen>> \in held'
        BY <1>1, <2>2, <2>3
      <3>2. \A j \in s.names : home[j] = s.dir
        BY <1>2, <2>3
      <3> HIDE DEF d, g
      <3> QED BY <1>1, <2>2, <2>3, <3>1, <3>2, ScanGoes DEF d, g
    <2>5. TypeLocks'
      <3>1. g \in Nat
        BY <1>2
      <3> QED BY <1>1, <1>2, <2>2, <3>1 DEF IInv, TypeOK, TypeLocks
    <2>6. LockInv'
      <3> HIDE DEF d, g
      <3>1. \A h \in held : ~(h[2] = d /\ h[3] = g)
        <4> SUFFICES ASSUME NEW h \in held, h[2] = d, h[3] = g PROVE FALSE
          OBVIOUS
        <4>1. h[1] \in Inst /\ h = <<h[1], d, g>>
          BY <1>2
        <4> QED BY <1>6, <4>1 DEF Locked
      <3>2. \A a, b \in held' : a[2] = b[2] /\ a[3] = b[3] => a = b
        BY <1>2, <2>2, <3>1 DEF LockInv
      <3>3. \A h \in held' : 1 <= h[3] /\ h[3] <= made[h[2]]
        BY <1>2, <2>2 DEF LockInv
      <3>4. \A k \in Inst : boot'[k] = "up" => Holds(k, k)'
        BY <1>1, <1>2, <2>2 DEF LockInv, Holds
      <3> QED BY <1>1, <1>2, <3>2, <3>3, <3>4 DEF LockInv
    <2>7. KeepsKnown(i) /\ LeavesOver(i)
      BY <1>1, <1>3, <2>2, <2>3, <2>4 DEF Holds, KeepsKnown, LeavesOver
    <2>8. Others(i)
      BY <1>1, <1>4, <2>2, <2>4 DEF Others
    <2> QED BY <1>1, <2>4, <2>5, <2>6, <2>7, <2>8, RecoveryStep
  <1> QED BY <1>5, <1>6
(* What is left in a directory, counted job by job.                          *)
LEMMA LeftFacts ==
    ASSUME IInv, NEW i \in Inst, scan[i].step = "load"
    PROVE  \E kept \in SUBSET {x \in Job : home[x] # Nobody} : \E outs \in SUBSET kept :
              /\ LeftBy(i, kept, outs) /\ IsFiniteSet(kept) /\ IsFiniteSet(outs)
              /\ scan[i].left \in Nat
  <1>1. PICK kept \in SUBSET {x \in Job : home[x] # Nobody} :
          \E outs \in SUBSET kept : LeftBy(i, kept, outs)
    BY DEF IInv, LeftInv
  <1>2. PICK outs \in SUBSET kept : LeftBy(i, kept, outs)
    BY <1>1
  <1>3. IsFiniteSet(kept) /\ IsFiniteSet(outs)
    BY FS_Subset DEF IInv, HomeInv
  <1>4. Cardinality(kept) \in Nat /\ Cardinality(outs) \in Nat
    BY <1>3, FS_CardinalityType
  <1> QED BY <1>2, <1>3, <1>4 DEF LeftBy

(* A record that cannot be read stays where it is.                           *)
LEMMA LoadNothingStep ==
    ASSUME IInv, NEW i \in Inst, NEW j \in Job, LoadNothing(i, j)
    PROVE  IInv'
  <1>1. /\ scan[i].step = "load" /\ boot' = boot /\ todo' = todo /\ dirs' = dirs
        /\ lockFile' = lockFile /\ made' = made /\ held' = held /\ home' = home
        /\ mem' = mem /\ file' = file
        /\ UNCHANGED <<registry, store, session, bounds>>
    BY DEF LoadNothing, locks, registry, store
  <1>2. /\ scan[i] \in Scan /\ scan[i].dir \in Inst /\ scan[i].dir # i
        /\ <<i, scan[i].dir, scan[i].gen>> \in held
        /\ \A x \in scan[i].names : home[x] = scan[i].dir
    BY <1>1, ScanFacts DEF Recovering
  <1>3. PICK s : s = [scan[i] EXCEPT !.names = @ \ {j}]
    OBVIOUS
  <1>4. /\ s \in Scan /\ s.dir = scan[i].dir /\ s.gen = scan[i].gen /\ s.step = "load"
        /\ s.names = scan[i].names \ {j} /\ s.left = scan[i].left
        /\ s.pending = scan[i].pending
    BY <1>1, <1>2, <1>3 DEF Scan
  <1>5. scan' = [scan EXCEPT ![i] = s]
    BY <1>3 DEF LoadNothing, Loaded
  <1>6. /\ scan'[i] = s /\ \A k \in Inst : k # i => scan'[k] = scan[k]
        /\ TypeStartup' /\ ScanOf(i)'
    <2>1. /\ scan[i].step # "idle" /\ <<i, s.dir, s.gen>> \in held'
          /\ \A x \in s.names : home[x] = s.dir
      BY <1>1, <1>2, <1>4
    <2> QED BY <1>1, <1>4, <1>5, <2>1, ScanGoes
  <1>7. /\ TypeLocks' /\ LockInv' /\ (\A x \in Job : LockIntact(x)' => LockIntact(x))
        /\ \A d \in Inst : made[d] <= made'[d]
    BY <1>1, <1>2, LockLess
  <1>8. Others(i)
    BY <1>1, <1>6, <1>7 DEF Others
  <1>9. KeepsKnown(i)
    <2> SUFFICES ASSUME NEW x \in DOMAIN mem[i]
        PROVE /\ home[x] \notin todo[i] /\ x \notin s.names
              /\ s.dir = home[x] => s.step = "load"
              /\ kind[x] = "owned" /\ mem[i][x] # "delivered" =>
                    Holds(i, home[x]) /\ (s.dir = home[x] => s.pending)
      BY <1>1, <1>6 DEF KeepsKnown, Holds
    <2> QED BY <1>4, KnownFacts DEF IInv, DebtInv
  <1>10. LeavesOver(i)
    <2>1. PICK kept \in SUBSET {x \in Job : home[x] # Nobody} :
            \E outs \in SUBSET kept : LeftBy(i, kept, outs)
      BY <1>1, LeftFacts
    <2>2. PICK outs \in SUBSET kept : LeftBy(i, kept, outs)
      BY <2>1
    <2>3. LeftBy(i, kept, outs)'
      BY <1>1, <1>4, <1>6, <2>2 DEF LeftBy
    <2> QED BY <2>3 DEF LeavesOver
  <1> QED BY <1>1, <1>6, <1>7, <1>8, <1>9, <1>10, RecoveryStep

(* The lock file of an empty directory goes: the run took over no job of it. *)
LEMMA RecoverUnlinkStep ==
    ASSUME IInv, NEW i \in Inst, RecoverUnlink(i)
    PROVE  IInv'
  <1>1. /\ scan[i].step = "load" /\ scan[i].left = 0 /\ boot' = boot /\ todo' = todo
        /\ dirs' = dirs /\ lockFile' = [lockFile EXCEPT ![scan[i].dir] = 0]
        /\ made' = made /\ held' = held /\ home' = home
        /\ UNCHANGED <<registry, store, session, bounds>>
    BY DEF RecoverUnlink, store
  <1>2. /\ scan[i] \in Scan /\ scan[i].dir \in Inst /\ scan[i].dir # i
        /\ <<i, scan[i].dir, scan[i].gen>> \in held
        /\ \A x \in scan[i].names : home[x] = scan[i].dir
    BY <1>1, ScanFacts DEF Recovering
  <1>3. PICK s : s = [scan[i] EXCEPT !.step = "rmdir"]
    OBVIOUS
  <1>4. /\ s \in Scan /\ s.dir = scan[i].dir /\ s.gen = scan[i].gen /\ s.step = "rmdir"
        /\ s.names = scan[i].names
    BY <1>2, <1>3, NextStep
  <1>5. scan' = [scan EXCEPT ![i] = s]
    BY <1>3 DEF RecoverUnlink
  <1>6. /\ scan'[i] = s /\ \A k \in Inst : k # i => scan'[k] = scan[k]
        /\ TypeStartup' /\ ScanOf(i)'
    <2>1. /\ scan[i].step # "idle" /\ <<i, s.dir, s.gen>> \in held'
          /\ \A x \in s.names : home[x] = s.dir
      BY <1>1, <1>2, <1>4
    <2> QED BY <1>1, <1>4, <1>5, <2>1, ScanGoes
  <1>7. /\ TypeLocks' /\ LockInv' /\ (\A x \in Job : LockIntact(x)' => LockIntact(x))
        /\ \A d \in Inst : made[d] <= made'[d]
    BY <1>1, <1>2, LockLess
  <1>8. Others(i)
    BY <1>1, <1>6, <1>7 DEF Others
  <1>9. \A x \in DOMAIN mem[i] : home[x] # scan[i].dir
    <2>1. PICK kept \in SUBSET {x \in Job : home[x] # Nobody} : \E outs \in SUBSET kept :
            LeftBy(i, kept, outs) /\ IsFiniteSet(kept) /\ IsFiniteSet(outs)
      BY <1>1, LeftFacts
    <2>2. PICK outs \in SUBSET kept : LeftBy(i, kept, outs) /\ IsFiniteSet(outs)
      BY <2>1
    <2>3. Cardinality(kept) \in Nat /\ Cardinality(outs) \in Nat
      BY <2>1, <2>2, FS_CardinalityType
    <2>4. Cardinality(kept) = 0
      BY <1>1, <2>2, <2>3 DEF LeftBy
    <2>5. kept = {}
      BY <2>1, <2>4, FS_EmptySet
    <2> QED BY <2>2, <2>5 DEF LeftBy
  <1>10. KeepsKnown(i)
    <2> SUFFICES ASSUME NEW x \in DOMAIN mem[i]
        PROVE /\ home[x] \notin todo[i] /\ x \notin s.names /\ s.dir # home[x]
              /\ kind[x] = "owned" /\ mem[i][x] # "delivered" => Holds(i, home[x])
      BY <1>1, <1>6 DEF KeepsKnown, Holds
    <2> QED BY <1>4, <1>9, KnownFacts DEF IInv, DebtInv
  <1>11. LeavesOver(i)
    BY <1>4, <1>6 DEF LeavesOver
  <1> QED BY <1>1, <1>6, <1>7, <1>8, <1>10, <1>11, RecoveryStep

(* The directory goes, if it is bare, and the lock with it.                  *)
LEMMA RecoverRmdirStep ==
    ASSUME IInv, NEW i \in Inst, RecoverRmdir(i)
    PROVE  IInv'
  <1> DEFINE d == scan[i].dir
             g == scan[i].gen
  <1>1. /\ scan[i].step = "rmdir" /\ boot' = boot /\ todo' = todo
        /\ dirs' \subseteq dirs /\ lockFile' = lockFile
        /\ made' = made /\ held' = held \ {<<i, d, g>>} /\ home' = home
        /\ scan' = [scan EXCEPT ![i] = NoScan]
        /\ UNCHANGED <<registry, store, session, bounds>>
    BY DEF RecoverRmdir, store
  <1>2. boot[i] = "up" /\ d \in Inst /\ d # i
    BY <1>1, ScanFacts
  <1>3. \A x \in DOMAIN mem[i] : /\ home[x] # d /\ home[x] \in Inst /\ home[x] \notin todo[i]
                                 /\ kind[x] = "owned" /\ mem[i][x] # "delivered"
                                       => Holds(i, home[x])
    BY <1>1, KnownFacts DEF IInv, DebtInv
  <1> HIDE DEF d, g
  <1>4. /\ scan'[i] = NoScan /\ \A k \in Inst : k # i => scan'[k] = scan[k]
        /\ TypeStartup' /\ ScanOf(i)'
    BY <1>1, <1>2, ScanEnds
  <1>5. /\ TypeLocks' /\ LockInv' /\ (\A x \in Job : LockIntact(x)' => LockIntact(x))
        /\ \A h \in held : h[1] # i => h \in held'
        /\ \A e \in Inst : e # d => (Holds(i, e) => Holds(i, e)')
        /\ \A e \in Inst : made[e] <= made'[e]
    BY <1>1, <1>2, LockLess
  <1>6. Others(i)
    BY <1>1, <1>4, <1>5 DEF Others
  <1>7. KeepsKnown(i)
    <2> SUFFICES ASSUME NEW x \in DOMAIN mem[i]
        PROVE /\ home[x] \notin todo[i] /\ x \notin NoScan.names /\ NoScan.dir # home[x]
              /\ kind[x] = "owned" /\ mem[i][x] # "delivered" => Holds(i, home[x])'
      BY <1>1, <1>4 DEF KeepsKnown
    <2>1. Holds(i, home[x]) => Holds(i, home[x])'
      BY <1>1, <1>3, <1>5 DEF Holds
    <2> QED BY <1>3, <2>1, NoScanFacts, NobodyElse
  <1>8. LeavesOver(i)
    BY <1>4, NoScanFacts DEF LeavesOver
  <1> QED BY <1>1, <1>4, <1>5, <1>6, <1>7, <1>8, RecoveryStep

(* Recovery of a directory ends: its lock stays while completions are owed.  *)
LEMMA RecoverEndStep ==
    ASSUME IInv, NEW i \in Inst, RecoverEnd(i)
    PROVE  IInv'
  <1> DEFINE d == scan[i].dir
             g == scan[i].gen
  <1>1. /\ scan[i].step = "load" /\ boot' = boot /\ todo' = todo
        /\ dirs' = dirs /\ lockFile' = lockFile
        /\ made' = made /\ home' = home
        /\ \/ scan[i].pending /\ held' = held
           \/ ~scan[i].pending /\ held' = held \ {<<i, d, g>>}
        /\ scan' = [scan EXCEPT ![i] = NoScan]
        /\ UNCHANGED <<registry, store, session, bounds>>
    BY DEF RecoverEnd, store
  <1>2. boot[i] = "up" /\ d \in Inst /\ d # i
    BY <1>1, ScanFacts
  <1>3. \A x \in DOMAIN mem[i] : /\ home[x] \in Inst /\ home[x] \notin todo[i]
                                 /\ kind[x] = "owned" /\ mem[i][x] # "delivered"
                                       => /\ Holds(i, home[x])
                                          /\ d = home[x] => scan[i].pending
    BY <1>1, KnownFacts DEF IInv, DebtInv
  <1> HIDE DEF d, g
  <1>4. /\ scan'[i] = NoScan /\ \A k \in Inst : k # i => scan'[k] = scan[k]
        /\ TypeStartup' /\ ScanOf(i)'
    BY <1>1, <1>2, ScanEnds
  <1>5. /\ TypeLocks' /\ LockInv' /\ (\A x \in Job : LockIntact(x)' => LockIntact(x))
        /\ \A h \in held : h[1] # i => h \in held'
        /\ \A e \in Inst : e # d => (Holds(i, e) => Holds(i, e)')
        /\ \A e \in Inst : made[e] <= made'[e]
    BY <1>1, <1>2, LockLess
  <1>6. Others(i)
    BY <1>1, <1>4, <1>5 DEF Others
  <1>7. KeepsKnown(i)
    <2> SUFFICES ASSUME NEW x \in DOMAIN mem[i]
        PROVE /\ home[x] \notin todo[i] /\ x \notin NoScan.names /\ NoScan.dir # home[x]
              /\ kind[x] = "owned" /\ mem[i][x] # "delivered" => Holds(i, home[x])'
      BY <1>1, <1>4 DEF KeepsKnown
    <2>1. kind[x] = "owned" /\ mem[i][x] # "delivered" => Holds(i, home[x])'
      <3>1. CASE home[x] # d
        BY <1>1, <1>3, <1>5, <3>1 DEF Holds
      <3>2. CASE home[x] = d
        BY <1>1, <1>3, <3>2 DEF Holds
      <3> QED BY <3>1, <3>2
    <2> QED BY <1>3, <2>1, NoScanFacts, NobodyElse
  <1>8. LeavesOver(i)
    BY <1>4, NoScanFacts DEF LeavesOver
  <1> QED BY <1>1, <1>4, <1>5, <1>6, <1>7, <1>8, RecoveryStep
-----------------------------------------------------------------------------
(* Recovery: the records.                                                    *)

(* A step of recovery that only removes records, tombstones and outputs.     *)
LEMMA CleaningStep ==
    ASSUME IInv, NEW i \in Inst,
           UNCHANGED <<boot, todo, locks, registry, kind, home, session, bounds>>,
           \A k \in Inst : k # i => scan'[k] = scan[k],
           TypeStartup', ScanOf(i)', KeepsKnown(i), LeavesOver(i),
           file' \in [Job -> Files], disk' \in [Job -> Files],
           \A x \in Job : /\ home[x] = Nobody => file'[x] = file[x]
                          /\ file'[x].rec \in {file[x].rec, "none"}
                          /\ file'[x].tomb => file[x].tomb
                          /\ file'[x].out => file[x].out
                          /\ disk'[x] \in {disk[x], file'[x]}
    PROVE  IInv'
  <1>1. /\ boot' = boot /\ todo' = todo /\ dirs' = dirs /\ lockFile' = lockFile
        /\ made' = made /\ held' = held /\ mem' = mem /\ removing' = removing
        /\ kind' = kind /\ home' = home /\ log' = log /\ peeked' = peeked
    BY DEF locks, registry, session
  <1>2. made \in [Inst -> Nat]
    BY Types DEF IInv
  <1>3. TypeOK'
    <2>1. TypeStore'
      BY <1>1 DEF IInv, TypeOK, TypeStore
    <2> QED BY <1>1, <2>1 DEF IInv, TypeOK, TypeLocks, TypeRegistry, TypeSession, session, bounds
  <1>4. LockInv'
    BY <1>1 DEF IInv, LockInv, Holds
  <1>5. ScanInv'
    <2> SUFFICES ASSUME NEW k \in Inst PROVE ScanOf(k)'
      BY DEF ScanInv
    <2>1. CASE k = i
      BY <2>1
    <2>2. CASE k # i
      <3>1. \A d \in Inst : made[d] <= made'[d]
        BY <1>1, <1>2
      <3> QED BY <1>1, <1>3, <2>2, <3>1, ScanKept DEF TypeOK
    <2> QED BY <2>1, <2>2
  <1>6. HomeInv'
    <2>1. \A x \in Job : home[x] = Nobody => file'[x] = NoFile /\ disk'[x] = NoFile
      BY DEF IInv, HomeInv
    <2> QED BY <1>1, <2>1 DEF IInv, HomeInv
  <1>7. KnownInv'
    <2> SUFFICES ASSUME NEW k \in Inst, NEW x \in DOMAIN mem[k]
                 PROVE  /\ home[x] # Nobody /\ home[x] \notin todo[k]
                        /\ x \notin scan'[k].names
                        /\ scan'[k].dir = home[x] => scan'[k].step = "load"
                        /\ mem[k][x] = "running" => home[x] = k
      BY <1>1 DEF KnownInv
    <2>1. /\ home[x] # Nobody /\ home[x] \notin todo[k] /\ x \notin scan[k].names
          /\ scan[k].dir = home[x] => scan[k].step = "load"
          /\ mem[k][x] = "running" => home[x] = k
      BY DEF IInv, KnownInv
    <2> QED BY <1>1, <2>1 DEF KeepsKnown
  <1>8. DebtInv'
    <2> SUFFICES ASSUME NEW k \in Inst, NEW x \in DOMAIN mem[k], kind[x] = "owned",
                        mem[k][x] # "delivered"
                 PROVE  Holds(k, home[x]) /\ (scan'[k].dir = home[x] => scan'[k].pending)
      BY <1>1 DEF DebtInv, Holds
    <2>1. Holds(k, home[x]) /\ (scan[k].dir = home[x] => scan[k].pending)
      BY DEF IInv, DebtInv
    <2> QED BY <1>1, <2>1 DEF KeepsKnown
  <1>9. LeftInv'
    <2> SUFFICES ASSUME NEW k \in Inst, scan'[k].step = "load"
                 PROVE  \E kept \in SUBSET {x \in Job : home[x] # Nobody} :
                          \E outs \in SUBSET kept : LeftBy(k, kept, outs)'
      BY <1>1 DEF LeftInv
    <2>1. CASE k = i
      BY <2>1 DEF LeavesOver
    <2>2. CASE k # i
      <3>1. scan'[k] = scan[k]
        BY <2>2
      <3>2. PICK kept \in SUBSET {x \in Job : home[x] # Nobody} :
              \E outs \in SUBSET kept : LeftBy(k, kept, outs)
        BY <3>1 DEF IInv, LeftInv
      <3>3. PICK outs \in SUBSET kept : LeftBy(k, kept, outs)
        BY <3>2
      <3>4. {x \in scan[k].names : file'[x].out} \subseteq outs
        BY <3>3 DEF LeftBy
      <3>5. LeftBy(k, kept, outs)'
        BY <1>1, <3>1, <3>3, <3>4 DEF LeftBy
      <3> QED BY <3>5
    <2> QED BY <2>1, <2>2
  <1>10. RemovingInv'
    BY <1>1 DEF IInv, RemovingInv, Free, Releasable
  <1>11. ToldInv'
    <2> SUFFICES ASSUME NEW x \in Job, kind[x] = "owned"
                 PROVE  /\ file'[x].rec = "delivered" \/ file'[x].tomb => Told(x)
                        /\ disk'[x].rec = "delivered" \/ disk'[x].tomb => Told(x)
                        /\ \A k \in Inst : x \in DOMAIN mem[k] /\ mem[k][x] = "delivered"
                                           => Told(x)
      BY <1>1 DEF ToldInv, Told
    <2>1. file'[x].rec = "delivered" \/ file'[x].tomb => Told(x)
      BY DEF IInv, ToldInv
    <2>2. disk'[x].rec = "delivered" \/ disk'[x].tomb => Told(x)
      BY <2>1 DEF IInv, ToldInv
    <2> QED BY <2>1, <2>2 DEF IInv, ToldInv
  <1>12. OwnerInv'
    <2> SUFFICES ASSUME NEW x \in Job, LockIntact(x)
                 PROVE  /\ \A k \in Inst : x \in DOMAIN mem[k] /\ home[x] # k
                                           => boot[home[x]] = "dead"
                        /\ \A k \in Inst : x \in DOMAIN mem[k] /\ mem[k][x] = "running"
                                           => file'[x].rec \in {"none", "running"}
                        /\ Owed(x, file'[x].rec) /\ ~Told(x)
                             => disk'[x].rec \in {"settled", "delivered"}
      BY <1>1 DEF OwnerInv, Told, Owed, LockIntact
    <2>1. /\ \A k \in Inst : x \in DOMAIN mem[k] /\ home[x] # k => boot[home[x]] = "dead"
          /\ \A k \in Inst : x \in DOMAIN mem[k] /\ mem[k][x] = "running"
                             => file[x].rec \in {"none", "running"}
          /\ Owed(x, file[x].rec) /\ ~Told(x) => disk[x].rec \in {"settled", "delivered"}
      BY DEF IInv, OwnerInv
    <2>2. Owed(x, file'[x].rec) => file'[x].rec = file[x].rec /\ file'[x].rec = "settled"
      BY DEF Owed
    <2> QED BY <2>1, <2>2
  <1> QED BY <1>3, <1>4, <1>5, <1>6, <1>7, <1>8, <1>9, <1>10, <1>11, <1>12 DEF IInv

(* The names are read; interrupted removals are finished.                    *)
LEMMA RecoverListStep ==
    ASSUME IInv, NEW i \in Inst, RecoverList(i)
    PROVE  IInv'
  <1> DEFINE d == scan[i].dir
             g == scan[i].gen
             tombs == {j \in In(d) : file[j].tomb}
             names == {j \in In(d) : file[j].rec # "none"} \ tombs
             clean == [j \in Job |->
                         CASE j \in tombs -> NoFile
                           [] j \in In(d) \ (tombs \cup names) -> [file[j] EXCEPT !.out = FALSE]
                           [] OTHER -> file[j]]
             n == Cardinality(names) + Cardinality({j \in names : file[j].out})
  <1>1. /\ scan[i].step = "list" /\ boot' = boot /\ todo' = todo
        /\ dirs' = dirs /\ lockFile' = lockFile
        /\ made' = made /\ home' = home /\ mem' = mem /\ kind' = kind
        /\ UNCHANGED <<registry, kind, home, session, bounds>>
    BY DEF RecoverList, registry
  <1>2. /\ scan[i] \in Scan /\ boot[i] = "up" /\ d \in Inst /\ d # i
        /\ <<i, d, g>> \in held /\ file \in [Job -> Files] /\ disk \in [Job -> Files]
    BY <1>1, ScanFacts, Types DEF IInv, Recovering
  <1>3. \A x \in DOMAIN mem[i] : /\ home[x] \in Inst /\ home[x] \notin todo[i] /\ home[x] # d
                                 /\ kind[x] = "owned" /\ mem[i][x] # "delivered"
                                       => Holds(i, home[x])
    BY <1>1, KnownFacts DEF IInv, DebtInv
  <1>4. CASE d \notin dirs
    <2> HIDE DEF d, g
    <2>1. /\ held' = held \ {<<i, d, g>>} /\ scan' = [scan EXCEPT ![i] = NoScan]
          /\ file' = file /\ disk' = disk
      BY <1>4 DEF RecoverList, d, g
    <2>2. /\ scan'[i] = NoScan /\ \A k \in Inst : k # i => scan'[k] = scan[k]
          /\ TypeStartup' /\ ScanOf(i)'
      BY <1>1, <1>2, <2>1, ScanEnds
    <2>3. /\ TypeLocks' /\ LockInv' /\ (\A x \in Job : LockIntact(x)' => LockIntact(x))
          /\ \A h \in held : h[1] # i => h \in held'
          /\ \A e \in Inst : e # d => (Holds(i, e) => Holds(i, e)')
          /\ \A e \in Inst : made[e] <= made'[e]
      BY <1>1, <1>2, <2>1, LockLess
    <2>4. Others(i)
      BY <1>1, <2>2, <2>3 DEF Others
    <2>5. KeepsKnown(i)
      <3> SUFFICES ASSUME NEW x \in DOMAIN mem[i]
          PROVE /\ home[x] \notin todo[i] /\ x \notin NoScan.names /\ NoScan.dir # home[x]
                /\ kind[x] = "owned" /\ mem[i][x] # "delivered" => Holds(i, home[x])'
        BY <1>1, <2>2 DEF KeepsKnown
      <3>1. Holds(i, home[x]) => Holds(i, home[x])'
        BY <1>1, <1>3, <2>3 DEF Holds
      <3> QED BY <1>3, <3>1, NoScanFacts, NobodyElse
    <2>6. LeavesOver(i)
      BY <2>2, NoScanFacts DEF LeavesOver
    <2>7. UNCHANGED <<registry, store, session, bounds>>
      BY <1>1, <2>1 DEF store
    <2> QED BY <2>2, <2>3, <2>4, <2>5, <2>6, <2>7, RecoveryStep
  <1>5. CASE d \in dirs
    <2>1. PICK s : s = [[[scan[i] EXCEPT !.step = "load"] EXCEPT !.names = names] EXCEPT !.left = n]
      OBVIOUS
    <2>2. /\ file' = clean /\ disk' = (IF tombs # {} THEN Synced(d, clean) ELSE disk)
          /\ scan' = [scan EXCEPT ![i] = s] /\ held' = held
      BY <1>5, <2>1 DEF RecoverList
    <2>3. /\ names \subseteq {x \in Job : home[x] # Nobody} /\ names \subseteq Job
          /\ \A x \in names : home[x] = d
      BY <1>2, NobodyElse DEF In
    <2>4. n \in Nat
      <3>1. IsFiniteSet(names) /\ IsFiniteSet({j \in names : file[j].out})
        BY <2>3, FS_Subset DEF IInv, HomeInv
      <3> HIDE DEF names
      <3> QED BY <3>1, FS_CardinalityType
    <2>5. \A x \in Job : /\ clean[x] \in Files
                         /\ home[x] = Nobody => clean[x] = file[x]
                         /\ clean[x].rec \in {file[x].rec, "none"}
                         /\ clean[x].tomb => file[x].tomb
                         /\ clean[x].out => file[x].out
                         /\ x \in names => clean[x] = file[x]
      <3> SUFFICES ASSUME NEW x \in Job
          PROVE /\ clean[x] \in Files
                /\ home[x] = Nobody => clean[x] = file[x]
                /\ clean[x].rec \in {file[x].rec, "none"}
                /\ clean[x].tomb => file[x].tomb
                /\ clean[x].out => file[x].out
                /\ x \in names => clean[x] = file[x]
        OBVIOUS
      <3>1. file[x] \in Files /\ NoFile \in Files /\ NoFile.rec = "none"
            /\ ~NoFile.tomb /\ ~NoFile.out
        BY <1>2 DEF NoFile, Files
      <3>2. PICK f : f = [file[x] EXCEPT !.out = FALSE]
        OBVIOUS
      <3>3. f \in Files /\ f.rec = file[x].rec /\ f.tomb = file[x].tomb /\ ~f.out
        BY <3>1, <3>2 DEF Files
      <3>4. home[x] = Nobody => x \notin In(d)
        BY <1>2, NobodyElse DEF In
      <3>5. CASE x \in tombs
        <4>1. clean[x] = NoFile /\ x \notin names /\ home[x] # Nobody
          BY <3>4, <3>5
        <4> QED BY <3>1, <4>1
      <3>6. CASE x \in In(d) \ (tombs \cup names)
        <4>1. clean[x] = f /\ x \notin names /\ home[x] # Nobody
          BY <3>2, <3>4, <3>6
        <4> QED BY <3>3, <4>1
      <3>7. CASE x \notin tombs /\ x \notin In(d) \ (tombs \cup names)
        <4>1. clean[x] = file[x]
          BY <3>7
        <4> QED BY <3>1, <4>1
      <3> QED BY <3>5, <3>6, <3>7
    <2> HIDE DEF names, tombs, n
    <2>6. /\ s \in Scan /\ s.dir = d /\ s.gen = g /\ s.step = "load" /\ s.names = names
          /\ s.left = n /\ s.pending = scan[i].pending
      <3>1. names \in SUBSET Job /\ n \in Int
        BY <2>3, <2>4
      <3>2. PICK t : t = [scan[i] EXCEPT !.step = "load"]
        OBVIOUS
      <3>3. /\ t \in Scan /\ t.dir = d /\ t.gen = g /\ t.step = "load"
            /\ t.pending = scan[i].pending
        BY <1>2, <3>2, NextStep
      <3>4. PICK u : u = [t EXCEPT !.names = names]
        OBVIOUS
      <3>5. /\ u \in Scan /\ u.dir = d /\ u.gen = g /\ u.step = "load" /\ u.names = names
            /\ u.pending = scan[i].pending
        BY <3>1, <3>3, <3>4 DEF Scan
      <3>6. s = [u EXCEPT !.left = n]
        BY <2>1, <3>2, <3>4
      <3> QED BY <3>1, <3>5, <3>6 DEF Scan
    <2>7. /\ scan'[i] = s /\ \A k \in Inst : k # i => scan'[k] = scan[k]
          /\ TypeStartup' /\ ScanOf(i)'
      <3>1. /\ scan[i].step # "idle" /\ <<i, s.dir, s.gen>> \in held'
            /\ \A x \in s.names : home[x] = s.dir
        BY <1>1, <1>2, <2>2, <2>3, <2>6
      <3> HIDE DEF d, g
      <3> QED BY <1>1, <2>2, <2>6, <3>1, ScanGoes DEF d, g
    <2>8. \A x \in DOMAIN mem[i] : x \notin names
      BY <1>3, <2>3
    <2>9. KeepsKnown(i)
      BY <1>1, <1>3, <2>2, <2>6, <2>7, <2>8 DEF KeepsKnown, Holds
    <2>10. LeavesOver(i)
      <3>1. PICK kept : kept = names
        OBVIOUS
      <3>2. PICK outs : outs = {j \in names : file[j].out}
        OBVIOUS
      <3>3. s.left = Cardinality(kept) + Cardinality(outs) /\ outs \subseteq kept
        BY <2>6, <3>1, <3>2 DEF n
      <3> HIDE DEF clean, d
      <3>4. {x \in scan'[i].names : file'[x].out} \subseteq outs
        BY <2>2, <2>3, <2>5, <2>6, <2>7, <3>2
      <3>5. {x \in DOMAIN mem'[i] : home'[x] = scan'[i].dir} \subseteq kept
        BY <1>1, <1>3, <2>6, <2>7
      <3>6. LeftBy(i, kept, outs)'
        BY <2>6, <2>7, <3>1, <3>3, <3>4, <3>5 DEF LeftBy
      <3> QED BY <2>3, <3>1, <3>3, <3>6 DEF LeavesOver
    <2>11. file' \in [Job -> Files]
      BY <2>2, <2>5
    <2>12. \A x \in Job : /\ home[x] = Nobody => file'[x] = file[x]
                          /\ file'[x].rec \in {file[x].rec, "none"}
                          /\ file'[x].tomb => file[x].tomb
                          /\ file'[x].out => file[x].out
      BY <2>2, <2>5
    <2>13. /\ disk' \in [Job -> Files] /\ \A x \in Job : disk'[x] \in {disk[x], file'[x]}
      <3> HIDE DEF clean
      <3> QED BY <1>2, <2>2, <2>11 DEF Synced
    <2>14. UNCHANGED <<boot, todo, locks, registry, kind, home, session, bounds>>
      BY <1>1, <2>2 DEF locks
    <2> QED BY <2>7, <2>9, <2>10, <2>11, <2>12, <2>13, <2>14, CleaningStep
  <1> QED BY <1>4, <1>5
(* An old record that may go goes, with its output.                          *)
LEMMA LoadExpiredStep ==
    ASSUME IInv, NEW i \in Inst, NEW j \in Job, LoadExpired(i, j)
    PROVE  IInv'
  <1>1. /\ scan[i].step = "load" /\ j \in scan[i].names /\ file[j].out
        /\ boot' = boot /\ todo' = todo /\ made' = made /\ held' = held
        /\ home' = home /\ mem' = mem /\ disk' = disk
        /\ UNCHANGED <<boot, todo, locks, registry, kind, home, session, bounds>>
    BY DEF LoadExpired, locks, registry
  <1>2. /\ scan[i] \in Scan /\ scan[i].dir \in Inst /\ scan[i].dir # i
        /\ <<i, scan[i].dir, scan[i].gen>> \in held
        /\ (\A x \in scan[i].names : home[x] = scan[i].dir)
        /\ file \in [Job -> Files] /\ disk \in [Job -> Files]
    BY <1>1, ScanFacts, Types DEF Recovering, IInv
  <1>3. PICK t : t = [scan[i] EXCEPT !.left = @ - 2]
    OBVIOUS
  <1>4. /\ t \in Scan /\ t.dir = scan[i].dir /\ t.gen = scan[i].gen /\ t.step = "load"
        /\ t.names = scan[i].names /\ t.left = scan[i].left - 2
        /\ t.pending = scan[i].pending
    BY <1>1, <1>2, <1>3 DEF Scan
  <1>5. PICK s : s = [t EXCEPT !.names = @ \ {j}]
    OBVIOUS
  <1>6. /\ s \in Scan /\ s.dir = scan[i].dir /\ s.gen = scan[i].gen /\ s.step = "load"
        /\ s.names = scan[i].names \ {j} /\ s.left = scan[i].left - 2
        /\ s.pending = scan[i].pending
    BY <1>4, <1>5 DEF Scan
  <1>7. scan' = [scan EXCEPT ![i] = s]
    BY <1>3, <1>5 DEF LoadExpired, Loaded
  <1>8. /\ scan'[i] = s /\ \A k \in Inst : k # i => scan'[k] = scan[k]
        /\ TypeStartup' /\ ScanOf(i)'
    <2>1. /\ scan[i].step # "idle" /\ <<i, s.dir, s.gen>> \in held'
          /\ \A x \in s.names : home[x] = s.dir
      BY <1>1, <1>2, <1>6
    <2> QED BY <1>1, <1>6, <1>7, <2>1, ScanGoes
  <1>9. PICK f : f = [[file[j] EXCEPT !.rec = "none"] EXCEPT !.out = FALSE]
    OBVIOUS
  <1>10. f \in Files /\ f.rec = "none" /\ f.tomb = file[j].tomb /\ ~f.out
    BY <1>2, <1>9 DEF Files
  <1>11. /\ file' \in [Job -> Files] /\ file'[j] = f
         /\ \A x \in Job : x # j => file'[x] = file[x]
    <2>1. file' = [file EXCEPT ![j] = f]
      BY <1>9 DEF LoadExpired
    <2> QED BY <1>2, <1>10, <2>1
  <1>12. KeepsKnown(i)
    <2> SUFFICES ASSUME NEW x \in DOMAIN mem[i]
        PROVE /\ home[x] \notin todo[i] /\ x \notin s.names
              /\ s.dir = home[x] => s.step = "load"
              /\ kind[x] = "owned" /\ mem[i][x] # "delivered" =>
                    Holds(i, home[x]) /\ (s.dir = home[x] => s.pending)
      BY <1>1, <1>8 DEF KeepsKnown, Holds
    <2> QED BY <1>6, KnownFacts DEF IInv, DebtInv
  <1>13. LeavesOver(i)
    <2>1. PICK kept \in SUBSET {x \in Job : home[x] # Nobody} : \E outs \in SUBSET kept :
            LeftBy(i, kept, outs) /\ IsFiniteSet(kept) /\ IsFiniteSet(outs)
      BY <1>1, LeftFacts
    <2>2. PICK outs \in SUBSET kept : LeftBy(i, kept, outs) /\ IsFiniteSet(outs)
      BY <2>1
    <2>3. j \in kept /\ j \in outs
      BY <1>1, <2>2 DEF LeftBy
    <2>4. /\ Cardinality(kept \ {j}) = Cardinality(kept) - 1
          /\ Cardinality(outs \ {j}) = Cardinality(outs) - 1
          /\ Cardinality(kept) \in Nat /\ Cardinality(outs) \in Nat
      BY <2>1, <2>2, <2>3, FS_RemoveElement, FS_CardinalityType
    <2>5. s.left = Cardinality(kept \ {j}) + Cardinality(outs \ {j})
      BY <1>6, <2>2, <2>4 DEF LeftBy
    <2>6. {x \in scan'[i].names : file'[x].out} \subseteq outs \ {j}
      <3> SUFFICES ASSUME NEW x \in s.names, file'[x].out PROVE x \in outs \ {j}
        BY <1>8
      <3>1. x \in Job /\ x # j /\ x \in scan[i].names
        BY <1>2, <1>6 DEF Scan
      <3>2. file[x].out
        BY <1>11, <3>1
      <3> QED BY <2>2, <3>1, <3>2 DEF LeftBy
    <2>7. {x \in DOMAIN mem'[i] : home'[x] = scan'[i].dir} \subseteq kept \ {j}
      <3> SUFFICES ASSUME NEW x \in DOMAIN mem[i], home[x] = scan[i].dir PROVE x \in kept \ {j}
        BY <1>1, <1>6, <1>8
      <3>1. x # j
        BY <1>1, KnownFacts
      <3> QED BY <2>2, <3>1 DEF LeftBy
    <2>8. scan'[i].names \subseteq kept \ {j}
      BY <1>6, <1>8, <2>2 DEF LeftBy
    <2>9. LeftBy(i, kept \ {j}, outs \ {j})'
      BY <1>8, <2>5, <2>6, <2>7, <2>8 DEF LeftBy
    <2>10. kept \ {j} \in SUBSET {x \in Job : home[x] # Nobody} /\ outs \ {j} \in SUBSET (kept \ {j})
      OBVIOUS
    <2> QED BY <2>9, <2>10 DEF LeavesOver
  <1>14. \A x \in Job : /\ home[x] = Nobody => file'[x] = file[x]
                        /\ file'[x].rec \in {file[x].rec, "none"}
                        /\ file'[x].tomb => file[x].tomb
                        /\ file'[x].out => file[x].out
                        /\ disk'[x] \in {disk[x], file'[x]}
    <2>1. home[j] # Nobody
      BY <1>1, <1>2, NobodyElse
    <2> QED BY <1>1, <1>10, <1>11, <2>1
  <1>15. disk' \in [Job -> Files]
    BY <1>1, <1>2
  <1> QED BY <1>1, <1>8, <1>11, <1>12, <1>13, <1>14, <1>15, CleaningStep

(* A record is loaded; one left running is settled and written again.        *)
LEMMA LoadRecordStep ==
    ASSUME IInv, NEW i \in Inst, NEW j \in Job, LoadRecord(i, j)
    PROVE  IInv'
  <1> DEFINE st == IF file[j].rec = "running" THEN "settled" ELSE file[j].rec
  <1>1. /\ scan[i].step = "load" /\ j \in scan[i].names /\ file[j].rec # "none"
        /\ boot' = boot /\ todo' = todo /\ dirs' = dirs /\ lockFile' = lockFile
        /\ made' = made /\ held' = held
        /\ home' = home /\ kind' = kind /\ removing' = removing
        /\ log' = log /\ peeked' = peeked
        /\ mem' = [mem EXCEPT ![i] = With(@, j, st)]
        /\ UNCHANGED <<session, bounds>>
    BY DEF LoadRecord, locks, session
  <1>2. /\ scan[i] \in Scan /\ scan[i].dir \in Inst /\ scan[i].dir # i /\ boot[i] = "up"
        /\ scan[i].dir \notin todo[i] /\ i \notin todo[i]
        /\ <<i, scan[i].dir, scan[i].gen>> \in held
        /\ (\A x \in scan[i].names : home[x] = scan[i].dir)
        /\ file \in [Job -> Files] /\ disk \in [Job -> Files] /\ TypeStore /\ TypeRegistry
        /\ made \in [Inst -> Nat] /\ faults \in Nat
        /\ Holds(i, scan[i].dir)
    <2>1. Recovering(i)
      BY <1>1 DEF Recovering
    <2> QED BY <1>1, <2>1, ScanFacts, HeldFacts, Types DEF IInv, TypeOK
  <1>3. st \in {"settled", "delivered"} /\ st \in State
        /\ (st = "delivered" => file[j].rec = "delivered")
    BY <1>1, <1>2 DEF Files, State
  <1> HIDE DEF st
  <1>4. j \notin DOMAIN mem[i] /\ home[j] = scan[i].dir /\ home[j] # Nobody
    BY <1>1, <1>2, KnownFacts, NobodyElse
  <1>5. Knows(i, j, st)
    BY <1>1, <1>2, <1>3, RegistryChanges
  <1>6. /\ \A k \in Inst : k # i => mem'[k] = mem[k]
        /\ DOMAIN mem'[i] = DOMAIN mem[i] \cup {j} /\ mem'[i][j] = st
        /\ \A k \in Inst : \A x \in DOMAIN mem'[k] :
              \/ k = i /\ x = j
              \/ x \in DOMAIN mem[k] /\ mem'[k][x] = mem[k][x]
        /\ mem' \in [Inst -> Registry]
    BY <1>4, <1>5 DEF Knows
  <1>7. /\ Writes(j, st)
        /\ \/ file' = file /\ disk' = disk
           \/ kind[j] = "capture"
           \/ disk'[j] = file'[j]
    <2>1. CASE file[j].rec = "running"
      <3>1. Persist(j, "settled") /\ st = "settled"
        BY <2>1 DEF LoadRecord, st
      <3>2. Writes(j, st)
        BY <1>2, <1>3, <3>1, PersistFacts
      <3>3. \/ file' = file /\ disk' = disk
            \/ kind[j] = "capture"
            \/ disk'[j] = file'[j]
        BY <1>2, <1>3, <3>1, PersistFacts
      <3> QED BY <3>2, <3>3
    <2>2. CASE file[j].rec # "running"
      <3>1. file' = file /\ disk' = disk
        BY <2>2 DEF LoadRecord
      <3> QED BY <1>2, <3>1 DEF Writes
    <2> QED BY <2>1, <2>2
  <1>8. PICK t : t = [scan[i] EXCEPT !.pending = @ \/ Owed(j, st)]
    OBVIOUS
  <1>9. /\ t \in Scan /\ t.dir = scan[i].dir /\ t.gen = scan[i].gen /\ t.step = "load"
        /\ t.names = scan[i].names /\ t.left = scan[i].left
        /\ scan[i].pending \/ Owed(j, st) => t.pending
    <2>1. (scan[i].pending \/ Owed(j, st)) \in BOOLEAN
      BY <1>2 DEF Scan, Owed
    <2> QED BY <1>1, <1>2, <1>8, <2>1 DEF Scan
  <1>10. PICK s : s = [t EXCEPT !.names = @ \ {j}]
    OBVIOUS
  <1>11. /\ s \in Scan /\ s.dir = scan[i].dir /\ s.gen = scan[i].gen /\ s.step = "load"
         /\ s.names = scan[i].names \ {j} /\ s.left = scan[i].left
         /\ scan[i].pending \/ Owed(j, st) => s.pending
    BY <1>9, <1>10 DEF Scan
  <1>12. scan' = [scan EXCEPT ![i] = s]
    BY <1>8, <1>10 DEF LoadRecord, Loaded, st
  <1>13. /\ scan'[i] = s /\ \A k \in Inst : k # i => scan'[k] = scan[k]
         /\ TypeStartup' /\ ScanOf(i)'
    <2>1. /\ scan[i].step # "idle" /\ <<i, s.dir, s.gen>> \in held'
          /\ \A x \in s.names : home[x] = s.dir
      BY <1>1, <1>2, <1>11
    <2> QED BY <1>1, <1>11, <1>12, <2>1, ScanGoes
  <1>14. j \in Job /\ \A x \in Job : ToldNext(x) <=> Told(x)
    BY <1>1 DEF ToldNext, Told
  <1>15. TypeOK'
    <2>1. TypeLocks'
      BY <1>1 DEF IInv, TypeOK, TypeLocks
    <2>2. TypeRegistry'
      BY <1>1, <1>6 DEF IInv, TypeOK, TypeRegistry
    <2>3. TypeStore'
      BY <1>1, <1>2, <1>7 DEF TypeStore, Writes
    <2>4. TypeSession'
      BY <1>1, <1>2, SessionKept DEF bounds
    <2> QED BY <1>13, <2>1, <2>2, <2>3, <2>4 DEF TypeOK
  <1>16. LockInv'
    BY <1>1 DEF IInv, LockInv, Holds
  <1>17. ScanInv'
    <2> SUFFICES ASSUME NEW k \in Inst, k # i PROVE ScanOf(k)'
      BY <1>13 DEF ScanInv
    <2>1. \A d \in Inst : made[d] <= made'[d]
      BY <1>1, <1>2
    <2> QED BY <1>1, <1>13, <1>15, <2>1, ScanKept DEF TypeOK
  <1>18. HomeInv'
    <2>1. \A x \in Job : home[x] = Nobody => file'[x] = NoFile /\ disk'[x] = NoFile
      BY <1>4, <1>7 DEF IInv, HomeInv, Writes
    <2>2. \A k \in Inst : boot[k] # "up" => mem'[k] = Empty
      BY <1>2, <1>6 DEF IInv, HomeInv
    <2> QED BY <1>1, <2>1, <2>2 DEF IInv, HomeInv
  <1>19. KnownInv'
    <2> SUFFICES ASSUME NEW k \in Inst, NEW x \in DOMAIN mem'[k]
                 PROVE  /\ home[x] # Nobody /\ home[x] \notin todo[k]
                        /\ x \notin scan'[k].names
                        /\ scan'[k].dir = home[x] => scan'[k].step = "load"
                        /\ mem'[k][x] = "running" => home[x] = k
      BY <1>1 DEF KnownInv
    <2>1. CASE k = i /\ x = j
      BY <1>2, <1>3, <1>4, <1>6, <1>11, <1>13, <2>1
    <2>2. CASE ~(k = i /\ x = j)
      <3>1. x \in DOMAIN mem[k] /\ mem'[k][x] = mem[k][x]
        BY <1>6, <2>2
      <3>2. /\ home[x] # Nobody /\ home[x] \notin todo[k] /\ x \notin scan[k].names
            /\ scan[k].dir = home[x] => scan[k].step = "load"
            /\ mem[k][x] = "running" => home[x] = k
        BY <3>1 DEF IInv, KnownInv
      <3> QED BY <1>11, <1>13, <3>1, <3>2
    <2> QED BY <2>1, <2>2
  <1>20. DebtInv'
    <2> SUFFICES ASSUME NEW k \in Inst, NEW x \in DOMAIN mem'[k], kind[x] = "owned",
                        mem'[k][x] # "delivered"
                 PROVE  Holds(k, home[x]) /\ (scan'[k].dir = home[x] => scan'[k].pending)
      BY <1>1 DEF DebtInv, Holds
    <2>1. CASE k = i /\ x = j
      <3>1. Owed(j, st)
        BY <1>3, <1>6, <2>1 DEF Owed
      <3> QED BY <1>2, <1>4, <1>11, <1>13, <2>1, <3>1
    <2>2. CASE ~(k = i /\ x = j)
      <3>1. x \in DOMAIN mem[k] /\ mem[k][x] # "delivered"
        BY <1>6, <2>2
      <3>2. Holds(k, home[x]) /\ (scan[k].dir = home[x] => scan[k].pending)
        BY <3>1 DEF IInv, DebtInv
      <3> QED BY <1>11, <1>13, <3>2
    <2> QED BY <2>1, <2>2
  <1>21. LeftInv'
    <2> SUFFICES ASSUME NEW k \in Inst, scan'[k].step = "load"
                 PROVE  \E kept \in SUBSET {x \in Job : home[x] # Nobody} :
                          \E outs \in SUBSET kept : LeftBy(k, kept, outs)'
      BY <1>1 DEF LeftInv
    <2>1. /\ scan[k].step = "load" /\ scan'[k].left = scan[k].left
          /\ scan'[k].names \subseteq scan[k].names /\ scan'[k].dir = scan[k].dir
      BY <1>1, <1>11, <1>13
    <2>2. PICK kept \in SUBSET {x \in Job : home[x] # Nobody} :
            \E outs \in SUBSET kept : LeftBy(k, kept, outs)
      BY <2>1 DEF IInv, LeftInv
    <2>3. PICK outs \in SUBSET kept : LeftBy(k, kept, outs)
      BY <2>2
    <2>4. {x \in scan'[k].names : file'[x].out} \subseteq outs
      <3> SUFFICES ASSUME NEW x \in scan[k].names, file'[x].out PROVE x \in outs
        BY <2>1
      <3>1. x \in Job
        BY <2>3 DEF LeftBy
      <3>2. file[x].out
        BY <1>7, <3>1 DEF Writes
      <3> QED BY <2>3, <3>2 DEF LeftBy
    <2>5. {x \in DOMAIN mem'[k] : home'[x] = scan'[k].dir} \subseteq kept
      <3> SUFFICES ASSUME NEW x \in DOMAIN mem'[k], home[x] = scan[k].dir PROVE x \in kept
        BY <1>1, <2>1
      <3>1. x \in DOMAIN mem[k] \/ (k = i /\ x = j)
        BY <1>6
      <3> QED BY <1>1, <2>3, <3>1 DEF LeftBy
    <2>6. scan'[k].names \subseteq kept
      BY <2>1, <2>3 DEF LeftBy
    <2>7. LeftBy(k, kept, outs)'
      BY <2>1, <2>3, <2>4, <2>5, <2>6 DEF LeftBy
    <2> QED BY <2>7
  <1>22. RemovingInv'
    <2>1. Free(i) \/ removing[i].job # j
      BY <1>4 DEF IInv, RemovingInv
    <2> QED BY <1>1, <1>3, <1>5, <2>1, RemovingKept
  <1>23. ToldInv'
    <2> SUFFICES ASSUME NEW x \in Job, kind[x] = "owned"
                 PROVE  /\ file'[x].rec = "delivered" \/ file'[x].tomb => Told(x)
                        /\ disk'[x].rec = "delivered" \/ disk'[x].tomb => Told(x)
                        /\ \A k \in Inst : x \in DOMAIN mem'[k] /\ mem'[k][x] = "delivered"
                                           => Told(x)
      BY <1>1 DEF ToldInv, Told
    <2>1. /\ file[x].rec = "delivered" \/ file[x].tomb => Told(x)
          /\ disk[x].rec = "delivered" \/ disk[x].tomb => Told(x)
          /\ \A k \in Inst : x \in DOMAIN mem[k] /\ mem[k][x] = "delivered" => Told(x)
      BY DEF IInv, ToldInv
    <2>2. file'[x].rec = "delivered" \/ file'[x].tomb => Told(x)
      BY <1>3, <1>7, <2>1 DEF Writes
    <2>3. disk'[x] \in {disk[x], file'[x]}
      BY <1>7 DEF Writes
    <2>4. \A k \in Inst : x \in DOMAIN mem'[k] /\ mem'[k][x] = "delivered" => Told(x)
      BY <1>3, <1>6, <2>1
    <2> QED BY <2>1, <2>2, <2>3, <2>4
  <1>24. LockIntact(j) => boot[home[j]] = "dead"
    <2> SUFFICES ASSUME LockIntact(j), boot[home[j]] # "dead" PROVE FALSE
      OBVIOUS
    <2>1. boot[home[j]] = "up" /\ home[j] \in Inst /\ made[home[j]] = 1
      BY <1>2, <1>4 DEF IInv, HomeInv, LockIntact
    <2>2. Holds(home[j], home[j])
      BY <2>1, HeldFacts
    <2> QED BY <1>2, <1>4, <2>1, <2>2, OneHolder
  <1>25. OwnerInv'
    <2> SUFFICES ASSUME NEW x \in Job, LockIntact(x)
                 PROVE  /\ \A k \in Inst : x \in DOMAIN mem'[k] /\ home[x] # k
                                           => boot[home[x]] = "dead"
                        /\ \A k \in Inst : x \in DOMAIN mem'[k] /\ mem'[k][x] = "running"
                                           => file'[x].rec \in {"none", "running"}
                        /\ Owed(x, file'[x].rec) /\ ~Told(x)
                             => disk'[x].rec \in {"settled", "delivered"}
      BY <1>1 DEF OwnerInv, Told, Owed, LockIntact
    <2>1. /\ \A k \in Inst : x \in DOMAIN mem[k] /\ home[x] # k => boot[home[x]] = "dead"
          /\ \A k \in Inst : x \in DOMAIN mem[k] /\ mem[k][x] = "running"
                             => file[x].rec \in {"none", "running"}
          /\ Owed(x, file[x].rec) /\ ~Told(x) => disk[x].rec \in {"settled", "delivered"}
      BY DEF IInv, OwnerInv
    <2>2. CASE x = j
      <3>1. \A k \in Inst : j \in DOMAIN mem'[k] => mem'[k][j] # "running"
        <4> SUFFICES ASSUME NEW k \in Inst, j \in DOMAIN mem'[k], mem'[k][j] = "running"
                     PROVE  FALSE
          OBVIOUS
        <4>1. j \in DOMAIN mem[k] /\ mem[k][j] = "running"
          BY <1>3, <1>6
        <4>2. home[j] = k /\ boot[k] = "up"
          BY <4>1, KnownFacts
        <4> QED BY <1>24, <2>2, <4>2
      <3>2. ASSUME Owed(j, file'[j].rec), ~Told(j)
            PROVE  disk'[j].rec \in {"settled", "delivered"}
        <4>1. CASE file' = file /\ disk' = disk
          BY <2>1, <2>2, <3>2, <4>1
        <4>2. CASE disk'[j] = file'[j]
          BY <3>2, <4>2 DEF Owed
        <4> QED BY <1>7, <3>2, <4>1, <4>2 DEF Owed
      <3> QED BY <1>24, <2>2, <3>1, <3>2
    <2>3. CASE x # j
      <3>1. file'[x] = file[x] /\ disk'[x] \in {disk[x], file[x]}
        BY <1>7, <2>3 DEF Writes
      <3>2. \A k \in Inst : x \in DOMAIN mem'[k] =>
               x \in DOMAIN mem[k] /\ mem'[k][x] = mem[k][x]
        BY <1>6, <2>3
      <3>3. Owed(x, file[x].rec) => file[x].rec = "settled"
        BY DEF Owed
      <3> QED BY <2>1, <3>1, <3>2, <3>3
    <2> QED BY <2>2, <2>3
  <1> QED BY <1>15, <1>16, <1>17, <1>18, <1>19, <1>20, <1>21, <1>22, <1>23, <1>25 DEF IInv
-----------------------------------------------------------------------------
(* Faults.                                                                   *)

(* Runs die: their locks and what they knew are gone, nothing else changes   *)
(* hands.                                                                    *)
LEMMA DeathFacts ==
    ASSUME IInv, NEW runs \in SUBSET Inst, \A i \in runs : boot[i] # "new", Dead(runs),
           UNCHANGED <<dirs, lockFile, made, kind, home, peeked, turns>>,
           log' \in [Job -> {"none", "written", "synced"}], faults' \in Nat
    PROVE  /\ TypeStartup' /\ TypeLocks' /\ TypeRegistry' /\ TypeSession'
           /\ LockInv' /\ ScanInv' /\ KnownInv' /\ DebtInv' /\ RemovingInv'
           /\ \A i \in runs : boot'[i] = "dead" /\ mem'[i] = Empty /\ scan'[i] = NoScan
           /\ \A i \in Inst \ runs : boot'[i] = boot[i] /\ mem'[i] = mem[i] /\ scan'[i] = scan[i]
           /\ \A i \in Inst : \A j \in DOMAIN mem'[i] :
                  i \notin runs /\ j \in DOMAIN mem[i] /\ mem'[i][j] = mem[i][j]
           /\ \A j \in Job : LockIntact(j)' <=> LockIntact(j)
  <1>1. /\ boot \in [Inst -> {"new", "listed", "made", "created", "up", "failed", "dead"}]
        /\ todo \in [Inst -> SUBSET Inst] /\ scan \in [Inst -> Scan]
        /\ dirs \subseteq Inst /\ lockFile \in [Inst -> Nat] /\ made \in [Inst -> Nat]
        /\ held \subseteq Inst \X Inst \X Nat /\ mem \in [Inst -> Registry]
        /\ removing \in [Inst -> [job : Job \cup {"none"}, step : 0..5]]
        /\ parked \in [Inst -> SUBSET Job] /\ pend \in [Inst -> SUBSET Job]
        /\ writer \in Inst \cup {Nobody} /\ peeked \subseteq Job /\ turns \in Nat
    BY Types DEF IInv
  <1>2. /\ dirs' = dirs /\ lockFile' = lockFile /\ made' = made /\ kind' = kind
        /\ home' = home /\ peeked' = peeked /\ turns' = turns
    OBVIOUS
  <1>3. \A i \in runs : /\ boot'[i] = "dead" /\ todo'[i] = {} /\ scan'[i] = NoScan
                        /\ mem'[i] = Empty /\ removing'[i] = NoRemoval
    BY DEF Dead
  <1>4. \A i \in Inst \ runs : /\ boot'[i] = boot[i] /\ todo'[i] = todo[i] /\ scan'[i] = scan[i]
                               /\ mem'[i] = mem[i] /\ removing'[i] = removing[i]
    BY DEF Dead
  <1>5. /\ held' \subseteq held /\ \A h \in held : h[1] \notin runs => h \in held'
        /\ \A i \in Inst \ runs, d \in Inst : Holds(i, d) => Holds(i, d)'
    <2>1. held' \subseteq held /\ \A h \in held : h[1] \notin runs => h \in held'
      BY DEF Dead
    <2>2. ASSUME NEW i \in Inst \ runs, NEW d \in Inst, Holds(i, d) PROVE Holds(i, d)'
      <3>1. PICK h \in held : h[1] = i /\ h[2] = d
        BY <2>2 DEF Holds
      <3> QED BY <2>1, <3>1 DEF Holds
    <2> QED BY <2>1, <2>2
  <1>6. \A i \in Inst : \A j \in DOMAIN mem'[i] :
            i \notin runs /\ j \in DOMAIN mem[i] /\ mem'[i][j] = mem[i][j]
    BY <1>3, <1>4, EmptyFacts
  <1>7. TypeStartup'
    <2>1. boot' \in [Inst -> {"new", "listed", "made", "created", "up", "failed", "dead"}]
      BY <1>1 DEF Dead
    <2>2. todo' \in [Inst -> SUBSET Inst]
      BY <1>1 DEF Dead
    <2>3. scan' \in [Inst -> Scan]
      BY <1>1, NoScanFacts DEF Dead
    <2> QED BY <2>1, <2>2, <2>3 DEF TypeStartup
  <1>8. TypeLocks'
    BY <1>1, <1>2, <1>5 DEF TypeLocks
  <1>9. TypeRegistry'
    <2>1. NoRemoval \in [job : Job \cup {"none"}, step : 0..5]
      BY DEF NoRemoval
    <2>2. mem' \in [Inst -> Registry]
      BY <1>1, EmptyFacts DEF Dead
    <2>3. removing' \in [Inst -> [job : Job \cup {"none"}, step : 0..5]]
      BY <1>1, <2>1 DEF Dead
    <2> QED BY <2>2, <2>3 DEF TypeRegistry
  <1>10. TypeSession'
    <2>1. parked' \in [Inst -> SUBSET Job] /\ pend' \in [Inst -> SUBSET Job]
      BY <1>1 DEF Dead
    <2>2. writer' \in Inst \cup {Nobody}
      BY <1>1 DEF Dead
    <2> QED BY <1>1, <1>2, <2>1, <2>2 DEF TypeSession
  <1>11. LockInv'
    <2>1. \A i \in Inst : boot'[i] = "up" => Holds(i, i)'
      BY <1>3, <1>4, <1>5 DEF IInv, LockInv
    <2>2. \A d \in dirs : boot'[d] \notin {"new", "listed"}
      BY <1>1, <1>3, <1>4 DEF IInv, LockInv
    <2>3. \A g, h \in held' : g[2] = h[2] /\ g[3] = h[3] => g = h
      BY <1>5 DEF IInv, LockInv
    <2>4. \A h \in held' : 1 <= h[3] /\ h[3] <= made[h[2]]
      BY <1>5 DEF IInv, LockInv
    <2>5. \A d \in Inst : lockFile[d] <= made[d]
      BY DEF IInv, LockInv
    <2> QED BY <1>2, <2>1, <2>2, <2>3, <2>4, <2>5 DEF LockInv
  <1>12. ScanInv'
    <2> SUFFICES ASSUME NEW i \in Inst PROVE ScanOf(i)'
      BY DEF ScanInv
    <2>1. CASE i \in runs
      BY <1>3, <2>1, NoScanFacts, NobodyElse DEF ScanOf, Recovering
    <2>2. CASE i \notin runs
      <3>1. \A d \in Inst : made[d] <= made'[d]
        BY <1>1, <1>2
      <3> QED BY <1>2, <1>4, <1>5, <1>8, <2>2, <3>1, ScanKept
    <2> QED BY <2>1, <2>2
  <1>13. KnownInv'
    <2> SUFFICES ASSUME NEW i \in Inst, NEW j \in DOMAIN mem'[i]
                 PROVE  /\ home[j] # Nobody /\ home[j] \notin todo'[i]
                        /\ j \notin scan'[i].names
                        /\ scan'[i].dir = home[j] => scan'[i].step = "load"
                        /\ mem'[i][j] = "running" => home[j] = i
      BY <1>2 DEF KnownInv
    <2>1. i \notin runs /\ j \in DOMAIN mem[i] /\ mem'[i][j] = mem[i][j]
      BY <1>6
    <2> QED BY <1>4, <2>1 DEF IInv, KnownInv
  <1>14. DebtInv'
    <2> SUFFICES ASSUME NEW i \in Inst, NEW j \in DOMAIN mem'[i], kind[j] = "owned",
                        mem'[i][j] # "delivered"
                 PROVE  Holds(i, home[j])' /\ (scan'[i].dir = home[j] => scan'[i].pending)
      BY <1>2 DEF DebtInv, Holds
    <2>1. i \notin runs /\ j \in DOMAIN mem[i] /\ mem'[i][j] = mem[i][j]
      BY <1>6
    <2>2. home[j] \in Inst /\ Holds(i, home[j]) /\ (scan[i].dir = home[j] => scan[i].pending)
      BY <2>1, KnownFacts DEF IInv, DebtInv
    <2>3. Holds(i, home[j])'
      BY <1>2, <1>5, <2>1, <2>2 DEF Holds
    <2> QED BY <1>4, <2>1, <2>2, <2>3
  <1>15. RemovingInv'
    <2> SUFFICES ASSUME NEW i \in Inst, removing'[i] # NoRemoval
                 PROVE  /\ removing'[i].job \in DOMAIN mem'[i]
                        /\ mem'[i][removing'[i].job] # "running"
                        /\ \/ mem'[i][removing'[i].job] = "delivered"
                           \/ kind[removing'[i].job] # "owned"
      BY <1>2 DEF RemovingInv, Free, Releasable
    <2>1. i \notin runs /\ removing'[i] = removing[i] /\ mem'[i] = mem[i]
      BY <1>3, <1>4
    <2> QED BY <2>1 DEF IInv, RemovingInv, Free, Releasable
  <1>16. \A j \in Job : LockIntact(j)' <=> LockIntact(j)
    BY <1>2 DEF LockIntact
  <1> QED BY <1>3, <1>4, <1>6, <1>7, <1>8, <1>9, <1>10, <1>11, <1>12, <1>13, <1>14, <1>15, <1>16

(* What dead runs leave of the homes.                                        *)
LEMMA HomesLeft ==
    ASSUME IInv, NEW runs \in SUBSET Inst, home' = home, kind' = kind, made' = made,
           \A i \in runs : boot'[i] = "dead" /\ mem'[i] = Empty,
           \A i \in Inst \ runs : boot'[i] = boot[i] /\ mem'[i] = mem[i],
           \A j \in Job : home[j] = Nobody => file'[j] = NoFile /\ disk'[j] = NoFile
    PROVE  HomeInv'
  <1>1. \A j \in Job : home[j] # Nobody =>
           boot'[home[j]] \in {"up", "dead"} /\ 1 <= made[home[j]]
    <2> SUFFICES ASSUME NEW j \in Job, home[j] # Nobody
                 PROVE  boot'[home[j]] \in {"up", "dead"} /\ 1 <= made[home[j]]
      OBVIOUS
    <2>1. home[j] \in Inst /\ boot[home[j]] \in {"up", "dead"} /\ 1 <= made[home[j]]
      BY Types DEF IInv, HomeInv
    <2> QED BY <2>1
  <1>2. \A i \in Inst : boot'[i] # "up" => mem'[i] = Empty
    BY DEF IInv, HomeInv
  <1> QED BY <1>1, <1>2 DEF IInv, HomeInv

(* A process is killed.                                                      *)
LEMMA KillStep ==
    ASSUME IInv, NEW i \in Inst, Kill(i)
    PROVE  IInv'
  <1>1. /\ boot[i] # "new" /\ faults' = faults + 1 /\ Dead({i})
        /\ UNCHANGED <<dirs, lockFile, made, kind, home, peeked, turns>>
        /\ file' = file /\ disk' = disk /\ log' = log
        /\ home' = home /\ kind' = kind /\ made' = made /\ peeked' = peeked
    BY DEF Kill, store
  <1>2. log' \in [Job -> {"none", "written", "synced"}] /\ faults' \in Nat
    BY <1>1, Types DEF IInv
  <1>3. /\ TypeStartup' /\ TypeLocks' /\ TypeRegistry' /\ TypeSession'
        /\ LockInv' /\ ScanInv' /\ KnownInv' /\ DebtInv' /\ RemovingInv'
        /\ boot'[i] = "dead" /\ mem'[i] = Empty /\ scan'[i] = NoScan
        /\ \A k \in Inst \ {i} : boot'[k] = boot[k] /\ mem'[k] = mem[k] /\ scan'[k] = scan[k]
        /\ \A k \in Inst : \A j \in DOMAIN mem'[k] :
               j \in DOMAIN mem[k] /\ mem'[k][j] = mem[k][j]
        /\ \A j \in Job : LockIntact(j)' <=> LockIntact(j)
    <2>1. {i} \in SUBSET Inst /\ \A k \in {i} : boot[k] # "new"
      BY <1>1
    <2> QED BY <1>1, <1>2, <2>1, DeathFacts
  <1>4. TypeOK'
    <2>1. TypeStore'
      BY <1>1 DEF IInv, TypeOK, TypeStore
    <2> QED BY <1>3, <2>1 DEF TypeOK
  <1>5. HomeInv'
    <2>1. \A j \in Job : home[j] = Nobody => file'[j] = NoFile /\ disk'[j] = NoFile
      BY <1>1 DEF IInv, HomeInv
    <2>2. {i} \in SUBSET Inst
      OBVIOUS
    <2> QED BY <1>1, <1>3, <2>1, <2>2, HomesLeft
  <1>6. LeftInv'
    <2> SUFFICES ASSUME NEW k \in Inst, scan'[k].step = "load"
                 PROVE  \E kept \in SUBSET {x \in Job : home[x] # Nobody} :
                          \E outs \in SUBSET kept : LeftBy(k, kept, outs)'
      BY <1>1 DEF LeftInv
    <2>1. scan'[k] = scan[k] /\ mem'[k] = mem[k]
      BY <1>3, NoScanFacts
    <2>2. PICK kept \in SUBSET {x \in Job : home[x] # Nobody} :
            \E outs \in SUBSET kept : LeftBy(k, kept, outs)
      BY <2>1 DEF IInv, LeftInv
    <2>3. PICK outs \in SUBSET kept : LeftBy(k, kept, outs)
      BY <2>2
    <2>4. LeftBy(k, kept, outs)'
      BY <1>1, <2>1, <2>3 DEF LeftBy
    <2> QED BY <2>4
  <1>7. ToldInv'
    BY <1>1, <1>3 DEF IInv, ToldInv, Told
  <1>8. OwnerInv'
    <2> SUFFICES ASSUME NEW x \in Job, LockIntact(x)
                 PROVE  /\ \A k \in Inst : x \in DOMAIN mem'[k] /\ home[x] # k
                                           => boot'[home[x]] = "dead"
                        /\ \A k \in Inst : x \in DOMAIN mem'[k] /\ mem'[k][x] = "running"
                                           => file[x].rec \in {"none", "running"}
                        /\ Owed(x, file[x].rec) /\ ~Told(x)
                             => disk[x].rec \in {"settled", "delivered"}
      BY <1>1, <1>3 DEF OwnerInv, Told, Owed
    <2>1. /\ \A k \in Inst : x \in DOMAIN mem[k] /\ home[x] # k => boot[home[x]] = "dead"
          /\ \A k \in Inst : x \in DOMAIN mem[k] /\ mem[k][x] = "running"
                             => file[x].rec \in {"none", "running"}
          /\ Owed(x, file[x].rec) /\ ~Told(x) => disk[x].rec \in {"settled", "delivered"}
      BY DEF IInv, OwnerInv
    <2>2. \A k \in Inst : x \in DOMAIN mem[k] => home[x] \in Inst
      BY KnownFacts
    <2>3. \A k \in Inst : x \in DOMAIN mem'[k] /\ home[x] # k => boot'[home[x]] = "dead"
      BY <1>3, <2>1, <2>2
    <2> QED BY <1>3, <2>1, <2>3
  <1> QED BY <1>3, <1>4, <1>5, <1>6, <1>7, <1>8 DEF IInv

(* The power fails: no run is left, and the files are a mixture.             *)
LEMMA PowerStep ==
    ASSUME IInv, NEW old, NEW cut, PowerFails(old, cut)
    PROVE  IInv'
  <1> DEFINE runs == {i \in Inst : boot[i] # "new"}
             names(j) == IF j \in old THEN disk[j] ELSE file[j]
  <1>1. /\ faults' = faults + 1 /\ Dead(runs)
        /\ file' = [j \in Job |->
              [names(j) EXCEPT !.out = IF j \in cut THEN disk[j].out ELSE file[j].out]]
        /\ disk' = file'
        /\ log' \in {Commit({}), [j \in Job |-> IF j \in Unsynced THEN "none" ELSE log[j]]}
        /\ UNCHANGED <<dirs, lockFile, made, kind, home, peeked, turns>>
        /\ home' = home /\ kind' = kind /\ made' = made /\ peeked' = peeked
    BY DEF PowerFails
  <1>2. /\ log' \in [Job -> {"none", "written", "synced"}] /\ faults' \in Nat
        /\ \A j \in Job : Told(j) => ToldNext(j)
    <2>1. /\ TypeOK /\ log \in [Job -> {"none", "written", "synced"}] /\ faults \in Nat
      BY Types DEF IInv
    <2>2. CASE log' = Commit({})
      BY <1>1, <2>1, <2>2, CommitFacts DEF Told, ToldNext
    <2>3. CASE log' = [j \in Job |-> IF j \in Unsynced THEN "none" ELSE log[j]]
      BY <1>1, <2>1, <2>3 DEF Unsynced, Told, ToldNext
    <2> QED BY <1>1, <2>2, <2>3
  <1>3. /\ TypeStartup' /\ TypeLocks' /\ TypeRegistry' /\ TypeSession'
        /\ LockInv' /\ ScanInv' /\ KnownInv' /\ DebtInv' /\ RemovingInv'
        /\ \A i \in runs : boot'[i] = "dead" /\ mem'[i] = Empty /\ scan'[i] = NoScan
        /\ \A k \in Inst \ runs : boot'[k] = boot[k] /\ mem'[k] = mem[k] /\ scan'[k] = scan[k]
        /\ \A j \in Job : LockIntact(j)' <=> LockIntact(j)
    <2>1. runs \in SUBSET Inst /\ \A k \in runs : boot[k] # "new"
      OBVIOUS
    <2> HIDE DEF runs
    <2> QED BY <1>1, <1>2, <2>1, DeathFacts
  <1>4. \A k \in Inst : DOMAIN mem'[k] = {} /\ scan'[k].step # "load"
    <2> SUFFICES ASSUME NEW k \in Inst PROVE mem'[k] = Empty /\ scan'[k] = NoScan
      BY EmptyFacts, NoScanFacts
    <2>1. CASE k \in runs
      BY <1>3, <2>1
    <2>2. CASE k \notin runs
      <3>1. boot[k] = "new"
        BY <2>2
      <3>2. mem[k] = Empty /\ scan[k] = NoScan
        BY <3>1 DEF IInv, HomeInv, ScanInv, ScanOf
      <3> QED BY <1>3, <2>2, <3>2
    <2> QED BY <2>1, <2>2
  <1>5. \A j \in Job : /\ file'[j] \in Files
                       /\ file'[j].rec = names(j).rec /\ file'[j].tomb = names(j).tomb
                       /\ home[j] = Nobody => file'[j] = NoFile
    <2> SUFFICES ASSUME NEW j \in Job
                 PROVE  /\ file'[j] \in Files
                        /\ file'[j].rec = names(j).rec /\ file'[j].tomb = names(j).tomb
                        /\ home[j] = Nobody => file'[j] = NoFile
      OBVIOUS
    <2>1. file[j] \in Files /\ disk[j] \in Files /\ names(j) \in Files
      BY Types DEF IInv
    <2>2. PICK b \in BOOLEAN : b = IF j \in cut THEN disk[j].out ELSE file[j].out
      BY <2>1 DEF Files
    <2>3. file'[j] = [names(j) EXCEPT !.out = b]
      BY <1>1, <2>2
    <2>4. home[j] = Nobody => file[j] = NoFile /\ disk[j] = NoFile
      BY DEF IInv, HomeInv
    <2>5. home[j] = Nobody => names(j) = NoFile /\ b = FALSE
      BY <2>2, <2>4 DEF NoFile
    <2> HIDE DEF names
    <2>6. /\ file'[j] \in Files /\ file'[j].rec = names(j).rec /\ file'[j].tomb = names(j).tomb
      BY <2>1, <2>3 DEF Files
    <2>7. ASSUME NEW f \in Files, f.rec = "none", f.tomb = FALSE, f.out = FALSE
          PROVE  f = NoFile
      BY <2>7 DEF Files, NoFile
    <2>8. home[j] = Nobody => file'[j] = NoFile
      <3>1. names(j) = NoFile => names(j).rec = "none" /\ names(j).tomb = FALSE
        BY DEF NoFile
      <3>2. file'[j].out = b
        BY <2>1, <2>3 DEF Files
      <3> QED BY <2>5, <2>6, <2>7, <3>1, <3>2
    <2> QED BY <2>6, <2>8
  <1>6. TypeOK'
    <2>1. file' \in [Job -> Files] /\ disk' \in [Job -> Files]
      <3>1. file' = [j \in Job |-> file'[j]]
        BY <1>1
      <3> QED BY <1>1, <1>5, <3>1
    <2>2. TypeStore'
      BY <1>1, <2>1 DEF IInv, TypeOK, TypeStore
    <2> QED BY <1>3, <2>2 DEF TypeOK
  <1>7. HomeInv'
    <2>1. \A j \in Job : home[j] = Nobody => file'[j] = NoFile /\ disk'[j] = NoFile
      BY <1>1, <1>5
    <2>2. runs \in SUBSET Inst
      OBVIOUS
    <2> HIDE DEF runs
    <2> QED BY <1>1, <1>3, <2>1, <2>2, HomesLeft
  <1>8. LeftInv'
    BY <1>4 DEF LeftInv
  <1>9. ToldInv'
    <2> SUFFICES ASSUME NEW x \in Job, kind[x] = "owned",
                        file'[x].rec = "delivered" \/ file'[x].tomb
                 PROVE  ToldNext(x)
      BY <1>1, <1>4 DEF ToldInv, Told, ToldNext
    <2>1. names(x) \in {file[x], disk[x]}
      OBVIOUS
    <2>2. names(x).rec = "delivered" \/ names(x).tomb
      BY <1>5
    <2> HIDE DEF names
    <2> QED BY <1>2, <2>1, <2>2 DEF IInv, ToldInv
  <1>10. OwnerInv'
    <2> SUFFICES ASSUME NEW x \in Job, Owed(x, file'[x].rec)
                 PROVE  file'[x].rec \in {"settled", "delivered"}
      BY <1>1, <1>4 DEF OwnerInv, Told, Owed, LockIntact
    <2> QED BY DEF Owed
  <1> QED BY <1>3, <1>6, <1>7, <1>8, <1>9, <1>10 DEF IInv
-----------------------------------------------------------------------------
(* The invariant, and what follows from it.                                  *)

(* Nothing is there when the first run starts.                               *)
LEMMA InitHolds ==
    ASSUME Init PROVE IInv
  <1>1. /\ boot = [i \in Inst |-> "new"] /\ todo = [i \in Inst |-> {}]
        /\ scan = [i \in Inst |-> NoScan] /\ dirs = {} /\ held = {}
        /\ lockFile = [d \in Inst |-> 0] /\ made = [d \in Inst |-> 0]
        /\ mem = [i \in Inst |-> Empty] /\ removing = [i \in Inst |-> NoRemoval]
        /\ file = [j \in Job |-> NoFile] /\ disk = [j \in Job |-> NoFile]
        /\ kind = [j \in Job |-> "none"] /\ home = [j \in Job |-> Nobody]
        /\ log = [j \in Job |-> "none"]
        /\ parked = [i \in Inst |-> {}] /\ pend = [i \in Inst |-> {}]
        /\ writer = Nobody /\ peeked = {} /\ turns = 0 /\ faults = 0
    BY DEF Init
  <1>2. /\ NoFile \in Files /\ NoFile.rec = "none" /\ ~NoFile.tomb
        /\ NoRemoval \in [job : Job \cup {"none"}, step : 0..5]
    BY DEF NoFile, Files, NoRemoval
  <1>3. TypeOK
    BY <1>1, <1>2, NoScanFacts, EmptyFacts
       DEF TypeOK, TypeStartup, TypeLocks, TypeRegistry, TypeStore, TypeSession
  <1>4. LockInv
    BY <1>1 DEF LockInv
  <1>5. ScanInv
    BY <1>1, NoScanFacts, NobodyElse DEF ScanInv, ScanOf, Recovering
  <1>6. HomeInv
    <2>1. {j \in Job : home[j] # Nobody} = {}
      BY <1>1
    <2> QED BY <1>1, <2>1, FS_EmptySet DEF HomeInv
  <1>7. KnownInv /\ DebtInv /\ RemovingInv
    BY <1>1, EmptyFacts DEF KnownInv, DebtInv, RemovingInv, Free
  <1>8. LeftInv
    BY <1>1, NoScanFacts DEF LeftInv
  <1>9. ToldInv
    BY <1>1, EmptyFacts DEF ToldInv
  <1>10. OwnerInv
    BY <1>1 DEF OwnerInv, LockIntact
  <1> QED BY <1>3, <1>4, <1>5, <1>6, <1>7, <1>8, <1>9, <1>10 DEF IInv

(* Every step keeps the invariant.                                           *)
LEMMA NextKeeps ==
    ASSUME IInv, [Next]_vars PROVE IInv'
  <1>1. ASSUME NEW i \in Inst, Recover(i) PROVE IInv'
    BY <1>1, RecoverOpenStep, RecoverLockStep, RecoverListStep, LoadNothingStep,
       LoadExpiredStep, LoadRecordStep, RecoverUnlinkStep, RecoverRmdirStep, RecoverEndStep
       DEF Recover
  <1>2. ASSUME NEW i \in Inst, Work(i) PROVE IInv'
    BY <1>2, StartJobStep, SettleJobStep, ReadJobStep, RemovePicked, RemovalSteps DEF Work
  <1>3. ASSUME NEW i \in Inst, Poll(i) PROVE IInv'
    BY <1>3, AcknowledgeStep, SessionActions DEF Poll
  <1>4. ASSUME NEW i \in Inst, Turn(i) \/ BoundaryFails(i) \/ TurnBegins(i) PROVE IInv'
    BY <1>4, SessionActions
  <1>5. CASE Next
    BY <1>1, <1>2, <1>3, <1>4, <1>5, StartupSteps, KillStep, PowerStep DEF Next
  <1>6. CASE UNCHANGED vars
    BY <1>6, NothingHappens
  <1> QED BY <1>5, <1>6

(* The invariant holds in every state of every behaviour.                    *)
THEOREM Invariance == Spec => []IInv
  <1>1. Init => IInv
    BY InitHolds
  <1>2. IInv /\ [Next]_vars => IInv'
    BY NextKeeps
  <1> QED BY <1>1, <1>2, PTL DEF Spec

(* The state has the types the specification gives it.                       *)
THEOREM TypeCorrect == Spec => []TypeOK
  <1>1. IInv => TypeOK
    BY DEF IInv
  <1> QED BY <1>1, Invariance, PTL

(* No two live runs owe the completion of a job whose directory has the lock *)
(* its owner made: the takeover of a dead run's jobs never gives a notice    *)
(* two deliverers.                                                           *)
THEOREM OneDeliverer == Spec => []SingleDeliverer
  <1>1. IInv => SingleDeliverer
    BY OneDebtor
  <1> QED BY <1>1, Invariance, PTL

(* A job recorded as delivered has its notice on disk, or had it read from   *)
(* the history before it was there.                                          *)
THEOREM DeliveredWasTold == Spec => []NoticeKept
  <1>1. IInv => NoticeKept
    BY NoticesKept
  <1> QED BY <1>1, Invariance, PTL

(* A record that is written as another job's, or by a read or an             *)
(* acknowledgement, is a settled one.                                        *)
LEMMA OwedWrites ==
    ASSUME IInv, NEW j \in Job, Owed(j, file[j].rec), NEW x \in Job, NEW s \in State,
           x = j => s # "running", Persist(x, s)
    PROVE  file'[j].rec \in {"settled", "delivered"}
  <1>1. Writes(x, s)
    BY PersistFacts DEF IInv, TypeOK
  <1> QED BY <1>1 DEF Writes, State, Owed

(* One step neither loses nor undoes the record of a settled job whose       *)
(* notice is not in the log.                                                 *)
LEMMA OwedStep ==
    ASSUME IInv, [Next]_vars, NEW j \in Job, Owed(j, file[j].rec), LockIntact(j),
           log[j] = "none", j \notin peeked
    PROVE  file'[j].rec \in {"settled", "delivered"}
  <1>1. /\ kind[j] = "owned" /\ file[j].rec = "settled" /\ home[j] # Nobody /\ ~Told(j)
        /\ file \in [Job -> Files] /\ disk \in [Job -> Files]
    BY Types DEF IInv, Owed, LockIntact, Told
  <1>2. /\ ~file[j].tomb /\ disk[j].rec \in {"settled", "delivered"}
        /\ \A i \in Inst : j \in DOMAIN mem[i] =>
              mem[i][j] # "running" /\ mem[i][j] # "delivered"
    BY <1>1 DEF IInv, ToldInv, OwnerInv
  <1>3. CASE file' = file
    BY <1>1, <1>3
  <1>4. ASSUME NEW i \in Inst, RecoverList(i) PROVE file'[j].rec \in {"settled", "delivered"}
    <2> DEFINE here == In(scan[i].dir)
               tombs == {x \in here : file[x].tomb}
               names == {x \in here : file[x].rec # "none"} \ tombs
    <2>1. \/ file' = file
          \/ file' = [x \in Job |->
                         CASE x \in tombs -> NoFile
                           [] x \in here \ (tombs \cup names) -> [file[x] EXCEPT !.out = FALSE]
                           [] OTHER -> file[x]]
      BY <1>4 DEF RecoverList
    <2>2. j \notin tombs /\ j \notin here \ (tombs \cup names)
      BY <1>1, <1>2
    <2> HIDE DEF here, tombs, names
    <2> QED BY <1>1, <2>1, <2>2
  <1>5. ASSUME NEW i \in Inst, NEW x \in Job, LoadExpired(i, x)
        PROVE  file'[j].rec \in {"settled", "delivered"}
    <2>1. x # j
      BY <1>1, <1>5 DEF LoadExpired, Releasable
    <2>2. file' = [file EXCEPT ![x] = [@ EXCEPT !.rec = "none", !.out = FALSE]]
      BY <1>5 DEF LoadExpired
    <2> QED BY <1>1, <2>1, <2>2
  <1>6. ASSUME NEW i \in Inst, NEW x \in Job, LoadRecord(i, x)
        PROVE  file'[j].rec \in {"settled", "delivered"}
    <2>1. file' = file \/ (x # j /\ Persist(x, "settled"))
      BY <1>1, <1>6 DEF LoadRecord
    <2> QED BY <1>3, <2>1, OwedWrites DEF State
  <1>7. ASSUME NEW i \in Inst, NEW x \in Job, NEW k \in Kinds, StartJob(i, x, k)
        PROVE  file'[j].rec \in {"settled", "delivered"}
    <2>1. x # j
      BY <1>1, <1>7 DEF StartJob
    <2>2. file'[j] = file[j]
      BY <1>1, <1>7, <2>1 DEF StartJob
    <2> QED BY <1>1, <2>2
  <1>8. ASSUME NEW i \in Inst, NEW x \in Job, SettleJob(i, x)
        PROVE  file'[j].rec \in {"settled", "delivered"}
    <2>1. \E s \in State : s # "running" /\ Persist(x, s)
      BY <1>8 DEF SettleJob, State
    <2> QED BY <2>1, OwedWrites
  <1>9. ASSUME NEW i \in Inst, NEW x \in Job, ReadJob(i, x)
        PROVE  file'[j].rec \in {"settled", "delivered"}
    <2>1. x \in DOMAIN mem[i] /\ Persist(x, mem[i][x])
      BY <1>9 DEF ReadJob
    <2>2. mem[i][x] \in State /\ (x = j => mem[i][x] # "running")
      BY <1>2, <2>1, KnownFacts
    <2> QED BY <2>1, <2>2, OwedWrites
  <1>10. ASSUME NEW i \in Inst, NEW x \in Job, Acknowledge(i, x)
         PROVE  file'[j].rec \in {"settled", "delivered"}
    <2>1. file' = file \/ Persist(x, "delivered")
      BY <1>10 DEF Acknowledge
    <2> QED BY <1>3, <2>1, OwedWrites DEF State
  <1>11. ASSUME NEW i \in Inst, RemoveStep(i) \/ RemoveFails(i)
         PROVE  file'[j].rec \in {"settled", "delivered"}
    <2>1. ~Free(i)
      BY <1>11 DEF RemoveStep, RemoveFails
    <2>2. removing[i].job # j
      BY <1>1, <1>2, <2>1 DEF IInv, RemovingInv, Releasable
    <2>3. file'[j] = file[j]
      BY <1>11, <2>2, RemovalFacts DEF Touches
    <2> QED BY <1>1, <2>3
  <1>12. ASSUME NEW old, NEW cut, PowerFails(old, cut)
         PROVE  file'[j].rec \in {"settled", "delivered"}
    <2> DEFINE names == IF j \in old THEN disk[j] ELSE file[j]
    <2>1. PICK b : file'[j] = [names EXCEPT !.out = b]
      BY <1>12 DEF PowerFails
    <2>2. names \in Files /\ names.rec \in {"settled", "delivered"}
      BY <1>1, <1>2
    <2> HIDE DEF names
    <2> QED BY <2>1, <2>2 DEF Files
  <1>13. ASSUME NEW i \in Inst, Recover(i) PROVE file'[j].rec \in {"settled", "delivered"}
    <2>1. \/ RecoverList(i) \/ \E x \in Job : LoadExpired(i, x) \/ LoadRecord(i, x)
          \/ file' = file
      BY <1>13 DEF Recover, RecoverOpen, RecoverLock, LoadNothing, RecoverUnlink, RecoverRmdir,
                  RecoverEnd, store
    <2> QED BY <1>3, <1>4, <1>5, <1>6, <2>1
  <1>14. ASSUME NEW i \in Inst, Work(i) PROVE file'[j].rec \in {"settled", "delivered"}
    <2>1. ASSUME NEW x \in Job, Remove(i, x) PROVE file' = file
      BY <2>1 DEF Remove, store
    <2> QED BY <1>3, <1>7, <1>8, <1>9, <1>11, <1>14, <2>1 DEF Work
  <1>15. ASSUME NEW i \in Inst, Startup(i) \/ Turn(i) \/ BoundaryFails(i) \/ TurnBegins(i)
                                \/ Kill(i)
         PROVE  file' = file
    BY <1>15 DEF Startup, ListRoot, MakeDirectory, CreateLock, TakeLock, Turn, Boundary,
                 BoundarySynced, TurnEnds, BoundaryFails, TurnBegins, Kill, store
  <1>16. ASSUME NEW i \in Inst, Poll(i) PROVE file'[j].rec \in {"settled", "delivered"}
    <2>1. file' = file \/ \E x \in Job : Acknowledge(i, x)
      BY <1>16 DEF Poll, NotifyIdle, NotifyRunning, store
    <2> QED BY <1>3, <1>10, <2>1
  <1>17. CASE UNCHANGED vars
    BY <1>3, <1>17 DEF vars, store
  <1> QED BY <1>3, <1>12, <1>13, <1>14, <1>15, <1>16, <1>17 DEF Next

(* Whatever is removed, recovered or crashes, the record of a settled job is *)
(* neither lost nor undone before its notice is in the session log.          *)
THEOREM OwedNotLost == Spec => OwedKept
  <1>1. IInv /\ [Next]_vars =>
        [\A j \in Job :
             Owed(j, file[j].rec) /\ LockIntact(j) /\ log[j] = "none" /\ j \notin peeked
             => file'[j].rec \in {"settled", "delivered"}]_vars
    BY OwedStep
  <1> QED BY <1>1, Invariance, PTL DEF Spec, OwedKept
=============================================================================
