------------------------ MODULE McpConnection_proofs ------------------------
(* What McpConnection keeps, for any number of connections, managed          *)
(* connections, tools and calls, and whatever the server lists.              *)
EXTENDS McpConnection, TLAPS

-----------------------------------------------------------------------------
(* Who is who.                                                               *)

(* The VM, the two tasks of a managed connection and the watchers are        *)
(* actors of their own, and no other requester is one.                       *)
LEMMA Actors ==
  /\ VM \in Opener /\ Opener \subseteq Actor /\ Actor \subseteq Requester
  /\ Nobody \notin Actor
  /\ \A m \in Managed : /\ Background(m) \in Opener /\ Supervisor(m) \in Opener
                        /\ Background(m) # VM /\ Supervisor(m) # VM
  /\ \A m, n \in Managed : /\ Background(m) # Supervisor(n)
                           /\ Background(m) = Background(n) => m = n
                           /\ Supervisor(m) = Supervisor(n) => m = n
  /\ \A c \in Conn : Watcher(c) \in Actor /\ Watcher(c) \notin Opener
  /\ \A c, d \in Conn : Watcher(c) = Watcher(d) => c = d
  /\ \A a \in Actor : a \in Opener \/ \E c \in Conn : a = Watcher(c)
  /\ \A a \in Opener : \/ a = VM
                       \/ \E m \in Managed : a = Background(m)
                       \/ \E m \in Managed : a = Supervisor(m)
<1>1. \A m, n : Background(m) = Background(n) => m = n
  BY DEF Background
<1>2. \A m, n : Supervisor(m) = Supervisor(n) => m = n
  BY DEF Supervisor
<1>3. \A m, n : Watcher(m) = Watcher(n) => m = n
  BY DEF Watcher
<1>4. \A m, n : /\ Background(m) # Supervisor(n) /\ Background(m) # Watcher(n)
                /\ Supervisor(m) # Watcher(n)
                /\ Background(m) # VM /\ Supervisor(m) # VM /\ Watcher(m) # VM
                /\ Background(m) # Nobody /\ Supervisor(m) # Nobody /\ Watcher(m) # Nobody
                /\ VM # Nobody
  BY DEF Background, Supervisor, Watcher, VM, Nobody
<1>5. QED
  BY <1>1, <1>2, <1>3, <1>4 DEF Actor, Opener, Requester

(* Whom they work for.                                                       *)
LEMMA Work ==
  /\ MyManaged(VM) = target /\ MyManaged(VM)' = target'
  /\ \A m \in Managed : /\ MyManaged(Background(m)) = m /\ MyManaged(Background(m))' = m
                        /\ MyManaged(Supervisor(m)) = m /\ MyManaged(Supervisor(m))' = m
<1>1. \A m \in Managed : Background(m) # VM /\ Supervisor(m) # VM
  BY Actors
<1>2. \A m : Background(m)[2] = m /\ Supervisor(m)[2] = m
  BY DEF Background, Supervisor
<1>3. QED
  BY <1>1, <1>2 DEF MyManaged

(* Numbers and markers are told apart.                                       *)
LEMMA Numbers ==
  /\ None \notin Conn /\ None \notin Managed /\ Host \notin Conn /\ Host # None
  /\ Conn \subseteq Nat /\ Managed \subseteq Nat
  /\ None \in Nat /\ MaxConns \in Nat /\ MaxManaged \in Nat
  /\ \A c \in Conn : c > None /\ c <= MaxConns
BY McpBounds DEF Conn, Managed, None, Host

(* The steps of each operation.                                              *)
LEMMA StepSets ==
  /\ DOMAIN Steps = {"none", "open", "reopen", "reconnect", "disconnect", "undo", "watch"}
  /\ Steps["none"] = {"off", "queued", "forget", "supervising", "take", "retake"}
  /\ Steps["open"] = {"connect", "watched", "close", "drop", "failed", "lock", "watch",
                      "answer", "check", "install"}
  /\ Steps["reopen"] = Steps["open"]
  /\ Steps["reconnect"] = {"close", "drop"}
  /\ Steps["disconnect"] = {"close", "drop", "dropped"}
  /\ Steps["undo"] = {"close", "drop", "dropped"}
  /\ Steps["watch"] = {"idle", "lock", "close", "drop", "answer", "check", "install"}
BY DEF Steps, Opening, Bridging

(* The steps of all operations.                                              *)
AllSteps == UNION {Steps[o] : o \in DOMAIN Steps}

(* Every step of the module is a step of some operation, and there is no other. *)
LEMMA StepsAll ==
  AllSteps = {"off", "queued", "forget", "supervising", "take", "retake", "connect",
              "watched", "close", "drop", "failed", "lock", "watch", "answer", "check",
              "install", "dropped", "idle"}
<1>1. AllSteps = Steps["none"] \cup Steps["open"] \cup Steps["reopen"]
                 \cup Steps["reconnect"] \cup Steps["disconnect"] \cup Steps["undo"]
                 \cup Steps["watch"]
  BY StepSets DEF AllSteps
<1>2. QED
  BY <1>1, StepSets

-----------------------------------------------------------------------------
(* Types.                                                                    *)

(* What the step an actor is at tells of its operation and its connection.   *)
LEMMA StepOps ==
  ASSUME TypeOK, PlaceInv, ConnInv, HoldInv, NEW a \in Actor
  PROVE  /\ pc[a] \in {"off", "queued", "forget", "supervising", "take", "retake"}
            <=> op[a] = "none"
         /\ pc[a] \in {"connect", "watched", "watch", "failed"} => op[a] \in {"open", "reopen"}
         /\ pc[a] = "dropped" => op[a] \in {"disconnect", "undo"}
         /\ pc[a] \in {"lock", "answer", "check", "install"}
            => op[a] \in {"open", "reopen", "watch"}
         /\ pc[a] = "idle" => op[a] = "watch"
         /\ op[a] # "none" /\ pc[a] \notin {"connect", "failed"} => conn[a] \in Conn
         /\ op[a] \notin {"none", "watch"} => a \in Opener /\ MyManaged(a) \in Managed
         /\ op[a] = "watch" => \E c \in Conn : a = Watcher(c) /\ conn[a] = c
         /\ a \in Opener => op[a] # "watch"
<1>1. pc[a] \in Steps[op[a]] /\ op[a] \in DOMAIN Steps
  BY DEF TypeOK, PlaceInv
<1>2. /\ pc[a] \in {"off", "queued", "forget", "supervising", "take", "retake"}
         <=> op[a] = "none"
      /\ pc[a] \in {"connect", "watched", "watch", "failed"} => op[a] \in {"open", "reopen"}
      /\ pc[a] = "dropped" => op[a] \in {"disconnect", "undo"}
      /\ pc[a] \in {"lock", "answer", "check", "install"}
         => op[a] \in {"open", "reopen", "watch"}
      /\ pc[a] = "idle" => op[a] = "watch"
  <2>1. op[a] \in {"none", "open", "reopen", "reconnect", "disconnect", "undo", "watch"}
    BY <1>1, StepSets
  <2>2. CASE op[a] = "none"
    BY <1>1, <2>2, StepSets
  <2>3. CASE op[a] \in {"open", "reopen"}
    BY <1>1, <2>3, StepSets
  <2>4. CASE op[a] \in {"reconnect", "disconnect", "undo", "watch"}
    BY <1>1, <2>4, StepSets
  <2>5. QED
    BY <2>1, <2>2, <2>3, <2>4
<1>3. op[a] # "none" /\ pc[a] \notin {"connect", "failed"} => conn[a] \in Conn
  BY Actors DEF TypeOK, ConnInv
<1>4. a \in Opener => op[a] # "watch"
  BY Actors DEF PlaceInv
<1>5. a \notin Opener => \E c \in Conn : a = Watcher(c)
  BY Actors
<1>6. op[a] \notin {"none", "watch"} => a \in Opener
  BY <1>5 DEF PlaceInv
<1>7. op[a] = "watch" => \E c \in Conn : a = Watcher(c) /\ conn[a] = c
  BY <1>4, <1>5 DEF PlaceInv
<1>8. a \in Opener /\ op[a] # "none" => MyManaged(a) \in Managed
  <2>1. \A m \in Managed : Background(m) # VM /\ Supervisor(m) # VM
    BY Actors
  <2>2. CASE a = VM
    <3>1. op[a] # "none" => pc[VM] # "off"
      BY <1>2, <2>2
    <3>2. QED
      BY <2>2, <3>1, Work DEF TypeOK, HoldInv
  <2>3. CASE a # VM
    BY <2>3, Work, Actors
  <2>4. QED
    BY <2>2, <2>3
<1>9. QED
  BY <1>2, <1>3, <1>4, <1>6, <1>7, <1>8

(* The types, in groups.                                                     *)
ManagerTypes ==
    /\ map \in Managed \cup {None} /\ target \in Managed \cup {None}
    /\ opened \in 0..MaxManaged
    /\ slot \in [Managed -> Conn \cup {None}]
    /\ holder \in [Managed -> Actor \cup {Nobody}]
    /\ token \in [Managed -> BOOLEAN] /\ attempts \in [Managed -> 0..MaxAttempts]
    /\ left \subseteq Managed
ActorTypes ==
    /\ op \in [Actor -> DOMAIN Steps] /\ pc \in [Actor -> AllSteps]
    /\ todo \in [Actor -> SUBSET Tool]
ConnTypes == conn \in [Requester -> Conn \cup {None}]
AnswerTypes ==
    /\ stage \in [Requester -> {"none", "insert", "send", "wait"}]
    /\ answer \in [Requester -> (SUBSET Tool) \cup {Failed}]
PendingTypes == pending \in [Conn -> SUBSET Requester]
RequestTypes == ConnTypes /\ AnswerTypes /\ PendingTypes
LinkTypes ==
    /\ made \in 0..MaxConns
    /\ home \in [Conn -> Managed \cup {None}]
    /\ reader \in [Conn -> {"none", "reading", "ended", "over"}]
    /\ closed \in [Conn -> BOOLEAN] /\ permit \in [Conn -> BOOLEAN]
    /\ child \in [Conn -> BOOLEAN] /\ missed \in [Conn -> BOOLEAN]
    /\ sync \in [Conn -> Actor \cup {Nobody}]
ServerTypes ==
    /\ owner \in [Tool -> Conn \cup {None, Host}]
    /\ catalog \in [Conn -> Catalog]
    /\ changes \in 0..MaxChanges /\ faults \in 0..MaxFaults

(* They are all of them.                                                     *)
LEMMA TypeParts ==
  TypeOK <=> ManagerTypes /\ ActorTypes /\ RequestTypes /\ LinkTypes /\ ServerTypes
BY DEF TypeOK, ManagerTypes, ActorTypes, RequestTypes, ConnTypes, AnswerTypes,
   PendingTypes, LinkTypes, ServerTypes, AllSteps

(* Where an actor is has a connection, an operation works for somebody.      *)
LEMMA Places ==
  ASSUME TypeOK, PlaceInv, ConnInv, HoldInv
  PROVE  /\ VM \in Actor /\ VM \in Requester
         /\ \A a \in Actor : a \in Requester
         /\ \A m \in Managed : Background(m) \in Actor /\ Supervisor(m) \in Actor
         /\ \A c \in Conn : Watcher(c) \in Actor
         /\ \A a \in Actor : pc[a] \in {"lock", "answer", "check", "install", "watch",
                                        "watched", "close", "drop", "dropped", "idle"}
                             => conn[a] \in Conn
         /\ \A a \in Actor : pc[a] \in {"connect", "watched", "failed", "dropped"}
                             => MyManaged(a) \in Managed
         /\ pc[VM] # "off" => target \in Managed
<1>1. /\ VM \in Actor /\ VM \in Requester
      /\ \A a \in Actor : a \in Requester
      /\ \A m \in Managed : Background(m) \in Actor /\ Supervisor(m) \in Actor
      /\ \A c \in Conn : Watcher(c) \in Actor
  BY Actors
<1>2. ASSUME NEW a \in Actor
      PROVE  /\ pc[a] \in {"lock", "answer", "check", "install", "watch", "watched",
                           "close", "drop", "dropped", "idle"}
                => conn[a] \in Conn
             /\ pc[a] \in {"connect", "watched", "failed", "dropped"}
                => MyManaged(a) \in Managed
  BY StepOps
<1>3. pc[VM] # "off" => target \in Managed
  BY DEF HoldInv, TypeOK
<1>4. QED
  BY <1>1, <1>2, <1>3

(* The types of the VM's side.                                               *)
LEMMA ManagerStep ==
  ASSUME TypeOK, PlaceInv, ConnInv, HoldInv, ManagerTypes, Next
  PROVE  ManagerTypes'
<1>0. UNCHANGED <<attempts, holder, left, map, opened, slot, target, token>> => ManagerTypes'
  BY DEF ManagerTypes
<1>a. /\ VM \in Actor /\ VM \in Requester
      /\ \A a \in Actor : a \in Requester
      /\ \A m \in Managed : Background(m) \in Actor /\ Supervisor(m) \in Actor
      /\ \A c \in Conn : Watcher(c) \in Actor
  BY Actors
<1>b. \A a \in Actor : pc[a] \in {"lock", "answer", "check", "install", "watch", "watched",
                                  "close", "drop", "dropped", "idle"} => conn[a] \in Conn
  BY Places
<1>c. /\ \A a \in Actor : pc[a] \in {"connect", "watched", "failed", "dropped"}
                          => MyManaged(a) \in Managed
      /\ pc[VM] # "off" => target \in Managed
  BY Places
<1>d. MaxAttempts \in Nat /\ MaxManaged \in Nat /\ Managed = 1..MaxManaged
  BY McpBounds DEF Managed
<1>1. ASSUME NEW a \in Actor, Shared(a) PROVE ManagerTypes'
  <2>1. CASE Reconnected(a)
     BY <1>a, <1>b, <1>c, <1>d, <2>1 DEF Reconnected, Rest, Goto, Unlock, Home,
       manager, requests, links, server, ManagerTypes
  <2>2. CASE ReconnectFails(a)
     BY <1>a, <1>b, <1>c, <1>d, <2>2 DEF ReconnectFails, Rest, Goto, Unlock, Home,
       manager, requests, links, server, ManagerTypes
   <2>3. CASE Connect(a) \/ BridgeBegins(a) \/ BridgeListed(a) \/ BridgeChecks(a) \/
     BridgeInstalls(a) \/ Watch(a) \/ Wakes(a) \/ Close(a) \/ Drop(a)
     BY <1>0, <2>3 DEF Connect, Goto, Fault, manager, requests, links, server,
       BridgeBegins, Ask, Returns, BridgeListed, BridgeFails, Forget, BridgeChecks,
       BridgeInstalls, Watch, Wakes, Close, Drop, Drops, AfterDrop, Rest
  <2>4. QED
    BY <1>1, <2>1, <2>2, <2>3 DEF Shared
<1>2. CASE Vm \/ VmConnects \/ VmDisconnects \/ VmReconnects
  <2>1. CASE VmConnects
     BY <1>a, <1>b, <1>c, <1>d, <2>1 DEF VmConnects, Resting, manager, requests,
       links, server, ManagerTypes
  <2>2. CASE VmConnected
     BY <1>a, <1>b, <1>c, <1>d, <2>2 DEF VmConnected, manager, requests, links,
       server, ManagerTypes
  <2>3. CASE VmDisconnects
     BY <1>a, <1>b, <1>c, <1>d, <2>3 DEF VmDisconnects, Resting, Goto, manager,
       requests, links, server, ManagerTypes
  <2>4. CASE VmTakes
     BY <1>a, <1>b, <1>c, <1>d, <2>4 DEF VmTakes, Free, Goto, manager, requests,
       links, server, ManagerTypes
  <2>5. CASE VmDisconnected
     BY <1>a, <1>b, <1>c, <1>d, <2>5 DEF VmDisconnected, Unlock, Rest, Goto, manager,
       requests, links, server, ManagerTypes
  <2>6. CASE VmReconnects
     BY <1>a, <1>b, <1>c, <1>d, <2>6 DEF VmReconnects, Resting, Goto, manager,
       requests, links, server, ManagerTypes
  <2>7. CASE VmRetakes
     BY <1>a, <1>b, <1>c, <1>d, <2>7 DEF VmRetakes, Free, Goto, Reconnect, manager,
       requests, links, server, ManagerTypes
  <2>8. CASE VmConnectFails
    BY <1>0, <2>8 DEF VmConnectFails, Rest, Goto, manager, requests, links, server
  <2>9. QED
    BY <1>2, <2>1, <2>2, <2>3, <2>4, <2>5, <2>6, <2>7, <2>8 DEF Vm
<1>3. ASSUME NEW m \in Managed, Task(m) PROVE ManagerTypes'
  <2>1. CASE BackgroundBegins(m)
     BY <1>a, <1>b, <1>c, <1>d, <2>1 DEF BackgroundBegins, Free, Goto,
       BackgroundOpens, manager, requests, links, server, ManagerTypes
  <2>2. CASE BackgroundConnected(m)
     BY <1>a, <1>b, <1>c, <1>d, <2>2 DEF BackgroundConnected, Goto, Unlock, manager,
       requests, links, server, ManagerTypes
  <2>3. CASE BackgroundUndone(m)
     BY <1>a, <1>b, <1>c, <1>d, <2>3 DEF BackgroundUndone, Unlock, Rest, Goto,
       manager, requests, links, server, ManagerTypes
  <2>4. CASE BackgroundFails(m)
     BY <1>a, <1>b, <1>c, <1>d, <2>4 DEF BackgroundFails, Unlock, Rest, Goto, manager,
       requests, links, server, ManagerTypes
  <2>5. CASE BackgroundForgets(m)
     BY <1>a, <1>b, <1>c, <1>d, <2>5 DEF BackgroundForgets, Goto, manager, requests,
       links, server, ManagerTypes
  <2>6. CASE Supervise(m)
    <3>1. \/ attempts' = attempts
          \/ attempts' = [attempts EXCEPT ![m] = attempts[m] + 1] /\ attempts[m] < MaxAttempts
      BY <2>6 DEF Supervise
    <3>2. attempts' \in [Managed -> 0..MaxAttempts]
      <4>1. attempts[m] \in 0..MaxAttempts /\ MaxAttempts \in Nat
        BY <1>d DEF ManagerTypes
      <4>2. attempts[m] < MaxAttempts => attempts[m] + 1 \in 0..MaxAttempts
        BY <4>1
      <4>3. QED
        BY <3>1, <4>2 DEF ManagerTypes
    <3>3. holder' \in [Managed -> Actor \cup {Nobody}]
      BY <1>a, <2>6, Work DEF Supervise, Reconnect, ManagerTypes
    <3>4. UNCHANGED <<map, target, opened, slot, token, left>>
      BY <2>6 DEF Supervise
    <3>5. QED
      BY <3>2, <3>3, <3>4 DEF ManagerTypes
  <2>7. QED
    BY <1>3, <2>1, <2>2, <2>3, <2>4, <2>5, <2>6 DEF Task
<1>4. ASSUME NEW r \in Requester, Request(r) PROVE ManagerTypes'
   BY <1>0, <1>4 DEF Request, CallTool, Ask, Returns, manager, requests, links,
     server, Insert, Send, SendBreaks, Fault, Answered, Forgotten, GivesUp
<1>5. ASSUME NEW c \in Conn, ReaderEnds(c) \/ ReaderDrains(c) \/ ServerChanges(c) PROVE ManagerTypes'
   BY <1>0, <1>5 DEF ReaderEnds, Fault, manager, requests, links, server,
     ReaderDrains, ServerChanges
<1>6. ASSUME NEW n \in Contested, HostRegisters(n) PROVE ManagerTypes'
  BY <1>0, <1>6 DEF HostRegisters, manager, requests, links, server
<1>7. QED
  BY <1>1, <1>2, <1>3, <1>4, <1>5, <1>6 DEF Next

(* The types of what the actors do.                                          *)
LEMMA ActorStep ==
  ASSUME TypeOK, PlaceInv, ConnInv, HoldInv, WatchInv, ActorTypes, Next
  PROVE  ActorTypes'
<1>0. UNCHANGED <<op, pc, todo>> => ActorTypes'
  BY DEF ActorTypes
<1>a. /\ VM \in Actor /\ VM \in Requester
      /\ \A a \in Actor : a \in Requester
      /\ \A m \in Managed : Background(m) \in Actor /\ Supervisor(m) \in Actor
      /\ \A c \in Conn : Watcher(c) \in Actor
  BY Actors
<1>b. \A a \in Actor : pc[a] \in {"lock", "answer", "check", "install", "watch", "watched",
                                  "close", "drop", "dropped", "idle"} => conn[a] \in Conn
  BY Places
<1>c. /\ \A a \in Actor : pc[a] \in {"connect", "watched", "failed", "dropped"}
                          => MyManaged(a) \in Managed
      /\ pc[VM] # "off" => target \in Managed
  BY Places
<1>d. /\ DOMAIN Steps = {"none", "open", "reopen", "reconnect", "disconnect", "undo", "watch"}
      /\ AllSteps = {"off", "queued", "forget", "supervising", "take", "retake", "connect",
                     "watched", "close", "drop", "failed", "lock", "watch", "answer",
                     "check", "install", "dropped", "idle"}
  BY StepSets, StepsAll
<1>e. /\ \A a \in Actor : pc[a] = "answer" /\ answer[a] # Failed => answer[a] \in SUBSET Tool
      /\ \A a \in Actor : pc[a] = "check" => answer[a] \in SUBSET Tool
  BY Actors DEF TypeOK, WatchInv, Refreshed
<1>1. ASSUME NEW a \in Actor, Shared(a) PROVE ActorTypes'
  <2>1. CASE Connect(a)
     BY <1>a, <1>b, <1>c, <1>d, <1>e, <2>1 DEF Connect, Goto, Fault, manager,
       requests, links, server, ActorTypes
  <2>2. CASE BridgeBegins(a)
     BY <1>a, <1>b, <1>c, <1>d, <1>e, <2>2 DEF BridgeBegins, Ask, Returns, Goto,
       manager, requests, links, server, ActorTypes
  <2>3. CASE BridgeListed(a)
     BY <1>a, <1>b, <1>c, <1>d, <1>e, <2>3 DEF BridgeListed, BridgeFails, Forget,
       Goto, manager, requests, links, server, ActorTypes
  <2>4. CASE BridgeChecks(a)
     BY <1>a, <1>b, <1>c, <1>d, <1>e, <2>4 DEF BridgeChecks, BridgeFails, Forget,
       Goto, manager, requests, links, server, ActorTypes
  <2>5. CASE BridgeInstalls(a)
     BY <1>a, <1>b, <1>c, <1>d, <1>e, <2>5 DEF BridgeInstalls, BridgeFails, Forget,
       Goto, manager, requests, links, server, ActorTypes
  <2>6. CASE Watch(a)
     BY <1>a, <1>b, <1>c, <1>d, <1>e, <2>6 DEF Watch, manager, requests, links,
       server, ActorTypes
  <2>7. CASE Wakes(a)
     BY <1>a, <1>b, <1>c, <1>d, <1>e, <2>7 DEF Wakes, Goto, manager, requests, links,
       server, ActorTypes
  <2>8. CASE Close(a)
     BY <1>a, <1>b, <1>c, <1>d, <1>e, <2>8 DEF Close, Goto, manager, requests, links,
       server, ActorTypes
  <2>9. CASE Drop(a)
     BY <1>a, <1>b, <1>c, <1>d, <1>e, <2>9 DEF Drop, Drops, AfterDrop, Rest, Goto,
       manager, requests, links, server, ActorTypes
  <2>10. CASE Reconnected(a)
     BY <1>a, <1>b, <1>c, <1>d, <1>e, <2>10 DEF Reconnected, Rest, Goto, Unlock, Home,
       manager, requests, links, server, ActorTypes
  <2>11. CASE ReconnectFails(a)
     BY <1>a, <1>b, <1>c, <1>d, <1>e, <2>11 DEF ReconnectFails, Rest, Goto, Unlock,
       Home, manager, requests, links, server, ActorTypes
  <2>12. QED
     BY <1>1, <2>1, <2>2, <2>3, <2>4, <2>5, <2>6, <2>7, <2>8, <2>9, <2>10, <2>11 DEF
       Shared
<1>2. CASE Vm \/ VmConnects \/ VmDisconnects \/ VmReconnects
  <2>1. CASE VmConnects
     BY <1>a, <1>b, <1>c, <1>d, <1>e, <2>1 DEF VmConnects, Resting, manager, requests,
       links, server, ActorTypes
  <2>2. CASE VmConnected
     BY <1>a, <1>b, <1>c, <1>d, <1>e, <2>2 DEF VmConnected, manager, requests, links,
       server, ActorTypes
  <2>3. CASE VmDisconnects
     BY <1>a, <1>b, <1>c, <1>d, <1>e, <2>3 DEF VmDisconnects, Resting, Goto, manager,
       requests, links, server, ActorTypes
  <2>4. CASE VmTakes
     BY <1>a, <1>b, <1>c, <1>d, <1>e, <2>4 DEF VmTakes, Free, Goto, manager, requests,
       links, server, ActorTypes
  <2>5. CASE VmDisconnected
     BY <1>a, <1>b, <1>c, <1>d, <1>e, <2>5 DEF VmDisconnected, Unlock, Rest, Goto,
       manager, requests, links, server, ActorTypes
  <2>6. CASE VmReconnects
     BY <1>a, <1>b, <1>c, <1>d, <1>e, <2>6 DEF VmReconnects, Resting, Goto, manager,
       requests, links, server, ActorTypes
  <2>7. CASE VmRetakes
     BY <1>a, <1>b, <1>c, <1>d, <1>e, <2>7 DEF VmRetakes, Free, Goto, Reconnect,
       manager, requests, links, server, ActorTypes
  <2>8. CASE VmConnectFails
     BY <1>a, <1>b, <1>c, <1>d, <1>e, <2>8 DEF VmConnectFails, Rest, Goto, manager,
       requests, links, server, ActorTypes
  <2>9. QED
    BY <1>2, <2>1, <2>2, <2>3, <2>4, <2>5, <2>6, <2>7, <2>8 DEF Vm
<1>3. ASSUME NEW m \in Managed, Task(m) PROVE ActorTypes'
  <2>1. CASE BackgroundBegins(m)
     BY <1>a, <1>b, <1>c, <1>d, <1>e, <2>1 DEF BackgroundBegins, Free, Goto,
       BackgroundOpens, manager, requests, links, server, ActorTypes
  <2>2. CASE BackgroundConnected(m)
     BY <1>a, <1>b, <1>c, <1>d, <1>e, <2>2 DEF BackgroundConnected, Goto, Unlock,
       manager, requests, links, server, ActorTypes
  <2>3. CASE BackgroundUndone(m)
     BY <1>a, <1>b, <1>c, <1>d, <1>e, <2>3 DEF BackgroundUndone, Unlock, Rest, Goto,
       manager, requests, links, server, ActorTypes
  <2>4. CASE BackgroundFails(m)
     BY <1>a, <1>b, <1>c, <1>d, <1>e, <2>4 DEF BackgroundFails, Unlock, Rest, Goto,
       manager, requests, links, server, ActorTypes
  <2>5. CASE BackgroundForgets(m)
     BY <1>a, <1>b, <1>c, <1>d, <1>e, <2>5 DEF BackgroundForgets, Goto, manager,
       requests, links, server, ActorTypes
  <2>6. CASE Supervise(m)
     BY <1>a, <1>b, <1>c, <1>d, <1>e, <2>6 DEF Supervise, Goto, Free, Reconnect,
       manager, requests, links, server, ActorTypes
  <2>7. QED
    BY <1>3, <2>1, <2>2, <2>3, <2>4, <2>5, <2>6 DEF Task
<1>4. ASSUME NEW r \in Requester, Request(r) PROVE ActorTypes'
   BY <1>0, <1>4 DEF Request, CallTool, Ask, Returns, manager, requests, links,
     server, Insert, Send, SendBreaks, Fault, Answered, Forgotten, GivesUp
<1>5. ASSUME NEW c \in Conn, ReaderEnds(c) \/ ReaderDrains(c) \/ ServerChanges(c) PROVE ActorTypes'
   BY <1>0, <1>5 DEF ReaderEnds, Fault, manager, requests, links, server,
     ReaderDrains, ServerChanges
<1>6. ASSUME NEW n \in Contested, HostRegisters(n) PROVE ActorTypes'
  BY <1>0, <1>6 DEF HostRegisters, manager, requests, links, server
<1>7. QED
  BY <1>1, <1>2, <1>3, <1>4, <1>5, <1>6 DEF Next

(* The types of the connections worked on.                                   *)
LEMMA ConnStep ==
  ASSUME TypeOK, PlaceInv, ConnInv, HoldInv, ConnTypes, Next
  PROVE  ConnTypes'
<1>0. UNCHANGED <<conn>> => ConnTypes'
  BY DEF ConnTypes
<1>a. /\ VM \in Actor /\ VM \in Requester
      /\ \A a \in Actor : a \in Requester
      /\ \A m \in Managed : Background(m) \in Actor /\ Supervisor(m) \in Actor
      /\ \A c \in Conn : Watcher(c) \in Actor
  BY Actors
<1>b. \A a \in Actor : pc[a] \in {"lock", "answer", "check", "install", "watch", "watched",
                                  "close", "drop", "dropped", "idle"} => conn[a] \in Conn
  BY Places
<1>c. /\ \A a \in Actor : pc[a] \in {"connect", "watched", "failed", "dropped"}
                          => MyManaged(a) \in Managed
      /\ pc[VM] # "off" => target \in Managed
  BY Places
<1>d. MaxConns \in Nat /\ Conn = 1..MaxConns /\ made \in 0..MaxConns /\ slot \in [Managed -> Conn \cup {None}]
  BY McpBounds DEF TypeOK, Conn
<1>e. \A m \in Managed : MyManaged(Supervisor(m)) = m
  BY Work
<1>1. ASSUME NEW a \in Actor, Shared(a) PROVE ConnTypes'
  <2>1. CASE Connect(a)
    <3>1. conn' = conn \/ (made + 1 \in Conn /\ conn' = [conn EXCEPT ![a] = made + 1])
      BY <1>d, <2>1 DEF Connect
    <3>2. QED
      BY <1>a, <3>1 DEF ConnTypes
  <2>2. CASE Watch(a)
     BY <1>a, <1>b, <1>c, <1>d, <1>e, <2>2 DEF Watch, manager, requests, links,
       server, ConnTypes
  <2>3. CASE Drop(a)
     BY <1>a, <1>b, <1>c, <1>d, <1>e, <2>3 DEF Drop, Drops, AfterDrop, Rest, Goto,
       manager, requests, links, server, ConnTypes
  <2>4. CASE Reconnected(a)
     BY <1>a, <1>b, <1>c, <1>d, <1>e, <2>4 DEF Reconnected, Rest, Goto, Unlock, Home,
       manager, requests, links, server, ConnTypes
  <2>5. CASE ReconnectFails(a)
     BY <1>a, <1>b, <1>c, <1>d, <1>e, <2>5 DEF ReconnectFails, Rest, Goto, Unlock,
       Home, manager, requests, links, server, ConnTypes
   <2>6. CASE BridgeBegins(a) \/ BridgeListed(a) \/ BridgeChecks(a) \/
     BridgeInstalls(a) \/ Wakes(a) \/ Close(a)
     BY <1>0, <2>6 DEF BridgeBegins, Ask, Returns, Goto, manager, requests, links,
       server, BridgeListed, BridgeFails, Forget, BridgeChecks, BridgeInstalls, Wakes,
       Close
  <2>7. QED
    BY <1>1, <2>1, <2>2, <2>3, <2>4, <2>5, <2>6 DEF Shared
<1>2. CASE Vm \/ VmConnects \/ VmDisconnects \/ VmReconnects
  <2>1. CASE VmConnected
     BY <1>a, <1>b, <1>c, <1>d, <1>e, <2>1 DEF VmConnected, manager, requests, links,
       server, ConnTypes
  <2>2. CASE VmTakes
     BY <1>a, <1>b, <1>c, <1>d, <1>e, <2>2 DEF VmTakes, Free, Goto, manager, requests,
       links, server, ConnTypes
  <2>3. CASE VmDisconnected
     BY <1>a, <1>b, <1>c, <1>d, <1>e, <2>3 DEF VmDisconnected, Unlock, Rest, Goto,
       manager, requests, links, server, ConnTypes
  <2>4. CASE VmRetakes
     BY <1>a, <1>b, <1>c, <1>d, <1>e, Work, <2>4 DEF VmRetakes, Free, Goto, Reconnect,
       manager, requests, links, server, ConnTypes
  <2>5. CASE VmConnectFails
     BY <1>a, <1>b, <1>c, <1>d, <1>e, <2>5 DEF VmConnectFails, Rest, Goto, manager,
       requests, links, server, ConnTypes
  <2>6. CASE VmConnects \/ VmDisconnects \/ VmReconnects
     BY <1>0, <2>6 DEF VmConnects, Resting, manager, requests, links, server,
       VmDisconnects, Goto, VmReconnects
  <2>7. QED
    BY <1>2, <2>1, <2>2, <2>3, <2>4, <2>5, <2>6 DEF Vm
<1>3. ASSUME NEW m \in Managed, Task(m) PROVE ConnTypes'
  <2>1. CASE BackgroundConnected(m)
     BY <1>a, <1>b, <1>c, <1>d, <1>e, <2>1 DEF BackgroundConnected, Goto, Unlock,
       manager, requests, links, server, ConnTypes
  <2>2. CASE BackgroundUndone(m)
     BY <1>a, <1>b, <1>c, <1>d, <1>e, <2>2 DEF BackgroundUndone, Unlock, Rest, Goto,
       manager, requests, links, server, ConnTypes
  <2>3. CASE BackgroundFails(m)
     BY <1>a, <1>b, <1>c, <1>d, <1>e, <2>3 DEF BackgroundFails, Unlock, Rest, Goto,
       manager, requests, links, server, ConnTypes
  <2>4. CASE Supervise(m)
     BY <1>a, <1>b, <1>c, <1>d, <1>e, <2>4 DEF Supervise, Goto, Free, Reconnect,
       manager, requests, links, server, ConnTypes
  <2>5. CASE BackgroundBegins(m) \/ BackgroundForgets(m)
     BY <1>0, <2>5 DEF BackgroundBegins, Free, Goto, BackgroundOpens, manager,
       requests, links, server, BackgroundForgets
  <2>6. QED
    BY <1>3, <2>1, <2>2, <2>3, <2>4, <2>5 DEF Task
<1>4. ASSUME NEW r \in Requester, Request(r) PROVE ConnTypes'
  <2>1. CASE CallTool(r)
     BY <1>a, <1>b, <1>c, <1>d, <1>e, <2>1 DEF CallTool, Ask, Returns, manager,
       requests, links, server, ConnTypes
   <2>2. CASE Insert(r) \/ Send(r) \/ SendBreaks(r) \/ Answered(r) \/ Forgotten(r) \/
     GivesUp(r)
     BY <1>0, <2>2 DEF Insert, manager, requests, links, server, Send, Returns,
       SendBreaks, Fault, Answered, Forgotten, GivesUp
  <2>3. QED
    BY <1>4, <2>1, <2>2 DEF Request
<1>5. ASSUME NEW c \in Conn, ReaderEnds(c) \/ ReaderDrains(c) \/ ServerChanges(c) PROVE ConnTypes'
   BY <1>0, <1>5 DEF ReaderEnds, Fault, manager, requests, links, server,
     ReaderDrains, ServerChanges
<1>6. ASSUME NEW n \in Contested, HostRegisters(n) PROVE ConnTypes'
  BY <1>0, <1>6 DEF HostRegisters, manager, requests, links, server
<1>7. QED
  BY <1>1, <1>2, <1>3, <1>4, <1>5, <1>6 DEF Next

(* The types of what is asked and answered.                                  *)
LEMMA AnswerStep ==
  ASSUME TypeOK, PlaceInv, ConnInv, HoldInv, AnswerTypes, Next
  PROVE  AnswerTypes'
<1>0. UNCHANGED <<answer, stage>> => AnswerTypes'
  BY DEF AnswerTypes
<1>a. /\ VM \in Actor /\ VM \in Requester
      /\ \A a \in Actor : a \in Requester
      /\ \A m \in Managed : Background(m) \in Actor /\ Supervisor(m) \in Actor
      /\ \A c \in Conn : Watcher(c) \in Actor
  BY Actors
<1>b. \A a \in Actor : pc[a] \in {"lock", "answer", "check", "install", "watch", "watched",
                                  "close", "drop", "dropped", "idle"} => conn[a] \in Conn
  BY Places
<1>c. /\ \A a \in Actor : pc[a] \in {"connect", "watched", "failed", "dropped"}
                          => MyManaged(a) \in Managed
      /\ pc[VM] # "off" => target \in Managed
  BY Places
<1>d. Failed \in (SUBSET Tool) \cup {Failed} /\ {} \in (SUBSET Tool) \cup {Failed}
  OBVIOUS
<1>e. \A c \in Conn : catalog[c] \in (SUBSET Tool) \cup {Failed}
  BY McpTools DEF TypeOK
<1>f. \A r \in Requester : stage[r] # "none" => conn[r] \in Conn
  BY DEF TypeOK, ConnInv
<1> DEFINE Result == (SUBSET Tool) \cup {Failed}
<1>g. AnswerTypes <=> /\ stage \in [Requester -> {"none", "insert", "send", "wait"}]
                      /\ answer \in [Requester -> Result]
  BY DEF AnswerTypes
<1>h. AnswerTypes' <=> /\ stage' \in [Requester -> {"none", "insert", "send", "wait"}]
                       /\ answer' \in [Requester -> Result]
  BY DEF AnswerTypes
<1> HIDE DEF Result
<1>i. /\ Failed \in Result /\ {} \in Result /\ \A c \in Conn : catalog[c] \in Result
      /\ \A r \in Requester : stage[r] # "none" => conn[r] \in Conn
  BY <1>d, <1>e, <1>f DEF Result
<1>1. ASSUME NEW a \in Actor, Shared(a) PROVE AnswerTypes'
  <2>1. CASE BridgeBegins(a)
     BY <1>a, <1>b, <1>g, <1>h, <1>i, <2>1 DEF BridgeBegins, Ask, Returns, Goto,
       manager, requests, links, server, AnswerTypes
  <2>2. CASE BridgeListed(a)
     BY <1>a, <1>b, <1>g, <1>h, <1>i, <2>2 DEF BridgeListed, BridgeFails, Forget,
       Goto, manager, requests, links, server, AnswerTypes
  <2>3. CASE BridgeChecks(a)
     BY <1>a, <1>b, <1>g, <1>h, <1>i, <2>3 DEF BridgeChecks, BridgeFails, Forget,
       Goto, manager, requests, links, server, AnswerTypes
  <2>4. CASE BridgeInstalls(a)
     BY <1>a, <1>b, <1>g, <1>h, <1>i, <2>4 DEF BridgeInstalls, BridgeFails, Forget,
       Goto, manager, requests, links, server, AnswerTypes
   <2>5. CASE Connect(a) \/ Watch(a) \/ Wakes(a) \/ Close(a) \/ Drop(a) \/
     Reconnected(a) \/ ReconnectFails(a)
     BY <1>0, <2>5 DEF Connect, Goto, Fault, manager, requests, links, server, Watch,
       Wakes, Close, Drop, Drops, AfterDrop, Rest, Reconnected, Unlock, Home,
       ReconnectFails
  <2>6. QED
    BY <1>1, <2>1, <2>2, <2>3, <2>4, <2>5 DEF Shared
<1>2. CASE Vm \/ VmConnects \/ VmDisconnects \/ VmReconnects
   BY <1>0, <1>2 DEF Vm, VmConnects, Resting, manager, requests, links, server,
     VmConnected, VmDisconnects, Goto, VmTakes, Free, VmDisconnected, Unlock, Rest,
     VmReconnects, VmRetakes, Reconnect, VmConnectFails
<1>3. ASSUME NEW m \in Managed, Task(m) PROVE AnswerTypes'
   BY <1>0, <1>3 DEF Task, BackgroundBegins, Free, Goto, BackgroundOpens, manager,
     requests, links, server, BackgroundConnected, Unlock, BackgroundUndone, Rest,
     BackgroundFails, BackgroundForgets, Supervise, Reconnect
<1>4. ASSUME NEW r \in Requester, Request(r) PROVE AnswerTypes'
  <2>1. CASE CallTool(r)
     BY <1>a, <1>b, <1>g, <1>h, <1>i, <2>1 DEF CallTool, Ask, Returns, manager,
       requests, links, server, AnswerTypes
  <2>2. CASE Insert(r)
     BY <1>a, <1>b, <1>g, <1>h, <1>i, <2>2 DEF Insert, manager, requests, links,
       server, AnswerTypes
  <2>3. CASE Send(r)
     BY <1>a, <1>b, <1>g, <1>h, <1>i, <2>3 DEF Send, Returns, manager, requests,
       links, server, AnswerTypes
  <2>4. CASE SendBreaks(r)
     BY <1>a, <1>b, <1>g, <1>h, <1>i, <2>4 DEF SendBreaks, Returns, Fault, manager,
       requests, links, server, AnswerTypes
  <2>5. CASE Answered(r)
     BY <1>a, <1>b, <1>g, <1>h, <1>i, <2>5 DEF Answered, Returns, Fault, manager,
       requests, links, server, AnswerTypes
  <2>6. CASE Forgotten(r)
     BY <1>a, <1>b, <1>g, <1>h, <1>i, <2>6 DEF Forgotten, Returns, manager, requests,
       links, server, AnswerTypes
  <2>7. CASE GivesUp(r)
     BY <1>a, <1>b, <1>g, <1>h, <1>i, <2>7 DEF GivesUp, Returns, Fault, manager,
       requests, links, server, AnswerTypes
  <2>8. QED
    BY <1>4, <2>1, <2>2, <2>3, <2>4, <2>5, <2>6, <2>7 DEF Request
<1>5. ASSUME NEW c \in Conn, ReaderEnds(c) \/ ReaderDrains(c) \/ ServerChanges(c) PROVE AnswerTypes'
   BY <1>0, <1>5 DEF ReaderEnds, Fault, manager, requests, links, server,
     ReaderDrains, ServerChanges
<1>6. ASSUME NEW n \in Contested, HostRegisters(n) PROVE AnswerTypes'
  BY <1>0, <1>6 DEF HostRegisters, manager, requests, links, server
<1>7. QED
  BY <1>1, <1>2, <1>3, <1>4, <1>5, <1>6 DEF Next

(* The types of the requests that wait.                                      *)
LEMMA PendingStep ==
  ASSUME TypeOK, PlaceInv, ConnInv, HoldInv, PendingTypes, Next
  PROVE  PendingTypes'
<1>0. UNCHANGED <<pending>> => PendingTypes'
  BY DEF PendingTypes
<1>a. /\ VM \in Actor /\ VM \in Requester
      /\ \A a \in Actor : a \in Requester
      /\ \A m \in Managed : Background(m) \in Actor /\ Supervisor(m) \in Actor
      /\ \A c \in Conn : Watcher(c) \in Actor
  BY Actors
<1>b. \A a \in Actor : pc[a] \in {"lock", "answer", "check", "install", "watch", "watched",
                                  "close", "drop", "dropped", "idle"} => conn[a] \in Conn
  BY Places
<1>c. /\ \A a \in Actor : pc[a] \in {"connect", "watched", "failed", "dropped"}
                          => MyManaged(a) \in Managed
      /\ pc[VM] # "off" => target \in Managed
  BY Places
<1>d. \A r \in Requester : stage[r] # "none" => conn[r] \in Conn
  BY DEF TypeOK, ConnInv
<1>1. ASSUME NEW a \in Actor, Shared(a) PROVE PendingTypes'
  <2>1. CASE Drop(a)
     BY <1>a, <1>b, <1>c, <1>d, <2>1 DEF Drop, Drops, AfterDrop, Rest, Goto, manager,
       requests, links, server, PendingTypes
   <2>2. CASE Connect(a) \/ BridgeBegins(a) \/ BridgeListed(a) \/ BridgeChecks(a) \/
     BridgeInstalls(a) \/ Watch(a) \/ Wakes(a) \/ Close(a) \/ Reconnected(a) \/
     ReconnectFails(a)
     BY <1>0, <2>2 DEF Connect, Goto, Fault, manager, requests, links, server,
       BridgeBegins, Ask, Returns, BridgeListed, BridgeFails, Forget, BridgeChecks,
       BridgeInstalls, Watch, Wakes, Close, Reconnected, Rest, Unlock, Home,
       ReconnectFails
  <2>3. QED
    BY <1>1, <2>1, <2>2 DEF Shared
<1>2. CASE Vm \/ VmConnects \/ VmDisconnects \/ VmReconnects
   BY <1>0, <1>2 DEF Vm, VmConnects, Resting, manager, requests, links, server,
     VmConnected, VmDisconnects, Goto, VmTakes, Free, VmDisconnected, Unlock, Rest,
     VmReconnects, VmRetakes, Reconnect, VmConnectFails
<1>3. ASSUME NEW m \in Managed, Task(m) PROVE PendingTypes'
   BY <1>0, <1>3 DEF Task, BackgroundBegins, Free, Goto, BackgroundOpens, manager,
     requests, links, server, BackgroundConnected, Unlock, BackgroundUndone, Rest,
     BackgroundFails, BackgroundForgets, Supervise, Reconnect
<1>4. ASSUME NEW r \in Requester, Request(r) PROVE PendingTypes'
  <2>1. CASE Insert(r)
     BY <1>a, <1>b, <1>c, <1>d, <2>1 DEF Insert, manager, requests, links, server,
       PendingTypes
  <2>2. CASE Send(r)
     BY <1>a, <1>b, <1>c, <1>d, <2>2 DEF Send, Returns, manager, requests, links,
       server, PendingTypes
  <2>3. CASE SendBreaks(r)
     BY <1>a, <1>b, <1>c, <1>d, <2>3 DEF SendBreaks, Returns, Fault, manager,
       requests, links, server, PendingTypes
  <2>4. CASE Answered(r)
     BY <1>a, <1>b, <1>c, <1>d, <2>4 DEF Answered, Returns, Fault, manager, requests,
       links, server, PendingTypes
  <2>5. CASE GivesUp(r)
     BY <1>a, <1>b, <1>c, <1>d, <2>5 DEF GivesUp, Returns, Fault, manager, requests,
       links, server, PendingTypes
  <2>6. CASE CallTool(r) \/ Forgotten(r)
     BY <1>0, <2>6 DEF CallTool, Ask, Returns, manager, requests, links, server,
       Forgotten
  <2>7. QED
    BY <1>4, <2>1, <2>2, <2>3, <2>4, <2>5, <2>6 DEF Request
<1>5. ASSUME NEW c \in Conn, ReaderEnds(c) \/ ReaderDrains(c) \/ ServerChanges(c) PROVE PendingTypes'
  <2>1. CASE ReaderDrains(c)
     BY <1>a, <1>b, <1>c, <1>d, <2>1 DEF ReaderDrains, manager, requests, links,
       server, PendingTypes
  <2>2. CASE ReaderEnds(c) \/ ServerChanges(c)
    BY <1>0, <2>2 DEF ReaderEnds, Fault, manager, requests, links, server, ServerChanges
  <2>3. QED
    BY <1>5, <2>1, <2>2
<1>6. ASSUME NEW n \in Contested, HostRegisters(n) PROVE PendingTypes'
  BY <1>0, <1>6 DEF HostRegisters, manager, requests, links, server
<1>7. QED
  BY <1>1, <1>2, <1>3, <1>4, <1>5, <1>6 DEF Next

(* The types of the requests.                                                *)
LEMMA RequestStep ==
  ASSUME TypeOK, PlaceInv, ConnInv, HoldInv, RequestTypes, Next
  PROVE  RequestTypes'
BY ConnStep, AnswerStep, PendingStep DEF RequestTypes

(* The types of the connections.                                             *)
LEMMA LinkStep ==
  ASSUME TypeOK, PlaceInv, ConnInv, HoldInv, LinkTypes, Next
  PROVE  LinkTypes'
<1>0. UNCHANGED <<child, closed, home, made, missed, permit, reader, sync>> => LinkTypes'
  BY DEF LinkTypes
<1>a. /\ VM \in Actor /\ VM \in Requester
      /\ \A a \in Actor : a \in Requester
      /\ \A m \in Managed : Background(m) \in Actor /\ Supervisor(m) \in Actor
      /\ \A c \in Conn : Watcher(c) \in Actor
  BY Actors
<1>b. \A a \in Actor : pc[a] \in {"lock", "answer", "check", "install", "watch", "watched",
                                  "close", "drop", "dropped", "idle"} => conn[a] \in Conn
  BY Places
<1>c. /\ \A a \in Actor : pc[a] \in {"connect", "watched", "failed", "dropped"}
                          => MyManaged(a) \in Managed
      /\ pc[VM] # "off" => target \in Managed
  BY Places
<1>d. MaxConns \in Nat /\ Conn = 1..MaxConns
  BY McpBounds DEF Conn
<1>1. ASSUME NEW a \in Actor, Shared(a) PROVE LinkTypes'
  <2>1. CASE Connect(a)
    <3>1. \/ UNCHANGED <<made, home, reader, child>>
          \/ /\ made < MaxConns /\ made' = made + 1
             /\ home' = [home EXCEPT ![made + 1] = MyManaged(a)]
             /\ reader' = [reader EXCEPT ![made + 1] = "reading"]
             /\ child' = [child EXCEPT ![made + 1] = TRUE]
      BY <2>1 DEF Connect
    <3>2. made \in 0..MaxConns /\ MyManaged(a) \in Managed
      BY <1>c, <2>1 DEF Connect, LinkTypes
    <3>3. made < MaxConns => made + 1 \in Conn /\ made + 1 \in 0..MaxConns
      BY <1>d, <3>2
    <3>4. UNCHANGED <<closed, permit, missed, sync>>
      BY <2>1 DEF Connect, server
    <3>5. QED
      BY <3>1, <3>2, <3>3, <3>4 DEF LinkTypes
  <2>2. CASE BridgeBegins(a)
     BY <1>a, <1>b, <1>c, <1>d, <2>2 DEF BridgeBegins, Ask, Returns, Goto, manager,
       requests, links, server, LinkTypes
  <2>3. CASE BridgeListed(a)
     BY <1>a, <1>b, <1>c, <1>d, <2>3 DEF BridgeListed, BridgeFails, Forget, Goto,
       manager, requests, links, server, LinkTypes
  <2>4. CASE BridgeChecks(a)
     BY <1>a, <1>b, <1>c, <1>d, <2>4 DEF BridgeChecks, BridgeFails, Forget, Goto,
       manager, requests, links, server, LinkTypes
  <2>5. CASE BridgeInstalls(a)
     BY <1>a, <1>b, <1>c, <1>d, <2>5 DEF BridgeInstalls, BridgeFails, Forget, Goto,
       manager, requests, links, server, LinkTypes
  <2>6. CASE Wakes(a)
     BY <1>a, <1>b, <1>c, <1>d, <2>6 DEF Wakes, Goto, manager, requests, links,
       server, LinkTypes
  <2>7. CASE Close(a)
     BY <1>a, <1>b, <1>c, <1>d, <2>7 DEF Close, Goto, manager, requests, links,
       server, LinkTypes
  <2>8. CASE Drop(a)
     BY <1>a, <1>b, <1>c, <1>d, <2>8 DEF Drop, Drops, AfterDrop, Rest, Goto, manager,
       requests, links, server, LinkTypes
  <2>9. CASE Watch(a) \/ Reconnected(a) \/ ReconnectFails(a)
     BY <1>0, <2>9 DEF Watch, manager, requests, links, server, Reconnected, Rest,
       Goto, Unlock, Home, ReconnectFails
  <2>10. QED
    BY <1>1, <2>1, <2>2, <2>3, <2>4, <2>5, <2>6, <2>7, <2>8, <2>9 DEF Shared
<1>2. CASE Vm \/ VmConnects \/ VmDisconnects \/ VmReconnects
   BY <1>0, <1>2 DEF Vm, VmConnects, Resting, manager, requests, links, server,
     VmConnected, VmDisconnects, Goto, VmTakes, Free, VmDisconnected, Unlock, Rest,
     VmReconnects, VmRetakes, Reconnect, VmConnectFails
<1>3. ASSUME NEW m \in Managed, Task(m) PROVE LinkTypes'
   BY <1>0, <1>3 DEF Task, BackgroundBegins, Free, Goto, BackgroundOpens, manager,
     requests, links, server, BackgroundConnected, Unlock, BackgroundUndone, Rest,
     BackgroundFails, BackgroundForgets, Supervise, Reconnect
<1>4. ASSUME NEW r \in Requester, Request(r) PROVE LinkTypes'
  <2>1. CASE SendBreaks(r)
     BY <1>a, <1>b, <1>c, <1>d, <2>1 DEF SendBreaks, Returns, Fault, manager,
       requests, links, server, LinkTypes
   <2>2. CASE CallTool(r) \/ Insert(r) \/ Send(r) \/ Answered(r) \/ Forgotten(r) \/
     GivesUp(r)
     BY <1>0, <2>2 DEF CallTool, Ask, Returns, manager, requests, links, server,
       Insert, Send, Answered, Fault, Forgotten, GivesUp
  <2>3. QED
    BY <1>4, <2>1, <2>2 DEF Request
<1>5. ASSUME NEW c \in Conn, ReaderEnds(c) \/ ReaderDrains(c) \/ ServerChanges(c) PROVE LinkTypes'
  <2>1. CASE ReaderEnds(c)
     BY <1>a, <1>b, <1>c, <1>d, <2>1 DEF ReaderEnds, Fault, manager, requests, links,
       server, LinkTypes
  <2>2. CASE ReaderDrains(c)
     BY <1>a, <1>b, <1>c, <1>d, <2>2 DEF ReaderDrains, manager, requests, links,
       server, LinkTypes
  <2>3. CASE ServerChanges(c)
     BY <1>a, <1>b, <1>c, <1>d, <2>3 DEF ServerChanges, manager, requests, links,
       server, LinkTypes
  <2>4. QED
    BY <1>5, <2>1, <2>2, <2>3
<1>6. ASSUME NEW n \in Contested, HostRegisters(n) PROVE LinkTypes'
  BY <1>0, <1>6 DEF HostRegisters, manager, requests, links, server
<1>7. QED
  BY <1>1, <1>2, <1>3, <1>4, <1>5, <1>6 DEF Next

(* The types of the servers and the registry.                                *)
LEMMA ServerStep ==
  ASSUME TypeOK, PlaceInv, ConnInv, HoldInv, ServerTypes, Next
  PROVE  ServerTypes'
<1>0. UNCHANGED <<catalog, changes, faults, owner>> => ServerTypes'
  BY DEF ServerTypes
<1>a. /\ VM \in Actor /\ VM \in Requester
      /\ \A a \in Actor : a \in Requester
      /\ \A m \in Managed : Background(m) \in Actor /\ Supervisor(m) \in Actor
      /\ \A c \in Conn : Watcher(c) \in Actor
  BY Actors
<1>b. \A a \in Actor : pc[a] \in {"lock", "answer", "check", "install", "watch", "watched",
                                  "close", "drop", "dropped", "idle"} => conn[a] \in Conn
  BY Places
<1>c. /\ \A a \in Actor : pc[a] \in {"connect", "watched", "failed", "dropped"}
                          => MyManaged(a) \in Managed
      /\ pc[VM] # "off" => target \in Managed
  BY Places
<1>d. MaxChanges \in Nat /\ MaxFaults \in Nat
  BY McpBounds
<1>1. ASSUME NEW a \in Actor, Shared(a) PROVE ServerTypes'
  <2>1. CASE Connect(a)
     BY <1>a, <1>b, <1>c, <1>d, <2>1 DEF Connect, Goto, Fault, manager, requests,
       links, server, ServerTypes
  <2>2. CASE BridgeInstalls(a)
     BY <1>a, <1>b, <1>c, <1>d, <2>2 DEF BridgeInstalls, BridgeFails, Forget, Goto,
       manager, requests, links, server, ServerTypes
  <2>3. CASE Drop(a)
     BY <1>a, <1>b, <1>c, <1>d, <2>3 DEF Drop, Drops, AfterDrop, Rest, Goto, manager,
       requests, links, server, ServerTypes
   <2>4. CASE BridgeBegins(a) \/ BridgeListed(a) \/ BridgeChecks(a) \/ Watch(a) \/
     Wakes(a) \/ Close(a) \/ Reconnected(a) \/ ReconnectFails(a)
     BY <1>0, <2>4 DEF BridgeBegins, Ask, Returns, Goto, manager, requests, links,
       server, BridgeListed, BridgeFails, Forget, BridgeChecks, Watch, Wakes, Close,
       Reconnected, Rest, Unlock, Home, ReconnectFails
  <2>5. QED
    BY <1>1, <2>1, <2>2, <2>3, <2>4 DEF Shared
<1>2. CASE Vm \/ VmConnects \/ VmDisconnects \/ VmReconnects
   BY <1>0, <1>2 DEF Vm, VmConnects, Resting, manager, requests, links, server,
     VmConnected, VmDisconnects, Goto, VmTakes, Free, VmDisconnected, Unlock, Rest,
     VmReconnects, VmRetakes, Reconnect, VmConnectFails
<1>3. ASSUME NEW m \in Managed, Task(m) PROVE ServerTypes'
   BY <1>0, <1>3 DEF Task, BackgroundBegins, Free, Goto, BackgroundOpens, manager,
     requests, links, server, BackgroundConnected, Unlock, BackgroundUndone, Rest,
     BackgroundFails, BackgroundForgets, Supervise, Reconnect
<1>4. ASSUME NEW r \in Requester, Request(r) PROVE ServerTypes'
  <2>1. CASE SendBreaks(r)
     BY <1>a, <1>b, <1>c, <1>d, <2>1 DEF SendBreaks, Returns, Fault, manager,
       requests, links, server, ServerTypes
  <2>2. CASE Answered(r)
     BY <1>a, <1>b, <1>c, <1>d, <2>2 DEF Answered, Returns, Fault, manager, requests,
       links, server, ServerTypes
  <2>3. CASE GivesUp(r)
     BY <1>a, <1>b, <1>c, <1>d, <2>3 DEF GivesUp, Returns, Fault, manager, requests,
       links, server, ServerTypes
  <2>4. CASE CallTool(r) \/ Insert(r) \/ Send(r) \/ Forgotten(r)
     BY <1>0, <2>4 DEF CallTool, Ask, Returns, manager, requests, links, server,
       Insert, Send, Forgotten
  <2>5. QED
    BY <1>4, <2>1, <2>2, <2>3, <2>4 DEF Request
<1>5. ASSUME NEW c \in Conn, ReaderEnds(c) \/ ReaderDrains(c) \/ ServerChanges(c) PROVE ServerTypes'
  <2>1. CASE ReaderEnds(c)
     BY <1>a, <1>b, <1>c, <1>d, <2>1 DEF ReaderEnds, Fault, manager, requests, links,
       server, ServerTypes
  <2>2. CASE ServerChanges(c)
     BY <1>a, <1>b, <1>c, <1>d, <2>2 DEF ServerChanges, manager, requests, links,
       server, ServerTypes
  <2>3. CASE ReaderDrains(c)
    BY <1>0, <2>3 DEF ReaderDrains, manager, requests, links, server
  <2>4. QED
    BY <1>5, <2>1, <2>2, <2>3
<1>6. ASSUME NEW n \in Contested, HostRegisters(n) PROVE ServerTypes'
  <2>1. CASE HostRegisters(n)
     BY <1>a, <1>b, <1>c, <1>d, <2>1 DEF HostRegisters, manager, requests, links,
       server, ServerTypes
  <2>2. QED
    BY <1>6, <2>1
<1>7. QED
  BY <1>1, <1>2, <1>3, <1>4, <1>5, <1>6 DEF Next

(* Every step keeps the types.                                               *)
LEMMA TypeStep ==
  ASSUME TypeOK, PlaceInv, ConnInv, HoldInv, WatchInv, Next
  PROVE  TypeOK'
<1>1. ManagerTypes' /\ ActorTypes' /\ RequestTypes' /\ LinkTypes' /\ ServerTypes'
      => TypeOK'
  BY DEF TypeOK, ManagerTypes, ActorTypes, RequestTypes, ConnTypes, AnswerTypes,
     PendingTypes, LinkTypes, ServerTypes, AllSteps
<1>2. QED
  BY <1>1, TypeParts, ManagerStep, ActorStep, RequestStep, LinkStep, ServerStep

-----------------------------------------------------------------------------
(* Where everybody is.                                                       *)

(* Who is who, as the steps below use it.                                    *)
Names ==
    /\ VM \in Actor
    /\ \A m \in Managed : /\ Background(m) \in Actor /\ Supervisor(m) \in Actor
                          /\ Background(m) # VM /\ Supervisor(m) # VM
    /\ \A m, n \in Managed : /\ Background(m) # Supervisor(n)
                             /\ Background(m) = Background(n) => m = n
                             /\ Supervisor(m) = Supervisor(n) => m = n
    /\ \A c, d \in Conn : Watcher(c) \in Actor /\ (Watcher(c) = Watcher(d) => c = d)
    /\ \A c \in Conn : Watcher(c) # VM
    /\ \A m \in Managed, c \in Conn : /\ Watcher(c) # Background(m)
                                      /\ Watcher(c) # Supervisor(m)
    /\ \A a \in Actor : a \in Requester

(* What an actor's step tells of its operation.                              *)
Posts ==
    \A a \in Actor :
       /\ pc[a] \in {"off", "queued", "forget", "supervising", "take", "retake"}
          <=> op[a] = "none"
       /\ pc[a] \in {"connect", "watched", "watch", "failed"} => op[a] \in {"open", "reopen"}
       /\ pc[a] = "dropped" => op[a] \in {"disconnect", "undo"}
       /\ pc[a] \in {"lock", "answer", "check", "install"}
          => op[a] \in {"open", "reopen", "watch"}
       /\ pc[a] = "idle" => op[a] = "watch"

(* The types of what the actors do.                                          *)
Kinds ==
    /\ op \in [Actor -> DOMAIN Steps] /\ pc \in [Actor -> AllSteps]
    /\ stage \in [Requester -> {"none", "insert", "send", "wait"}]
    /\ conn \in [Requester -> Conn \cup {None}]

(* Nobody watches a connection that is being opened.                         *)
Watches ==
    /\ \A a \in Opener : pc[a] \in Opening => pc[Watcher(conn[a])] = "off"
    /\ \A a \in Actor : pc[a] = "watch" => a \in Opener /\ conn[a] \in Conn
    /\ "watch" \in Opening

(* Where no task is.                                                         *)
Quiet ==
    /\ \A m \in Managed : m > opened => /\ pc[Background(m)] = "off"
                                        /\ pc[Supervisor(m)] = "off"
    /\ \A m \in Managed : pc[Background(m)] # "off" => pc[Supervisor(m)] = "off"
    /\ op[VM] = "open" => pc[Background(target)] = "off" /\ pc[Supervisor(target)] = "off"
    /\ pc[VM] # "off" => target \in Managed

(* So it is before every step.                                               *)
LEMMA Scene ==
  ASSUME TypeOK, PlaceInv, ConnInv, HoldInv, WatchInv
  PROVE  Names /\ Posts /\ Kinds /\ Watches /\ Quiet
<1>1. Names
  BY Actors DEF Names
<1>2. Posts
  BY StepOps DEF Posts
<1>3. Kinds
  BY TypeParts DEF ActorTypes, RequestTypes, ConnTypes, AnswerTypes, Kinds
<1>4. Watches
  <2>1. \A a \in Opener : pc[a] \in Opening => pc[Watcher(conn[a])] = "off"
    BY DEF WatchInv
  <2>2. ASSUME NEW a \in Actor, pc[a] = "watch" PROVE a \in Opener /\ conn[a] \in Conn
    BY <2>2, StepOps
  <2>3. QED
    BY <2>1, <2>2 DEF Opening, Watches
<1>5. Quiet
  BY Places DEF HoldInv, Quiet
<1>6. QED
  BY <1>1, <1>2, <1>3, <1>4, <1>5

(* Everybody at a step of what it does; only bridge_tools asks.              *)
StepInv == \A a \in Actor : pc[a] \in Steps[op[a]] /\ (stage[a] # "none" => pc[a] = "answer")
(* Each step leads to a step of the same operation, or ends or begins one.   *)
LEMMA StepStep ==
  ASSUME TypeOK, PlaceInv, ConnInv, HoldInv, WatchInv, StepInv, Next
  PROVE  StepInv'
<1>0. UNCHANGED <<op, pc, stage>> => StepInv'
  BY DEF StepInv
<1> USE DEF Names, Posts, Kinds, Watches, Quiet
<1>a. Names
  BY Scene
<1>b. Posts
  BY Scene
<1>c. Kinds
  BY Scene
<1>d. Watches
  BY Scene
<1>e. Quiet
  BY Scene
<1>f. VmConnects => opened + 1 \in Managed /\ opened + 1 > opened
  BY McpBounds DEF VmConnects, TypeOK, Managed
<1>1. ASSUME NEW a \in Actor, Shared(a) PROVE StepInv'
  <2>1. CASE Connect(a)
     BY <1>a, <1>b, <1>c, <1>d, <1>e, <1>f, StepSets, <2>1 DEF Connect, Goto, Fault,
       manager, requests, links, server, StepInv
  <2>2. CASE BridgeBegins(a)
     BY <1>a, <1>b, <1>c, <1>d, <1>e, <1>f, StepSets, <2>2 DEF BridgeBegins, Ask,
       Returns, Goto, manager, requests, links, server, StepInv
  <2>3. CASE BridgeListed(a)
     BY <1>a, <1>b, <1>c, <1>d, <1>e, <1>f, StepSets, <2>3 DEF BridgeListed,
       BridgeFails, Forget, Goto, manager, requests, links, server, StepInv
  <2>4. CASE BridgeChecks(a)
     BY <1>a, <1>b, <1>c, <1>d, <1>e, <1>f, StepSets, <2>4 DEF BridgeChecks,
       BridgeFails, Forget, Goto, manager, requests, links, server, StepInv
  <2>5. CASE BridgeInstalls(a)
     BY <1>a, <1>b, <1>c, <1>d, <1>e, <1>f, StepSets, <2>5 DEF BridgeInstalls,
       BridgeFails, Forget, Goto, manager, requests, links, server, StepInv
  <2>6. CASE Watch(a)
     BY <1>a, <1>b, <1>c, <1>d, <1>e, <1>f, StepSets, <2>6 DEF Watch, manager,
       requests, links, server, StepInv
  <2>7. CASE Wakes(a)
     BY <1>a, <1>b, <1>c, <1>d, <1>e, <1>f, StepSets, <2>7 DEF Wakes, Goto, manager,
       requests, links, server, StepInv
  <2>8. CASE Close(a)
     BY <1>a, <1>b, <1>c, <1>d, <1>e, <1>f, StepSets, <2>8 DEF Close, Goto, manager,
       requests, links, server, StepInv
  <2>9. CASE Drop(a)
     BY <1>a, <1>b, <1>c, <1>d, <1>e, <1>f, StepSets, <2>9 DEF Drop, Drops, AfterDrop,
       Rest, Goto, manager, requests, links, server, StepInv
  <2>10. CASE Reconnected(a)
     BY <1>a, <1>b, <1>c, <1>d, <1>e, <1>f, StepSets, <2>10 DEF Reconnected, Rest,
       Goto, Unlock, Home, manager, requests, links, server, StepInv
  <2>11. CASE ReconnectFails(a)
     BY <1>a, <1>b, <1>c, <1>d, <1>e, <1>f, StepSets, <2>11 DEF ReconnectFails, Rest,
       Goto, Unlock, Home, manager, requests, links, server, StepInv
  <2>12. QED
     BY <1>1, <2>1, <2>2, <2>3, <2>4, <2>5, <2>6, <2>7, <2>8, <2>9, <2>10, <2>11 DEF
       Shared
<1>2. CASE Vm \/ VmConnects \/ VmDisconnects \/ VmReconnects
  <2>1. CASE VmConnects
     BY <1>a, <1>b, <1>c, <1>d, <1>e, <1>f, StepSets, <2>1 DEF VmConnects, Resting,
       manager, requests, links, server, StepInv
  <2>2. CASE VmConnected
     BY <1>a, <1>b, <1>c, <1>d, <1>e, <1>f, StepSets, <2>2 DEF VmConnected, manager,
       requests, links, server, StepInv
  <2>3. CASE VmDisconnects
     BY <1>a, <1>b, <1>c, <1>d, <1>e, <1>f, StepSets, <2>3 DEF VmDisconnects, Resting,
       Goto, manager, requests, links, server, StepInv
  <2>4. CASE VmTakes
     BY <1>a, <1>b, <1>c, <1>d, <1>e, <1>f, StepSets, <2>4 DEF VmTakes, Free, Goto,
       manager, requests, links, server, StepInv
  <2>5. CASE VmDisconnected
     BY <1>a, <1>b, <1>c, <1>d, <1>e, <1>f, StepSets, <2>5 DEF VmDisconnected, Unlock,
       Rest, Goto, manager, requests, links, server, StepInv
  <2>6. CASE VmReconnects
     BY <1>a, <1>b, <1>c, <1>d, <1>e, <1>f, StepSets, <2>6 DEF VmReconnects, Resting,
       Goto, manager, requests, links, server, StepInv
  <2>7. CASE VmRetakes
     BY <1>a, <1>b, <1>c, <1>d, <1>e, <1>f, StepSets, <2>7 DEF VmRetakes, Free, Goto,
       Reconnect, manager, requests, links, server, StepInv
  <2>8. CASE VmConnectFails
     BY <1>a, <1>b, <1>c, <1>d, <1>e, <1>f, StepSets, <2>8 DEF VmConnectFails, Rest,
       Goto, manager, requests, links, server, StepInv
  <2>9. QED
    BY <1>2, <2>1, <2>2, <2>3, <2>4, <2>5, <2>6, <2>7, <2>8 DEF Vm
<1>3. ASSUME NEW m \in Managed, Task(m) PROVE StepInv'
  <2>1. CASE BackgroundBegins(m)
     BY <1>a, <1>b, <1>c, <1>d, <1>e, <1>f, StepSets, <2>1 DEF BackgroundBegins, Free,
       Goto, BackgroundOpens, manager, requests, links, server, StepInv
  <2>2. CASE BackgroundConnected(m)
     BY <1>a, <1>b, <1>c, <1>d, <1>e, <1>f, StepSets, <2>2 DEF BackgroundConnected,
       Goto, Unlock, manager, requests, links, server, StepInv
  <2>3. CASE BackgroundUndone(m)
     BY <1>a, <1>b, <1>c, <1>d, <1>e, <1>f, StepSets, <2>3 DEF BackgroundUndone,
       Unlock, Rest, Goto, manager, requests, links, server, StepInv
  <2>4. CASE BackgroundFails(m)
     BY <1>a, <1>b, <1>c, <1>d, <1>e, <1>f, StepSets, <2>4 DEF BackgroundFails,
       Unlock, Rest, Goto, manager, requests, links, server, StepInv
  <2>5. CASE BackgroundForgets(m)
     BY <1>a, <1>b, <1>c, <1>d, <1>e, <1>f, StepSets, <2>5 DEF BackgroundForgets,
       Goto, manager, requests, links, server, StepInv
  <2>6. CASE Supervise(m)
     BY <1>a, <1>b, <1>c, <1>d, <1>e, <1>f, StepSets, <2>6 DEF Supervise, Goto, Free,
       Reconnect, manager, requests, links, server, StepInv
  <2>7. QED
    BY <1>3, <2>1, <2>2, <2>3, <2>4, <2>5, <2>6 DEF Task
<1>4. ASSUME NEW r \in Requester, Request(r) PROVE StepInv'
  <2>1. CASE CallTool(r)
     BY <1>a, <1>b, <1>c, <1>d, <1>e, <1>f, StepSets, <2>1 DEF CallTool, Ask, Returns,
       manager, requests, links, server, StepInv
  <2>2. CASE Insert(r)
     BY <1>a, <1>b, <1>c, <1>d, <1>e, <1>f, StepSets, <2>2 DEF Insert, manager,
       requests, links, server, StepInv
  <2>3. CASE Send(r)
     BY <1>a, <1>b, <1>c, <1>d, <1>e, <1>f, StepSets, <2>3 DEF Send, Returns, manager,
       requests, links, server, StepInv
  <2>4. CASE SendBreaks(r)
     BY <1>a, <1>b, <1>c, <1>d, <1>e, <1>f, StepSets, <2>4 DEF SendBreaks, Returns,
       Fault, manager, requests, links, server, StepInv
  <2>5. CASE Answered(r)
     BY <1>a, <1>b, <1>c, <1>d, <1>e, <1>f, StepSets, <2>5 DEF Answered, Returns,
       Fault, manager, requests, links, server, StepInv
  <2>6. CASE Forgotten(r)
     BY <1>a, <1>b, <1>c, <1>d, <1>e, <1>f, StepSets, <2>6 DEF Forgotten, Returns,
       manager, requests, links, server, StepInv
  <2>7. CASE GivesUp(r)
     BY <1>a, <1>b, <1>c, <1>d, <1>e, <1>f, StepSets, <2>7 DEF GivesUp, Returns,
       Fault, manager, requests, links, server, StepInv
  <2>8. QED
    BY <1>4, <2>1, <2>2, <2>3, <2>4, <2>5, <2>6, <2>7 DEF Request
<1>5. ASSUME NEW c \in Conn, ReaderEnds(c) \/ ReaderDrains(c) \/ ServerChanges(c) PROVE StepInv'
   BY <1>0, <1>5 DEF ReaderEnds, Fault, manager, requests, links, server,
     ReaderDrains, ServerChanges
<1>6. ASSUME NEW n \in Contested, HostRegisters(n) PROVE StepInv'
  BY <1>0, <1>6 DEF HostRegisters, manager, requests, links, server
<1>7. QED
  BY <1>1, <1>2, <1>3, <1>4, <1>5, <1>6 DEF Next

(* The VM, the tasks and the watchers do each their own.                     *)
CastInv ==
    /\ op[VM] \in {"none", "open", "reopen", "reconnect", "disconnect"}
    /\ op[VM] = "none" => pc[VM] \in {"off", "take", "retake"}
    /\ \A m \in Managed :
          /\ op[Background(m)] \in {"none", "open", "undo"}
          /\ op[Background(m)] = "none" => pc[Background(m)] \in {"off", "queued", "forget"}
          /\ op[Supervisor(m)] \in {"none", "reconnect", "reopen"}
          /\ op[Supervisor(m)] = "none" => pc[Supervisor(m)] \in {"off", "supervising"}
    /\ \A c \in Conn : IF op[Watcher(c)] = "none"
                       THEN pc[Watcher(c)] = "off"
                       ELSE op[Watcher(c)] = "watch" /\ conn[Watcher(c)] = c

(* The two are PlaceInv.                                                     *)
LEMMA PlaceParts == PlaceInv <=> StepInv /\ CastInv
BY DEF PlaceInv, StepInv, CastInv

(* Nobody begins what another's code does.                                   *)
LEMMA CastStep ==
  ASSUME TypeOK, PlaceInv, ConnInv, HoldInv, WatchInv, CastInv, Next
  PROVE  CastInv'
<1>0. UNCHANGED <<conn, op, pc>> => CastInv'
  BY DEF CastInv
<1> USE DEF Names, Posts, Kinds, Watches, Quiet
<1>a. Names
  BY Scene
<1>b. Posts
  BY Scene
<1>c. Kinds
  BY Scene
<1>d. Watches
  BY Scene
<1>e. Quiet
  BY Scene
<1>f. VmConnects => opened + 1 \in Managed /\ opened + 1 > opened
  BY McpBounds DEF VmConnects, TypeOK, Managed
<1>1. ASSUME NEW a \in Actor, Shared(a) PROVE CastInv'
  <2>1. CASE Connect(a)
     BY <1>a, <1>b, <1>c, <1>d, <1>e, <1>f, StepSets, <2>1 DEF Connect, Goto, Fault,
       manager, requests, links, server, CastInv
  <2>2. CASE BridgeBegins(a)
     BY <1>a, <1>b, <1>c, <1>d, <1>e, <1>f, StepSets, <2>2 DEF BridgeBegins, Ask,
       Returns, Goto, manager, requests, links, server, CastInv
  <2>3. CASE BridgeListed(a)
     BY <1>a, <1>b, <1>c, <1>d, <1>e, <1>f, StepSets, <2>3 DEF BridgeListed,
       BridgeFails, Forget, Goto, manager, requests, links, server, CastInv
  <2>4. CASE BridgeChecks(a)
     BY <1>a, <1>b, <1>c, <1>d, <1>e, <1>f, StepSets, <2>4 DEF BridgeChecks,
       BridgeFails, Forget, Goto, manager, requests, links, server, CastInv
  <2>5. CASE BridgeInstalls(a)
     BY <1>a, <1>b, <1>c, <1>d, <1>e, <1>f, StepSets, <2>5 DEF BridgeInstalls,
       BridgeFails, Forget, Goto, manager, requests, links, server, CastInv
  <2>6. CASE Watch(a)
    <3> DEFINE d == conn[a]
               w == Watcher(d)
    <3>1. d \in Conn /\ a \in Opener /\ pc[w] = "off" /\ pc[a] = "watch"
      BY <1>d, <2>6 DEF Watch
    <3>2. /\ pc' = [pc EXCEPT ![w] = "idle", ![a] = "watched"]
          /\ op' = [op EXCEPT ![w] = "watch"]
          /\ conn' = [conn EXCEPT ![w] = d]
      BY <2>6 DEF Watch
    <3> HIDE DEF d
    <3>3. op[a] # "none" /\ w # a /\ w \in Actor /\ w \in Requester
      BY <1>a, <1>b, <3>1
    <3>4. \A x \in Actor : x # w => /\ op'[x] = op[x] /\ conn'[x] = conn[x]
                                     /\ pc'[x] = IF x = a THEN "watched" ELSE pc[x]
      BY <1>a, <1>c, <3>2
    <3>5. op'[w] = "watch" /\ conn'[w] = d
      BY <1>c, <3>2, <3>3
    <3> HIDE DEF w
    <3>6. \A c \in Conn : Watcher(c) = w => c = d
      BY <1>a, <3>1 DEF w
    <3>7. \A m \in Managed : Background(m) # w /\ Supervisor(m) # w /\ VM # w
      BY <1>a, <3>1 DEF w
    <3>8. VM # w
      BY <1>a, <3>1, Actors DEF w
    <3>9. QED
      BY <1>a, <3>1, <3>3, <3>4, <3>5, <3>6, <3>7, <3>8, Actors DEF CastInv
  <2>7. CASE Wakes(a)
     BY <1>a, <1>b, <1>c, <1>d, <1>e, <1>f, StepSets, <2>7 DEF Wakes, Goto, manager,
       requests, links, server, CastInv
  <2>8. CASE Close(a)
     BY <1>a, <1>b, <1>c, <1>d, <1>e, <1>f, StepSets, <2>8 DEF Close, Goto, manager,
       requests, links, server, CastInv
  <2>9. CASE Drop(a)
     BY <1>a, <1>b, <1>c, <1>d, <1>e, <1>f, StepSets, <2>9 DEF Drop, Drops, AfterDrop,
       Rest, Goto, manager, requests, links, server, CastInv
  <2>10. CASE Reconnected(a)
     BY <1>a, <1>b, <1>c, <1>d, <1>e, <1>f, StepSets, <2>10 DEF Reconnected, Rest,
       Goto, Unlock, Home, manager, requests, links, server, CastInv
  <2>11. CASE ReconnectFails(a)
     BY <1>a, <1>b, <1>c, <1>d, <1>e, <1>f, StepSets, <2>11 DEF ReconnectFails, Rest,
       Goto, Unlock, Home, manager, requests, links, server, CastInv
  <2>12. QED
     BY <1>1, <2>1, <2>2, <2>3, <2>4, <2>5, <2>6, <2>7, <2>8, <2>9, <2>10, <2>11 DEF
       Shared
<1>2. CASE Vm \/ VmConnects \/ VmDisconnects \/ VmReconnects
  <2>1. CASE VmConnects
     BY <1>a, <1>b, <1>c, <1>d, <1>e, <1>f, StepSets, <2>1 DEF VmConnects, Resting,
       manager, requests, links, server, CastInv
  <2>2. CASE VmConnected
     BY <1>a, <1>b, <1>c, <1>d, <1>e, <1>f, StepSets, <2>2 DEF VmConnected, manager,
       requests, links, server, CastInv
  <2>3. CASE VmDisconnects
    <3>1. pc[VM] = "off" /\ op' = op /\ conn' = conn
      BY <2>3 DEF VmDisconnects, Resting, requests
    <3>2. \E s \in {"take", "retake"} : pc' = [pc EXCEPT ![VM] = s]
      BY <2>3 DEF VmDisconnects, Goto
    <3>3. op[VM] = "none"
      BY <1>a, <1>b, <3>1
    <3>4. pc'[VM] \in {"take", "retake"} /\ \A a \in Actor : a # VM => pc'[a] = pc[a]
      BY <1>a, <1>c, <3>2
    <3>5. QED
      BY <1>a, <3>1, <3>3, <3>4 DEF CastInv
  <2>4. CASE VmTakes
     BY <1>a, <1>b, <1>c, <1>d, <1>e, <1>f, StepSets, <2>4 DEF VmTakes, Free, Goto,
       manager, requests, links, server, CastInv
  <2>5. CASE VmDisconnected
     BY <1>a, <1>b, <1>c, <1>d, <1>e, <1>f, StepSets, <2>5 DEF VmDisconnected, Unlock,
       Rest, Goto, manager, requests, links, server, CastInv
  <2>6. CASE VmReconnects
    <3>1. pc[VM] = "off" /\ op' = op /\ conn' = conn
      BY <2>6 DEF VmReconnects, Resting, requests
    <3>2. \E s \in {"take", "retake"} : pc' = [pc EXCEPT ![VM] = s]
      BY <2>6 DEF VmReconnects, Goto
    <3>3. op[VM] = "none"
      BY <1>a, <1>b, <3>1
    <3>4. pc'[VM] \in {"take", "retake"} /\ \A a \in Actor : a # VM => pc'[a] = pc[a]
      BY <1>a, <1>c, <3>2
    <3>5. QED
      BY <1>a, <3>1, <3>3, <3>4 DEF CastInv
  <2>7. CASE VmRetakes
     BY <1>a, <1>b, <1>c, <1>d, <1>e, <1>f, StepSets, <2>7 DEF VmRetakes, Free, Goto,
       Reconnect, manager, requests, links, server, CastInv
  <2>8. CASE VmConnectFails
     BY <1>a, <1>b, <1>c, <1>d, <1>e, <1>f, StepSets, <2>8 DEF VmConnectFails, Rest,
       Goto, manager, requests, links, server, CastInv
  <2>9. QED
    BY <1>2, <2>1, <2>2, <2>3, <2>4, <2>5, <2>6, <2>7, <2>8 DEF Vm
<1>3. ASSUME NEW m \in Managed, Task(m) PROVE CastInv'
  <2>1. CASE BackgroundBegins(m)
     BY <1>a, <1>b, <1>c, <1>d, <1>e, <1>f, StepSets, <2>1 DEF BackgroundBegins, Free,
       Goto, BackgroundOpens, manager, requests, links, server, CastInv
  <2>2. CASE BackgroundConnected(m)
     BY <1>a, <1>b, <1>c, <1>d, <1>e, <1>f, StepSets, <2>2 DEF BackgroundConnected,
       Goto, Unlock, manager, requests, links, server, CastInv
  <2>3. CASE BackgroundUndone(m)
     BY <1>a, <1>b, <1>c, <1>d, <1>e, <1>f, StepSets, <2>3 DEF BackgroundUndone,
       Unlock, Rest, Goto, manager, requests, links, server, CastInv
  <2>4. CASE BackgroundFails(m)
     BY <1>a, <1>b, <1>c, <1>d, <1>e, <1>f, StepSets, <2>4 DEF BackgroundFails,
       Unlock, Rest, Goto, manager, requests, links, server, CastInv
  <2>5. CASE BackgroundForgets(m)
     BY <1>a, <1>b, <1>c, <1>d, <1>e, <1>f, StepSets, <2>5 DEF BackgroundForgets,
       Goto, manager, requests, links, server, CastInv
  <2>6. CASE Supervise(m)
     BY <1>a, <1>b, <1>c, <1>d, <1>e, <1>f, StepSets, <2>6 DEF Supervise, Goto, Free,
       Reconnect, manager, requests, links, server, CastInv
  <2>7. QED
    BY <1>3, <2>1, <2>2, <2>3, <2>4, <2>5, <2>6 DEF Task
<1>4. ASSUME NEW r \in Requester, Request(r) PROVE CastInv'
  <2>1. CASE CallTool(r)
     BY <1>a, <1>b, <1>c, <1>d, <1>e, <1>f, StepSets, <2>1 DEF CallTool, Ask, Returns,
       manager, requests, links, server, CastInv
   <2>2. CASE Insert(r) \/ Send(r) \/ SendBreaks(r) \/ Answered(r) \/ Forgotten(r) \/
     GivesUp(r)
     BY <1>0, <2>2 DEF Insert, manager, requests, links, server, Send, Returns,
       SendBreaks, Fault, Answered, Forgotten, GivesUp
  <2>3. QED
    BY <1>4, <2>1, <2>2 DEF Request
<1>5. ASSUME NEW c \in Conn, ReaderEnds(c) \/ ReaderDrains(c) \/ ServerChanges(c) PROVE CastInv'
   BY <1>0, <1>5 DEF ReaderEnds, Fault, manager, requests, links, server,
     ReaderDrains, ServerChanges
<1>6. ASSUME NEW n \in Contested, HostRegisters(n) PROVE CastInv'
  BY <1>0, <1>6 DEF HostRegisters, manager, requests, links, server
<1>7. QED
  BY <1>1, <1>2, <1>3, <1>4, <1>5, <1>6 DEF Next

(* Each step keeps everybody in place.                                       *)
LEMMA PlaceStep == ASSUME TypeOK, PlaceInv, ConnInv, HoldInv, WatchInv, Next PROVE PlaceInv'
<1>1. StepInv' /\ CastInv'
  BY PlaceParts, StepStep, CastStep
<1>2. QED
  BY <1>1 DEF PlaceInv, StepInv, CastInv

(* Connections, made and unmade, and who works on them.                      *)
MadeInv == \A c \in Conn :
    IF c > made THEN /\ home[c] = None /\ reader[c] = "none" /\ ~closed[c] /\ ~child[c]
                     /\ pc[Watcher(c)] = "off"
                ELSE home[c] \in Managed
FreshInv == \A n \in Tool : owner[n] \in Conn => owner[n] <= made
GivenInv == \A r \in Requester : conn[r] <= made /\ (stage[r] # "none" => conn[r] # None)
BusyInv == \A a \in Actor : /\ op[a] = "none" => conn[a] = None
                            /\ op[a] # "none" /\ pc[a] \notin {"connect", "failed"}
                                  => conn[a] # None
TaskInv ==
    /\ conn[VM] # None => home[conn[VM]] = target
    /\ \A m \in Managed :
          /\ conn[Background(m)] # None => home[conn[Background(m)]] = m
          /\ conn[Supervisor(m)] # None => home[conn[Supervisor(m)]] = m
SlotInv == \A m \in Managed : slot[m] # None => home[slot[m]] = m

(* The parts of ConnInv.                                                     *)
LEMMA ConnParts ==
  ASSUME TypeOK
  PROVE  ConnInv <=> MadeInv /\ FreshInv /\ GivenInv /\ BusyInv /\ TaskInv /\ SlotInv
<1>1. (\A a \in Opener : conn[a] # None => home[conn[a]] = MyManaged(a)) <=> TaskInv
  BY Actors, Work DEF TaskInv
<1>2. FreshInv <=> \A c \in Conn : c > made => Shown(c) = {}
  <2>1. made \in Nat /\ Conn \subseteq Nat
    BY McpBounds, Numbers DEF TypeOK
  <2>2. \A c \in Conn : c > made <=> ~(c <= made)
    BY <2>1
  <2>3. QED
    BY <2>2 DEF FreshInv, Shown
<1>3. (\A c \in Conn : IF c > made THEN /\ home[c] = None /\ reader[c] = "none"
                                        /\ ~closed[c] /\ ~child[c] /\ Shown(c) = {}
                                        /\ pc[Watcher(c)] = "off"
                                   ELSE home[c] \in Managed)
      <=> MadeInv /\ \A c \in Conn : c > made => Shown(c) = {}
  BY DEF MadeInv
<1>4. QED
  BY <1>1, <1>2, <1>3 DEF ConnInv, GivenInv, BusyInv, SlotInv

(* So they are after a step.                                                 *)
LEMMA ConnPartsNext ==
  ASSUME TypeOK'
  PROVE  ConnInv' <=> MadeInv' /\ FreshInv' /\ GivenInv' /\ BusyInv' /\ TaskInv' /\ SlotInv'
<1>1. (\A a \in Opener : conn[a] # None => home[conn[a]] = MyManaged(a))' <=> TaskInv'
  BY Actors, Work DEF TaskInv
<1>2. FreshInv' <=> \A c \in Conn : c > made' => Shown(c)' = {}
  <2>1. made' \in Nat /\ Conn \subseteq Nat
    BY McpBounds, Numbers DEF TypeOK
  <2>2. \A c \in Conn : c > made' <=> ~(c <= made')
    BY <2>1
  <2>3. QED
    BY <2>2 DEF FreshInv, Shown
<1>3. (\A c \in Conn : IF c > made THEN /\ home[c] = None /\ reader[c] = "none"
                                        /\ ~closed[c] /\ ~child[c] /\ Shown(c) = {}
                                        /\ pc[Watcher(c)] = "off"
                                   ELSE home[c] \in Managed)'
      <=> MadeInv' /\ \A c \in Conn : c > made' => Shown(c)' = {}
  BY DEF MadeInv
<1>4. QED
  BY <1>1, <1>2, <1>3 DEF ConnInv, GivenInv, BusyInv, SlotInv

(* The numbers of connections, as the steps below use them.                  *)
Numbered ==
    /\ made \in Nat /\ None = 0 /\ Conn \subseteq Nat /\ made <= MaxConns
    /\ None <= made /\ \A c \in Conn : c # None
    /\ made < MaxConns => /\ made + 1 \in Conn /\ made + 1 > made
                          /\ \A c \in Conn : c <= made => c # made + 1

(* Who has which connection.                                                 *)
Given ==
    /\ \A r \in Requester : /\ conn[r] \in Conn \cup {None} /\ conn[r] <= made
                            /\ stage[r] # "none" => conn[r] \in Conn
    /\ \A a \in Actor : /\ stage[a] # "none" => pc[a] = "answer"
                        /\ op[a] = "none" => conn[a] = None

(* Who works for whom.                                                       *)
Tasks ==
    /\ \A a \in Opener : conn[a] # None => home[conn[a]] = MyManaged(a)
    /\ \A a \in Actor :
          /\ pc[a] \in {"lock", "answer", "check", "install", "watch", "watched", "close",
                        "drop", "dropped", "idle"} => conn[a] \in Conn
          /\ pc[a] \in {"connect", "watched", "failed", "dropped"}
                => MyManaged(a) \in Managed /\ a \in Opener

(* What is in the slots.                                                     *)
Slots == \A m \in Managed : slot[m] # None => /\ slot[m] \in Conn /\ slot[m] <= made
                                              /\ home[slot[m]] = m

(* What is made is a connection for somebody.                                *)
Homes == /\ home \in [Conn -> Managed \cup {None}]
         /\ \A c \in Conn : c <= made => home[c] \in Managed
         /\ \A n \in Tool : owner[n] \in Conn => owner[n] <= made

(* So it is before every step.                                               *)
LEMMA Goods ==
  ASSUME TypeOK, PlaceInv, ConnInv, HoldInv
  PROVE  Numbered /\ Given /\ Tasks /\ Slots /\ Homes
<1>1. Numbered
  BY McpBounds DEF TypeOK, Conn, None, Numbered
<1>2. Given
  BY Actors DEF TypeOK, ConnInv, PlaceInv, Given
<1>3. Tasks
  <2>1. \A a \in Actor :
          /\ pc[a] \in {"lock", "answer", "check", "install", "watch", "watched", "close",
                        "drop", "dropped", "idle"} => conn[a] \in Conn
          /\ pc[a] \in {"connect", "watched", "failed", "dropped"} => MyManaged(a) \in Managed
    BY Places
  <2>2. \A a \in Actor : pc[a] \in {"connect", "watched", "failed", "dropped"} => a \in Opener
    BY StepOps
  <2>3. QED
    BY <2>1, <2>2 DEF ConnInv, Tasks
<1>4. Slots
  <2>1. ASSUME NEW m \in Managed, slot[m] # None
        PROVE  slot[m] \in Conn /\ slot[m] <= made /\ home[slot[m]] = m
    <3>1. slot[m] \in Conn /\ home[slot[m]] = m /\ home[slot[m]] # None
      BY <2>1, Numbers DEF TypeOK, ConnInv
    <3>2. ~(slot[m] > made)
      BY <3>1 DEF ConnInv
    <3>3. slot[m] \in Nat /\ made \in Nat
      BY <1>1, <3>1 DEF Numbered
    <3>4. QED
      BY <3>1, <3>2, <3>3
  <2>2. QED
    BY <2>1 DEF Slots
<1>5. Homes
  BY <1>1, ConnParts DEF TypeOK, MadeInv, FreshInv, Homes, Numbered
<1>6. QED
  BY <1>1, <1>2, <1>3, <1>4, <1>5

(* A handshake that fails.                                                   *)
Failing(a) == /\ UNCHANGED <<made, home, reader, child, conn>> /\ pc[a] = "connect"
              /\ pc'[a] = "failed" /\ \A x \in Actor : x # a => pc'[x] = pc[x]
              /\ a \in Actor /\ a \in Requester /\ a \in Opener

(* One that makes the connection `d`, in the hands of `a`.                   *)
Making(a, d) ==
    /\ d \in Conn /\ d > made /\ made' = d /\ None <= d
    /\ \A c \in Conn : /\ c <= made => c # d /\ c <= d
                       /\ c <= d => c <= made \/ c = d
                       /\ c > d => c > made /\ c # d
    /\ home'[d] = MyManaged(a) /\ reader'[d] = "reading" /\ child'[d]
    /\ \A c \in Conn : c # d => /\ home'[c] = home[c] /\ reader'[c] = reader[c]
                                /\ child'[c] = child[c]
    /\ conn'[a] = d /\ \A r \in Requester : r # a => conn'[r] = conn[r]
    /\ pc'[a] = "lock" /\ \A x \in Actor : x # a => pc'[x] = pc[x]
    /\ pc[a] = "connect" /\ a \in Actor /\ a \in Requester /\ a \in Opener
    /\ MyManaged(a) \in Managed

(* Connect does one or the other.                                            *)
LEMMA Handshake ==
  ASSUME TypeOK, PlaceInv, ConnInv, HoldInv, NEW a \in Actor, Connect(a)
  PROVE  Failing(a) \/ \E d \in Conn : Making(a, d)
<1>1. Numbered /\ Given /\ Tasks /\ Slots /\ Homes
  BY Goods
<1>2. pc[a] = "connect" /\ a \in Requester /\ a \in Opener /\ MyManaged(a) \in Managed
  BY <1>1, Actors DEF Connect, Tasks
<1>3. \/ Failing(a)
      \/ /\ made < MaxConns /\ made' = made + 1
         /\ home' = [home EXCEPT ![made + 1] = MyManaged(a)]
         /\ reader' = [reader EXCEPT ![made + 1] = "reading"]
         /\ child' = [child EXCEPT ![made + 1] = TRUE]
         /\ conn' = [conn EXCEPT ![a] = made + 1]
         /\ pc' = [pc EXCEPT ![a] = "lock"]
  <2>1. CASE UNCHANGED <<made, home, reader, child, conn>> /\ pc' = [pc EXCEPT ![a] = "failed"]
    BY <1>2, <2>1 DEF Failing, TypeOK
  <2>2. QED
    BY <2>1 DEF Connect, Goto
<1>4. CASE ~Failing(a)
  <2> DEFINE d == made + 1
  <2>1. d \in Conn /\ d > made /\ made' = d /\ None <= d
    BY <1>1, <1>3, <1>4 DEF Numbered
  <2>2. \A c \in Conn : /\ c <= made => c # d /\ c <= d
                        /\ c <= d => c <= made \/ c = d
                        /\ c > d => c > made /\ c # d
    BY <1>1 DEF Numbered
  <2>3. /\ home' = [home EXCEPT ![d] = MyManaged(a)]
        /\ reader' = [reader EXCEPT ![d] = "reading"] /\ child' = [child EXCEPT ![d] = TRUE]
        /\ conn' = [conn EXCEPT ![a] = d] /\ pc' = [pc EXCEPT ![a] = "lock"]
    BY <1>3, <1>4
  <2> HIDE DEF d
  <2>4. /\ home'[d] = MyManaged(a) /\ reader'[d] = "reading" /\ child'[d]
        /\ \A c \in Conn : c # d => /\ home'[c] = home[c] /\ reader'[c] = reader[c]
                                    /\ child'[c] = child[c]
    BY <2>1, <2>3 DEF TypeOK
  <2>5. /\ conn'[a] = d /\ \A r \in Requester : r # a => conn'[r] = conn[r]
        /\ pc'[a] = "lock" /\ \A x \in Actor : x # a => pc'[x] = pc[x]
    BY <1>2, <2>3 DEF TypeOK
  <2>6. Making(a, d)
    BY <1>2, <2>1, <2>2, <2>4, <2>5 DEF Making
  <2>7. QED
    BY <2>1, <2>6
<1>5. QED
  BY <1>4

(* `a` starts the watcher `w` of its connection `d`.                         *)
Watching(a, d, w) ==
    /\ d = conn[a] /\ w = Watcher(d) /\ d \in Conn /\ a \in Opener /\ a \in Actor
    /\ w \in Actor /\ w \notin Opener /\ w \in Requester /\ a \in Requester /\ w # a
    /\ pc[w] = "off" /\ op[w] = "none" /\ pc[a] = "watch" /\ op[a] \in {"open", "reopen"}
    /\ pc'[w] = "idle" /\ op'[w] = "watch" /\ conn'[w] = d /\ pc'[a] = "watched"
    /\ \A x \in Actor : x # w => op'[x] = op[x] /\ (x # a => pc'[x] = pc[x])
    /\ \A r \in Requester : r # w => conn'[r] = conn[r]
    /\ \A c \in Conn : Watcher(c) = w => c = d
    /\ VM # w /\ \A m \in Managed : Background(m) # w /\ Supervisor(m) # w

(* Watch does it.                                                            *)
LEMMA Watched ==
  ASSUME TypeOK, PlaceInv, ConnInv, HoldInv, WatchInv, NEW a \in Actor, Watch(a)
  PROVE  \E d \in Conn, w \in Actor : Watching(a, d, w)
<1> DEFINE d == conn[a]
           w == Watcher(d)
<1>1. Names /\ Posts /\ Kinds /\ Watches
  BY Scene
<1>2. d \in Conn /\ a \in Opener /\ pc[w] = "off" /\ pc[a] = "watch"
  BY <1>1 DEF Watches, Watch
<1>3. /\ pc' = [pc EXCEPT ![w] = "idle", ![a] = "watched"]
      /\ op' = [op EXCEPT ![w] = "watch"]
      /\ conn' = [conn EXCEPT ![w] = d]
  BY DEF Watch
<1> HIDE DEF d
<1>4. /\ w \in Actor /\ w \in Requester /\ a \in Requester /\ w # a /\ w \notin Opener
      /\ VM # w /\ \A m \in Managed : Background(m) # w /\ Supervisor(m) # w
      /\ \A c \in Conn : Watcher(c) = w => c = d
  BY <1>2, Actors
<1> HIDE DEF w
<1>5. op[w] = "none" /\ op[a] \in {"open", "reopen"}
  BY <1>1, <1>2, <1>4 DEF Posts
<1>6. /\ pc'[w] = "idle" /\ op'[w] = "watch" /\ conn'[w] = d /\ pc'[a] = "watched"
      /\ \A x \in Actor : x # w => op'[x] = op[x] /\ (x # a => pc'[x] = pc[x])
      /\ \A r \in Requester : r # w => conn'[r] = conn[r]
  BY <1>1, <1>2, <1>3, <1>4 DEF Kinds
<1>7. d = conn[a] /\ w = Watcher(d)
  BY DEF d, w
<1>8. Watching(a, d, w)
  BY <1>2, <1>4, <1>5, <1>6, <1>7 DEF Watching
<1>9. QED
  BY <1>2, <1>4, <1>8

(* A connection is made by a handshake, and closed or watched after.         *)
LEMMA MadeStep ==
  ASSUME TypeOK, PlaceInv, ConnInv, HoldInv, WatchInv, MadeInv, Next
  PROVE  MadeInv'
<1>0. UNCHANGED <<child, closed, home, made, pc, reader>> => MadeInv'
  BY DEF MadeInv
<1> USE DEF Names, Posts, Kinds, Watches, Quiet
<1>a. Names
  BY Scene
<1>b. Posts
  BY Scene
<1>c. Kinds
  BY Scene
<1>d. Watches
  BY Scene
<1>e. Quiet
  BY Scene
<1>f. VmConnects => opened + 1 \in Managed /\ opened + 1 > opened
  BY McpBounds DEF VmConnects, TypeOK, Managed
<1> USE DEF Numbered, Given, Tasks, Slots, Homes
<1>g. Numbered
  BY Goods
<1>h. Given
  BY Goods
<1>i. Tasks
  BY Goods
<1>j. Slots
  BY Goods
<1>k. Homes
  BY Goods
<1>l. /\ reader \in [Conn -> {"none", "reading", "ended", "over"}]
      /\ closed \in [Conn -> BOOLEAN] /\ child \in [Conn -> BOOLEAN]
  BY DEF TypeOK
<1>1. ASSUME NEW a \in Actor, Shared(a) PROVE MadeInv'
  <2>1. CASE Connect(a)
    <3>0. UNCHANGED <<closed>>
      BY <2>1 DEF Connect, links
    <3>1. CASE Failing(a)
      BY <1>a, <1>c, <1>g, <3>0, <3>1 DEF Failing, MadeInv
    <3>2. ASSUME NEW d \in Conn, Making(a, d) PROVE MadeInv'
      BY <1>a, <1>c, <1>g, <3>0, <3>2 DEF Making, MadeInv
    <3>3. QED
      BY <2>1, <3>1, <3>2, Handshake
  <2>2. CASE BridgeBegins(a)
     BY <1>a, <1>b, <1>c, <1>d, <1>g, <1>h, <1>i, <1>l, <2>2 DEF BridgeBegins, Ask,
       Returns, Goto, manager, requests, links, server, MadeInv
  <2>3. CASE BridgeListed(a)
     BY <1>a, <1>b, <1>c, <1>d, <1>g, <1>h, <1>i, <1>l, <2>3 DEF BridgeListed,
       BridgeFails, Forget, Goto, manager, requests, links, server, MadeInv
  <2>4. CASE BridgeChecks(a)
     BY <1>a, <1>b, <1>c, <1>d, <1>g, <1>h, <1>i, <1>l, <2>4 DEF BridgeChecks,
       BridgeFails, Forget, Goto, manager, requests, links, server, MadeInv
  <2>5. CASE BridgeInstalls(a)
     BY <1>a, <1>b, <1>c, <1>d, <1>g, <1>h, <1>i, <1>l, <2>5 DEF BridgeInstalls,
       BridgeFails, Forget, Goto, manager, requests, links, server, MadeInv
  <2>6. CASE Watch(a)
    <3>0. UNCHANGED <<made, home, reader, closed, child>>
      BY <2>6 DEF Watch, links
    <3>1. PICK d \in Conn, w \in Actor : Watching(a, d, w)
      BY <2>6, Watched
    <3>2. QED
      BY <1>a, <1>g, <1>h, <3>0, <3>1 DEF Watching, MadeInv
  <2>7. CASE Wakes(a)
     BY <1>a, <1>b, <1>c, <1>d, <1>g, <1>h, <1>i, <1>l, <2>7 DEF Wakes, Goto, manager,
       requests, links, server, MadeInv
  <2>8. CASE Close(a)
     BY <1>a, <1>b, <1>c, <1>d, <1>g, <1>h, <1>i, <1>l, <2>8 DEF Close, Goto, manager,
       requests, links, server, MadeInv
  <2>9. CASE Drop(a)
     BY <1>a, <1>b, <1>c, <1>d, <1>g, <1>h, <1>i, <1>l, <2>9 DEF Drop, Drops,
       AfterDrop, Rest, Goto, manager, requests, links, server, MadeInv
  <2>10. CASE Reconnected(a)
     BY <1>a, <1>b, <1>c, <1>d, <1>g, <1>h, <1>i, <1>l, <2>10 DEF Reconnected, Rest,
       Goto, Unlock, Home, manager, requests, links, server, MadeInv
  <2>11. CASE ReconnectFails(a)
     BY <1>a, <1>b, <1>c, <1>d, <1>g, <1>h, <1>i, <1>l, <2>11 DEF ReconnectFails,
       Rest, Goto, Unlock, Home, manager, requests, links, server, MadeInv
  <2>12. QED
     BY <1>1, <2>1, <2>2, <2>3, <2>4, <2>5, <2>6, <2>7, <2>8, <2>9, <2>10, <2>11 DEF
       Shared
<1>2. CASE Vm \/ VmConnects \/ VmDisconnects \/ VmReconnects
  <2>1. CASE VmConnects
     BY <1>a, <1>b, <1>c, <1>d, <1>g, <1>h, <1>i, <1>l, <1>e, <1>f, <2>1 DEF
       VmConnects, Resting, manager, requests, links, server, MadeInv
  <2>2. CASE VmConnected
     BY <1>a, <1>b, <1>c, <1>d, <1>g, <1>h, <1>i, <1>l, <1>e, <2>2 DEF VmConnected,
       manager, requests, links, server, MadeInv
  <2>3. CASE VmDisconnects
     BY <1>a, <1>b, <1>c, <1>d, <1>g, <1>h, <1>i, <1>l, <2>3 DEF VmDisconnects,
       Resting, Goto, manager, requests, links, server, MadeInv
  <2>4. CASE VmTakes
     BY <1>a, <1>b, <1>c, <1>d, <1>g, <1>h, <1>i, <1>l, <2>4 DEF VmTakes, Free, Goto,
       manager, requests, links, server, MadeInv
  <2>5. CASE VmDisconnected
     BY <1>a, <1>b, <1>c, <1>d, <1>g, <1>h, <1>i, <1>l, <2>5 DEF VmDisconnected,
       Unlock, Rest, Goto, manager, requests, links, server, MadeInv
  <2>6. CASE VmReconnects
     BY <1>a, <1>b, <1>c, <1>d, <1>g, <1>h, <1>i, <1>l, <2>6 DEF VmReconnects,
       Resting, Goto, manager, requests, links, server, MadeInv
  <2>7. CASE VmRetakes
     BY <1>a, <1>b, <1>c, <1>d, <1>g, <1>h, <1>i, <1>l, <2>7 DEF VmRetakes, Free,
       Goto, Reconnect, manager, requests, links, server, MadeInv
  <2>8. CASE VmConnectFails
     BY <1>a, <1>b, <1>c, <1>d, <1>g, <1>h, <1>i, <1>l, <2>8 DEF VmConnectFails, Rest,
       Goto, manager, requests, links, server, MadeInv
  <2>9. QED
    BY <1>2, <2>1, <2>2, <2>3, <2>4, <2>5, <2>6, <2>7, <2>8 DEF Vm
<1>3. ASSUME NEW m \in Managed, Task(m) PROVE MadeInv'
  <2>1. CASE BackgroundBegins(m)
     BY <1>a, <1>b, <1>c, <1>d, <1>g, <1>h, <1>i, <1>l, <2>1 DEF BackgroundBegins,
       Free, Goto, BackgroundOpens, manager, requests, links, server, MadeInv
  <2>2. CASE BackgroundConnected(m)
     BY <1>a, <1>b, <1>c, <1>d, <1>g, <1>h, <1>i, <1>l, <2>2 DEF BackgroundConnected,
       Goto, Unlock, manager, requests, links, server, MadeInv
  <2>3. CASE BackgroundUndone(m)
     BY <1>a, <1>b, <1>c, <1>d, <1>g, <1>h, <1>i, <1>l, <2>3 DEF BackgroundUndone,
       Unlock, Rest, Goto, manager, requests, links, server, MadeInv
  <2>4. CASE BackgroundFails(m)
     BY <1>a, <1>b, <1>c, <1>d, <1>g, <1>h, <1>i, <1>l, <2>4 DEF BackgroundFails,
       Unlock, Rest, Goto, manager, requests, links, server, MadeInv
  <2>5. CASE BackgroundForgets(m)
     BY <1>a, <1>b, <1>c, <1>d, <1>g, <1>h, <1>i, <1>l, <2>5 DEF BackgroundForgets,
       Goto, manager, requests, links, server, MadeInv
  <2>6. CASE Supervise(m)
     BY <1>a, <1>b, <1>c, <1>d, <1>g, <1>h, <1>i, <1>l, <2>6 DEF Supervise, Goto,
       Free, Reconnect, manager, requests, links, server, MadeInv
  <2>7. QED
    BY <1>3, <2>1, <2>2, <2>3, <2>4, <2>5, <2>6 DEF Task
<1>4. ASSUME NEW r \in Requester, Request(r) PROVE MadeInv'
  <2>1. CASE SendBreaks(r)
     BY <1>a, <1>b, <1>c, <1>d, <1>g, <1>h, <1>i, <1>l, <2>1 DEF SendBreaks, Returns,
       Fault, manager, requests, links, server, MadeInv
   <2>2. CASE CallTool(r) \/ Insert(r) \/ Send(r) \/ Answered(r) \/ Forgotten(r) \/
     GivesUp(r)
     BY <1>0, <2>2 DEF CallTool, Ask, Returns, manager, requests, links, server,
       Insert, Send, Answered, Fault, Forgotten, GivesUp
  <2>3. QED
    BY <1>4, <2>1, <2>2 DEF Request
<1>5. ASSUME NEW c \in Conn, ReaderEnds(c) \/ ReaderDrains(c) \/ ServerChanges(c) PROVE MadeInv'
  <2>1. CASE ReaderEnds(c)
     BY <1>a, <1>b, <1>c, <1>d, <1>g, <1>h, <1>i, <1>l, <2>1 DEF ReaderEnds, Fault,
       manager, requests, links, server, MadeInv
  <2>2. CASE ReaderDrains(c)
     BY <1>a, <1>b, <1>c, <1>d, <1>g, <1>h, <1>i, <1>l, <2>2 DEF ReaderDrains,
       manager, requests, links, server, MadeInv
  <2>3. CASE ServerChanges(c)
    BY <1>0, <2>3 DEF ServerChanges, manager, requests, links, server
  <2>4. QED
    BY <1>5, <2>1, <2>2, <2>3
<1>6. ASSUME NEW n \in Contested, HostRegisters(n) PROVE MadeInv'
  BY <1>0, <1>6 DEF HostRegisters, manager, requests, links, server
<1>7. QED
  BY <1>1, <1>2, <1>3, <1>4, <1>5, <1>6 DEF Next

(* Tools are published for connections that were made.                       *)
LEMMA FreshStep ==
  ASSUME TypeOK, PlaceInv, ConnInv, HoldInv, WatchInv, FreshInv, Next
  PROVE  FreshInv'
<1>0. UNCHANGED <<made, owner>> => FreshInv'
  BY DEF FreshInv
<1> USE DEF Numbered, Given, Tasks, Slots, Homes
<1>g. Numbered
  BY Goods
<1>h. Given
  BY Goods
<1>i. Tasks
  BY Goods
<1>j. Slots
  BY Goods
<1>k. Homes
  BY Goods
<1>a. Actor \subseteq Requester
  BY Actors
<1>c. owner \in [Tool -> Conn \cup {None, Host}]
  BY DEF TypeOK
<1>1. ASSUME NEW a \in Actor, Shared(a) PROVE FreshInv'
  <2>1. CASE Connect(a)
    <3>0. UNCHANGED <<owner>>
      BY <2>1 DEF Connect
    <3>1. CASE Failing(a)
      BY <1>a, <1>g, <1>k, <3>0, <3>1 DEF Failing, FreshInv
    <3>2. ASSUME NEW d \in Conn, Making(a, d) PROVE FreshInv'
      BY <1>a, <1>g, <1>k, <3>0, <3>2 DEF Making, FreshInv
    <3>3. QED
      BY <2>1, <3>1, <3>2, Handshake
  <2>2. CASE BridgeInstalls(a)
     BY <1>a, <1>g, <1>h, <1>i, Numbers, <1>c, <2>2 DEF BridgeInstalls, BridgeFails,
       Forget, Goto, manager, requests, links, server, FreshInv
  <2>3. CASE Drop(a)
     BY <1>a, <1>g, <1>h, <1>i, Numbers, <1>c, <2>3 DEF Drop, Drops, AfterDrop, Rest,
       Goto, manager, requests, links, server, FreshInv
   <2>4. CASE BridgeBegins(a) \/ BridgeListed(a) \/ BridgeChecks(a) \/ Watch(a) \/
     Wakes(a) \/ Close(a) \/ Reconnected(a) \/ ReconnectFails(a)
     BY <1>0, <2>4 DEF BridgeBegins, Ask, Returns, Goto, manager, requests, links,
       server, BridgeListed, BridgeFails, Forget, BridgeChecks, Watch, Wakes, Close,
       Reconnected, Rest, Unlock, Home, ReconnectFails
  <2>5. QED
    BY <1>1, <2>1, <2>2, <2>3, <2>4 DEF Shared
<1>2. CASE Vm \/ VmConnects \/ VmDisconnects \/ VmReconnects
   BY <1>0, <1>2 DEF Vm, VmConnects, Resting, manager, requests, links, server,
     VmConnected, VmDisconnects, Goto, VmTakes, Free, VmDisconnected, Unlock, Rest,
     VmReconnects, VmRetakes, Reconnect, VmConnectFails
<1>3. ASSUME NEW m \in Managed, Task(m) PROVE FreshInv'
   BY <1>0, <1>3 DEF Task, BackgroundBegins, Free, Goto, BackgroundOpens, manager,
     requests, links, server, BackgroundConnected, Unlock, BackgroundUndone, Rest,
     BackgroundFails, BackgroundForgets, Supervise, Reconnect
<1>4. ASSUME NEW r \in Requester, Request(r) PROVE FreshInv'
   BY <1>0, <1>4 DEF Request, CallTool, Ask, Returns, manager, requests, links,
     server, Insert, Send, SendBreaks, Fault, Answered, Forgotten, GivesUp
<1>5. ASSUME NEW c \in Conn, ReaderEnds(c) \/ ReaderDrains(c) \/ ServerChanges(c) PROVE FreshInv'
   BY <1>0, <1>5 DEF ReaderEnds, Fault, manager, requests, links, server,
     ReaderDrains, ServerChanges
<1>6. ASSUME NEW n \in Contested, HostRegisters(n) PROVE FreshInv'
  <2>1. CASE HostRegisters(n)
     BY <1>a, <1>g, <1>h, <1>i, Numbers, <1>c, McpTools, <2>1 DEF HostRegisters,
       manager, requests, links, server, FreshInv
  <2>2. QED
    BY <1>6, <2>1
<1>7. QED
  BY <1>1, <1>2, <1>3, <1>4, <1>5, <1>6 DEF Next

(* Whoever is given a connection is given one that was made.                 *)
LEMMA GivenStep ==
  ASSUME TypeOK, PlaceInv, ConnInv, HoldInv, WatchInv, GivenInv, Next
  PROVE  GivenInv'
<1>0. UNCHANGED <<conn, made, stage>> => GivenInv'
  BY DEF GivenInv
<1> USE DEF Names, Posts, Kinds, Watches, Quiet
<1>a. Names
  BY Scene
<1>b. Posts
  BY Scene
<1>c. Kinds
  BY Scene
<1>d. Watches
  BY Scene
<1>e. Quiet
  BY Scene
<1>f. VmConnects => opened + 1 \in Managed /\ opened + 1 > opened
  BY McpBounds DEF VmConnects, TypeOK, Managed
<1> USE DEF Numbered, Given, Tasks, Slots, Homes
<1>g. Numbered
  BY Goods
<1>h. Given
  BY Goods
<1>i. Tasks
  BY Goods
<1>j. Slots
  BY Goods
<1>k. Homes
  BY Goods
<1>1. ASSUME NEW a \in Actor, Shared(a) PROVE GivenInv'
  <2>1. CASE Connect(a)
    <3>0. UNCHANGED <<stage>>
      BY <2>1 DEF Connect, requests
    <3>1. CASE Failing(a)
      BY <1>a, <1>c, <1>g, <1>h, <3>0, <3>1 DEF Failing, GivenInv
    <3>2. ASSUME NEW d \in Conn, Making(a, d) PROVE GivenInv'
      <4>1. ASSUME NEW r \in Requester
            PROVE  conn'[r] <= made' /\ (stage'[r] # "none" => conn'[r] # None)
        <5>1. CASE r = a
          <6>1. conn'[r] = d /\ made' = d /\ d # None /\ d <= d
            BY <1>g, <3>2, <5>1 DEF Making
          <6>2. QED
            BY <6>1
        <5>2. CASE r # a
          <6>1. conn'[r] = conn[r] /\ stage'[r] = stage[r] /\ conn[r] \in Conn \cup {None}
            BY <1>h, <3>0, <3>2, <5>2 DEF Making
          <6>2. conn[r] <= d
            BY <1>h, <3>2, <6>1 DEF Making
          <6>3. QED
            BY <1>g, <1>h, <3>2, <6>1, <6>2 DEF Making
        <5>3. QED
          BY <5>1, <5>2
      <4>2. QED
        BY <4>1 DEF GivenInv
    <3>3. QED
      BY <2>1, <3>1, <3>2, Handshake
  <2>2. CASE BridgeBegins(a)
     BY <1>a, <1>b, <1>c, <1>g, <1>h, <1>i, <2>2 DEF BridgeBegins, Ask, Returns, Goto,
       manager, requests, links, server, GivenInv
  <2>3. CASE Watch(a)
    <3>0. UNCHANGED <<made, stage>>
      BY <2>3 DEF Watch, links, requests
    <3>1. PICK d \in Conn, w \in Actor : Watching(a, d, w)
      BY <2>3, Watched
    <3>2. QED
      BY <1>a, <1>g, <1>h, <3>0, <3>1 DEF Watching, GivenInv
  <2>4. CASE Drop(a)
     BY <1>a, <1>b, <1>c, <1>g, <1>h, <2>4 DEF Drop, Drops, AfterDrop, Rest, Goto,
       manager, requests, links, server, GivenInv
  <2>5. CASE Reconnected(a)
     BY <1>a, <1>b, <1>c, <1>g, <1>h, <2>5 DEF Reconnected, Rest, Goto, Unlock, Home,
       manager, requests, links, server, GivenInv
  <2>6. CASE ReconnectFails(a)
     BY <1>a, <1>b, <1>c, <1>g, <1>h, <2>6 DEF ReconnectFails, Rest, Goto, Unlock,
       Home, manager, requests, links, server, GivenInv
   <2>7. CASE BridgeListed(a) \/ BridgeChecks(a) \/ BridgeInstalls(a) \/ Wakes(a) \/
     Close(a)
     BY <1>0, <2>7 DEF BridgeListed, BridgeFails, Forget, Goto, manager, requests,
       links, server, BridgeChecks, BridgeInstalls, Wakes, Close
  <2>8. QED
    BY <1>1, <2>1, <2>2, <2>3, <2>4, <2>5, <2>6, <2>7 DEF Shared
<1>2. CASE Vm \/ VmConnects \/ VmDisconnects \/ VmReconnects
  <2>1. CASE VmConnected
     BY <1>a, <1>b, <1>c, <1>g, <1>h, <2>1 DEF VmConnected, manager, requests, links,
       server, GivenInv
  <2>2. CASE VmTakes
     BY <1>a, <1>b, <1>c, <1>g, <1>h, <1>j, <1>e, <2>2 DEF VmTakes, Free, Goto,
       manager, requests, links, server, GivenInv
  <2>3. CASE VmDisconnected
     BY <1>a, <1>b, <1>c, <1>g, <1>h, <2>3 DEF VmDisconnected, Unlock, Rest, Goto,
       manager, requests, links, server, GivenInv
  <2>4. CASE VmRetakes
     BY <1>a, <1>b, <1>c, <1>g, <1>h, <1>j, <1>e, Work, <2>4 DEF VmRetakes, Free,
       Goto, Reconnect, manager, requests, links, server, GivenInv
  <2>5. CASE VmConnectFails
     BY <1>a, <1>b, <1>c, <1>g, <1>h, <2>5 DEF VmConnectFails, Rest, Goto, manager,
       requests, links, server, GivenInv
  <2>6. CASE VmConnects \/ VmDisconnects \/ VmReconnects
     BY <1>0, <2>6 DEF VmConnects, Resting, manager, requests, links, server,
       VmDisconnects, Goto, VmReconnects
  <2>7. QED
    BY <1>2, <2>1, <2>2, <2>3, <2>4, <2>5, <2>6 DEF Vm
<1>3. ASSUME NEW m \in Managed, Task(m) PROVE GivenInv'
  <2>1. CASE BackgroundConnected(m)
     BY <1>a, <1>b, <1>c, <1>g, <1>h, <2>1 DEF BackgroundConnected, Goto, Unlock,
       manager, requests, links, server, GivenInv
  <2>2. CASE BackgroundUndone(m)
     BY <1>a, <1>b, <1>c, <1>g, <1>h, <2>2 DEF BackgroundUndone, Unlock, Rest, Goto,
       manager, requests, links, server, GivenInv
  <2>3. CASE BackgroundFails(m)
     BY <1>a, <1>b, <1>c, <1>g, <1>h, <2>3 DEF BackgroundFails, Unlock, Rest, Goto,
       manager, requests, links, server, GivenInv
  <2>4. CASE Supervise(m)
     BY <1>a, <1>b, <1>c, <1>g, <1>h, <1>j, Work, <2>4 DEF Supervise, Goto, Free,
       Reconnect, manager, requests, links, server, GivenInv
  <2>5. CASE BackgroundBegins(m) \/ BackgroundForgets(m)
     BY <1>0, <2>5 DEF BackgroundBegins, Free, Goto, BackgroundOpens, manager,
       requests, links, server, BackgroundForgets
  <2>6. QED
    BY <1>3, <2>1, <2>2, <2>3, <2>4, <2>5 DEF Task
<1>4. ASSUME NEW r \in Requester, Request(r) PROVE GivenInv'
  <2>1. CASE CallTool(r)
     BY <1>a, <1>b, <1>c, <1>g, <1>h, <1>k, <2>1 DEF CallTool, Ask, Returns, manager,
       requests, links, server, GivenInv, Shown
  <2>2. CASE Insert(r)
     BY <1>a, <1>b, <1>c, <1>g, <1>h, <2>2 DEF Insert, manager, requests, links,
       server, GivenInv
  <2>3. CASE Send(r)
     BY <1>a, <1>b, <1>c, <1>g, <1>h, <2>3 DEF Send, Returns, manager, requests,
       links, server, GivenInv
  <2>4. CASE SendBreaks(r)
     BY <1>a, <1>b, <1>c, <1>g, <1>h, <2>4 DEF SendBreaks, Returns, Fault, manager,
       requests, links, server, GivenInv
  <2>5. CASE Answered(r)
     BY <1>a, <1>b, <1>c, <1>g, <1>h, <2>5 DEF Answered, Returns, Fault, manager,
       requests, links, server, GivenInv
  <2>6. CASE Forgotten(r)
     BY <1>a, <1>b, <1>c, <1>g, <1>h, <2>6 DEF Forgotten, Returns, manager, requests,
       links, server, GivenInv
  <2>7. CASE GivesUp(r)
     BY <1>a, <1>b, <1>c, <1>g, <1>h, <2>7 DEF GivesUp, Returns, Fault, manager,
       requests, links, server, GivenInv
  <2>8. QED
    BY <1>4, <2>1, <2>2, <2>3, <2>4, <2>5, <2>6, <2>7 DEF Request
<1>5. ASSUME NEW c \in Conn, ReaderEnds(c) \/ ReaderDrains(c) \/ ServerChanges(c) PROVE GivenInv'
   BY <1>0, <1>5 DEF ReaderEnds, Fault, manager, requests, links, server,
     ReaderDrains, ServerChanges
<1>6. ASSUME NEW n \in Contested, HostRegisters(n) PROVE GivenInv'
  BY <1>0, <1>6 DEF HostRegisters, manager, requests, links, server
<1>7. QED
  BY <1>1, <1>2, <1>3, <1>4, <1>5, <1>6 DEF Next

(* Who has a connection is working, who works got one from the handshake.    *)
LEMMA BusyStep ==
  ASSUME TypeOK, PlaceInv, ConnInv, HoldInv, WatchInv, BusyInv, Next
  PROVE  BusyInv'
<1>0. UNCHANGED <<conn, op, pc>> => BusyInv'
  BY DEF BusyInv
<1> USE DEF Names, Posts, Kinds, Watches, Quiet
<1>a. Names
  BY Scene
<1>b. Posts
  BY Scene
<1>c. Kinds
  BY Scene
<1>d. Watches
  BY Scene
<1>e. Quiet
  BY Scene
<1>f. VmConnects => opened + 1 \in Managed /\ opened + 1 > opened
  BY McpBounds DEF VmConnects, TypeOK, Managed
<1> USE DEF Numbered, Given, Tasks, Slots, Homes
<1>g. Numbered
  BY Goods
<1>h. Given
  BY Goods
<1>i. Tasks
  BY Goods
<1>j. Slots
  BY Goods
<1>k. Homes
  BY Goods
<1>1. ASSUME NEW a \in Actor, Shared(a) PROVE BusyInv'
  <2>1. CASE Connect(a)
     BY <1>a, <1>b, <1>c, <1>e, <1>f, <1>g, <1>h, <2>1 DEF Connect, Goto, Fault,
       manager, requests, links, server, BusyInv
  <2>2. CASE BridgeBegins(a)
     BY <1>a, <1>b, <1>c, <1>e, <1>f, <1>g, <1>h, <2>2 DEF BridgeBegins, Ask, Returns,
       Goto, manager, requests, links, server, BusyInv
  <2>3. CASE BridgeListed(a)
     BY <1>a, <1>b, <1>c, <1>e, <1>f, <1>g, <1>h, <2>3 DEF BridgeListed, BridgeFails,
       Forget, Goto, manager, requests, links, server, BusyInv
  <2>4. CASE BridgeChecks(a)
     BY <1>a, <1>b, <1>c, <1>e, <1>f, <1>g, <1>h, <2>4 DEF BridgeChecks, BridgeFails,
       Forget, Goto, manager, requests, links, server, BusyInv
  <2>5. CASE BridgeInstalls(a)
     BY <1>a, <1>b, <1>c, <1>e, <1>f, <1>g, <1>h, <1>i, <2>5 DEF BridgeInstalls,
       BridgeFails, Forget, Goto, manager, requests, links, server, BusyInv
  <2>6. CASE Watch(a)
     BY <1>a, <1>b, <1>c, <1>e, <1>f, <1>g, <1>h, <1>d, <2>6 DEF Watch, manager,
       requests, links, server, BusyInv
  <2>7. CASE Wakes(a)
     BY <1>a, <1>b, <1>c, <1>e, <1>f, <1>g, <1>h, <2>7 DEF Wakes, Goto, manager,
       requests, links, server, BusyInv
  <2>8. CASE Close(a)
     BY <1>a, <1>b, <1>c, <1>e, <1>f, <1>g, <1>h, <2>8 DEF Close, Goto, manager,
       requests, links, server, BusyInv
  <2>9. CASE Drop(a)
     BY <1>a, <1>b, <1>c, <1>e, <1>f, <1>g, <1>h, <2>9 DEF Drop, Drops, AfterDrop,
       Rest, Goto, manager, requests, links, server, BusyInv
  <2>10. CASE Reconnected(a)
     BY <1>a, <1>b, <1>c, <1>e, <1>f, <1>g, <1>h, <2>10 DEF Reconnected, Rest, Goto,
       Unlock, Home, manager, requests, links, server, BusyInv
  <2>11. CASE ReconnectFails(a)
     BY <1>a, <1>b, <1>c, <1>e, <1>f, <1>g, <1>h, <2>11 DEF ReconnectFails, Rest,
       Goto, Unlock, Home, manager, requests, links, server, BusyInv
  <2>12. QED
     BY <1>1, <2>1, <2>2, <2>3, <2>4, <2>5, <2>6, <2>7, <2>8, <2>9, <2>10, <2>11 DEF
       Shared
<1>2. CASE Vm \/ VmConnects \/ VmDisconnects \/ VmReconnects
  <2>1. CASE VmConnects
     BY <1>a, <1>b, <1>c, <1>e, <1>f, <1>g, <1>h, <2>1 DEF VmConnects, Resting,
       manager, requests, links, server, BusyInv
  <2>2. CASE VmConnected
     BY <1>a, <1>b, <1>c, <1>e, <1>f, <1>g, <1>h, <2>2 DEF VmConnected, manager,
       requests, links, server, BusyInv
  <2>3. CASE VmDisconnects
     BY <1>a, <1>b, <1>c, <1>e, <1>f, <1>g, <1>h, <2>3 DEF VmDisconnects, Resting,
       Goto, manager, requests, links, server, BusyInv
  <2>4. CASE VmTakes
     BY <1>a, <1>b, <1>c, <1>e, <1>f, <1>g, <1>h, <2>4 DEF VmTakes, Free, Goto,
       manager, requests, links, server, BusyInv
  <2>5. CASE VmDisconnected
     BY <1>a, <1>b, <1>c, <1>e, <1>f, <1>g, <1>h, <2>5 DEF VmDisconnected, Unlock,
       Rest, Goto, manager, requests, links, server, BusyInv
  <2>6. CASE VmReconnects
     BY <1>a, <1>b, <1>c, <1>e, <1>f, <1>g, <1>h, <2>6 DEF VmReconnects, Resting,
       Goto, manager, requests, links, server, BusyInv
  <2>7. CASE VmRetakes
     BY <1>a, <1>b, <1>c, <1>e, <1>f, <1>g, <1>h, Work, <2>7 DEF VmRetakes, Free,
       Goto, Reconnect, manager, requests, links, server, BusyInv
  <2>8. CASE VmConnectFails
     BY <1>a, <1>b, <1>c, <1>e, <1>f, <1>g, <1>h, <2>8 DEF VmConnectFails, Rest, Goto,
       manager, requests, links, server, BusyInv
  <2>9. QED
    BY <1>2, <2>1, <2>2, <2>3, <2>4, <2>5, <2>6, <2>7, <2>8 DEF Vm
<1>3. ASSUME NEW m \in Managed, Task(m) PROVE BusyInv'
  <2>1. CASE BackgroundBegins(m)
     BY <1>a, <1>b, <1>c, <1>e, <1>f, <1>g, <1>h, <2>1 DEF BackgroundBegins, Free,
       Goto, BackgroundOpens, manager, requests, links, server, BusyInv
  <2>2. CASE BackgroundConnected(m)
     BY <1>a, <1>b, <1>c, <1>e, <1>f, <1>g, <1>h, <2>2 DEF BackgroundConnected, Goto,
       Unlock, manager, requests, links, server, BusyInv
  <2>3. CASE BackgroundUndone(m)
     BY <1>a, <1>b, <1>c, <1>e, <1>f, <1>g, <1>h, <2>3 DEF BackgroundUndone, Unlock,
       Rest, Goto, manager, requests, links, server, BusyInv
  <2>4. CASE BackgroundFails(m)
     BY <1>a, <1>b, <1>c, <1>e, <1>f, <1>g, <1>h, <2>4 DEF BackgroundFails, Unlock,
       Rest, Goto, manager, requests, links, server, BusyInv
  <2>5. CASE BackgroundForgets(m)
     BY <1>a, <1>b, <1>c, <1>e, <1>f, <1>g, <1>h, <2>5 DEF BackgroundForgets, Goto,
       manager, requests, links, server, BusyInv
  <2>6. CASE Supervise(m)
     BY <1>a, <1>b, <1>c, <1>e, <1>f, <1>g, <1>h, Work, <2>6 DEF Supervise, Goto,
       Free, Reconnect, manager, requests, links, server, BusyInv
  <2>7. QED
    BY <1>3, <2>1, <2>2, <2>3, <2>4, <2>5, <2>6 DEF Task
<1>4. ASSUME NEW r \in Requester, Request(r) PROVE BusyInv'
  <2>1. CASE CallTool(r)
     BY <1>a, <1>b, <1>c, <1>e, <1>f, <1>g, <1>h, <2>1 DEF CallTool, Ask, Returns,
       manager, requests, links, server, BusyInv
   <2>2. CASE Insert(r) \/ Send(r) \/ SendBreaks(r) \/ Answered(r) \/ Forgotten(r) \/
     GivesUp(r)
     BY <1>0, <2>2 DEF Insert, manager, requests, links, server, Send, Returns,
       SendBreaks, Fault, Answered, Forgotten, GivesUp
  <2>3. QED
    BY <1>4, <2>1, <2>2 DEF Request
<1>5. ASSUME NEW c \in Conn, ReaderEnds(c) \/ ReaderDrains(c) \/ ServerChanges(c) PROVE BusyInv'
   BY <1>0, <1>5 DEF ReaderEnds, Fault, manager, requests, links, server,
     ReaderDrains, ServerChanges
<1>6. ASSUME NEW n \in Contested, HostRegisters(n) PROVE BusyInv'
  BY <1>0, <1>6 DEF HostRegisters, manager, requests, links, server
<1>7. QED
  BY <1>1, <1>2, <1>3, <1>4, <1>5, <1>6 DEF Next

(* Who works on a connection works for the server it was made for.           *)
LEMMA TaskStep ==
  ASSUME TypeOK, PlaceInv, ConnInv, HoldInv, WatchInv, TaskInv, Next
  PROVE  TaskInv'
<1>0. UNCHANGED <<conn, home, target>> => TaskInv'
  BY DEF TaskInv
<1> USE DEF Names, Posts, Kinds, Watches, Quiet
<1>a. Names
  BY Scene
<1>b. Posts
  BY Scene
<1>c. Kinds
  BY Scene
<1>d. Watches
  BY Scene
<1>e. Quiet
  BY Scene
<1>f. VmConnects => opened + 1 \in Managed /\ opened + 1 > opened
  BY McpBounds DEF VmConnects, TypeOK, Managed
<1> USE DEF Numbered, Given, Tasks, Slots, Homes
<1>g. Numbered
  BY Goods
<1>h. Given
  BY Goods
<1>i. Tasks
  BY Goods
<1>j. Slots
  BY Goods
<1>k. Homes
  BY Goods
<1>1. ASSUME NEW a \in Actor, Shared(a) PROVE TaskInv'
  <2>1. CASE Connect(a)
    <3>0. UNCHANGED <<target>>
      BY <2>1 DEF Connect, manager
    <3>1. CASE Failing(a)
      BY <1>a, <1>g, <1>h, Work, <3>0, <3>1 DEF Failing, TaskInv
    <3>2. ASSUME NEW d \in Conn, Making(a, d) PROVE TaskInv'
      <4>1. \A r \in Requester : conn'[r] # None =>
               \/ r = a /\ home'[conn'[r]] = MyManaged(a)
               \/ r # a /\ conn[r] # None /\ home'[conn'[r]] = home[conn[r]]
        BY <1>h, <3>2 DEF Making
      <4>2. VM \in Requester /\ (conn'[VM] # None => home'[conn'[VM]] = target')
        BY <1>a, <3>0, <4>1, Work DEF TaskInv
      <4>3. ASSUME NEW m \in Managed
            PROVE  /\ conn'[Background(m)] # None => home'[conn'[Background(m)]] = m
                   /\ conn'[Supervisor(m)] # None => home'[conn'[Supervisor(m)]] = m
        <5>1. Background(m) \in Requester /\ Supervisor(m) \in Requester
          BY <1>a
        <5>2. MyManaged(Background(m)) = m /\ MyManaged(Supervisor(m)) = m
          BY Work
        <5>3. QED
          BY <4>1, <5>1, <5>2 DEF TaskInv
      <4>4. QED
        BY <4>2, <4>3 DEF TaskInv
    <3>3. QED
      BY <2>1, <3>1, <3>2, Handshake
  <2>2. CASE Watch(a)
    <3>0. UNCHANGED <<home, target>>
      BY <2>2 DEF Watch, links, manager
    <3>1. PICK d \in Conn, w \in Actor : Watching(a, d, w)
      BY <2>2, Watched
    <3>2. QED
      BY <1>a, <1>g, <1>h, <3>0, <3>1 DEF Watching, TaskInv
  <2>3. CASE Drop(a)
     BY <1>a, <1>b, <1>c, <1>g, <1>h, <1>i, <2>3 DEF Drop, Drops, AfterDrop, Rest,
       Goto, manager, requests, links, server, TaskInv
  <2>4. CASE Reconnected(a)
     BY <1>a, <1>b, <1>c, <1>g, <1>h, <1>i, <2>4 DEF Reconnected, Rest, Goto, Unlock,
       Home, manager, requests, links, server, TaskInv
  <2>5. CASE ReconnectFails(a)
     BY <1>a, <1>b, <1>c, <1>g, <1>h, <1>i, <2>5 DEF ReconnectFails, Rest, Goto,
       Unlock, Home, manager, requests, links, server, TaskInv
   <2>6. CASE BridgeBegins(a) \/ BridgeListed(a) \/ BridgeChecks(a) \/
     BridgeInstalls(a) \/ Wakes(a) \/ Close(a)
     BY <1>0, <2>6 DEF BridgeBegins, Ask, Returns, Goto, manager, requests, links,
       server, BridgeListed, BridgeFails, Forget, BridgeChecks, BridgeInstalls, Wakes,
       Close
  <2>7. QED
    BY <1>1, <2>1, <2>2, <2>3, <2>4, <2>5, <2>6 DEF Shared
<1>2. CASE Vm \/ VmConnects \/ VmDisconnects \/ VmReconnects
  <2>1. CASE VmConnects
     BY <1>a, <1>b, <1>c, <1>g, <1>h, <1>i, <2>1 DEF VmConnects, Resting, manager,
       requests, links, server, TaskInv
  <2>2. CASE VmConnected
     BY <1>a, <1>b, <1>c, <1>g, <1>h, <1>i, <2>2 DEF VmConnected, manager, requests,
       links, server, TaskInv
  <2>3. CASE VmDisconnects
     BY <1>a, <1>b, <1>c, <1>g, <1>h, <1>i, <2>3 DEF VmDisconnects, Resting, Goto,
       manager, requests, links, server, TaskInv
  <2>4. CASE VmTakes
     BY <1>a, <1>b, <1>c, <1>g, <1>h, <1>i, <1>j, <1>e, <2>4 DEF VmTakes, Free, Goto,
       manager, requests, links, server, TaskInv
  <2>5. CASE VmDisconnected
     BY <1>a, <1>b, <1>c, <1>g, <1>h, <1>i, <2>5 DEF VmDisconnected, Unlock, Rest,
       Goto, manager, requests, links, server, TaskInv
  <2>6. CASE VmReconnects
     BY <1>a, <1>b, <1>c, <1>g, <1>h, <1>i, <2>6 DEF VmReconnects, Resting, Goto,
       manager, requests, links, server, TaskInv
  <2>7. CASE VmRetakes
     BY <1>a, <1>b, <1>c, <1>g, <1>h, <1>i, <1>j, <1>e, Work, <2>7 DEF VmRetakes,
       Free, Goto, Reconnect, manager, requests, links, server, TaskInv
  <2>8. CASE VmConnectFails
     BY <1>a, <1>b, <1>c, <1>g, <1>h, <1>i, <2>8 DEF VmConnectFails, Rest, Goto,
       manager, requests, links, server, TaskInv
  <2>9. QED
    BY <1>2, <2>1, <2>2, <2>3, <2>4, <2>5, <2>6, <2>7, <2>8 DEF Vm
<1>3. ASSUME NEW m \in Managed, Task(m) PROVE TaskInv'
  <2>1. CASE BackgroundConnected(m)
     BY <1>a, <1>b, <1>c, <1>g, <1>h, <1>i, <2>1 DEF BackgroundConnected, Goto,
       Unlock, manager, requests, links, server, TaskInv
  <2>2. CASE BackgroundUndone(m)
     BY <1>a, <1>b, <1>c, <1>g, <1>h, <1>i, <2>2 DEF BackgroundUndone, Unlock, Rest,
       Goto, manager, requests, links, server, TaskInv
  <2>3. CASE BackgroundFails(m)
     BY <1>a, <1>b, <1>c, <1>g, <1>h, <1>i, <2>3 DEF BackgroundFails, Unlock, Rest,
       Goto, manager, requests, links, server, TaskInv
  <2>4. CASE Supervise(m)
     BY <1>a, <1>b, <1>c, <1>g, <1>h, <1>i, <1>j, Work, <2>4 DEF Supervise, Goto,
       Free, Reconnect, manager, requests, links, server, TaskInv
  <2>5. CASE BackgroundBegins(m) \/ BackgroundForgets(m)
     BY <1>0, <2>5 DEF BackgroundBegins, Free, Goto, BackgroundOpens, manager,
       requests, links, server, BackgroundForgets
  <2>6. QED
    BY <1>3, <2>1, <2>2, <2>3, <2>4, <2>5 DEF Task
<1>4. ASSUME NEW r \in Requester, Request(r) PROVE TaskInv'
  <2>1. CASE CallTool(r)
     BY <1>a, <1>b, <1>c, <1>g, <1>h, <1>i, <2>1 DEF CallTool, Ask, Returns, manager,
       requests, links, server, TaskInv
   <2>2. CASE Insert(r) \/ Send(r) \/ SendBreaks(r) \/ Answered(r) \/ Forgotten(r) \/
     GivesUp(r)
     BY <1>0, <2>2 DEF Insert, manager, requests, links, server, Send, Returns,
       SendBreaks, Fault, Answered, Forgotten, GivesUp
  <2>3. QED
    BY <1>4, <2>1, <2>2 DEF Request
<1>5. ASSUME NEW c \in Conn, ReaderEnds(c) \/ ReaderDrains(c) \/ ServerChanges(c) PROVE TaskInv'
   BY <1>0, <1>5 DEF ReaderEnds, Fault, manager, requests, links, server,
     ReaderDrains, ServerChanges
<1>6. ASSUME NEW n \in Contested, HostRegisters(n) PROVE TaskInv'
  BY <1>0, <1>6 DEF HostRegisters, manager, requests, links, server
<1>7. QED
  BY <1>1, <1>2, <1>3, <1>4, <1>5, <1>6 DEF Next

(* A slot has a connection that was made for it.                             *)
LEMMA SlotStep ==
  ASSUME TypeOK, PlaceInv, ConnInv, HoldInv, WatchInv, SlotInv, Next
  PROVE  SlotInv'
<1>0. UNCHANGED <<home, slot>> => SlotInv'
  BY DEF SlotInv
<1> USE DEF Names, Posts, Kinds, Watches, Quiet
<1>a. Names
  BY Scene
<1>b. Posts
  BY Scene
<1>c. Kinds
  BY Scene
<1>d. Watches
  BY Scene
<1>e. Quiet
  BY Scene
<1>f. VmConnects => opened + 1 \in Managed /\ opened + 1 > opened
  BY McpBounds DEF VmConnects, TypeOK, Managed
<1> USE DEF Numbered, Given, Tasks, Slots, Homes
<1>g. Numbered
  BY Goods
<1>h. Given
  BY Goods
<1>i. Tasks
  BY Goods
<1>j. Slots
  BY Goods
<1>k. Homes
  BY Goods
<1>t. slot \in [Managed -> Conn \cup {None}]
  BY DEF TypeOK
<1>1. ASSUME NEW a \in Actor, Shared(a) PROVE SlotInv'
  <2>1. CASE Connect(a)
    <3>0. UNCHANGED <<slot>>
      BY <2>1 DEF Connect, manager
    <3>1. CASE Failing(a)
      BY <1>j, <3>0, <3>1 DEF Failing, SlotInv
    <3>2. ASSUME NEW d \in Conn, Making(a, d) PROVE SlotInv'
      BY <1>j, <3>0, <3>2 DEF Making, SlotInv
    <3>3. QED
      BY <2>1, <3>1, <3>2, Handshake
  <2>2. CASE Reconnected(a)
     BY <1>a, <1>b, <1>g, <1>h, <1>i, <1>j, <1>k, <1>t, <2>2 DEF Reconnected, Rest,
       Goto, Unlock, Home, manager, requests, links, server, SlotInv
   <2>3. CASE BridgeBegins(a) \/ BridgeListed(a) \/ BridgeChecks(a) \/
     BridgeInstalls(a) \/ Watch(a) \/ Wakes(a) \/ Close(a) \/ Drop(a) \/
     ReconnectFails(a)
     BY <1>0, <2>3 DEF BridgeBegins, Ask, Returns, Goto, manager, requests, links,
       server, BridgeListed, BridgeFails, Forget, BridgeChecks, BridgeInstalls, Watch,
       Wakes, Close, Drop, Drops, AfterDrop, Rest, ReconnectFails, Unlock, Home
  <2>4. QED
    BY <1>1, <2>1, <2>2, <2>3 DEF Shared
<1>2. CASE Vm \/ VmConnects \/ VmDisconnects \/ VmReconnects
  <2>1. CASE VmConnected
     BY <1>a, <1>b, <1>g, <1>h, <1>i, <1>j, <1>k, <1>t, Work, <1>e, <2>1 DEF
       VmConnected, manager, requests, links, server, SlotInv
  <2>2. CASE VmTakes
     BY <1>a, <1>b, <1>g, <1>h, <1>i, <1>j, <1>k, <1>t, <2>2 DEF VmTakes, Free, Goto,
       manager, requests, links, server, SlotInv
   <2>3. CASE VmConnects \/ VmDisconnects \/ VmDisconnected \/ VmReconnects \/
     VmRetakes \/ VmConnectFails
     BY <1>0, <2>3 DEF VmConnects, Resting, manager, requests, links, server,
       VmDisconnects, Goto, VmDisconnected, Unlock, Rest, VmReconnects, VmRetakes,
       Free, Reconnect, VmConnectFails
  <2>4. QED
    BY <1>2, <2>1, <2>2, <2>3 DEF Vm
<1>3. ASSUME NEW m \in Managed, Task(m) PROVE SlotInv'
  <2>1. CASE BackgroundConnected(m)
     BY <1>a, <1>b, <1>g, <1>h, <1>i, <1>j, <1>k, <1>t, Work, <2>1 DEF
       BackgroundConnected, Goto, Unlock, manager, requests, links, server, SlotInv
   <2>2. CASE BackgroundBegins(m) \/ BackgroundUndone(m) \/ BackgroundFails(m) \/
     BackgroundForgets(m) \/ Supervise(m)
     BY <1>0, <2>2 DEF BackgroundBegins, Free, Goto, BackgroundOpens, manager,
       requests, links, server, BackgroundUndone, Unlock, Rest, BackgroundFails,
       BackgroundForgets, Supervise, Reconnect
  <2>3. QED
    BY <1>3, <2>1, <2>2 DEF Task
<1>4. ASSUME NEW r \in Requester, Request(r) PROVE SlotInv'
   BY <1>0, <1>4 DEF Request, CallTool, Ask, Returns, manager, requests, links,
     server, Insert, Send, SendBreaks, Fault, Answered, Forgotten, GivesUp
<1>5. ASSUME NEW c \in Conn, ReaderEnds(c) \/ ReaderDrains(c) \/ ServerChanges(c) PROVE SlotInv'
   BY <1>0, <1>5 DEF ReaderEnds, Fault, manager, requests, links, server,
     ReaderDrains, ServerChanges
<1>6. ASSUME NEW n \in Contested, HostRegisters(n) PROVE SlotInv'
  BY <1>0, <1>6 DEF HostRegisters, manager, requests, links, server
<1>7. QED
  BY <1>1, <1>2, <1>3, <1>4, <1>5, <1>6 DEF Next

(* Each step keeps connections in order.                                     *)
LEMMA ConnStepAll == ASSUME TypeOK, PlaceInv, ConnInv, HoldInv, WatchInv, Next PROVE ConnInv'
BY ConnParts, ConnPartsNext, TypeStep, MadeStep, FreshStep, GivenStep, BusyStep, TaskStep,
   SlotStep

(* Who holds the slots.                                                      *)
LockInv == \A m \in Managed :
    /\ holder[m] \in {Nobody, VM, Background(m), Supervisor(m)}
    /\ holder[m] = VM <=> target = m /\ op[VM] \in {"disconnect", "reconnect", "reopen"}
    /\ holder[m] = Background(m) <=> op[Background(m)] # "none"
    /\ holder[m] = Supervisor(m) <=> op[Supervisor(m)] # "none"
PartInv == \A m \in Managed :
    /\ pc[Background(m)] # "off" => slot[m] = None /\ pc[Supervisor(m)] = "off"
    /\ m > opened => /\ pc[Background(m)] = "off" /\ pc[Supervisor(m)] = "off"
                     /\ slot[m] = None /\ ~token[m] /\ m \notin left
OnceInv ==
    /\ map <= opened /\ target <= opened
    /\ pc[VM] # "off" => target # None
    /\ op[VM] = "open" => /\ pc[Background(target)] = "off"
                          /\ pc[Supervisor(target)] = "off"
    /\ op[VM] \in {"open", "disconnect"} => slot[target] = None

(* The parts of HoldInv.                                                     *)
LEMMA HoldParts == HoldInv <=> LockInv /\ PartInv /\ OnceInv
BY DEF HoldInv, LockInv, PartInv, OnceInv

(* So they are after a step.                                                 *)
LEMMA HoldPartsNext == HoldInv' <=> LockInv' /\ PartInv' /\ OnceInv'
BY DEF HoldInv, LockInv, PartInv, OnceInv

(* What each actor may be doing.                                             *)
Roles ==
    /\ Nobody \notin Actor
    /\ \A a \in Actor :
          /\ op[a] \in {"reconnect", "reopen"}
                => a = VM \/ \E m \in Managed : a = Supervisor(m)
          /\ op[a] = "undo" => \E m \in Managed : a = Background(m)
          /\ op[a] = "disconnect" => a = VM
          /\ op[a] = "open" => a = VM \/ \E m \in Managed : a = Background(m)
          /\ op[a] = "watch" => \E c \in Conn : a = Watcher(c) /\ conn[a] = c
    /\ \A m \in Managed : /\ op[Background(m)] \in {"none", "open", "undo"}
                          /\ op[Supervisor(m)] \in {"none", "reconnect", "reopen"}
    /\ op[VM] \in {"none", "open", "reopen", "reconnect", "disconnect"}

(* So it is before every step.                                               *)
LEMMA Cast ==
  ASSUME TypeOK, PlaceInv, ConnInv, HoldInv
  PROVE  Roles
<1>1. \A a \in Actor : \/ a = VM
                       \/ \E m \in Managed : a = Background(m)
                       \/ \E m \in Managed : a = Supervisor(m)
                       \/ \E c \in Conn : a = Watcher(c)
  BY Actors
<1>2. /\ \A m \in Managed : /\ op[Background(m)] \in {"none", "open", "undo"}
                            /\ op[Supervisor(m)] \in {"none", "reconnect", "reopen"}
      /\ op[VM] \in {"none", "open", "reopen", "reconnect", "disconnect"}
      /\ \A c \in Conn : op[Watcher(c)] # "none"
                         => op[Watcher(c)] = "watch" /\ conn[Watcher(c)] = c
  BY DEF PlaceInv
<1>3. ASSUME NEW a \in Actor
      PROVE  /\ op[a] \in {"reconnect", "reopen"}
                   => a = VM \/ \E m \in Managed : a = Supervisor(m)
             /\ op[a] = "undo" => \E m \in Managed : a = Background(m)
             /\ op[a] = "disconnect" => a = VM
             /\ op[a] = "open" => a = VM \/ \E m \in Managed : a = Background(m)
             /\ op[a] = "watch" => \E c \in Conn : a = Watcher(c) /\ conn[a] = c
  <2>1. CASE a = VM
    BY <1>2, <2>1
  <2>2. CASE \E m \in Managed : a = Background(m)
    BY <1>2, <2>2
  <2>3. CASE \E m \in Managed : a = Supervisor(m)
    BY <1>2, <2>3
  <2>4. CASE \E c \in Conn : a = Watcher(c)
    BY <1>2, <2>4
  <2>5. QED
    BY <1>1, <2>1, <2>2, <2>3, <2>4
<1>4. QED
  BY <1>2, <1>3, Actors DEF Roles

(* A slot is locked by whoever works on it.                                  *)
LEMMA LockStep ==
  ASSUME TypeOK, PlaceInv, ConnInv, HoldInv, WatchInv, LockInv, Next
  PROVE  LockInv'
<1>0. UNCHANGED <<holder, op, target>> => LockInv'
  BY DEF LockInv
<1> USE DEF Names, Posts, Kinds, Watches, Quiet
<1>a. Names
  BY Scene
<1>b. Posts
  BY Scene
<1>c. Kinds
  BY Scene
<1>d. Watches
  BY Scene
<1>e. Quiet
  BY Scene
<1>f. VmConnects => opened + 1 \in Managed /\ opened + 1 > opened
  BY McpBounds DEF VmConnects, TypeOK, Managed
<1>g. Roles
  BY Cast
<1>h. /\ holder \in [Managed -> Actor \cup {Nobody}]
      /\ slot \in [Managed -> Conn \cup {None}] /\ token \in [Managed -> BOOLEAN]
  BY DEF TypeOK
<1> USE DEF Roles
<1>1. ASSUME NEW a \in Actor, Shared(a) PROVE LockInv'
  <2>1. CASE Watch(a)
    <3>0. UNCHANGED <<holder, target>>
      BY <2>1 DEF Watch, manager
    <3>1. PICK d \in Conn, w \in Actor : Watching(a, d, w)
      BY <2>1, Watched
    <3>2. QED
      BY <1>a, <1>g, <3>0, <3>1 DEF Watching, LockInv
  <2>2. CASE Drop(a)
     BY <1>a, <1>b, <1>c, <1>e, <1>g, <1>h, Work, <2>2 DEF Drop, Drops, AfterDrop,
       Rest, Goto, manager, requests, links, server, LockInv
  <2>3. CASE Reconnected(a)
     BY <1>a, <1>b, <1>c, <1>e, <1>g, <1>h, Work, <2>3 DEF Reconnected, Rest, Goto,
       Unlock, Home, manager, requests, links, server, LockInv
  <2>4. CASE ReconnectFails(a)
     BY <1>a, <1>b, <1>c, <1>e, <1>g, <1>h, Work, <2>4 DEF ReconnectFails, Rest, Goto,
       Unlock, Home, manager, requests, links, server, LockInv
   <2>5. CASE Connect(a) \/ BridgeBegins(a) \/ BridgeListed(a) \/ BridgeChecks(a) \/
     BridgeInstalls(a) \/ Wakes(a) \/ Close(a)
     BY <1>0, <2>5 DEF Connect, Goto, Fault, manager, requests, links, server,
       BridgeBegins, Ask, Returns, BridgeListed, BridgeFails, Forget, BridgeChecks,
       BridgeInstalls, Wakes, Close
  <2>6. QED
    BY <1>1, <2>1, <2>2, <2>3, <2>4, <2>5 DEF Shared
<1>2. CASE Vm \/ VmConnects \/ VmDisconnects \/ VmReconnects
  <2>1. CASE VmConnects
     BY <1>a, <1>b, <1>c, <1>e, <1>g, <1>h, Work, <2>1 DEF VmConnects, Resting,
       manager, requests, links, server, LockInv
  <2>2. CASE VmConnected
     BY <1>a, <1>b, <1>c, <1>e, <1>g, <1>h, Work, <2>2 DEF VmConnected, manager,
       requests, links, server, LockInv
  <2>3. CASE VmDisconnects
     BY <1>a, <1>b, <1>c, <1>e, <1>g, <1>h, Work, <2>3 DEF VmDisconnects, Resting,
       Goto, manager, requests, links, server, LockInv
  <2>4. CASE VmTakes
     BY <1>a, <1>b, <1>c, <1>e, <1>g, <1>h, Work, <2>4 DEF VmTakes, Free, Goto,
       manager, requests, links, server, LockInv
  <2>5. CASE VmDisconnected
     BY <1>a, <1>b, <1>c, <1>e, <1>g, <1>h, Work, <2>5 DEF VmDisconnected, Unlock,
       Rest, Goto, manager, requests, links, server, LockInv
  <2>6. CASE VmReconnects
     BY <1>a, <1>b, <1>c, <1>e, <1>g, <1>h, Work, <2>6 DEF VmReconnects, Resting,
       Goto, manager, requests, links, server, LockInv
  <2>7. CASE VmRetakes
     BY <1>a, <1>b, <1>c, <1>e, <1>g, <1>h, Work, <2>7 DEF VmRetakes, Free, Goto,
       Reconnect, manager, requests, links, server, LockInv
  <2>8. CASE VmConnectFails
     BY <1>a, <1>b, <1>c, <1>e, <1>g, <1>h, Work, <2>8 DEF VmConnectFails, Rest, Goto,
       manager, requests, links, server, LockInv
  <2>9. QED
    BY <1>2, <2>1, <2>2, <2>3, <2>4, <2>5, <2>6, <2>7, <2>8 DEF Vm
<1>3. ASSUME NEW m \in Managed, Task(m) PROVE LockInv'
  <2>1. CASE BackgroundBegins(m)
     BY <1>a, <1>b, <1>c, <1>e, <1>g, <1>h, Work, <2>1 DEF BackgroundBegins, Free,
       Goto, BackgroundOpens, manager, requests, links, server, LockInv
  <2>2. CASE BackgroundConnected(m)
     BY <1>a, <1>b, <1>c, <1>e, <1>g, <1>h, Work, <2>2 DEF BackgroundConnected, Goto,
       Unlock, manager, requests, links, server, LockInv
  <2>3. CASE BackgroundUndone(m)
     BY <1>a, <1>b, <1>c, <1>e, <1>g, <1>h, Work, <2>3 DEF BackgroundUndone, Unlock,
       Rest, Goto, manager, requests, links, server, LockInv
  <2>4. CASE BackgroundFails(m)
     BY <1>a, <1>b, <1>c, <1>e, <1>g, <1>h, Work, <2>4 DEF BackgroundFails, Unlock,
       Rest, Goto, manager, requests, links, server, LockInv
  <2>5. CASE Supervise(m)
     BY <1>a, <1>b, <1>c, <1>e, <1>g, <1>h, Work, <2>5 DEF Supervise, Goto, Free,
       Reconnect, manager, requests, links, server, LockInv
  <2>6. CASE BackgroundForgets(m)
    BY <1>0, <2>6 DEF BackgroundForgets, Goto, manager, requests, links, server
  <2>7. QED
    BY <1>3, <2>1, <2>2, <2>3, <2>4, <2>5, <2>6 DEF Task
<1>4. ASSUME NEW r \in Requester, Request(r) PROVE LockInv'
   BY <1>0, <1>4 DEF Request, CallTool, Ask, Returns, manager, requests, links,
     server, Insert, Send, SendBreaks, Fault, Answered, Forgotten, GivesUp
<1>5. ASSUME NEW c \in Conn, ReaderEnds(c) \/ ReaderDrains(c) \/ ServerChanges(c) PROVE LockInv'
   BY <1>0, <1>5 DEF ReaderEnds, Fault, manager, requests, links, server,
     ReaderDrains, ServerChanges
<1>6. ASSUME NEW n \in Contested, HostRegisters(n) PROVE LockInv'
  BY <1>0, <1>6 DEF HostRegisters, manager, requests, links, server
<1>7. QED
  BY <1>1, <1>2, <1>3, <1>4, <1>5, <1>6 DEF Next

(* A background connect comes before everything else.                        *)
LEMMA PartStep ==
  ASSUME TypeOK, PlaceInv, ConnInv, HoldInv, WatchInv, LiveInv, PartInv, Next
  PROVE  PartInv'
<1>0. UNCHANGED <<left, opened, pc, slot, token>> => PartInv'
  BY DEF PartInv
<1> USE DEF Names, Posts, Kinds, Watches, Quiet
<1>a. Names
  BY Scene
<1>b. Posts
  BY Scene
<1>c. Kinds
  BY Scene
<1>d. Watches
  BY Scene
<1>e. Quiet
  BY Scene
<1>f. VmConnects => opened + 1 \in Managed /\ opened + 1 > opened
  BY McpBounds DEF VmConnects, TypeOK, Managed
<1>g. Roles
  BY Cast
<1>h. /\ holder \in [Managed -> Actor \cup {Nobody}]
      /\ slot \in [Managed -> Conn \cup {None}] /\ token \in [Managed -> BOOLEAN]
  BY DEF TypeOK
<1>i. /\ opened \in Nat /\ map \in Nat /\ target \in Nat /\ None = 0 /\ opened >= None
      /\ \A m \in Managed : /\ m \in Nat /\ m # None
                            /\ m > opened + 1 => m > opened /\ m # opened + 1
                            /\ m <= opened <=> ~(m > opened)
      /\ map <= opened /\ target <= opened /\ map <= opened + 1 /\ target <= opened + 1
  BY McpBounds DEF TypeOK, HoldInv, Managed, None
<1>j. /\ LockInv /\ PartInv
      /\ op[VM] \in {"open", "disconnect"} => slot[target] = None
  BY DEF HoldInv, LockInv, PartInv
<1>k. \A a \in Actor : op[a] \in {"reconnect", "reopen"} => slot[MyManaged(a)] # None
  BY StepOps, Numbers DEF LiveInv
<1> USE DEF Roles
<1>1. ASSUME NEW a \in Actor, Shared(a) PROVE PartInv'
  <2>1. CASE Connect(a)
     BY <1>a, <1>b, <1>c, <1>e, <1>g, <1>h, <1>i, Work, <2>1 DEF Connect, Goto, Fault,
       manager, requests, links, server, PartInv
  <2>2. CASE BridgeBegins(a)
     BY <1>a, <1>b, <1>c, <1>e, <1>g, <1>h, <1>i, Work, <2>2 DEF BridgeBegins, Ask,
       Returns, Goto, manager, requests, links, server, PartInv
  <2>3. CASE BridgeListed(a)
     BY <1>a, <1>b, <1>c, <1>e, <1>g, <1>h, <1>i, Work, <2>3 DEF BridgeListed,
       BridgeFails, Forget, Goto, manager, requests, links, server, PartInv
  <2>4. CASE BridgeChecks(a)
     BY <1>a, <1>b, <1>c, <1>e, <1>g, <1>h, <1>i, Work, <2>4 DEF BridgeChecks,
       BridgeFails, Forget, Goto, manager, requests, links, server, PartInv
  <2>5. CASE BridgeInstalls(a)
     BY <1>a, <1>b, <1>c, <1>e, <1>g, <1>h, <1>i, Work, <2>5 DEF BridgeInstalls,
       BridgeFails, Forget, Goto, manager, requests, links, server, PartInv
  <2>6. CASE Watch(a)
    <3>0. UNCHANGED <<slot, opened, token, left>>
      BY <2>6 DEF Watch, manager
    <3>1. PICK d \in Conn, w \in Actor : Watching(a, d, w)
      BY <2>6, Watched
    <3>2. QED
      BY <1>a, <1>g, <3>0, <3>1 DEF Watching, PartInv
  <2>7. CASE Wakes(a)
     BY <1>a, <1>b, <1>c, <1>e, <1>g, <1>h, <1>i, Work, <2>7 DEF Wakes, Goto, manager,
       requests, links, server, PartInv
  <2>8. CASE Close(a)
     BY <1>a, <1>b, <1>c, <1>e, <1>g, <1>h, <1>i, Work, <2>8 DEF Close, Goto, manager,
       requests, links, server, PartInv
  <2>9. CASE Drop(a)
     BY <1>a, <1>b, <1>c, <1>e, <1>g, <1>h, <1>i, Work, <2>9 DEF Drop, Drops,
       AfterDrop, Rest, Goto, manager, requests, links, server, PartInv
  <2>10. CASE Reconnected(a)
    <3> DEFINE m == MyManaged(a)
    <3>1. /\ slot' = [slot EXCEPT ![m] = conn[a]]
          /\ op[a] = "reopen" /\ pc[a] = "watched" /\ UNCHANGED <<opened, map, target, token, left>>
          /\ op' = [op EXCEPT ![a] = "none"]
          /\ pc' = [pc EXCEPT ![a] = IF a = VM THEN "off" ELSE "supervising"]
      BY <2>10 DEF Reconnected, Rest, Goto, Home
    <3>2. m \in Managed /\ slot[m] # None
      BY <1>k, <3>1, Places
    <3> HIDE DEF m
    <3>3. pc[Background(m)] = "off" /\ m <= opened
      BY <1>i, <1>j, <3>2 DEF PartInv
    <3>4. \/ a = VM /\ m = target
          \/ a = Supervisor(m)
      BY <1>g, <3>1, Work DEF m
    <3>5. /\ op'[a] = "none" /\ \A x \in Actor : x # a => op'[x] = op[x] /\ pc'[x] = pc[x]
          /\ pc'[a] = IF a = VM THEN "off" ELSE "supervising"
          /\ \A n \in Managed : n # m => slot'[n] = slot[n]
      BY <1>c, <1>h, <3>1, <3>2
    <3>6. QED
       BY <1>a, <1>g, <1>i, <1>j, <3>1, <3>2, <3>3, <3>4, <3>5 DEF LockInv, PartInv,
         OnceInv
  <2>11. CASE ReconnectFails(a)
     BY <1>a, <1>b, <1>c, <1>e, <1>g, <1>h, <1>i, Work, <2>11 DEF ReconnectFails,
       Rest, Goto, Unlock, Home, manager, requests, links, server, PartInv
  <2>12. QED
     BY <1>1, <2>1, <2>2, <2>3, <2>4, <2>5, <2>6, <2>7, <2>8, <2>9, <2>10, <2>11 DEF
       Shared
<1>2. CASE Vm \/ VmConnects \/ VmDisconnects \/ VmReconnects
  <2>1. CASE VmConnects
    <3> DEFINE n == opened + 1
    <3>1. /\ opened' = n /\ UNCHANGED <<slot, token, left>> /\ n \in Managed /\ n > opened
          /\ pc[VM] = "off" /\ op[VM] = "none"
      BY <1>a, <1>b, <1>f, <2>1 DEF VmConnects, Resting
    <3>2. \/ /\ target' = n /\ map' = map
             /\ pc' = [pc EXCEPT ![VM] = "connect"] /\ op' = [op EXCEPT ![VM] = "open"]
          \/ /\ target' = target /\ map' = n /\ op' = op
             /\ pc' = [pc EXCEPT ![Background(n)] = "queued"]
      BY <2>1 DEF VmConnects
    <3>3. /\ n \in Nat /\ map <= n /\ target <= n /\ n # None /\ n <= n
          /\ \A m \in Managed : m > n => m > opened /\ m # n
      BY <1>i
    <3> HIDE DEF n
    <3>4. pc[Background(n)] = "off" /\ pc[Supervisor(n)] = "off" /\ slot[n] = None
      BY <1>j, <3>1 DEF PartInv
    <3>5. \/ /\ target' = n /\ map' = map /\ op'[VM] = "open" /\ pc'[VM] = "connect"
             /\ \A x \in Actor : x # VM => pc'[x] = pc[x]
          \/ /\ target' = target /\ map' = n /\ op'[VM] = "none"
             /\ \A x \in Actor : x # Background(n) => pc'[x] = pc[x]
             /\ pc'[Background(n)] = "queued" /\ pc'[VM] = "off"
      BY <1>a, <1>c, <3>1, <3>2
    <3>6. QED
      BY <1>a, <3>1, <3>3, <3>4, <3>5 DEF PartInv, OnceInv
  <2>2. CASE VmConnected
     BY <1>a, <1>b, <1>c, <1>e, <1>g, <1>h, <1>i, Work, <2>2 DEF VmConnected, manager,
       requests, links, server, PartInv
  <2>3. CASE VmDisconnects
     BY <1>a, <1>b, <1>c, <1>e, <1>g, <1>h, <1>i, Work, <2>3 DEF VmDisconnects,
       Resting, Goto, manager, requests, links, server, PartInv
  <2>4. CASE VmTakes
     BY <1>a, <1>b, <1>c, <1>e, <1>g, <1>h, <1>i, Work, <2>4 DEF VmTakes, Free, Goto,
       manager, requests, links, server, PartInv
  <2>5. CASE VmDisconnected
     BY <1>a, <1>b, <1>c, <1>e, <1>g, <1>h, <1>i, Work, <2>5 DEF VmDisconnected,
       Unlock, Rest, Goto, manager, requests, links, server, PartInv
  <2>6. CASE VmReconnects
     BY <1>a, <1>b, <1>c, <1>e, <1>g, <1>h, <1>i, Work, <2>6 DEF VmReconnects,
       Resting, Goto, manager, requests, links, server, PartInv
  <2>7. CASE VmRetakes
     BY <1>a, <1>b, <1>c, <1>e, <1>g, <1>h, <1>i, Work, <2>7 DEF VmRetakes, Free,
       Goto, Reconnect, manager, requests, links, server, PartInv
  <2>8. CASE VmConnectFails
     BY <1>a, <1>b, <1>c, <1>e, <1>g, <1>h, <1>i, Work, <2>8 DEF VmConnectFails, Rest,
       Goto, manager, requests, links, server, PartInv
  <2>9. QED
    BY <1>2, <2>1, <2>2, <2>3, <2>4, <2>5, <2>6, <2>7, <2>8 DEF Vm
<1>3. ASSUME NEW m \in Managed, Task(m) PROVE PartInv'
  <2>1. CASE BackgroundBegins(m)
     BY <1>a, <1>b, <1>c, <1>e, <1>g, <1>h, <1>i, Work, <2>1 DEF BackgroundBegins,
       Free, Goto, BackgroundOpens, manager, requests, links, server, PartInv
  <2>2. CASE BackgroundConnected(m)
     BY <1>a, <1>b, <1>c, <1>e, <1>g, <1>h, <1>i, Work, <2>2 DEF BackgroundConnected,
       Goto, Unlock, manager, requests, links, server, PartInv
  <2>3. CASE BackgroundUndone(m)
     BY <1>a, <1>b, <1>c, <1>e, <1>g, <1>h, <1>i, Work, <2>3 DEF BackgroundUndone,
       Unlock, Rest, Goto, manager, requests, links, server, PartInv
  <2>4. CASE BackgroundFails(m)
     BY <1>a, <1>b, <1>c, <1>e, <1>g, <1>h, <1>i, Work, <2>4 DEF BackgroundFails,
       Unlock, Rest, Goto, manager, requests, links, server, PartInv
  <2>5. CASE BackgroundForgets(m)
     BY <1>a, <1>b, <1>c, <1>e, <1>g, <1>h, <1>i, Work, <2>5 DEF BackgroundForgets,
       Goto, manager, requests, links, server, PartInv
  <2>6. CASE Supervise(m)
     BY <1>a, <1>b, <1>c, <1>e, <1>g, <1>h, <1>i, Work, <2>6 DEF Supervise, Goto,
       Free, Reconnect, manager, requests, links, server, PartInv
  <2>7. QED
    BY <1>3, <2>1, <2>2, <2>3, <2>4, <2>5, <2>6 DEF Task
<1>4. ASSUME NEW r \in Requester, Request(r) PROVE PartInv'
   BY <1>0, <1>4 DEF Request, CallTool, Ask, Returns, manager, requests, links,
     server, Insert, Send, SendBreaks, Fault, Answered, Forgotten, GivesUp
<1>5. ASSUME NEW c \in Conn, ReaderEnds(c) \/ ReaderDrains(c) \/ ServerChanges(c) PROVE PartInv'
   BY <1>0, <1>5 DEF ReaderEnds, Fault, manager, requests, links, server,
     ReaderDrains, ServerChanges
<1>6. ASSUME NEW n \in Contested, HostRegisters(n) PROVE PartInv'
  BY <1>0, <1>6 DEF HostRegisters, manager, requests, links, server
<1>7. QED
  BY <1>1, <1>2, <1>3, <1>4, <1>5, <1>6 DEF Next

(* The VM's first connect has its server for itself.                         *)
LEMMA OnceStep ==
  ASSUME TypeOK, PlaceInv, ConnInv, HoldInv, WatchInv, LiveInv, OnceInv, Next
  PROVE  OnceInv'
<1>0. UNCHANGED <<map, op, opened, pc, slot, target>> => OnceInv'
  BY DEF OnceInv
<1> USE DEF Names, Posts, Kinds, Watches, Quiet
<1>a. Names
  BY Scene
<1>b. Posts
  BY Scene
<1>c. Kinds
  BY Scene
<1>d. Watches
  BY Scene
<1>e. Quiet
  BY Scene
<1>f. VmConnects => opened + 1 \in Managed /\ opened + 1 > opened
  BY McpBounds DEF VmConnects, TypeOK, Managed
<1>g. Roles
  BY Cast
<1>h. /\ holder \in [Managed -> Actor \cup {Nobody}]
      /\ slot \in [Managed -> Conn \cup {None}] /\ token \in [Managed -> BOOLEAN]
  BY DEF TypeOK
<1>i. /\ opened \in Nat /\ map \in Nat /\ target \in Nat /\ None = 0 /\ opened >= None
      /\ \A m \in Managed : /\ m \in Nat /\ m # None
                            /\ m > opened + 1 => m > opened /\ m # opened + 1
                            /\ m <= opened <=> ~(m > opened)
      /\ map <= opened /\ target <= opened /\ map <= opened + 1 /\ target <= opened + 1
  BY McpBounds DEF TypeOK, HoldInv, Managed, None
<1>j. /\ LockInv /\ PartInv
      /\ op[VM] \in {"open", "disconnect"} => slot[target] = None
  BY DEF HoldInv, LockInv, PartInv
<1>k. \A a \in Actor : op[a] \in {"reconnect", "reopen"} => slot[MyManaged(a)] # None
  BY StepOps, Numbers DEF LiveInv
<1> USE DEF Roles
<1>1. ASSUME NEW a \in Actor, Shared(a) PROVE OnceInv'
  <2>1. CASE Connect(a)
     BY <1>a, <1>b, <1>c, <1>e, <1>g, <1>h, <1>i, Work, <2>1 DEF Connect, Goto, Fault,
       manager, requests, links, server, OnceInv
  <2>2. CASE BridgeBegins(a)
     BY <1>a, <1>b, <1>c, <1>e, <1>g, <1>h, <1>i, Work, <2>2 DEF BridgeBegins, Ask,
       Returns, Goto, manager, requests, links, server, OnceInv
  <2>3. CASE BridgeListed(a)
     BY <1>a, <1>b, <1>c, <1>e, <1>g, <1>h, <1>i, Work, <2>3 DEF BridgeListed,
       BridgeFails, Forget, Goto, manager, requests, links, server, OnceInv
  <2>4. CASE BridgeChecks(a)
     BY <1>a, <1>b, <1>c, <1>e, <1>g, <1>h, <1>i, Work, <2>4 DEF BridgeChecks,
       BridgeFails, Forget, Goto, manager, requests, links, server, OnceInv
  <2>5. CASE BridgeInstalls(a)
     BY <1>a, <1>b, <1>c, <1>e, <1>g, <1>h, <1>i, Work, <2>5 DEF BridgeInstalls,
       BridgeFails, Forget, Goto, manager, requests, links, server, OnceInv
  <2>6. CASE Watch(a)
    <3>0. UNCHANGED <<map, opened, target, slot>>
      BY <2>6 DEF Watch, manager
    <3>1. PICK d \in Conn, w \in Actor : Watching(a, d, w)
      BY <2>6, Watched
    <3>2. QED
      BY <1>a, <1>b, <1>e, <1>g, <3>0, <3>1 DEF Watching, OnceInv
  <2>7. CASE Wakes(a)
     BY <1>a, <1>b, <1>c, <1>e, <1>g, <1>h, <1>i, Work, <2>7 DEF Wakes, Goto, manager,
       requests, links, server, OnceInv
  <2>8. CASE Close(a)
     BY <1>a, <1>b, <1>c, <1>e, <1>g, <1>h, <1>i, Work, <2>8 DEF Close, Goto, manager,
       requests, links, server, OnceInv
  <2>9. CASE Drop(a)
     BY <1>a, <1>b, <1>c, <1>e, <1>g, <1>h, <1>i, Work, <2>9 DEF Drop, Drops,
       AfterDrop, Rest, Goto, manager, requests, links, server, OnceInv
  <2>10. CASE Reconnected(a)
    <3> DEFINE m == MyManaged(a)
    <3>1. /\ slot' = [slot EXCEPT ![m] = conn[a]]
          /\ op[a] = "reopen" /\ pc[a] = "watched" /\ UNCHANGED <<opened, map, target, token, left>>
          /\ op' = [op EXCEPT ![a] = "none"]
          /\ pc' = [pc EXCEPT ![a] = IF a = VM THEN "off" ELSE "supervising"]
      BY <2>10 DEF Reconnected, Rest, Goto, Home
    <3>2. m \in Managed /\ slot[m] # None
      BY <1>k, <3>1, Places
    <3> HIDE DEF m
    <3>3. pc[Background(m)] = "off" /\ m <= opened
      BY <1>i, <1>j, <3>2 DEF PartInv
    <3>4. \/ a = VM /\ m = target
          \/ a = Supervisor(m)
      BY <1>g, <3>1, Work DEF m
    <3>5. /\ op'[a] = "none" /\ \A x \in Actor : x # a => op'[x] = op[x] /\ pc'[x] = pc[x]
          /\ pc'[a] = IF a = VM THEN "off" ELSE "supervising"
          /\ \A n \in Managed : n # m => slot'[n] = slot[n]
      BY <1>c, <1>h, <3>1, <3>2
    <3>6. QED
       BY <1>a, <1>g, <1>i, <1>j, <3>1, <3>2, <3>3, <3>4, <3>5 DEF LockInv, PartInv,
         OnceInv
  <2>11. CASE ReconnectFails(a)
     BY <1>a, <1>b, <1>c, <1>e, <1>g, <1>h, <1>i, Work, <2>11 DEF ReconnectFails,
       Rest, Goto, Unlock, Home, manager, requests, links, server, OnceInv
  <2>12. QED
     BY <1>1, <2>1, <2>2, <2>3, <2>4, <2>5, <2>6, <2>7, <2>8, <2>9, <2>10, <2>11 DEF
       Shared
<1>2. CASE Vm \/ VmConnects \/ VmDisconnects \/ VmReconnects
  <2>1. CASE VmConnects
    <3> DEFINE n == opened + 1
    <3>1. /\ opened' = n /\ UNCHANGED <<slot, token, left>> /\ n \in Managed /\ n > opened
          /\ pc[VM] = "off" /\ op[VM] = "none"
      BY <1>a, <1>b, <1>f, <2>1 DEF VmConnects, Resting
    <3>2. \/ /\ target' = n /\ map' = map
             /\ pc' = [pc EXCEPT ![VM] = "connect"] /\ op' = [op EXCEPT ![VM] = "open"]
          \/ /\ target' = target /\ map' = n /\ op' = op
             /\ pc' = [pc EXCEPT ![Background(n)] = "queued"]
      BY <2>1 DEF VmConnects
    <3>3. /\ n \in Nat /\ map <= n /\ target <= n /\ n # None /\ n <= n
          /\ \A m \in Managed : m > n => m > opened /\ m # n
      BY <1>i
    <3> HIDE DEF n
    <3>4. pc[Background(n)] = "off" /\ pc[Supervisor(n)] = "off" /\ slot[n] = None
      BY <1>j, <3>1 DEF PartInv
    <3>5. \/ /\ target' = n /\ map' = map /\ op'[VM] = "open" /\ pc'[VM] = "connect"
             /\ \A x \in Actor : x # VM => pc'[x] = pc[x]
          \/ /\ target' = target /\ map' = n /\ op'[VM] = "none"
             /\ \A x \in Actor : x # Background(n) => pc'[x] = pc[x]
             /\ pc'[Background(n)] = "queued" /\ pc'[VM] = "off"
      BY <1>a, <1>c, <3>1, <3>2
    <3>6. QED
      BY <1>a, <3>1, <3>3, <3>4, <3>5 DEF PartInv, OnceInv
  <2>2. CASE VmConnected
     BY <1>a, <1>b, <1>c, <1>e, <1>g, <1>h, <1>i, Work, <2>2 DEF VmConnected, manager,
       requests, links, server, OnceInv
  <2>3. CASE VmDisconnects
     BY <1>a, <1>b, <1>c, <1>e, <1>g, <1>h, <1>i, Work, <2>3 DEF VmDisconnects,
       Resting, Goto, manager, requests, links, server, OnceInv
  <2>4. CASE VmTakes
     BY <1>a, <1>b, <1>c, <1>e, <1>g, <1>h, <1>i, Work, <2>4 DEF VmTakes, Free, Goto,
       manager, requests, links, server, OnceInv
  <2>5. CASE VmDisconnected
     BY <1>a, <1>b, <1>c, <1>e, <1>g, <1>h, <1>i, Work, <2>5 DEF VmDisconnected,
       Unlock, Rest, Goto, manager, requests, links, server, OnceInv
  <2>6. CASE VmReconnects
     BY <1>a, <1>b, <1>c, <1>e, <1>g, <1>h, <1>i, Work, <2>6 DEF VmReconnects,
       Resting, Goto, manager, requests, links, server, OnceInv
  <2>7. CASE VmRetakes
     BY <1>a, <1>b, <1>c, <1>e, <1>g, <1>h, <1>i, Work, <2>7 DEF VmRetakes, Free,
       Goto, Reconnect, manager, requests, links, server, OnceInv
  <2>8. CASE VmConnectFails
     BY <1>a, <1>b, <1>c, <1>e, <1>g, <1>h, <1>i, Work, <2>8 DEF VmConnectFails, Rest,
       Goto, manager, requests, links, server, OnceInv
  <2>9. QED
    BY <1>2, <2>1, <2>2, <2>3, <2>4, <2>5, <2>6, <2>7, <2>8 DEF Vm
<1>3. ASSUME NEW m \in Managed, Task(m) PROVE OnceInv'
  <2>1. CASE BackgroundBegins(m)
     BY <1>a, <1>b, <1>c, <1>e, <1>g, <1>h, <1>i, Work, <2>1 DEF BackgroundBegins,
       Free, Goto, BackgroundOpens, manager, requests, links, server, OnceInv
  <2>2. CASE BackgroundConnected(m)
     BY <1>a, <1>b, <1>c, <1>e, <1>g, <1>h, <1>i, Work, <1>j, <2>2 DEF
       BackgroundConnected, Goto, Unlock, manager, requests, links, server, OnceInv,
       LockInv
  <2>3. CASE BackgroundUndone(m)
     BY <1>a, <1>b, <1>c, <1>e, <1>g, <1>h, <1>i, Work, <2>3 DEF BackgroundUndone,
       Unlock, Rest, Goto, manager, requests, links, server, OnceInv
  <2>4. CASE BackgroundFails(m)
     BY <1>a, <1>b, <1>c, <1>e, <1>g, <1>h, <1>i, Work, <2>4 DEF BackgroundFails,
       Unlock, Rest, Goto, manager, requests, links, server, OnceInv
  <2>5. CASE BackgroundForgets(m)
     BY <1>a, <1>b, <1>c, <1>e, <1>g, <1>h, <1>i, Work, <2>5 DEF BackgroundForgets,
       Goto, manager, requests, links, server, OnceInv
  <2>6. CASE Supervise(m)
     BY <1>a, <1>b, <1>c, <1>e, <1>g, <1>h, <1>i, Work, <2>6 DEF Supervise, Goto,
       Free, Reconnect, manager, requests, links, server, OnceInv
  <2>7. QED
    BY <1>3, <2>1, <2>2, <2>3, <2>4, <2>5, <2>6 DEF Task
<1>4. ASSUME NEW r \in Requester, Request(r) PROVE OnceInv'
   BY <1>0, <1>4 DEF Request, CallTool, Ask, Returns, manager, requests, links,
     server, Insert, Send, SendBreaks, Fault, Answered, Forgotten, GivesUp
<1>5. ASSUME NEW c \in Conn, ReaderEnds(c) \/ ReaderDrains(c) \/ ServerChanges(c) PROVE OnceInv'
   BY <1>0, <1>5 DEF ReaderEnds, Fault, manager, requests, links, server,
     ReaderDrains, ServerChanges
<1>6. ASSUME NEW n \in Contested, HostRegisters(n) PROVE OnceInv'
  BY <1>0, <1>6 DEF HostRegisters, manager, requests, links, server
<1>7. QED
  BY <1>1, <1>2, <1>3, <1>4, <1>5, <1>6 DEF Next

(* Each step keeps the locks.                                                *)
LEMMA HoldStep == ASSUME TypeOK, PlaceInv, ConnInv, HoldInv, LiveInv, WatchInv, Next
                PROVE HoldInv'
BY HoldParts, HoldPartsNext, LockStep, PartStep, OnceStep

(* Closing, and the locks of the bridges.                                    *)
OverInv == \A c \in Conn : reader[c] \in {"ended", "over"} => closed[c]
DropInv == \A a \in Actor : pc[a] = "drop" => closed[conn[a]]
SyncInv == \A c \in Conn, a \in Actor : sync[c] = a <=> conn[a] = c /\ pc[a] \in Bridging

(* The parts of CloseInv.                                                    *)
LEMMA CloseParts == CloseInv <=> OverInv /\ DropInv /\ SyncInv
BY DEF CloseInv, OverInv, DropInv, SyncInv

(* So they are after a step.                                                 *)
LEMMA ClosePartsNext == CloseInv' <=> OverInv' /\ DropInv' /\ SyncInv'
BY DEF CloseInv, OverInv, DropInv, SyncInv

(* The reader's end closes the connection.                                   *)
LEMMA OverStep ==
  ASSUME TypeOK, PlaceInv, ConnInv, HoldInv, WatchInv, DropInv, OverInv, Next
  PROVE  OverInv'
<1>0. UNCHANGED <<closed, reader>> => OverInv'
  BY DEF OverInv
<1> USE DEF Names, Posts, Kinds, Watches, Quiet
<1>a. Names
  BY Scene
<1>b. Posts
  BY Scene
<1>c. Kinds
  BY Scene
<1>d. Watches
  BY Scene
<1>e. Quiet
  BY Scene
<1>f. VmConnects => opened + 1 \in Managed /\ opened + 1 > opened
  BY McpBounds DEF VmConnects, TypeOK, Managed
<1>j. /\ reader \in [Conn -> {"none", "reading", "ended", "over"}]
      /\ closed \in [Conn -> BOOLEAN] /\ sync \in [Conn -> Actor \cup {Nobody}]
      /\ Nobody \notin Actor
  BY Actors DEF TypeOK
<1> USE DEF Numbered, Given, Tasks
<1>g. Numbered
  BY Goods
<1>h. Given
  BY Goods
<1>i. Tasks
  BY Goods
<1>1. ASSUME NEW a \in Actor, Shared(a) PROVE OverInv'
  <2>1. CASE Connect(a)
    <3>0. UNCHANGED <<closed>>
      BY <2>1 DEF Connect, links
    <3>1. CASE Failing(a)
      BY <1>a, <1>g, <3>0, <3>1 DEF Failing, OverInv
    <3>2. ASSUME NEW d \in Conn, Making(a, d) PROVE OverInv'
      BY <1>a, <1>g, <3>0, <3>2 DEF Making, OverInv
    <3>3. QED
      BY <2>1, <3>1, <3>2, Handshake
  <2>2. CASE Close(a)
     BY <1>a, <1>b, <1>c, <1>h, <1>i, <1>j, <2>2 DEF Close, Goto, manager, requests,
       links, server, OverInv
  <2>3. CASE Drop(a)
     BY <1>a, <1>b, <1>c, <1>h, <1>i, <1>j, <2>3 DEF Drop, Drops, AfterDrop, Rest,
       Goto, manager, requests, links, server, OverInv, DropInv
   <2>4. CASE BridgeBegins(a) \/ BridgeListed(a) \/ BridgeChecks(a) \/
     BridgeInstalls(a) \/ Watch(a) \/ Wakes(a) \/ Reconnected(a) \/ ReconnectFails(a)
     BY <1>0, <2>4 DEF BridgeBegins, Ask, Returns, Goto, manager, requests, links,
       server, BridgeListed, BridgeFails, Forget, BridgeChecks, BridgeInstalls, Watch,
       Wakes, Reconnected, Rest, Unlock, Home, ReconnectFails
  <2>5. QED
    BY <1>1, <2>1, <2>2, <2>3, <2>4 DEF Shared
<1>2. CASE Vm \/ VmConnects \/ VmDisconnects \/ VmReconnects
   BY <1>0, <1>2 DEF Vm, VmConnects, Resting, manager, requests, links, server,
     VmConnected, VmDisconnects, Goto, VmTakes, Free, VmDisconnected, Unlock, Rest,
     VmReconnects, VmRetakes, Reconnect, VmConnectFails
<1>3. ASSUME NEW m \in Managed, Task(m) PROVE OverInv'
   BY <1>0, <1>3 DEF Task, BackgroundBegins, Free, Goto, BackgroundOpens, manager,
     requests, links, server, BackgroundConnected, Unlock, BackgroundUndone, Rest,
     BackgroundFails, BackgroundForgets, Supervise, Reconnect
<1>4. ASSUME NEW r \in Requester, Request(r) PROVE OverInv'
  <2>1. CASE SendBreaks(r)
     BY <1>a, <1>b, <1>c, <1>h, <1>i, <1>j, <2>1 DEF SendBreaks, Returns, Fault,
       manager, requests, links, server, OverInv
   <2>2. CASE CallTool(r) \/ Insert(r) \/ Send(r) \/ Answered(r) \/ Forgotten(r) \/
     GivesUp(r)
     BY <1>0, <2>2 DEF CallTool, Ask, Returns, manager, requests, links, server,
       Insert, Send, Answered, Fault, Forgotten, GivesUp
  <2>3. QED
    BY <1>4, <2>1, <2>2 DEF Request
<1>5. ASSUME NEW c \in Conn, ReaderEnds(c) \/ ReaderDrains(c) \/ ServerChanges(c) PROVE OverInv'
  <2>1. CASE ReaderEnds(c)
     BY <1>a, <1>b, <1>c, <1>h, <1>i, <1>j, <2>1 DEF ReaderEnds, Fault, manager,
       requests, links, server, OverInv
  <2>2. CASE ReaderDrains(c)
     BY <1>a, <1>b, <1>c, <1>h, <1>i, <1>j, <2>2 DEF ReaderDrains, manager, requests,
       links, server, OverInv
  <2>3. CASE ServerChanges(c)
    BY <1>0, <2>3 DEF ServerChanges, manager, requests, links, server
  <2>4. QED
    BY <1>5, <2>1, <2>2, <2>3
<1>6. ASSUME NEW n \in Contested, HostRegisters(n) PROVE OverInv'
  BY <1>0, <1>6 DEF HostRegisters, manager, requests, links, server
<1>7. QED
  BY <1>1, <1>2, <1>3, <1>4, <1>5, <1>6 DEF Next

(* A connection is closed before it is dropped.                              *)
LEMMA DropStep ==
  ASSUME TypeOK, PlaceInv, ConnInv, HoldInv, WatchInv, DropInv, Next
  PROVE  DropInv'
<1>0. UNCHANGED <<closed, conn, pc>> => DropInv'
  BY DEF DropInv
<1> USE DEF Names, Posts, Kinds, Watches, Quiet
<1>a. Names
  BY Scene
<1>b. Posts
  BY Scene
<1>c. Kinds
  BY Scene
<1>d. Watches
  BY Scene
<1>e. Quiet
  BY Scene
<1>f. VmConnects => opened + 1 \in Managed /\ opened + 1 > opened
  BY McpBounds DEF VmConnects, TypeOK, Managed
<1>j. /\ reader \in [Conn -> {"none", "reading", "ended", "over"}]
      /\ closed \in [Conn -> BOOLEAN] /\ sync \in [Conn -> Actor \cup {Nobody}]
      /\ Nobody \notin Actor
  BY Actors DEF TypeOK
<1> USE DEF Numbered, Given, Tasks
<1>g. Numbered
  BY Goods
<1>h. Given
  BY Goods
<1>i. Tasks
  BY Goods
<1>1. ASSUME NEW a \in Actor, Shared(a) PROVE DropInv'
  <2>1. CASE Connect(a)
    <3>0. UNCHANGED <<closed>>
      BY <2>1 DEF Connect, links
    <3>1. CASE Failing(a)
      BY <1>a, <1>g, <3>0, <3>1 DEF Failing, DropInv
    <3>2. ASSUME NEW d \in Conn, Making(a, d) PROVE DropInv'
      BY <1>a, <1>g, <3>0, <3>2 DEF Making, DropInv
    <3>3. QED
      BY <2>1, <3>1, <3>2, Handshake
  <2>2. CASE BridgeBegins(a)
     BY <1>a, <1>b, <1>c, <1>h, <1>i, <1>j, <2>2 DEF BridgeBegins, Ask, Returns, Goto,
       manager, requests, links, server, DropInv
  <2>3. CASE BridgeListed(a)
     BY <1>a, <1>b, <1>c, <1>h, <1>i, <1>j, <2>3 DEF BridgeListed, BridgeFails,
       Forget, Goto, manager, requests, links, server, DropInv
  <2>4. CASE BridgeChecks(a)
     BY <1>a, <1>b, <1>c, <1>h, <1>i, <1>j, <2>4 DEF BridgeChecks, BridgeFails,
       Forget, Goto, manager, requests, links, server, DropInv
  <2>5. CASE BridgeInstalls(a)
     BY <1>a, <1>b, <1>c, <1>h, <1>i, <1>j, <2>5 DEF BridgeInstalls, BridgeFails,
       Forget, Goto, manager, requests, links, server, DropInv
  <2>6. CASE Watch(a)
    <3>0. UNCHANGED <<closed>>
      BY <2>6 DEF Watch, links
    <3>1. PICK d \in Conn, w \in Actor : Watching(a, d, w)
      BY <2>6, Watched
    <3>2. QED
      BY <1>a, <3>0, <3>1 DEF Watching, DropInv
  <2>7. CASE Wakes(a)
     BY <1>a, <1>b, <1>c, <1>h, <1>i, <1>j, <2>7 DEF Wakes, Goto, manager, requests,
       links, server, DropInv
  <2>8. CASE Close(a)
     BY <1>a, <1>b, <1>c, <1>h, <1>i, <1>j, <2>8 DEF Close, Goto, manager, requests,
       links, server, DropInv
  <2>9. CASE Drop(a)
     BY <1>a, <1>b, <1>c, <1>h, <1>i, <1>j, <2>9 DEF Drop, Drops, AfterDrop, Rest,
       Goto, manager, requests, links, server, DropInv
  <2>10. CASE Reconnected(a)
     BY <1>a, <1>b, <1>c, <1>h, <1>i, <1>j, <2>10 DEF Reconnected, Rest, Goto, Unlock,
       Home, manager, requests, links, server, DropInv
  <2>11. CASE ReconnectFails(a)
     BY <1>a, <1>b, <1>c, <1>h, <1>i, <1>j, <2>11 DEF ReconnectFails, Rest, Goto,
       Unlock, Home, manager, requests, links, server, DropInv
  <2>12. QED
     BY <1>1, <2>1, <2>2, <2>3, <2>4, <2>5, <2>6, <2>7, <2>8, <2>9, <2>10, <2>11 DEF
       Shared
<1>2. CASE Vm \/ VmConnects \/ VmDisconnects \/ VmReconnects
  <2>1. CASE VmConnects
     BY <1>a, <1>b, <1>c, <1>h, <1>i, <1>j, <2>1 DEF VmConnects, Resting, manager,
       requests, links, server, DropInv
  <2>2. CASE VmConnected
     BY <1>a, <1>b, <1>c, <1>h, <1>i, <1>j, <2>2 DEF VmConnected, manager, requests,
       links, server, DropInv
  <2>3. CASE VmDisconnects
     BY <1>a, <1>b, <1>c, <1>h, <1>i, <1>j, <2>3 DEF VmDisconnects, Resting, Goto,
       manager, requests, links, server, DropInv
  <2>4. CASE VmTakes
     BY <1>a, <1>b, <1>c, <1>h, <1>i, <1>j, <2>4 DEF VmTakes, Free, Goto, manager,
       requests, links, server, DropInv
  <2>5. CASE VmDisconnected
     BY <1>a, <1>b, <1>c, <1>h, <1>i, <1>j, <2>5 DEF VmDisconnected, Unlock, Rest,
       Goto, manager, requests, links, server, DropInv
  <2>6. CASE VmReconnects
     BY <1>a, <1>b, <1>c, <1>h, <1>i, <1>j, <2>6 DEF VmReconnects, Resting, Goto,
       manager, requests, links, server, DropInv
  <2>7. CASE VmRetakes
     BY <1>a, <1>b, <1>c, <1>h, <1>i, <1>j, <2>7 DEF VmRetakes, Free, Goto, Reconnect,
       manager, requests, links, server, DropInv
  <2>8. CASE VmConnectFails
     BY <1>a, <1>b, <1>c, <1>h, <1>i, <1>j, <2>8 DEF VmConnectFails, Rest, Goto,
       manager, requests, links, server, DropInv
  <2>9. QED
    BY <1>2, <2>1, <2>2, <2>3, <2>4, <2>5, <2>6, <2>7, <2>8 DEF Vm
<1>3. ASSUME NEW m \in Managed, Task(m) PROVE DropInv'
  <2>1. CASE BackgroundBegins(m)
     BY <1>a, <1>b, <1>c, <1>h, <1>i, <1>j, <2>1 DEF BackgroundBegins, Free, Goto,
       BackgroundOpens, manager, requests, links, server, DropInv
  <2>2. CASE BackgroundConnected(m)
     BY <1>a, <1>b, <1>c, <1>h, <1>i, <1>j, <2>2 DEF BackgroundConnected, Goto,
       Unlock, manager, requests, links, server, DropInv
  <2>3. CASE BackgroundUndone(m)
     BY <1>a, <1>b, <1>c, <1>h, <1>i, <1>j, <2>3 DEF BackgroundUndone, Unlock, Rest,
       Goto, manager, requests, links, server, DropInv
  <2>4. CASE BackgroundFails(m)
     BY <1>a, <1>b, <1>c, <1>h, <1>i, <1>j, <2>4 DEF BackgroundFails, Unlock, Rest,
       Goto, manager, requests, links, server, DropInv
  <2>5. CASE BackgroundForgets(m)
     BY <1>a, <1>b, <1>c, <1>h, <1>i, <1>j, <2>5 DEF BackgroundForgets, Goto, manager,
       requests, links, server, DropInv
  <2>6. CASE Supervise(m)
     BY <1>a, <1>b, <1>c, <1>h, <1>i, <1>j, <2>6 DEF Supervise, Goto, Free, Reconnect,
       manager, requests, links, server, DropInv
  <2>7. QED
    BY <1>3, <2>1, <2>2, <2>3, <2>4, <2>5, <2>6 DEF Task
<1>4. ASSUME NEW r \in Requester, Request(r) PROVE DropInv'
  <2>1. CASE CallTool(r)
     BY <1>a, <1>b, <1>c, <1>h, <1>i, <1>j, <2>1 DEF CallTool, Ask, Returns, manager,
       requests, links, server, DropInv
  <2>2. CASE SendBreaks(r)
     BY <1>a, <1>b, <1>c, <1>h, <1>i, <1>j, <2>2 DEF SendBreaks, Returns, Fault,
       manager, requests, links, server, DropInv
  <2>3. CASE Insert(r) \/ Send(r) \/ Answered(r) \/ Forgotten(r) \/ GivesUp(r)
     BY <1>0, <2>3 DEF Insert, manager, requests, links, server, Send, Returns,
       Answered, Fault, Forgotten, GivesUp
  <2>4. QED
    BY <1>4, <2>1, <2>2, <2>3 DEF Request
<1>5. ASSUME NEW c \in Conn, ReaderEnds(c) \/ ReaderDrains(c) \/ ServerChanges(c) PROVE DropInv'
  <2>1. CASE ReaderEnds(c)
     BY <1>a, <1>b, <1>c, <1>h, <1>i, <1>j, <2>1 DEF ReaderEnds, Fault, manager,
       requests, links, server, DropInv
  <2>2. CASE ReaderDrains(c) \/ ServerChanges(c)
    BY <1>0, <2>2 DEF ReaderDrains, manager, requests, links, server, ServerChanges
  <2>3. QED
    BY <1>5, <2>1, <2>2
<1>6. ASSUME NEW n \in Contested, HostRegisters(n) PROVE DropInv'
  BY <1>0, <1>6 DEF HostRegisters, manager, requests, links, server
<1>7. QED
  BY <1>1, <1>2, <1>3, <1>4, <1>5, <1>6 DEF Next

(* Who looks at the tools has the sync lock.                                 *)
LEMMA SyncStep ==
  ASSUME TypeOK, PlaceInv, ConnInv, HoldInv, WatchInv, SyncInv, Next
  PROVE  SyncInv'
<1>0. UNCHANGED <<conn, pc, sync>> => SyncInv'
  BY DEF SyncInv, Bridging
<1> USE DEF Names, Posts, Kinds, Watches, Quiet
<1>a. Names
  BY Scene
<1>b. Posts
  BY Scene
<1>c. Kinds
  BY Scene
<1>d. Watches
  BY Scene
<1>e. Quiet
  BY Scene
<1>f. VmConnects => opened + 1 \in Managed /\ opened + 1 > opened
  BY McpBounds DEF VmConnects, TypeOK, Managed
<1>j. /\ reader \in [Conn -> {"none", "reading", "ended", "over"}]
      /\ closed \in [Conn -> BOOLEAN] /\ sync \in [Conn -> Actor \cup {Nobody}]
      /\ Nobody \notin Actor
  BY Actors DEF TypeOK
<1> USE DEF Numbered, Given, Tasks
<1>g. Numbered
  BY Goods
<1>h. Given
  BY Goods
<1>i. Tasks
  BY Goods
<1>1. ASSUME NEW a \in Actor, Shared(a) PROVE SyncInv'
  <2>1. CASE Connect(a)
    <3>0. UNCHANGED <<sync>>
      BY <2>1 DEF Connect
    <3>1. CASE Failing(a)
      BY <1>a, <1>g, <3>0, <3>1 DEF Failing, SyncInv, Bridging
    <3>2. ASSUME NEW d \in Conn, Making(a, d) PROVE SyncInv'
      BY <1>a, <1>g, <3>0, <3>2 DEF Making, SyncInv, Bridging
    <3>3. QED
      BY <2>1, <3>1, <3>2, Handshake
  <2>2. CASE BridgeBegins(a)
     BY <1>a, <1>b, <1>c, <1>h, <1>i, <1>j, <2>2 DEF BridgeBegins, Ask, Returns, Goto,
       manager, requests, links, server, SyncInv, Bridging
  <2>3. CASE BridgeListed(a)
     BY <1>a, <1>b, <1>c, <1>h, <1>i, <1>j, <2>3 DEF BridgeListed, BridgeFails,
       Forget, Goto, manager, requests, links, server, SyncInv, Bridging
  <2>4. CASE BridgeChecks(a)
     BY <1>a, <1>b, <1>c, <1>h, <1>i, <1>j, <2>4 DEF BridgeChecks, BridgeFails,
       Forget, Goto, manager, requests, links, server, SyncInv, Bridging
  <2>5. CASE BridgeInstalls(a)
     BY <1>a, <1>b, <1>c, <1>h, <1>i, <1>j, <2>5 DEF BridgeInstalls, BridgeFails,
       Forget, Goto, manager, requests, links, server, SyncInv, Bridging
  <2>6. CASE Watch(a)
    <3>0. UNCHANGED <<sync>>
      BY <2>6 DEF Watch
    <3>1. PICK d \in Conn, w \in Actor : Watching(a, d, w)
      BY <2>6, Watched
    <3>2. QED
      BY <1>a, <3>0, <3>1 DEF Bridging, Watching, SyncInv
  <2>7. CASE Wakes(a)
     BY <1>a, <1>b, <1>c, <1>h, <1>i, <1>j, <2>7 DEF Wakes, Goto, manager, requests,
       links, server, SyncInv, Bridging
  <2>8. CASE Close(a)
     BY <1>a, <1>b, <1>c, <1>h, <1>i, <1>j, <2>8 DEF Close, Goto, manager, requests,
       links, server, SyncInv, Bridging
  <2>9. CASE Drop(a)
     BY <1>a, <1>b, <1>c, <1>h, <1>i, <1>j, <2>9 DEF Drop, Drops, AfterDrop, Rest,
       Goto, manager, requests, links, server, SyncInv, Bridging
  <2>10. CASE Reconnected(a)
     BY <1>a, <1>b, <1>c, <1>h, <1>i, <1>j, <2>10 DEF Reconnected, Rest, Goto, Unlock,
       Home, manager, requests, links, server, SyncInv, Bridging
  <2>11. CASE ReconnectFails(a)
     BY <1>a, <1>b, <1>c, <1>h, <1>i, <1>j, <2>11 DEF ReconnectFails, Rest, Goto,
       Unlock, Home, manager, requests, links, server, SyncInv, Bridging
  <2>12. QED
     BY <1>1, <2>1, <2>2, <2>3, <2>4, <2>5, <2>6, <2>7, <2>8, <2>9, <2>10, <2>11 DEF
       Shared
<1>2. CASE Vm \/ VmConnects \/ VmDisconnects \/ VmReconnects
  <2>1. CASE VmConnects
     BY <1>a, <1>b, <1>c, <1>h, <1>i, <1>j, <1>e, <1>f, <2>1 DEF VmConnects, Resting,
       manager, requests, links, server, SyncInv, Bridging
  <2>2. CASE VmConnected
     BY <1>a, <1>b, <1>c, <1>h, <1>i, <1>j, <1>e, <2>2 DEF VmConnected, manager,
       requests, links, server, SyncInv, Bridging
  <2>3. CASE VmDisconnects
     BY <1>a, <1>b, <1>c, <1>h, <1>i, <1>j, <2>3 DEF VmDisconnects, Resting, Goto,
       manager, requests, links, server, SyncInv, Bridging
  <2>4. CASE VmTakes
     BY <1>a, <1>b, <1>c, <1>h, <1>i, <1>j, <2>4 DEF VmTakes, Free, Goto, manager,
       requests, links, server, SyncInv, Bridging
  <2>5. CASE VmDisconnected
     BY <1>a, <1>b, <1>c, <1>h, <1>i, <1>j, <2>5 DEF VmDisconnected, Unlock, Rest,
       Goto, manager, requests, links, server, SyncInv, Bridging
  <2>6. CASE VmReconnects
     BY <1>a, <1>b, <1>c, <1>h, <1>i, <1>j, <2>6 DEF VmReconnects, Resting, Goto,
       manager, requests, links, server, SyncInv, Bridging
  <2>7. CASE VmRetakes
     BY <1>a, <1>b, <1>c, <1>h, <1>i, <1>j, <2>7 DEF VmRetakes, Free, Goto, Reconnect,
       manager, requests, links, server, SyncInv, Bridging
  <2>8. CASE VmConnectFails
     BY <1>a, <1>b, <1>c, <1>h, <1>i, <1>j, <2>8 DEF VmConnectFails, Rest, Goto,
       manager, requests, links, server, SyncInv, Bridging
  <2>9. QED
    BY <1>2, <2>1, <2>2, <2>3, <2>4, <2>5, <2>6, <2>7, <2>8 DEF Vm
<1>3. ASSUME NEW m \in Managed, Task(m) PROVE SyncInv'
  <2>1. CASE BackgroundBegins(m)
     BY <1>a, <1>b, <1>c, <1>h, <1>i, <1>j, <2>1 DEF BackgroundBegins, Free, Goto,
       BackgroundOpens, manager, requests, links, server, SyncInv, Bridging
  <2>2. CASE BackgroundConnected(m)
     BY <1>a, <1>b, <1>c, <1>h, <1>i, <1>j, <1>e, <2>2 DEF BackgroundConnected, Goto,
       Unlock, manager, requests, links, server, SyncInv, Bridging
  <2>3. CASE BackgroundUndone(m)
     BY <1>a, <1>b, <1>c, <1>h, <1>i, <1>j, <2>3 DEF BackgroundUndone, Unlock, Rest,
       Goto, manager, requests, links, server, SyncInv, Bridging
  <2>4. CASE BackgroundFails(m)
     BY <1>a, <1>b, <1>c, <1>h, <1>i, <1>j, <2>4 DEF BackgroundFails, Unlock, Rest,
       Goto, manager, requests, links, server, SyncInv, Bridging
  <2>5. CASE BackgroundForgets(m)
     BY <1>a, <1>b, <1>c, <1>h, <1>i, <1>j, <2>5 DEF BackgroundForgets, Goto, manager,
       requests, links, server, SyncInv, Bridging
  <2>6. CASE Supervise(m)
     BY <1>a, <1>b, <1>c, <1>h, <1>i, <1>j, <2>6 DEF Supervise, Goto, Free, Reconnect,
       manager, requests, links, server, SyncInv, Bridging
  <2>7. QED
    BY <1>3, <2>1, <2>2, <2>3, <2>4, <2>5, <2>6 DEF Task
<1>4. ASSUME NEW r \in Requester, Request(r) PROVE SyncInv'
  <2>1. CASE CallTool(r)
     BY <1>a, <1>b, <1>c, <1>h, <1>i, <1>j, <2>1 DEF CallTool, Ask, Returns, manager,
       requests, links, server, SyncInv, Bridging
   <2>2. CASE Insert(r) \/ Send(r) \/ SendBreaks(r) \/ Answered(r) \/ Forgotten(r) \/
     GivesUp(r)
     BY <1>0, <2>2 DEF Insert, manager, requests, links, server, Send, Returns,
       SendBreaks, Fault, Answered, Forgotten, GivesUp
  <2>3. QED
    BY <1>4, <2>1, <2>2 DEF Request
<1>5. ASSUME NEW c \in Conn, ReaderEnds(c) \/ ReaderDrains(c) \/ ServerChanges(c) PROVE SyncInv'
   BY <1>0, <1>5 DEF ReaderEnds, Fault, manager, requests, links, server,
     ReaderDrains, ServerChanges
<1>6. ASSUME NEW n \in Contested, HostRegisters(n) PROVE SyncInv'
  BY <1>0, <1>6 DEF HostRegisters, manager, requests, links, server
<1>7. QED
  BY <1>1, <1>2, <1>3, <1>4, <1>5, <1>6 DEF Next

(* Each step keeps what closing rests on.                                    *)
LEMMA CloseStep ==
  ASSUME TypeOK, PlaceInv, ConnInv, HoldInv, CloseInv, WatchInv, Next
  PROVE  CloseInv'
BY CloseParts, ClosePartsNext, OverStep, DropStep, SyncStep

(* What is cancelled.                                                        *)
CancelInv ==
    /\ map # None => ~token[map]
    /\ op[VM] \in {"open", "reconnect", "reopen"} \/ pc[VM] = "retake" => ~token[target]
    /\ op[VM] = "disconnect" \/ pc[VM] = "take" => token[target]

(* What was disconnected.                                                    *)
LeftInv == \A m \in left : token[m] /\ holder[m] = Nobody /\ slot[m] = None

(* The VM cancels what it disconnects, and works on nothing cancelled.       *)
LEMMA CancelStep ==
  ASSUME TypeOK, PlaceInv, ConnInv, HoldInv, WatchInv, LiveInv, CancelInv, Next
  PROVE  CancelInv'
<1>0. UNCHANGED <<map, op, pc, target, token>> => CancelInv'
  BY DEF CancelInv
<1> USE DEF Names, Posts, Kinds, Watches, Quiet
<1>a. Names
  BY Scene
<1>b. Posts
  BY Scene
<1>c. Kinds
  BY Scene
<1>d. Watches
  BY Scene
<1>e. Quiet
  BY Scene
<1>f. VmConnects => opened + 1 \in Managed /\ opened + 1 > opened
  BY McpBounds DEF VmConnects, TypeOK, Managed
<1>g. Roles
  BY Cast
<1>h. /\ holder \in [Managed -> Actor \cup {Nobody}]
      /\ slot \in [Managed -> Conn \cup {None}] /\ token \in [Managed -> BOOLEAN]
  BY DEF TypeOK
<1>i. /\ opened \in Nat /\ map \in Nat /\ target \in Nat /\ None = 0 /\ opened >= None
      /\ \A m \in Managed : /\ m \in Nat /\ m # None
                            /\ m > opened + 1 => m > opened /\ m # opened + 1
                            /\ m <= opened <=> ~(m > opened)
      /\ map <= opened /\ target <= opened /\ map <= opened + 1 /\ target <= opened + 1
  BY McpBounds DEF TypeOK, HoldInv, Managed, None
<1>j. /\ LockInv /\ PartInv
      /\ op[VM] \in {"open", "disconnect"} => slot[target] = None
  BY DEF HoldInv, LockInv, PartInv
<1>k. \A a \in Actor : op[a] \in {"reconnect", "reopen"} => slot[MyManaged(a)] # None
  BY StepOps, Numbers DEF LiveInv
<1> USE DEF Roles
<1>l. map \in Managed \cup {None}
  BY DEF TypeOK
<1>1. ASSUME NEW a \in Actor, Shared(a) PROVE CancelInv'
  <2>1. CASE Connect(a)
     BY <1>a, <1>b, <1>c, <1>e, <1>g, <1>h, <2>1 DEF Connect, Goto, Fault, manager,
       requests, links, server, CancelInv
  <2>2. CASE BridgeBegins(a)
     BY <1>a, <1>b, <1>c, <1>e, <1>g, <1>h, <2>2 DEF BridgeBegins, Ask, Returns, Goto,
       manager, requests, links, server, CancelInv
  <2>3. CASE BridgeListed(a)
     BY <1>a, <1>b, <1>c, <1>e, <1>g, <1>h, <2>3 DEF BridgeListed, BridgeFails,
       Forget, Goto, manager, requests, links, server, CancelInv
  <2>4. CASE BridgeChecks(a)
     BY <1>a, <1>b, <1>c, <1>e, <1>g, <1>h, <2>4 DEF BridgeChecks, BridgeFails,
       Forget, Goto, manager, requests, links, server, CancelInv
  <2>5. CASE BridgeInstalls(a)
     BY <1>a, <1>b, <1>c, <1>e, <1>g, <1>h, <2>5 DEF BridgeInstalls, BridgeFails,
       Forget, Goto, manager, requests, links, server, CancelInv
  <2>6. CASE Watch(a)
    <3>0. UNCHANGED <<map, token, target>>
      BY <2>6 DEF Watch, manager
    <3>1. PICK d \in Conn, w \in Actor : Watching(a, d, w)
      BY <2>6, Watched
    <3>2. QED
      BY <1>a, <1>b, <1>g, <3>0, <3>1 DEF Watching, CancelInv
  <2>7. CASE Wakes(a)
     BY <1>a, <1>b, <1>c, <1>e, <1>g, <1>h, <2>7 DEF Wakes, Goto, manager, requests,
       links, server, CancelInv
  <2>8. CASE Close(a)
     BY <1>a, <1>b, <1>c, <1>e, <1>g, <1>h, <2>8 DEF Close, Goto, manager, requests,
       links, server, CancelInv
  <2>9. CASE Drop(a)
     BY <1>a, <1>b, <1>c, <1>e, <1>g, <1>h, <2>9 DEF Drop, Drops, AfterDrop, Rest,
       Goto, manager, requests, links, server, CancelInv
  <2>10. CASE Reconnected(a)
     BY <1>a, <1>b, <1>c, <1>e, <1>g, <1>h, <1>i, <2>10 DEF Reconnected, Rest, Goto,
       Unlock, Home, manager, requests, links, server, CancelInv
  <2>11. CASE ReconnectFails(a)
     BY <1>a, <1>b, <1>c, <1>e, <1>g, <1>h, <1>i, <2>11 DEF ReconnectFails, Rest,
       Goto, Unlock, Home, manager, requests, links, server, CancelInv
  <2>12. QED
     BY <1>1, <2>1, <2>2, <2>3, <2>4, <2>5, <2>6, <2>7, <2>8, <2>9, <2>10, <2>11 DEF
       Shared
<1>2. CASE Vm \/ VmConnects \/ VmDisconnects \/ VmReconnects
  <2>1. CASE VmConnects
    <3>1. /\ token' = token /\ pc[VM] = "off" /\ op[VM] = "none" /\ ~token[opened + 1]
      BY <1>a, <1>b, <1>f, <1>j, <2>1 DEF VmConnects, Resting, PartInv
    <3>2. \/ target' = opened + 1 /\ map' = map
          \/ /\ target' = target /\ map' = opened + 1 /\ op' = op
             /\ pc' = [pc EXCEPT ![Background(opened + 1)] = "queued"]
      BY <2>1 DEF VmConnects
    <3>3. \/ /\ target' = opened + 1 /\ map' = map /\ op'[VM] = "open" /\ pc'[VM] = "connect"
          \/ /\ target' = target /\ map' = opened + 1 /\ op'[VM] = "none" /\ pc'[VM] = "off"
      BY <1>a, <1>c, <1>f, <3>1, <2>1 DEF VmConnects
    <3>4. QED
      BY <3>1, <3>3 DEF CancelInv
  <2>2. CASE VmConnected
     BY <1>a, <1>b, <1>c, <1>e, <1>g, <1>h, <2>2 DEF VmConnected, manager, requests,
       links, server, CancelInv
  <2>3. CASE VmDisconnects
     BY <1>a, <1>b, <1>c, <1>e, <1>g, <1>h, <1>l, <2>3 DEF VmDisconnects, Resting,
       Goto, manager, requests, links, server, CancelInv
  <2>4. CASE VmTakes
     BY <1>a, <1>b, <1>c, <1>e, <1>g, <1>h, <2>4 DEF VmTakes, Free, Goto, manager,
       requests, links, server, CancelInv
  <2>5. CASE VmDisconnected
     BY <1>a, <1>b, <1>c, <1>e, <1>g, <1>h, <2>5 DEF VmDisconnected, Unlock, Rest,
       Goto, manager, requests, links, server, CancelInv
  <2>6. CASE VmReconnects
     BY <1>a, <1>b, <1>c, <1>e, <1>g, <1>h, <2>6 DEF VmReconnects, Resting, Goto,
       manager, requests, links, server, CancelInv
  <2>7. CASE VmRetakes
     BY <1>a, <1>b, <1>c, <1>e, <1>g, <1>h, <2>7 DEF VmRetakes, Free, Goto, Reconnect,
       manager, requests, links, server, CancelInv
  <2>8. CASE VmConnectFails
     BY <1>a, <1>b, <1>c, <1>e, <1>g, <1>h, <2>8 DEF VmConnectFails, Rest, Goto,
       manager, requests, links, server, CancelInv
  <2>9. QED
    BY <1>2, <2>1, <2>2, <2>3, <2>4, <2>5, <2>6, <2>7, <2>8 DEF Vm
<1>3. ASSUME NEW m \in Managed, Task(m) PROVE CancelInv'
  <2>1. CASE BackgroundBegins(m)
     BY <1>a, <1>b, <1>c, <1>e, <1>g, <1>h, <2>1 DEF BackgroundBegins, Free, Goto,
       BackgroundOpens, manager, requests, links, server, CancelInv
  <2>2. CASE BackgroundConnected(m)
     BY <1>a, <1>b, <1>c, <1>e, <1>g, <1>h, <2>2 DEF BackgroundConnected, Goto,
       Unlock, manager, requests, links, server, CancelInv
  <2>3. CASE BackgroundUndone(m)
     BY <1>a, <1>b, <1>c, <1>e, <1>g, <1>h, <2>3 DEF BackgroundUndone, Unlock, Rest,
       Goto, manager, requests, links, server, CancelInv
  <2>4. CASE BackgroundFails(m)
     BY <1>a, <1>b, <1>c, <1>e, <1>g, <1>h, <2>4 DEF BackgroundFails, Unlock, Rest,
       Goto, manager, requests, links, server, CancelInv
  <2>5. CASE BackgroundForgets(m)
     BY <1>a, <1>b, <1>c, <1>e, <1>g, <1>h, <2>5 DEF BackgroundForgets, Goto, manager,
       requests, links, server, CancelInv
  <2>6. CASE Supervise(m)
     BY <1>a, <1>b, <1>c, <1>e, <1>g, <1>h, <2>6 DEF Supervise, Goto, Free, Reconnect,
       manager, requests, links, server, CancelInv
  <2>7. QED
    BY <1>3, <2>1, <2>2, <2>3, <2>4, <2>5, <2>6 DEF Task
<1>4. ASSUME NEW r \in Requester, Request(r) PROVE CancelInv'
   BY <1>0, <1>4 DEF Request, CallTool, Ask, Returns, manager, requests, links,
     server, Insert, Send, SendBreaks, Fault, Answered, Forgotten, GivesUp
<1>5. ASSUME NEW c \in Conn, ReaderEnds(c) \/ ReaderDrains(c) \/ ServerChanges(c) PROVE CancelInv'
   BY <1>0, <1>5 DEF ReaderEnds, Fault, manager, requests, links, server,
     ReaderDrains, ServerChanges
<1>6. ASSUME NEW n \in Contested, HostRegisters(n) PROVE CancelInv'
  BY <1>0, <1>6 DEF HostRegisters, manager, requests, links, server
<1>7. QED
  BY <1>1, <1>2, <1>3, <1>4, <1>5, <1>6 DEF Next

(* Nobody takes up what was disconnected.                                    *)
LEMMA LeftStep ==
  ASSUME TypeOK, PlaceInv, ConnInv, HoldInv, WatchInv, LiveInv, TokenInv, LeftInv, Next
  PROVE  LeftInv'
<1>0. UNCHANGED <<holder, left, slot, token>> => LeftInv'
  BY DEF LeftInv
<1> USE DEF Names, Posts, Kinds, Watches, Quiet
<1>a. Names
  BY Scene
<1>b. Posts
  BY Scene
<1>c. Kinds
  BY Scene
<1>d. Watches
  BY Scene
<1>e. Quiet
  BY Scene
<1>f. VmConnects => opened + 1 \in Managed /\ opened + 1 > opened
  BY McpBounds DEF VmConnects, TypeOK, Managed
<1>g. Roles
  BY Cast
<1>h. /\ holder \in [Managed -> Actor \cup {Nobody}]
      /\ slot \in [Managed -> Conn \cup {None}] /\ token \in [Managed -> BOOLEAN]
  BY DEF TypeOK
<1>i. /\ opened \in Nat /\ map \in Nat /\ target \in Nat /\ None = 0 /\ opened >= None
      /\ \A m \in Managed : /\ m \in Nat /\ m # None
                            /\ m > opened + 1 => m > opened /\ m # opened + 1
                            /\ m <= opened <=> ~(m > opened)
      /\ map <= opened /\ target <= opened /\ map <= opened + 1 /\ target <= opened + 1
  BY McpBounds DEF TypeOK, HoldInv, Managed, None
<1>j. /\ LockInv /\ PartInv
      /\ op[VM] \in {"open", "disconnect"} => slot[target] = None
  BY DEF HoldInv, LockInv, PartInv
<1>k. \A a \in Actor : op[a] \in {"reconnect", "reopen"} => slot[MyManaged(a)] # None
  BY StepOps, Numbers DEF LiveInv
<1> USE DEF Roles
<1>l. CancelInv /\ VM \in Actor /\ OnceInv /\ left \subseteq Managed
  BY Actors, HoldParts DEF TokenInv, CancelInv, TypeOK
<1>1. ASSUME NEW a \in Actor, Shared(a) PROVE LeftInv'
  <2>1. CASE Reconnected(a)
     BY <1>g, <1>h, <1>l, Work, <1>b, <1>j, Places, <2>1 DEF Reconnected, Rest, Goto,
       Unlock, Home, manager, requests, links, server, LeftInv, LockInv
  <2>2. CASE ReconnectFails(a)
     BY <1>g, <1>h, <1>l, Work, <2>2 DEF ReconnectFails, Rest, Goto, Unlock, Home,
       manager, requests, links, server, LeftInv
   <2>3. CASE Connect(a) \/ BridgeBegins(a) \/ BridgeListed(a) \/ BridgeChecks(a) \/
     BridgeInstalls(a) \/ Watch(a) \/ Wakes(a) \/ Close(a) \/ Drop(a)
     BY <1>0, <2>3 DEF Connect, Goto, Fault, manager, requests, links, server,
       BridgeBegins, Ask, Returns, BridgeListed, BridgeFails, Forget, BridgeChecks,
       BridgeInstalls, Watch, Wakes, Close, Drop, Drops, AfterDrop, Rest
  <2>4. QED
    BY <1>1, <2>1, <2>2, <2>3 DEF Shared
<1>2. CASE Vm \/ VmConnects \/ VmDisconnects \/ VmReconnects
  <2>1. CASE VmConnected
     BY <1>g, <1>h, <1>l, Work, <1>e, <2>1 DEF VmConnected, manager, requests, links,
       server, LeftInv, CancelInv
  <2>2. CASE VmDisconnects
     BY <1>g, <1>h, <1>l, Work, <2>2 DEF VmDisconnects, Resting, Goto, manager,
       requests, links, server, LeftInv, CancelInv
  <2>3. CASE VmTakes
     BY <1>g, <1>h, <1>l, Work, <1>e, <2>3 DEF VmTakes, Free, Goto, manager, requests,
       links, server, LeftInv, CancelInv
  <2>4. CASE VmDisconnected
     BY <1>g, <1>h, <1>l, Work, <1>b, <1>j, <1>e, <2>4 DEF VmDisconnected, Unlock,
       Rest, Goto, manager, requests, links, server, LeftInv, OnceInv, CancelInv
  <2>5. CASE VmRetakes
     BY <1>g, <1>h, <1>l, Work, <1>e, <2>5 DEF VmRetakes, Free, Goto, Reconnect,
       manager, requests, links, server, LeftInv, CancelInv
  <2>6. CASE VmConnects \/ VmReconnects \/ VmConnectFails
     BY <1>0, <2>6 DEF VmConnects, Resting, manager, requests, links, server,
       VmReconnects, Goto, VmConnectFails, Rest
  <2>7. QED
    BY <1>2, <2>1, <2>2, <2>3, <2>4, <2>5, <2>6 DEF Vm
<1>3. ASSUME NEW m \in Managed, Task(m) PROVE LeftInv'
  <2>1. CASE BackgroundBegins(m)
     BY <1>g, <1>h, <1>l, Work, <2>1 DEF BackgroundBegins, Free, Goto,
       BackgroundOpens, manager, requests, links, server, LeftInv
  <2>2. CASE BackgroundConnected(m)
     BY <1>g, <1>h, <1>l, Work, <1>b, <1>j, Places, <2>2 DEF BackgroundConnected,
       Goto, Unlock, manager, requests, links, server, LeftInv, LockInv
  <2>3. CASE BackgroundUndone(m)
     BY <1>g, <1>h, <1>l, Work, <1>e, <2>3 DEF BackgroundUndone, Unlock, Rest, Goto,
       manager, requests, links, server, LeftInv
  <2>4. CASE BackgroundFails(m)
     BY <1>g, <1>h, <1>l, Work, <2>4 DEF BackgroundFails, Unlock, Rest, Goto, manager,
       requests, links, server, LeftInv
  <2>5. CASE Supervise(m)
     BY <1>g, <1>h, <1>l, Work, <2>5 DEF Supervise, Goto, Free, Reconnect, manager,
       requests, links, server, LeftInv
  <2>6. CASE BackgroundForgets(m)
    BY <1>0, <2>6 DEF BackgroundForgets, Goto, manager, requests, links, server
  <2>7. QED
    BY <1>3, <2>1, <2>2, <2>3, <2>4, <2>5, <2>6 DEF Task
<1>4. ASSUME NEW r \in Requester, Request(r) PROVE LeftInv'
   BY <1>0, <1>4 DEF Request, CallTool, Ask, Returns, manager, requests, links,
     server, Insert, Send, SendBreaks, Fault, Answered, Forgotten, GivesUp
<1>5. ASSUME NEW c \in Conn, ReaderEnds(c) \/ ReaderDrains(c) \/ ServerChanges(c) PROVE LeftInv'
   BY <1>0, <1>5 DEF ReaderEnds, Fault, manager, requests, links, server,
     ReaderDrains, ServerChanges
<1>6. ASSUME NEW n \in Contested, HostRegisters(n) PROVE LeftInv'
  BY <1>0, <1>6 DEF HostRegisters, manager, requests, links, server
<1>7. QED
  BY <1>1, <1>2, <1>3, <1>4, <1>5, <1>6 DEF Next

(* Each step keeps what was cancelled cancelled.                             *)
LEMMA TokenStep ==
  ASSUME TypeOK, PlaceInv, ConnInv, HoldInv, TokenInv, LiveInv, WatchInv, Next
  PROVE  TokenInv'
<1>1. CancelInv /\ LeftInv
  BY DEF TokenInv, CancelInv, LeftInv
<1>2. CancelInv' /\ LeftInv'
  BY <1>1, CancelStep, LeftStep
<1>3. QED
  BY <1>2 DEF TokenInv, CancelInv, LeftInv

(* Connections that are gone.                                                *)
Buried == {c \in Conn : Gone(c)}
Dead(c) == closed[c] /\ ~child[c]
Bare(c) == \A n \in Tool : owner[n] # c
Told(c) == \A a \in Actor : sync[c] = a => pc[a] = "answer" /\ stage[a] = "none"
                                           /\ answer[a] = Failed

(* What it is to be gone.                                                    *)
LEMMA GoneParts ==
  ASSUME TypeOK, NEW c \in Conn PROVE Gone(c) <=> Dead(c) /\ Bare(c) /\ Told(c)
BY Actors DEF Gone, Dead, Bare, Told, Shown, TypeOK

(* So it is after a step.                                                    *)
LEMMA GonePartsNext ==
  ASSUME TypeOK', NEW c \in Conn PROVE Gone(c)' <=> Dead(c)' /\ Bare(c)' /\ Told(c)'
BY Actors DEF Gone, Dead, Bare, Told, Shown, TypeOK

(* A connection that was closed, and whose process ended, stays so.          *)
LEMMA DeadStays ==
  ASSUME TypeOK, PlaceInv, ConnInv, HoldInv, WatchInv, NEW g \in Conn, g <= made, Dead(g), Next
  PROVE  Dead(g)'
<1>0. UNCHANGED <<child, closed>> => Dead(g)'
  BY DEF Dead
<1> USE DEF Names, Posts, Kinds, Watches, Quiet
<1>a. Names
  BY Scene
<1>b. Posts
  BY Scene
<1>c. Kinds
  BY Scene
<1>d. Watches
  BY Scene
<1>e. Quiet
  BY Scene
<1>f. VmConnects => opened + 1 \in Managed /\ opened + 1 > opened
  BY McpBounds DEF VmConnects, TypeOK, Managed
<1>j. /\ child \in [Conn -> BOOLEAN] /\ closed \in [Conn -> BOOLEAN]
      /\ owner \in [Tool -> Conn \cup {None, Host}]
      /\ sync \in [Conn -> Actor \cup {Nobody}] /\ Nobody \notin Actor
      /\ answer \in [Requester -> (SUBSET Tool) \cup {Failed}]
  BY Actors DEF TypeOK
<1> USE DEF Numbered, Given, Tasks
<1>g. Numbered
  BY Goods
<1>h. Given
  BY Goods
<1>i. Tasks
  BY Goods
<1>1. ASSUME NEW a \in Actor, Shared(a) PROVE Dead(g)'
  <2>1. CASE Connect(a)
    <3>0. UNCHANGED <<closed>>
      BY <2>1 DEF Connect, links
    <3>1. CASE Failing(a)
      BY <1>a, <1>g, <3>0, <3>1 DEF Failing, Dead
    <3>2. ASSUME NEW d \in Conn, Making(a, d) PROVE Dead(g)'
      BY <1>a, <1>g, <3>0, <3>2 DEF Making, Dead
    <3>3. QED
      BY <2>1, <3>1, <3>2, Handshake
  <2>2. CASE Close(a)
     BY <1>a, <1>h, <1>i, <1>j, <2>2 DEF Close, Goto, manager, requests, links,
       server, Dead
  <2>3. CASE Drop(a)
     BY <1>a, <1>h, <1>i, <1>j, <2>3 DEF Drop, Drops, AfterDrop, Rest, Goto, manager,
       requests, links, server, Dead
   <2>4. CASE BridgeBegins(a) \/ BridgeListed(a) \/ BridgeChecks(a) \/
     BridgeInstalls(a) \/ Watch(a) \/ Wakes(a) \/ Reconnected(a) \/ ReconnectFails(a)
     BY <1>0, <2>4 DEF BridgeBegins, Ask, Returns, Goto, manager, requests, links,
       server, BridgeListed, BridgeFails, Forget, BridgeChecks, BridgeInstalls, Watch,
       Wakes, Reconnected, Rest, Unlock, Home, ReconnectFails
  <2>5. QED
    BY <1>1, <2>1, <2>2, <2>3, <2>4 DEF Shared
<1>2. CASE Vm \/ VmConnects \/ VmDisconnects \/ VmReconnects
   BY <1>0, <1>2 DEF Vm, VmConnects, Resting, manager, requests, links, server,
     VmConnected, VmDisconnects, Goto, VmTakes, Free, VmDisconnected, Unlock, Rest,
     VmReconnects, VmRetakes, Reconnect, VmConnectFails
<1>3. ASSUME NEW m \in Managed, Task(m) PROVE Dead(g)'
   BY <1>0, <1>3 DEF Task, BackgroundBegins, Free, Goto, BackgroundOpens, manager,
     requests, links, server, BackgroundConnected, Unlock, BackgroundUndone, Rest,
     BackgroundFails, BackgroundForgets, Supervise, Reconnect
<1>4. ASSUME NEW r \in Requester, Request(r) PROVE Dead(g)'
  <2>1. CASE SendBreaks(r)
     BY <1>a, <1>h, <1>i, <1>j, <2>1 DEF SendBreaks, Returns, Fault, manager,
       requests, links, server, Dead
   <2>2. CASE CallTool(r) \/ Insert(r) \/ Send(r) \/ Answered(r) \/ Forgotten(r) \/
     GivesUp(r)
     BY <1>0, <2>2 DEF CallTool, Ask, Returns, manager, requests, links, server,
       Insert, Send, Answered, Fault, Forgotten, GivesUp
  <2>3. QED
    BY <1>4, <2>1, <2>2 DEF Request
<1>5. ASSUME NEW c \in Conn, ReaderEnds(c) \/ ReaderDrains(c) \/ ServerChanges(c) PROVE Dead(g)'
  <2>1. CASE ReaderEnds(c)
     BY <1>a, <1>h, <1>i, <1>j, <2>1 DEF ReaderEnds, Fault, manager, requests, links,
       server, Dead
  <2>2. CASE ReaderDrains(c) \/ ServerChanges(c)
    BY <1>0, <2>2 DEF ReaderDrains, manager, requests, links, server, ServerChanges
  <2>3. QED
    BY <1>5, <2>1, <2>2
<1>6. ASSUME NEW n \in Contested, HostRegisters(n) PROVE Dead(g)'
  BY <1>0, <1>6 DEF HostRegisters, manager, requests, links, server
<1>7. QED
  BY <1>1, <1>2, <1>3, <1>4, <1>5, <1>6 DEF Next

(* Nobody publishes tools of a connection that is gone.                      *)
LEMMA BareStays ==
  ASSUME TypeOK, PlaceInv, ConnInv, HoldInv, WatchInv, CloseInv, NEW g \in Conn, Told(g), Bare(g), Next
  PROVE  Bare(g)'
<1>0. UNCHANGED <<owner>> => Bare(g)'
  BY DEF Bare
<1> USE DEF Names, Posts, Kinds, Watches, Quiet
<1>a. Names
  BY Scene
<1>b. Posts
  BY Scene
<1>c. Kinds
  BY Scene
<1>d. Watches
  BY Scene
<1>e. Quiet
  BY Scene
<1>f. VmConnects => opened + 1 \in Managed /\ opened + 1 > opened
  BY McpBounds DEF VmConnects, TypeOK, Managed
<1>j. /\ child \in [Conn -> BOOLEAN] /\ closed \in [Conn -> BOOLEAN]
      /\ owner \in [Tool -> Conn \cup {None, Host}]
      /\ sync \in [Conn -> Actor \cup {Nobody}] /\ Nobody \notin Actor
      /\ answer \in [Requester -> (SUBSET Tool) \cup {Failed}]
  BY Actors DEF TypeOK
<1>k. \A d \in Conn, a \in Actor : sync[d] = a <=> conn[a] = d /\ pc[a] \in Bridging
  BY DEF CloseInv
<1> USE DEF Numbered, Given, Tasks
<1>g. Numbered
  BY Goods
<1>h. Given
  BY Goods
<1>i. Tasks
  BY Goods
<1>1. ASSUME NEW a \in Actor, Shared(a) PROVE Bare(g)'
  <2>1. CASE BridgeInstalls(a)
    <3>1. conn[a] # g
      BY <1>k, <2>1 DEF BridgeInstalls, Told, Bridging
    <3>2. QED
      BY <3>1, <1>g, <1>j, <2>1 DEF BridgeInstalls, BridgeFails, Bare
  <2>2. CASE Drop(a)
     BY <1>a, <1>g, <1>j, <2>2 DEF Drop, Drops, AfterDrop, Rest, Goto, manager,
       requests, links, server, Bare
   <2>3. CASE Connect(a) \/ BridgeBegins(a) \/ BridgeListed(a) \/ BridgeChecks(a) \/
     Watch(a) \/ Wakes(a) \/ Close(a) \/ Reconnected(a) \/ ReconnectFails(a)
     BY <1>0, <2>3 DEF Connect, Goto, Fault, manager, requests, links, server,
       BridgeBegins, Ask, Returns, BridgeListed, BridgeFails, Forget, BridgeChecks,
       Watch, Wakes, Close, Reconnected, Rest, Unlock, Home, ReconnectFails
  <2>4. QED
    BY <1>1, <2>1, <2>2, <2>3 DEF Shared
<1>2. CASE Vm \/ VmConnects \/ VmDisconnects \/ VmReconnects
   BY <1>0, <1>2 DEF Vm, VmConnects, Resting, manager, requests, links, server,
     VmConnected, VmDisconnects, Goto, VmTakes, Free, VmDisconnected, Unlock, Rest,
     VmReconnects, VmRetakes, Reconnect, VmConnectFails
<1>3. ASSUME NEW m \in Managed, Task(m) PROVE Bare(g)'
   BY <1>0, <1>3 DEF Task, BackgroundBegins, Free, Goto, BackgroundOpens, manager,
     requests, links, server, BackgroundConnected, Unlock, BackgroundUndone, Rest,
     BackgroundFails, BackgroundForgets, Supervise, Reconnect
<1>4. ASSUME NEW r \in Requester, Request(r) PROVE Bare(g)'
   BY <1>0, <1>4 DEF Request, CallTool, Ask, Returns, manager, requests, links,
     server, Insert, Send, SendBreaks, Fault, Answered, Forgotten, GivesUp
<1>5. ASSUME NEW c \in Conn, ReaderEnds(c) \/ ReaderDrains(c) \/ ServerChanges(c) PROVE Bare(g)'
   BY <1>0, <1>5 DEF ReaderEnds, Fault, manager, requests, links, server,
     ReaderDrains, ServerChanges
<1>6. ASSUME NEW n \in Contested, HostRegisters(n) PROVE Bare(g)'
  <2>1. CASE HostRegisters(n)
     BY <1>a, <1>g, <1>j, McpTools, Numbers, <2>1 DEF HostRegisters, manager,
       requests, links, server, Bare
  <2>2. QED
    BY <1>6, <2>1
<1>7. QED
  BY <1>1, <1>2, <1>3, <1>4, <1>5, <1>6 DEF Next

(* Whoever begins a bridge of it is told that it is closed.                  *)
LEMMA ToldStays ==
  ASSUME TypeOK, PlaceInv, ConnInv, HoldInv, WatchInv, CloseInv, NEW g \in Conn, Told(g), Dead(g), Next
  PROVE  Told(g)'
<1>0. UNCHANGED <<answer, pc, stage, sync>> => Told(g)'
  BY DEF Told
<1> USE DEF Names, Posts, Kinds, Watches, Quiet
<1>a. Names
  BY Scene
<1>b. Posts
  BY Scene
<1>c. Kinds
  BY Scene
<1>d. Watches
  BY Scene
<1>e. Quiet
  BY Scene
<1>f. VmConnects => opened + 1 \in Managed /\ opened + 1 > opened
  BY McpBounds DEF VmConnects, TypeOK, Managed
<1>j. /\ child \in [Conn -> BOOLEAN] /\ closed \in [Conn -> BOOLEAN]
      /\ owner \in [Tool -> Conn \cup {None, Host}]
      /\ sync \in [Conn -> Actor \cup {Nobody}] /\ Nobody \notin Actor
      /\ answer \in [Requester -> (SUBSET Tool) \cup {Failed}]
  BY Actors DEF TypeOK
<1>k. \A d \in Conn, a \in Actor : sync[d] = a <=> conn[a] = d /\ pc[a] \in Bridging
  BY DEF CloseInv
<1> USE DEF Numbered, Given, Tasks
<1>g. Numbered
  BY Goods
<1>h. Given
  BY Goods
<1>i. Tasks
  BY Goods
<1>1. ASSUME NEW a \in Actor, Shared(a) PROVE Told(g)'
  <2>1. CASE Connect(a)
    <3>0. UNCHANGED <<sync, stage, answer>>
      BY <2>1 DEF Connect, requests
    <3>1. CASE Failing(a)
      BY <1>a, <1>j, <3>0, <3>1 DEF Failing, Told
    <3>2. ASSUME NEW d \in Conn, Making(a, d) PROVE Told(g)'
      BY <1>a, <1>j, <3>0, <3>2 DEF Making, Told
    <3>3. QED
      BY <2>1, <3>1, <3>2, Handshake
  <2>2. CASE BridgeBegins(a)
     BY <1>a, <1>c, <1>j, <1>k, <2>2 DEF BridgeBegins, Ask, Returns, Goto, manager,
       requests, links, server, Told, Dead, Bridging
  <2>3. CASE BridgeListed(a)
     BY <1>a, <1>c, <1>j, <1>k, <2>3 DEF BridgeListed, BridgeFails, Forget, Goto,
       manager, requests, links, server, Told
  <2>4. CASE BridgeChecks(a)
     BY <1>a, <1>c, <1>j, <1>k, <2>4 DEF BridgeChecks, BridgeFails, Forget, Goto,
       manager, requests, links, server, Told
  <2>5. CASE BridgeInstalls(a)
     BY <1>a, <1>c, <1>j, <1>k, <2>5 DEF BridgeInstalls, BridgeFails, Forget, Goto,
       manager, requests, links, server, Told
  <2>6. CASE Watch(a)
    <3>0. UNCHANGED <<sync, stage, answer>>
      BY <2>6 DEF Watch, requests
    <3>1. PICK d \in Conn, w \in Actor : Watching(a, d, w)
      BY <2>6, Watched
    <3>2. QED
      BY <1>a, <1>j, <3>0, <3>1 DEF Watching, Told
  <2>7. CASE Wakes(a)
     BY <1>a, <1>c, <1>j, <1>k, <2>7 DEF Wakes, Goto, manager, requests, links,
       server, Told
  <2>8. CASE Close(a)
     BY <1>a, <1>c, <1>j, <1>k, <2>8 DEF Close, Goto, manager, requests, links,
       server, Told
  <2>9. CASE Drop(a)
     BY <1>a, <1>c, <1>j, <1>k, <2>9 DEF Drop, Drops, AfterDrop, Rest, Goto, manager,
       requests, links, server, Told
  <2>10. CASE Reconnected(a)
     BY <1>a, <1>c, <1>j, <1>k, <2>10 DEF Reconnected, Rest, Goto, Unlock, Home,
       manager, requests, links, server, Told
  <2>11. CASE ReconnectFails(a)
     BY <1>a, <1>c, <1>j, <1>k, <2>11 DEF ReconnectFails, Rest, Goto, Unlock, Home,
       manager, requests, links, server, Told
  <2>12. QED
     BY <1>1, <2>1, <2>2, <2>3, <2>4, <2>5, <2>6, <2>7, <2>8, <2>9, <2>10, <2>11 DEF
       Shared
<1>2. CASE Vm \/ VmConnects \/ VmDisconnects \/ VmReconnects
  <2>1. CASE VmConnects
     BY <1>a, <1>c, <1>j, <1>k, <1>e, <1>f, <2>1 DEF VmConnects, Resting, manager,
       requests, links, server, Told
  <2>2. CASE VmConnected
     BY <1>a, <1>c, <1>j, <1>k, <1>e, <2>2 DEF VmConnected, manager, requests, links,
       server, Told
  <2>3. CASE VmDisconnects
     BY <1>a, <1>c, <1>j, <1>k, <2>3 DEF VmDisconnects, Resting, Goto, manager,
       requests, links, server, Told
  <2>4. CASE VmTakes
     BY <1>a, <1>c, <1>j, <1>k, <2>4 DEF VmTakes, Free, Goto, manager, requests,
       links, server, Told
  <2>5. CASE VmDisconnected
     BY <1>a, <1>c, <1>j, <1>k, <2>5 DEF VmDisconnected, Unlock, Rest, Goto, manager,
       requests, links, server, Told
  <2>6. CASE VmReconnects
     BY <1>a, <1>c, <1>j, <1>k, <2>6 DEF VmReconnects, Resting, Goto, manager,
       requests, links, server, Told
  <2>7. CASE VmRetakes
     BY <1>a, <1>c, <1>j, <1>k, <2>7 DEF VmRetakes, Free, Goto, Reconnect, manager,
       requests, links, server, Told
  <2>8. CASE VmConnectFails
     BY <1>a, <1>c, <1>j, <1>k, <2>8 DEF VmConnectFails, Rest, Goto, manager,
       requests, links, server, Told
  <2>9. QED
    BY <1>2, <2>1, <2>2, <2>3, <2>4, <2>5, <2>6, <2>7, <2>8 DEF Vm
<1>3. ASSUME NEW m \in Managed, Task(m) PROVE Told(g)'
  <2>1. CASE BackgroundBegins(m)
     BY <1>a, <1>c, <1>j, <1>k, <2>1 DEF BackgroundBegins, Free, Goto,
       BackgroundOpens, manager, requests, links, server, Told
  <2>2. CASE BackgroundConnected(m)
     BY <1>a, <1>c, <1>j, <1>k, <1>e, <2>2 DEF BackgroundConnected, Goto, Unlock,
       manager, requests, links, server, Told
  <2>3. CASE BackgroundUndone(m)
     BY <1>a, <1>c, <1>j, <1>k, <2>3 DEF BackgroundUndone, Unlock, Rest, Goto,
       manager, requests, links, server, Told
  <2>4. CASE BackgroundFails(m)
     BY <1>a, <1>c, <1>j, <1>k, <2>4 DEF BackgroundFails, Unlock, Rest, Goto, manager,
       requests, links, server, Told
  <2>5. CASE BackgroundForgets(m)
     BY <1>a, <1>c, <1>j, <1>k, <2>5 DEF BackgroundForgets, Goto, manager, requests,
       links, server, Told
  <2>6. CASE Supervise(m)
     BY <1>a, <1>c, <1>j, <1>k, <2>6 DEF Supervise, Goto, Free, Reconnect, manager,
       requests, links, server, Told
  <2>7. QED
    BY <1>3, <2>1, <2>2, <2>3, <2>4, <2>5, <2>6 DEF Task
<1>4. ASSUME NEW r \in Requester, Request(r) PROVE Told(g)'
  <2>1. CASE CallTool(r)
     BY <1>a, <1>c, <1>j, <1>k, <2>1 DEF CallTool, Ask, Returns, manager, requests,
       links, server, Told
  <2>2. CASE Insert(r)
    BY <1>a, <1>c, <1>j, <1>k, <2>2 DEF Insert, manager, requests, links, server, Told
  <2>3. CASE Send(r)
     BY <1>a, <1>c, <1>j, <1>k, <2>3 DEF Send, Returns, manager, requests, links,
       server, Told
  <2>4. CASE SendBreaks(r)
     BY <1>a, <1>c, <1>j, <1>k, <2>4 DEF SendBreaks, Returns, Fault, manager,
       requests, links, server, Told
  <2>5. CASE Answered(r)
     BY <1>a, <1>c, <1>j, <1>k, <2>5 DEF Answered, Returns, Fault, manager, requests,
       links, server, Told
  <2>6. CASE Forgotten(r)
     BY <1>a, <1>c, <1>j, <1>k, <2>6 DEF Forgotten, Returns, manager, requests, links,
       server, Told
  <2>7. CASE GivesUp(r)
     BY <1>a, <1>c, <1>j, <1>k, <2>7 DEF GivesUp, Returns, Fault, manager, requests,
       links, server, Told
  <2>8. QED
    BY <1>4, <2>1, <2>2, <2>3, <2>4, <2>5, <2>6, <2>7 DEF Request
<1>5. ASSUME NEW c \in Conn, ReaderEnds(c) \/ ReaderDrains(c) \/ ServerChanges(c) PROVE Told(g)'
   BY <1>0, <1>5 DEF ReaderEnds, Fault, manager, requests, links, server,
     ReaderDrains, ServerChanges
<1>6. ASSUME NEW n \in Contested, HostRegisters(n) PROVE Told(g)'
  BY <1>0, <1>6 DEF HostRegisters, manager, requests, links, server
<1>7. QED
  BY <1>1, <1>2, <1>3, <1>4, <1>5, <1>6 DEF Next

(* What is gone stays gone.                                                  *)
LEMMA GoneStays ==
  ASSUME TypeOK, PlaceInv, ConnInv, HoldInv, CloseInv, WatchInv, Next,
         NEW g \in Conn, g <= made, g \in Buried
  PROVE  g \in Buried'
<1>1. Dead(g) /\ Bare(g) /\ Told(g)
  BY GoneParts DEF Buried
<1>2. Dead(g)' /\ Bare(g)' /\ Told(g)'
  BY <1>1, DeadStays, BareStays, ToldStays
<1>3. QED
  BY <1>2, TypeStep, GonePartsNext DEF Buried

(* What is dropped is gone.                                                  *)
LEMMA Dropped ==
  ASSUME TypeOK, PlaceInv, ConnInv, HoldInv, CloseInv, WatchInv, Next,
         NEW a \in Actor, Drop(a)
  PROVE  conn[a] \in Buried'
<1>1. PICK d \in Conn : d = conn[a]
  BY Places DEF Drop
<1>2. closed[d] /\ sync[d] = Nobody /\ pc[a] = "drop"
  BY <1>1 DEF Drop, CloseInv
<1>3. /\ owner' = [n \in Tool |-> IF owner[n] = d THEN None ELSE owner[n]]
      /\ child' = [child EXCEPT ![d] = FALSE] /\ closed' = closed /\ sync' = sync
  BY <1>1 DEF Drop, Drops
<1>4. Dead(d)'
  BY <1>2, <1>3 DEF Dead, TypeOK
<1>5. Bare(d)'
  BY <1>1, <1>3, Numbers DEF Bare
<1>6. Told(d)'
  BY <1>2, <1>3, Actors DEF Told
<1>7. d \in Buried'
  BY <1>4, <1>5, <1>6, TypeStep, GonePartsNext DEF Buried
<1>8. QED
  BY <1>1, <1>7

(* Where the connections are that are not gone.                              *)
KeptInv == \A c \in Conn : c <= made => \/ c \in Buried
                                        \/ slot[home[c]] = c
                                        \/ \E a \in Opener : op[a] # "none" /\ conn[a] = c
DoneInv == \A a \in Opener : pc[a] \in {"connect", "failed", "dropped"} /\ conn[a] # None
                             => conn[a] \in Buried
BackInv ==
    /\ op[VM] = "reconnect" => slot[target] = conn[VM]
    /\ op[VM] = "reopen" => slot[target] # None /\ slot[target] \in Buried
    /\ \A m \in Managed :
          /\ op[Supervisor(m)] = "reconnect" => slot[m] = conn[Supervisor(m)]
          /\ op[Supervisor(m)] = "reopen" => slot[m] # None /\ slot[m] \in Buried

(* The parts of LiveInv, before a step.                                      *)
LEMMA LiveParts ==
  ASSUME TypeOK, PlaceInv, ConnInv, HoldInv, LiveInv
  PROVE  KeptInv /\ DoneInv /\ BackInv
<1>1. \A c : c \in 1..made <=> c \in Conn /\ c <= made
  BY McpBounds DEF TypeOK, Conn
<1>2. KeptInv
  BY <1>1 DEF LiveInv, KeptInv, Buried
<1>3. DoneInv
  BY Actors DEF LiveInv, DoneInv, Buried, TypeOK
<1>4. ASSUME NEW a \in Opener
      PROVE  /\ op[a] = "reconnect" => slot[MyManaged(a)] = conn[a]
             /\ op[a] = "reopen" => /\ slot[MyManaged(a)] # None
                                    /\ slot[MyManaged(a)] \in Buried
  BY Actors, StepOps DEF LiveInv, Buried, TypeOK
<1>5. BackInv
  BY <1>4, Actors, Work DEF BackInv
<1>6. QED
  BY <1>2, <1>3, <1>5

(* And after it.                                                             *)
LEMMA LivePartsNext ==
  ASSUME TypeOK', PlaceInv', KeptInv', DoneInv', BackInv'
  PROVE  LiveInv'
<1>1. \A c : c \in 1..made' <=> c \in Conn /\ c <= made'
  BY McpBounds DEF TypeOK, Conn
<1>2. ASSUME NEW c \in 1..made'
      PROVE  (\/ Gone(c)
              \/ slot[home[c]] = c
              \/ \E a \in Opener : op[a] # "none" /\ conn[a] = c)'
  BY <1>1 DEF KeptInv, Buried
<1>3. (\A a \in Opener : pc[a] \in {"connect", "failed", "dropped"} /\ conn[a] # None
                         => Gone(conn[a]))'
  BY DEF DoneInv, Buried
<1>4. ASSUME NEW a \in Opener
      PROVE  (/\ op[a] = "reconnect" => slot[MyManaged(a)] = conn[a]
              /\ op[a] = "reopen" => slot[MyManaged(a)] # None /\ Gone(slot[MyManaged(a)]))'
  <2>1. CASE a = VM
    BY <2>1, Work DEF BackInv, Buried
  <2>2. ASSUME NEW m \in Managed, a = Background(m) PROVE op'[a] \notin {"reconnect", "reopen"}
    BY <2>2 DEF PlaceInv
  <2>3. CASE \E m \in Managed : a = Supervisor(m)
    BY <2>3, Work DEF BackInv, Buried
  <2>4. QED
    BY <2>1, <2>2, <2>3, Actors
<1>5. QED
  BY <1>2, <1>3, <1>4 DEF LiveInv

(* A connection is gone, in its slot, or somebody works on it.               *)
LEMMA KeptStep ==
  ASSUME TypeOK, PlaceInv, ConnInv, HoldInv, WatchInv, CloseInv, LiveInv, Next
  PROVE  KeptInv'
<1> USE DEF Names, Posts, Kinds, Watches, Quiet
<1>a. Names
  BY Scene
<1>b. Posts
  BY Scene
<1>c. Kinds
  BY Scene
<1>d. Watches
  BY Scene
<1>e. Quiet
  BY Scene
<1>f. VmConnects => opened + 1 \in Managed /\ opened + 1 > opened
  BY McpBounds DEF VmConnects, TypeOK, Managed
<1>g. Roles
  BY Cast
<1>h. /\ holder \in [Managed -> Actor \cup {Nobody}]
      /\ slot \in [Managed -> Conn \cup {None}] /\ token \in [Managed -> BOOLEAN]
  BY DEF TypeOK
<1>i. /\ opened \in Nat /\ map \in Nat /\ target \in Nat /\ None = 0 /\ opened >= None
      /\ \A m \in Managed : /\ m \in Nat /\ m # None
                            /\ m > opened + 1 => m > opened /\ m # opened + 1
                            /\ m <= opened <=> ~(m > opened)
      /\ map <= opened /\ target <= opened /\ map <= opened + 1 /\ target <= opened + 1
  BY McpBounds DEF TypeOK, HoldInv, Managed, None
<1>j. /\ LockInv /\ PartInv
      /\ op[VM] \in {"open", "disconnect"} => slot[target] = None
  BY DEF HoldInv, LockInv, PartInv
<1> USE DEF Roles
<1> USE DEF Numbered, Given, Tasks, Slots, Homes
<1>k. /\ KeptInv /\ DoneInv /\ BackInv /\ OnceInv
  BY LiveParts, HoldParts
<1>l. Numbered /\ Given
  BY Goods
<1>m. Tasks
  BY Goods
<1>n. Slots
  BY Goods
<1>o. Homes
  BY Goods
<1>p. \A c \in Conn : c <= made /\ c \in Buried => c \in Buried'
  BY GoneStays
<1>q. \A a \in Actor : Drop(a) => conn[a] \in Buried'
  BY Dropped
<1>r. /\ op[VM] = "reopen" => slot[target] # None /\ slot[target] \in Buried'
      /\ \A m \in Managed : op[Supervisor(m)] = "reopen" => slot[m] # None /\ slot[m] \in Buried'
  BY <1>a, <1>b, <1>e, <1>k, <1>n, <1>p DEF BackInv
<1>s. \A a \in Opener : pc[a] \in {"connect", "failed", "dropped"} /\ conn[a] # None
                         => conn[a] \in Buried'
  BY <1>k, <1>l, <1>p, Actors DEF DoneInv
<1>t. \A c \in Conn : c <= made => \/ c \in Buried'
                                   \/ slot[home[c]] = c
                                   \/ \E a \in Opener : op[a] # "none" /\ conn[a] = c
  BY <1>k, <1>p DEF KeptInv
<1>u. /\ Opener \subseteq Actor /\ Actor \subseteq Requester /\ VM \in Opener
      /\ \A m \in Managed : Background(m) \in Opener /\ Supervisor(m) \in Opener
      /\ \A c \in Conn : Watcher(c) \notin Opener
  BY Actors
<1>0. UNCHANGED <<conn, home, made, op, slot>> => KeptInv'
  BY <1>t DEF KeptInv
<1>1. ASSUME NEW a \in Actor, Shared(a) PROVE KeptInv'
  <2>1. CASE Connect(a)
    <3>0. UNCHANGED <<slot, op>>
      BY <2>1 DEF Connect, manager
    <3>1. CASE Failing(a)
      BY <1>t, <3>0, <3>1 DEF Failing, KeptInv
    <3>4. op[a] # "none"
      BY <1>b, <2>1 DEF Connect
    <3>2. ASSUME NEW d \in Conn, Making(a, d) PROVE KeptInv'
      BY <1>s, <1>t, <1>l, <1>u, <3>0, <3>2, <3>4 DEF Making, KeptInv
    <3>3. QED
      BY <2>1, <3>1, <3>2, Handshake
  <2>2. CASE Watch(a)
    <3>0. UNCHANGED <<slot, home, made>>
      BY <2>2 DEF Watch, manager, links
    <3>1. PICK d \in Conn, w \in Actor : Watching(a, d, w)
      BY <2>2, Watched
    <3>2. QED
      BY <1>t, <1>u, <3>0, <3>1 DEF Watching, KeptInv
  <2>3. CASE Drop(a)
     BY <1>a, <1>b, <1>c, <1>g, <1>h, <1>l, <1>t, <1>u, <2>3 DEF Drop, Drops,
       AfterDrop, Rest, Goto, manager, requests, links, server, KeptInv
  <2>4. CASE Reconnected(a)
     BY <1>a, <1>b, <1>c, <1>g, <1>h, <1>l, <1>t, <1>u, Work, <1>r, <1>m, <2>4 DEF
       Reconnected, Rest, Goto, Unlock, Home, manager, requests, links, server,
       KeptInv
  <2>5. CASE ReconnectFails(a)
     BY <1>a, <1>b, <1>c, <1>g, <1>h, <1>l, <1>t, <1>u, <1>s, <2>5 DEF ReconnectFails,
       Rest, Goto, Unlock, Home, manager, requests, links, server, KeptInv
   <2>6. CASE BridgeBegins(a) \/ BridgeListed(a) \/ BridgeChecks(a) \/
     BridgeInstalls(a) \/ Wakes(a) \/ Close(a)
     BY <1>0, <2>6 DEF BridgeBegins, Ask, Returns, Goto, manager, requests, links,
       server, BridgeListed, BridgeFails, Forget, BridgeChecks, BridgeInstalls, Wakes,
       Close
  <2>7. QED
    BY <1>1, <2>1, <2>2, <2>3, <2>4, <2>5, <2>6 DEF Shared
<1>2. CASE Vm \/ VmConnects \/ VmDisconnects \/ VmReconnects
  <2>1. CASE VmConnects
     BY <1>a, <1>b, <1>c, <1>g, <1>h, <1>l, <1>t, <1>u, <2>1 DEF VmConnects, Resting,
       manager, requests, links, server, KeptInv
  <2>2. CASE VmConnected
     BY <1>a, <1>b, <1>c, <1>g, <1>h, <1>l, <1>t, <1>u, <1>e, <1>k, <1>m, Work, <2>2
       DEF VmConnected, manager, requests, links, server, KeptInv, OnceInv
  <2>3. CASE VmTakes
    <3> DEFINE m == target
    <3>1. m \in Managed /\ op[VM] = "none" /\ VM \in Opener /\ UNCHANGED <<home, made>>
      BY <1>a, <1>b, <1>e, <1>u, <2>3 DEF VmTakes, links
    <3>2. \/ UNCHANGED <<slot, op, conn>>
          \/ /\ slot' = [slot EXCEPT ![m] = None] /\ conn' = [conn EXCEPT ![VM] = slot[m]]
             /\ op' = [op EXCEPT ![VM] = "disconnect"]
      BY <2>3 DEF VmTakes
    <3> HIDE DEF m
    <3>3. CASE UNCHANGED <<slot, op, conn>>
      BY <1>t, <3>1, <3>3 DEF KeptInv
    <3>4. CASE ~UNCHANGED <<slot, op, conn>>
      <4>1. /\ conn'[VM] = slot[m] /\ op'[VM] # "none"
            /\ \A x \in Opener : x # VM => op'[x] = op[x] /\ conn'[x] = conn[x]
            /\ \A n \in Managed : n # m => slot'[n] = slot[n]
        BY <1>c, <1>h, <1>u, <3>1, <3>2, <3>4
      <4>2. \A c \in Conn : c <= made => home[c] \in Managed
        BY <1>o
      <4>3. QED
        BY <1>t, <3>1, <4>1, <4>2 DEF KeptInv
    <3>5. QED
      BY <3>3, <3>4
  <2>4. CASE VmDisconnected
     BY <1>a, <1>b, <1>c, <1>g, <1>h, <1>l, <1>t, <1>u, <1>s, <2>4 DEF VmDisconnected,
       Unlock, Rest, Goto, manager, requests, links, server, KeptInv
  <2>5. CASE VmRetakes
     BY <1>a, <1>b, <1>c, <1>g, <1>h, <1>l, <1>t, <1>u, <1>e, <2>5 DEF VmRetakes,
       Free, Goto, Reconnect, manager, requests, links, server, KeptInv
  <2>6. CASE VmConnectFails
     BY <1>a, <1>b, <1>c, <1>g, <1>h, <1>l, <1>t, <1>u, <1>s, <2>6 DEF VmConnectFails,
       Rest, Goto, manager, requests, links, server, KeptInv
  <2>7. CASE VmDisconnects \/ VmReconnects
     BY <1>0, <2>7 DEF VmDisconnects, Resting, Goto, manager, requests, links, server,
       VmReconnects
  <2>8. QED
    BY <1>2, <2>1, <2>2, <2>3, <2>4, <2>5, <2>6, <2>7 DEF Vm
<1>3. ASSUME NEW m \in Managed, Task(m) PROVE KeptInv'
  <2>1. CASE BackgroundBegins(m)
     BY <1>a, <1>b, <1>c, <1>g, <1>h, <1>l, <1>t, <1>u, <2>1 DEF BackgroundBegins,
       Free, Goto, BackgroundOpens, manager, requests, links, server, KeptInv
  <2>2. CASE BackgroundConnected(m)
    <3> DEFINE b == Background(m)
    <3>1. /\ slot[m] = None /\ conn[b] \in Conn /\ home[conn[b]] = m /\ op[b] # "none"
          /\ b \in Opener /\ UNCHANGED <<home, made>>
       BY <1>a, <1>b, <1>g, <1>j, <1>l, <1>m, <1>u, Work, <2>2 DEF
         BackgroundConnected, links, PartInv
    <3>2. CASE token[m]
      <4>1. /\ op' = [op EXCEPT ![b] = "undo"] /\ conn' = conn /\ slot' = slot
        BY <3>2, <2>2 DEF BackgroundConnected
      <4>2. QED
        BY <1>c, <1>t, <1>u, <3>1, <4>1 DEF KeptInv
    <3>3. CASE ~token[m]
      <4>1. /\ op' = [op EXCEPT ![b] = "none"] /\ conn' = [conn EXCEPT ![b] = None]
            /\ slot' = [slot EXCEPT ![m] = conn[b]]
        BY <3>3, <2>2 DEF BackgroundConnected
      <4> HIDE DEF b
      <4>2. /\ \A x \in Opener : x # b => op'[x] = op[x] /\ conn'[x] = conn[x]
            /\ slot'[m] = conn[b] /\ \A n \in Managed : n # m => slot'[n] = slot[n]
        BY <1>c, <1>h, <1>u, <4>1
      <4>3. \A c \in Conn : c # None
        BY <1>l
      <4>4. \A c \in Conn : c <= made => home[c] \in Managed
        BY <1>o
      <4>5. QED
        BY <1>t, <3>1, <4>2, <4>3, <4>4 DEF KeptInv
    <3>4. QED
      BY <3>2, <3>3
  <2>3. CASE BackgroundUndone(m)
     BY <1>a, <1>b, <1>c, <1>g, <1>h, <1>l, <1>t, <1>u, <1>s, <2>3 DEF
       BackgroundUndone, Unlock, Rest, Goto, manager, requests, links, server, KeptInv
  <2>4. CASE BackgroundFails(m)
     BY <1>a, <1>b, <1>c, <1>g, <1>h, <1>l, <1>t, <1>u, <1>s, <2>4 DEF
       BackgroundFails, Unlock, Rest, Goto, manager, requests, links, server, KeptInv
  <2>5. CASE Supervise(m)
     BY <1>a, <1>b, <1>c, <1>g, <1>h, <1>l, <1>t, <1>u, <2>5 DEF Supervise, Goto,
       Free, Reconnect, manager, requests, links, server, KeptInv
  <2>6. CASE BackgroundForgets(m)
    BY <1>0, <2>6 DEF BackgroundForgets, Goto, manager, requests, links, server
  <2>7. QED
    BY <1>3, <2>1, <2>2, <2>3, <2>4, <2>5, <2>6 DEF Task
<1>4. ASSUME NEW r \in Requester, Request(r) PROVE KeptInv'
  <2>1. CASE CallTool(r)
    <3>1. r \notin Actor /\ UNCHANGED <<slot, home, made, op>>
          /\ \E c \in Conn : conn' = [conn EXCEPT ![r] = c]
      BY <2>1 DEF CallTool, manager, links
    <3>2. \A a \in Opener : conn'[a] = conn[a]
      BY <1>c, <1>u, <3>1
    <3>3. QED
      BY <1>t, <3>1, <3>2 DEF KeptInv
   <2>2. CASE Insert(r) \/ Send(r) \/ SendBreaks(r) \/ Answered(r) \/ Forgotten(r) \/
     GivesUp(r)
     BY <1>0, <2>2 DEF Insert, manager, requests, links, server, Send, Returns,
       SendBreaks, Fault, Answered, Forgotten, GivesUp
  <2>3. QED
    BY <1>4, <2>1, <2>2 DEF Request
<1>5. ASSUME NEW c \in Conn, ReaderEnds(c) \/ ReaderDrains(c) \/ ServerChanges(c) PROVE KeptInv'
   BY <1>0, <1>5 DEF ReaderEnds, Fault, manager, requests, links, server,
     ReaderDrains, ServerChanges
<1>6. ASSUME NEW n \in Contested, HostRegisters(n) PROVE KeptInv'
  BY <1>0, <1>6 DEF HostRegisters, manager, requests, links, server
<1>7. QED
  BY <1>1, <1>2, <1>3, <1>4, <1>5, <1>6 DEF Next

(* Who has dropped a connection has seen it go.                              *)
LEMMA DoneStep ==
  ASSUME TypeOK, PlaceInv, ConnInv, HoldInv, WatchInv, CloseInv, LiveInv, Next
  PROVE  DoneInv'
<1> USE DEF Names, Posts, Kinds, Watches, Quiet
<1>a. Names
  BY Scene
<1>b. Posts
  BY Scene
<1>c. Kinds
  BY Scene
<1>d. Watches
  BY Scene
<1>e. Quiet
  BY Scene
<1>f. VmConnects => opened + 1 \in Managed /\ opened + 1 > opened
  BY McpBounds DEF VmConnects, TypeOK, Managed
<1>g. Roles
  BY Cast
<1>h. /\ holder \in [Managed -> Actor \cup {Nobody}]
      /\ slot \in [Managed -> Conn \cup {None}] /\ token \in [Managed -> BOOLEAN]
  BY DEF TypeOK
<1>i. /\ opened \in Nat /\ map \in Nat /\ target \in Nat /\ None = 0 /\ opened >= None
      /\ \A m \in Managed : /\ m \in Nat /\ m # None
                            /\ m > opened + 1 => m > opened /\ m # opened + 1
                            /\ m <= opened <=> ~(m > opened)
      /\ map <= opened /\ target <= opened /\ map <= opened + 1 /\ target <= opened + 1
  BY McpBounds DEF TypeOK, HoldInv, Managed, None
<1>j. /\ LockInv /\ PartInv
      /\ op[VM] \in {"open", "disconnect"} => slot[target] = None
  BY DEF HoldInv, LockInv, PartInv
<1> USE DEF Roles
<1> USE DEF Numbered, Given, Tasks, Slots, Homes
<1>k. /\ KeptInv /\ DoneInv /\ BackInv /\ OnceInv
  BY LiveParts, HoldParts
<1>l. Numbered /\ Given
  BY Goods
<1>m. Tasks
  BY Goods
<1>n. Slots
  BY Goods
<1>o. Homes
  BY Goods
<1>p. \A c \in Conn : c <= made /\ c \in Buried => c \in Buried'
  BY GoneStays
<1>q. \A a \in Actor : Drop(a) => conn[a] \in Buried'
  BY Dropped
<1>r. /\ op[VM] = "reopen" => slot[target] # None /\ slot[target] \in Buried'
      /\ \A m \in Managed : op[Supervisor(m)] = "reopen" => slot[m] # None /\ slot[m] \in Buried'
  BY <1>a, <1>b, <1>e, <1>k, <1>n, <1>p DEF BackInv
<1>s. \A a \in Opener : pc[a] \in {"connect", "failed", "dropped"} /\ conn[a] # None
                         => conn[a] \in Buried'
  BY <1>k, <1>l, <1>p, Actors DEF DoneInv
<1>t. \A c \in Conn : c <= made => \/ c \in Buried'
                                   \/ slot[home[c]] = c
                                   \/ \E a \in Opener : op[a] # "none" /\ conn[a] = c
  BY <1>k, <1>p DEF KeptInv
<1>u. /\ Opener \subseteq Actor /\ Actor \subseteq Requester /\ VM \in Opener
      /\ \A m \in Managed : Background(m) \in Opener /\ Supervisor(m) \in Opener
      /\ \A c \in Conn : Watcher(c) \notin Opener
  BY Actors
<1>0. UNCHANGED <<conn, pc>> => DoneInv'
  BY <1>s DEF DoneInv
<1>1. ASSUME NEW a \in Actor, Shared(a) PROVE DoneInv'
  <2>1. CASE Connect(a)
    <3>1. CASE Failing(a)
      BY <1>s, <1>u, <3>1 DEF Failing, DoneInv
    <3>2. ASSUME NEW d \in Conn, Making(a, d) PROVE DoneInv'
      BY <1>s, <1>u, <3>2 DEF Making, DoneInv
    <3>3. QED
      BY <2>1, <3>1, <3>2, Handshake
  <2>2. CASE BridgeBegins(a)
     BY <1>a, <1>b, <1>c, <1>s, <1>u, <2>2 DEF BridgeBegins, Ask, Returns, Goto,
       manager, requests, links, server, DoneInv
  <2>3. CASE BridgeListed(a)
     BY <1>a, <1>b, <1>c, <1>s, <1>u, <2>3 DEF BridgeListed, BridgeFails, Forget,
       Goto, manager, requests, links, server, DoneInv
  <2>4. CASE BridgeChecks(a)
     BY <1>a, <1>b, <1>c, <1>s, <1>u, <2>4 DEF BridgeChecks, BridgeFails, Forget,
       Goto, manager, requests, links, server, DoneInv
  <2>5. CASE BridgeInstalls(a)
     BY <1>a, <1>b, <1>c, <1>s, <1>u, <2>5 DEF BridgeInstalls, BridgeFails, Forget,
       Goto, manager, requests, links, server, DoneInv
  <2>6. CASE Watch(a)
    <3>0. UNCHANGED <<made>>
      BY <2>6 DEF Watch, links
    <3>1. PICK d \in Conn, w \in Actor : Watching(a, d, w)
      BY <2>6, Watched
    <3>2. QED
      BY <1>s, <1>u, <3>0, <3>1 DEF Watching, DoneInv
  <2>7. CASE Wakes(a)
     BY <1>a, <1>b, <1>c, <1>s, <1>u, <2>7 DEF Wakes, Goto, manager, requests, links,
       server, DoneInv
  <2>8. CASE Close(a)
     BY <1>a, <1>b, <1>c, <1>s, <1>u, <2>8 DEF Close, Goto, manager, requests, links,
       server, DoneInv
  <2>9. CASE Drop(a)
     BY <1>a, <1>b, <1>c, <1>s, <1>u, <1>q, <2>9 DEF Drop, Drops, AfterDrop, Rest,
       Goto, manager, requests, links, server, DoneInv
  <2>10. CASE Reconnected(a)
     BY <1>a, <1>b, <1>c, <1>s, <1>u, <2>10 DEF Reconnected, Rest, Goto, Unlock, Home,
       manager, requests, links, server, DoneInv
  <2>11. CASE ReconnectFails(a)
     BY <1>a, <1>b, <1>c, <1>s, <1>u, <2>11 DEF ReconnectFails, Rest, Goto, Unlock,
       Home, manager, requests, links, server, DoneInv
  <2>12. QED
     BY <1>1, <2>1, <2>2, <2>3, <2>4, <2>5, <2>6, <2>7, <2>8, <2>9, <2>10, <2>11 DEF
       Shared
<1>2. CASE Vm \/ VmConnects \/ VmDisconnects \/ VmReconnects
  <2>1. CASE VmConnects
     BY <1>a, <1>b, <1>c, <1>s, <1>u, <1>e, <1>f, <1>l, <2>1 DEF VmConnects, Resting,
       manager, requests, links, server, DoneInv
  <2>2. CASE VmConnected
     BY <1>a, <1>b, <1>c, <1>s, <1>u, <1>e, <2>2 DEF VmConnected, manager, requests,
       links, server, DoneInv
  <2>3. CASE VmDisconnects
     BY <1>a, <1>b, <1>c, <1>s, <1>u, <2>3 DEF VmDisconnects, Resting, Goto, manager,
       requests, links, server, DoneInv
  <2>4. CASE VmTakes
     BY <1>a, <1>b, <1>c, <1>s, <1>u, <1>e, <2>4 DEF VmTakes, Free, Goto, manager,
       requests, links, server, DoneInv
  <2>5. CASE VmDisconnected
     BY <1>a, <1>b, <1>c, <1>s, <1>u, <2>5 DEF VmDisconnected, Unlock, Rest, Goto,
       manager, requests, links, server, DoneInv
  <2>6. CASE VmReconnects
     BY <1>a, <1>b, <1>c, <1>s, <1>u, <2>6 DEF VmReconnects, Resting, Goto, manager,
       requests, links, server, DoneInv
  <2>7. CASE VmRetakes
     BY <1>a, <1>b, <1>c, <1>s, <1>u, <1>e, <2>7 DEF VmRetakes, Free, Goto, Reconnect,
       manager, requests, links, server, DoneInv
  <2>8. CASE VmConnectFails
     BY <1>a, <1>b, <1>c, <1>s, <1>u, <2>8 DEF VmConnectFails, Rest, Goto, manager,
       requests, links, server, DoneInv
  <2>9. QED
    BY <1>2, <2>1, <2>2, <2>3, <2>4, <2>5, <2>6, <2>7, <2>8 DEF Vm
<1>3. ASSUME NEW m \in Managed, Task(m) PROVE DoneInv'
  <2>1. CASE BackgroundBegins(m)
     BY <1>a, <1>b, <1>c, <1>s, <1>u, <1>l, <2>1 DEF BackgroundBegins, Free, Goto,
       BackgroundOpens, manager, requests, links, server, DoneInv
  <2>2. CASE BackgroundConnected(m)
     BY <1>a, <1>b, <1>c, <1>s, <1>u, <1>e, <2>2 DEF BackgroundConnected, Goto,
       Unlock, manager, requests, links, server, DoneInv
  <2>3. CASE BackgroundUndone(m)
     BY <1>a, <1>b, <1>c, <1>s, <1>u, <2>3 DEF BackgroundUndone, Unlock, Rest, Goto,
       manager, requests, links, server, DoneInv
  <2>4. CASE BackgroundFails(m)
     BY <1>a, <1>b, <1>c, <1>s, <1>u, <2>4 DEF BackgroundFails, Unlock, Rest, Goto,
       manager, requests, links, server, DoneInv
  <2>5. CASE BackgroundForgets(m)
     BY <1>a, <1>b, <1>c, <1>s, <1>u, <2>5 DEF BackgroundForgets, Goto, manager,
       requests, links, server, DoneInv
  <2>6. CASE Supervise(m)
     BY <1>a, <1>b, <1>c, <1>s, <1>u, <2>6 DEF Supervise, Goto, Free, Reconnect,
       manager, requests, links, server, DoneInv
  <2>7. QED
    BY <1>3, <2>1, <2>2, <2>3, <2>4, <2>5, <2>6 DEF Task
<1>4. ASSUME NEW r \in Requester, Request(r) PROVE DoneInv'
  <2>1. CASE CallTool(r)
     BY <1>a, <1>b, <1>c, <1>s, <1>u, <2>1 DEF CallTool, Ask, Returns, manager,
       requests, links, server, DoneInv
   <2>2. CASE Insert(r) \/ Send(r) \/ SendBreaks(r) \/ Answered(r) \/ Forgotten(r) \/
     GivesUp(r)
     BY <1>0, <2>2 DEF Insert, manager, requests, links, server, Send, Returns,
       SendBreaks, Fault, Answered, Forgotten, GivesUp
  <2>3. QED
    BY <1>4, <2>1, <2>2 DEF Request
<1>5. ASSUME NEW c \in Conn, ReaderEnds(c) \/ ReaderDrains(c) \/ ServerChanges(c) PROVE DoneInv'
   BY <1>0, <1>5 DEF ReaderEnds, Fault, manager, requests, links, server,
     ReaderDrains, ServerChanges
<1>6. ASSUME NEW n \in Contested, HostRegisters(n) PROVE DoneInv'
  BY <1>0, <1>6 DEF HostRegisters, manager, requests, links, server
<1>7. QED
  BY <1>1, <1>2, <1>3, <1>4, <1>5, <1>6 DEF Next

(* The old connection stays in the slot, and is gone before the new one is made. *)
LEMMA BackStep ==
  ASSUME TypeOK, PlaceInv, ConnInv, HoldInv, WatchInv, CloseInv, LiveInv, Next
  PROVE  BackInv'
<1> USE DEF Names, Posts, Kinds, Watches, Quiet
<1>a. Names
  BY Scene
<1>b. Posts
  BY Scene
<1>c. Kinds
  BY Scene
<1>d. Watches
  BY Scene
<1>e. Quiet
  BY Scene
<1>f. VmConnects => opened + 1 \in Managed /\ opened + 1 > opened
  BY McpBounds DEF VmConnects, TypeOK, Managed
<1>g. Roles
  BY Cast
<1>h. /\ holder \in [Managed -> Actor \cup {Nobody}]
      /\ slot \in [Managed -> Conn \cup {None}] /\ token \in [Managed -> BOOLEAN]
  BY DEF TypeOK
<1>i. /\ opened \in Nat /\ map \in Nat /\ target \in Nat /\ None = 0 /\ opened >= None
      /\ \A m \in Managed : /\ m \in Nat /\ m # None
                            /\ m > opened + 1 => m > opened /\ m # opened + 1
                            /\ m <= opened <=> ~(m > opened)
      /\ map <= opened /\ target <= opened /\ map <= opened + 1 /\ target <= opened + 1
  BY McpBounds DEF TypeOK, HoldInv, Managed, None
<1>j. /\ LockInv /\ PartInv
      /\ op[VM] \in {"open", "disconnect"} => slot[target] = None
  BY DEF HoldInv, LockInv, PartInv
<1> USE DEF Roles
<1> USE DEF Numbered, Given, Tasks, Slots, Homes
<1>k. /\ KeptInv /\ DoneInv /\ BackInv /\ OnceInv
  BY LiveParts, HoldParts
<1>l. Numbered /\ Given
  BY Goods
<1>m. Tasks
  BY Goods
<1>n. Slots
  BY Goods
<1>o. Homes
  BY Goods
<1>p. \A c \in Conn : c <= made /\ c \in Buried => c \in Buried'
  BY GoneStays
<1>q. \A a \in Actor : Drop(a) => conn[a] \in Buried'
  BY Dropped
<1>r. /\ op[VM] = "reopen" => slot[target] # None /\ slot[target] \in Buried'
      /\ \A m \in Managed : op[Supervisor(m)] = "reopen" => slot[m] # None /\ slot[m] \in Buried'
  BY <1>a, <1>b, <1>e, <1>k, <1>n, <1>p DEF BackInv
<1>s. \A a \in Opener : pc[a] \in {"connect", "failed", "dropped"} /\ conn[a] # None
                         => conn[a] \in Buried'
  BY <1>k, <1>l, <1>p, Actors DEF DoneInv
<1>t. \A c \in Conn : c <= made => \/ c \in Buried'
                                   \/ slot[home[c]] = c
                                   \/ \E a \in Opener : op[a] # "none" /\ conn[a] = c
  BY <1>k, <1>p DEF KeptInv
<1>u. /\ Opener \subseteq Actor /\ Actor \subseteq Requester /\ VM \in Opener
      /\ \A m \in Managed : Background(m) \in Opener /\ Supervisor(m) \in Opener
      /\ \A c \in Conn : Watcher(c) \notin Opener
  BY Actors
<1>0. UNCHANGED <<conn, op, slot, target>> => BackInv'
  BY <1>k, <1>r DEF BackInv
<1>1. ASSUME NEW a \in Actor, Shared(a) PROVE BackInv'
  <2>1. CASE Connect(a)
    <3>0. UNCHANGED <<op, slot, target>>
      BY <2>1 DEF Connect, manager
    <3>1. CASE Failing(a)
      BY <1>a, <1>b, <1>k, <1>r, <3>0, <3>1 DEF Failing, BackInv
    <3>2. ASSUME NEW d \in Conn, Making(a, d) PROVE BackInv'
      BY <1>a, <1>b, <1>k, <1>r, <3>0, <3>2, StepSets DEF Making, BackInv
    <3>3. QED
      BY <2>1, <3>1, <3>2, Handshake
  <2>2. CASE Watch(a)
    <3>0. UNCHANGED <<slot, target>>
      BY <2>2 DEF Watch, links, manager
    <3>1. PICK d \in Conn, w \in Actor : Watching(a, d, w)
      BY <2>2, Watched
    <3>2. QED
      BY <1>a, <1>k, <1>r, <3>0, <3>1 DEF Watching, BackInv
  <2>3. CASE Drop(a)
    <3>1. /\ UNCHANGED <<slot, target>> /\ conn[a] \in Buried' /\ conn[a] # None
      BY <1>l, <1>q, Places, <2>3 DEF Drop, Drops, manager
    <3>2. \/ op[a] = "watch"
          \/ conn' = conn /\ op' = op /\ op[a] # "reconnect"
          \/ conn' = conn /\ op[a] = "reconnect" /\ op' = [op EXCEPT ![a] = "reopen"]
      <4>1. op[a] # "watch" => conn' = conn /\ op' = [op EXCEPT ![a] = IF op[a] = "reconnect" THEN "reopen" ELSE op[a]]
        BY <2>3 DEF Drop, Drops
      <4>2. op[a] # "watch" /\ op[a] # "reconnect" => op' = op
        BY <1>c, <4>1
      <4>3. QED
        BY <4>1, <4>2
    <3>3. CASE op[a] = "watch"
      <4>1. /\ a \notin Opener /\ op' = [op EXCEPT ![a] = "none"] /\ conn' = [conn EXCEPT ![a] = None]
        BY <1>g, <1>u, <3>3, <2>3 DEF Drop, Drops, Rest
      <4>2. \A x \in Opener : op'[x] = op[x] /\ conn'[x] = conn[x]
        BY <1>c, <1>u, <4>1
      <4>3. QED
        BY <1>k, <1>r, <1>u, <3>1, <4>2 DEF BackInv
    <3>4. CASE conn' = conn /\ op' = op
      BY <1>k, <1>r, <3>1, <3>4 DEF BackInv
    <3>5. CASE conn' = conn /\ op[a] = "reconnect" /\ op' = [op EXCEPT ![a] = "reopen"]
      <4>1. op'[a] = "reopen" /\ \A x \in Actor : x # a => op'[x] = op[x]
        BY <1>c, <3>5
      <4>2. QED
        BY <1>a, <1>k, <1>r, <3>1, <3>5, <4>1 DEF BackInv
    <3>6. QED
      BY <3>2, <3>3, <3>4, <3>5
  <2>4. CASE Reconnected(a)
     BY <1>a, <1>b, <1>c, <1>e, <1>g, <1>h, <1>k, <1>r, <1>j, Work, <2>4 DEF
       Reconnected, Rest, Goto, Unlock, Home, manager, requests, links, server,
       BackInv, LockInv
  <2>5. CASE ReconnectFails(a)
     BY <1>a, <1>b, <1>c, <1>e, <1>g, <1>h, <1>k, <1>r, <2>5 DEF ReconnectFails, Rest,
       Goto, Unlock, Home, manager, requests, links, server, BackInv
   <2>6. CASE BridgeBegins(a) \/ BridgeListed(a) \/ BridgeChecks(a) \/
     BridgeInstalls(a) \/ Wakes(a) \/ Close(a)
     BY <1>0, <2>6 DEF BridgeBegins, Ask, Returns, Goto, manager, requests, links,
       server, BridgeListed, BridgeFails, Forget, BridgeChecks, BridgeInstalls, Wakes,
       Close
  <2>7. QED
    BY <1>1, <2>1, <2>2, <2>3, <2>4, <2>5, <2>6 DEF Shared
<1>2. CASE Vm \/ VmConnects \/ VmDisconnects \/ VmReconnects
  <2>1. CASE VmConnects
     BY <1>a, <1>b, <1>c, <1>e, <1>g, <1>h, <1>k, <1>r, <2>1 DEF VmConnects, Resting,
       manager, requests, links, server, BackInv
  <2>2. CASE VmConnected
     BY <1>a, <1>b, <1>c, <1>e, <1>g, <1>h, <1>k, <1>r, <2>2 DEF VmConnected, manager,
       requests, links, server, BackInv, OnceInv
  <2>3. CASE VmDisconnects
     BY <1>a, <1>b, <1>c, <1>e, <1>g, <1>h, <1>k, <1>r, <2>3 DEF VmDisconnects,
       Resting, Goto, manager, requests, links, server, BackInv
  <2>4. CASE VmTakes
     BY <1>a, <1>b, <1>c, <1>e, <1>g, <1>h, <1>k, <1>r, <1>j, <2>4 DEF VmTakes, Free,
       Goto, manager, requests, links, server, BackInv, LockInv
  <2>5. CASE VmDisconnected
     BY <1>a, <1>b, <1>c, <1>e, <1>g, <1>h, <1>k, <1>r, <2>5 DEF VmDisconnected,
       Unlock, Rest, Goto, manager, requests, links, server, BackInv
  <2>6. CASE VmReconnects
     BY <1>a, <1>b, <1>c, <1>e, <1>g, <1>h, <1>k, <1>r, <2>6 DEF VmReconnects,
       Resting, Goto, manager, requests, links, server, BackInv
  <2>7. CASE VmRetakes
     BY <1>a, <1>b, <1>c, <1>e, <1>g, <1>h, <1>k, <1>r, Work, <2>7 DEF VmRetakes,
       Free, Goto, Reconnect, manager, requests, links, server, BackInv
  <2>8. CASE VmConnectFails
     BY <1>a, <1>b, <1>c, <1>e, <1>g, <1>h, <1>k, <1>r, <2>8 DEF VmConnectFails, Rest,
       Goto, manager, requests, links, server, BackInv
  <2>9. QED
    BY <1>2, <2>1, <2>2, <2>3, <2>4, <2>5, <2>6, <2>7, <2>8 DEF Vm
<1>3. ASSUME NEW m \in Managed, Task(m) PROVE BackInv'
  <2>1. CASE BackgroundBegins(m)
     BY <1>a, <1>b, <1>c, <1>e, <1>g, <1>h, <1>k, <1>r, <2>1 DEF BackgroundBegins,
       Free, Goto, BackgroundOpens, manager, requests, links, server, BackInv
  <2>2. CASE BackgroundConnected(m)
     BY <1>a, <1>b, <1>c, <1>e, <1>g, <1>h, <1>k, <1>r, <1>j, <2>2 DEF
       BackgroundConnected, Goto, Unlock, manager, requests, links, server, BackInv,
       LockInv, PartInv
  <2>3. CASE BackgroundUndone(m)
     BY <1>a, <1>b, <1>c, <1>e, <1>g, <1>h, <1>k, <1>r, <2>3 DEF BackgroundUndone,
       Unlock, Rest, Goto, manager, requests, links, server, BackInv
  <2>4. CASE BackgroundFails(m)
     BY <1>a, <1>b, <1>c, <1>e, <1>g, <1>h, <1>k, <1>r, <2>4 DEF BackgroundFails,
       Unlock, Rest, Goto, manager, requests, links, server, BackInv
  <2>5. CASE Supervise(m)
     BY <1>a, <1>b, <1>c, <1>e, <1>g, <1>h, <1>k, <1>r, Work, <2>5 DEF Supervise,
       Goto, Free, Reconnect, manager, requests, links, server, BackInv
  <2>6. CASE BackgroundForgets(m)
    BY <1>0, <2>6 DEF BackgroundForgets, Goto, manager, requests, links, server
  <2>7. QED
    BY <1>3, <2>1, <2>2, <2>3, <2>4, <2>5, <2>6 DEF Task
<1>4. ASSUME NEW r \in Requester, Request(r) PROVE BackInv'
  <2>1. CASE CallTool(r)
     BY <1>a, <1>b, <1>c, <1>e, <1>g, <1>h, <1>k, <1>r, <2>1 DEF CallTool, Ask,
       Returns, manager, requests, links, server, BackInv
   <2>2. CASE Insert(r) \/ Send(r) \/ SendBreaks(r) \/ Answered(r) \/ Forgotten(r) \/
     GivesUp(r)
     BY <1>0, <2>2 DEF Insert, manager, requests, links, server, Send, Returns,
       SendBreaks, Fault, Answered, Forgotten, GivesUp
  <2>3. QED
    BY <1>4, <2>1, <2>2 DEF Request
<1>5. ASSUME NEW c \in Conn, ReaderEnds(c) \/ ReaderDrains(c) \/ ServerChanges(c) PROVE BackInv'
   BY <1>0, <1>5 DEF ReaderEnds, Fault, manager, requests, links, server,
     ReaderDrains, ServerChanges
<1>6. ASSUME NEW n \in Contested, HostRegisters(n) PROVE BackInv'
  BY <1>0, <1>6 DEF HostRegisters, manager, requests, links, server
<1>7. QED
  BY <1>1, <1>2, <1>3, <1>4, <1>5, <1>6 DEF Next

(* Each step keeps track of every connection.                                *)
LEMMA LiveStep ==
  ASSUME TypeOK, PlaceInv, ConnInv, HoldInv, CloseInv, LiveInv, WatchInv, Next
  PROVE  LiveInv'
BY LivePartsNext, TypeStep, PlaceStep, KeptStep, DoneStep, BackStep

(* Once a disconnect has returned nothing is left: whoever could hold a      *)
(* connection of its server would have the slot locked.                      *)
LEMMA LeftIsEmpty ==
  ASSUME TypeOK, PlaceInv, ConnInv, HoldInv, TokenInv, LiveInv
  PROVE  NothingLeft
<1> SUFFICES ASSUME NEW m \in left, NEW c \in Conn, home[c] = m
             PROVE  Shown(c) = {} /\ ~child[c]
  BY DEF NothingLeft
<1>1. m \in Managed /\ token[m] /\ holder[m] = Nobody /\ slot[m] = None
  BY DEF TypeOK, TokenInv
<1>2. c <= made
  <2>1. c > made => home[c] = None
    BY DEF ConnInv
  <2>2. c \in Nat /\ made \in Nat /\ m # None
    BY <1>1, McpBounds, Numbers DEF TypeOK
  <2>3. QED
    BY <2>1, <2>2
<1>3. ASSUME NEW a \in Opener, op[a] # "none", conn[a] = c PROVE FALSE
  <2>1. MyManaged(a) = m
    BY <1>3, Goods, Numbers DEF Tasks
  <2>2. LockInv /\ OnceInv
    BY HoldParts
  <2>3. Roles
    BY Cast
  <2>4. CASE a = VM
    <3>1. target = m
      BY <2>1, <2>4, Work
    <3>2. op[VM] # "open"
      BY <1>1, <3>1 DEF TokenInv
    <3>3. holder[m] = VM
      BY <1>1, <1>3, <2>2, <2>3, <2>4, <3>1, <3>2 DEF LockInv, Roles
    <3>4. QED
      BY <1>1, <3>3, Actors
  <2>5. CASE a \in {Background(m), Supervisor(m)}
    BY <1>1, <1>3, <2>2, <2>5, Actors DEF LockInv
  <2>6. a \in {VM, Background(m), Supervisor(m)}
    BY <2>1, Actors, Work
  <2>7. QED
    BY <2>4, <2>5, <2>6
<1>4. c \in Buried
  BY <1>1, <1>2, <1>3, LiveParts, Numbers DEF KeptInv
<1>5. QED
  BY <1>4 DEF Buried, Gone

(* Whatever ends the reader empties the map, and nobody enters it to wait.   *)
LEMMA ForgottenStep ==
  ASSUME TypeOK, PlaceInv, ConnInv, HoldInv, WatchInv, CloseInv, NobodyForgotten, Next
  PROVE  NobodyForgotten'
<1>0. UNCHANGED <<conn, pending, reader, stage>> => NobodyForgotten'
  BY DEF NobodyForgotten
<1> USE DEF Names, Posts, Kinds, Watches, Quiet
<1>a. Names
  BY Scene
<1>b. Posts
  BY Scene
<1>c. Kinds
  BY Scene
<1>d. Watches
  BY Scene
<1>e. Quiet
  BY Scene
<1>f. VmConnects => opened + 1 \in Managed /\ opened + 1 > opened
  BY McpBounds DEF VmConnects, TypeOK, Managed
<1>j. /\ reader \in [Conn -> {"none", "reading", "ended", "over"}]
      /\ pending \in [Conn -> SUBSET Requester]
      /\ \A c \in Conn : reader[c] = "over" => closed[c]
  BY DEF TypeOK, CloseInv
<1> USE DEF Numbered, Given, Tasks
<1>g. Numbered
  BY Goods
<1>h. Given
  BY Goods
<1>i. Tasks
  BY Goods
<1>1. ASSUME NEW a \in Actor, Shared(a) PROVE NobodyForgotten'
  <2>1. CASE Connect(a)
    <3>0. UNCHANGED <<stage, pending>>
      BY <2>1 DEF Connect, requests
    <3>1. CASE Failing(a)
      BY <1>h, <1>j, <3>0, <3>1 DEF Failing, NobodyForgotten
    <3>2. ASSUME NEW d \in Conn, Making(a, d) PROVE NobodyForgotten'
      <4>1. ASSUME NEW r \in Requester, stage[r] = "wait"
            PROVE  conn'[r] = conn[r] /\ reader'[conn[r]] = reader[conn[r]]
        <5>1. conn[r] \in Conn /\ conn[r] <= made /\ r # a
          BY <1>h, <3>2, <4>1 DEF Making
        <5>2. conn[r] # d
          BY <3>2, <5>1 DEF Making
        <5>3. QED
          BY <3>2, <5>1, <5>2 DEF Making
      <4>2. QED
        BY <3>0, <4>1 DEF NobodyForgotten
    <3>3. QED
      BY <2>1, <3>1, <3>2, Handshake
  <2>2. CASE BridgeBegins(a)
     BY <1>a, <1>b, <1>c, <1>h, <1>j, <1>i, <2>2 DEF BridgeBegins, Ask, Returns, Goto,
       manager, requests, links, server, NobodyForgotten
  <2>3. CASE Watch(a)
    <3>0. UNCHANGED <<stage, pending, reader>>
      BY <2>3 DEF Watch, links, requests
    <3>1. PICK d \in Conn, w \in Actor : Watching(a, d, w)
      BY <2>3, Watched
    <3>2. QED
      BY <1>h, <1>j, <3>0, <3>1 DEF Watching, NobodyForgotten
  <2>4. CASE Drop(a)
     BY <1>a, <1>b, <1>c, <1>h, <1>j, <1>i, <2>4 DEF Drop, Drops, AfterDrop, Rest,
       Goto, manager, requests, links, server, NobodyForgotten
  <2>5. CASE Reconnected(a)
     BY <1>a, <1>b, <1>c, <1>h, <1>j, <2>5 DEF Reconnected, Rest, Goto, Unlock, Home,
       manager, requests, links, server, NobodyForgotten
  <2>6. CASE ReconnectFails(a)
     BY <1>a, <1>b, <1>c, <1>h, <1>j, <2>6 DEF ReconnectFails, Rest, Goto, Unlock,
       Home, manager, requests, links, server, NobodyForgotten
   <2>7. CASE BridgeListed(a) \/ BridgeChecks(a) \/ BridgeInstalls(a) \/ Wakes(a) \/
     Close(a)
     BY <1>0, <2>7 DEF BridgeListed, BridgeFails, Forget, Goto, manager, requests,
       links, server, BridgeChecks, BridgeInstalls, Wakes, Close
  <2>8. QED
    BY <1>1, <2>1, <2>2, <2>3, <2>4, <2>5, <2>6, <2>7 DEF Shared
<1>2. CASE Vm \/ VmConnects \/ VmDisconnects \/ VmReconnects
  <2>1. CASE VmConnected
     BY <1>a, <1>b, <1>c, <1>h, <1>j, <2>1 DEF VmConnected, manager, requests, links,
       server, NobodyForgotten
  <2>2. CASE VmTakes
     BY <1>a, <1>b, <1>c, <1>h, <1>j, <2>2 DEF VmTakes, Free, Goto, manager, requests,
       links, server, NobodyForgotten
  <2>3. CASE VmDisconnected
     BY <1>a, <1>b, <1>c, <1>h, <1>j, <2>3 DEF VmDisconnected, Unlock, Rest, Goto,
       manager, requests, links, server, NobodyForgotten
  <2>4. CASE VmRetakes
     BY <1>a, <1>b, <1>c, <1>h, <1>j, <2>4 DEF VmRetakes, Free, Goto, Reconnect,
       manager, requests, links, server, NobodyForgotten
  <2>5. CASE VmConnectFails
     BY <1>a, <1>b, <1>c, <1>h, <1>j, <2>5 DEF VmConnectFails, Rest, Goto, manager,
       requests, links, server, NobodyForgotten
  <2>6. CASE VmConnects \/ VmDisconnects \/ VmReconnects
     BY <1>0, <2>6 DEF VmConnects, Resting, manager, requests, links, server,
       VmDisconnects, Goto, VmReconnects
  <2>7. QED
    BY <1>2, <2>1, <2>2, <2>3, <2>4, <2>5, <2>6 DEF Vm
<1>3. ASSUME NEW m \in Managed, Task(m) PROVE NobodyForgotten'
  <2>1. CASE BackgroundConnected(m)
     BY <1>a, <1>b, <1>c, <1>h, <1>j, <2>1 DEF BackgroundConnected, Goto, Unlock,
       manager, requests, links, server, NobodyForgotten
  <2>2. CASE BackgroundUndone(m)
     BY <1>a, <1>b, <1>c, <1>h, <1>j, <2>2 DEF BackgroundUndone, Unlock, Rest, Goto,
       manager, requests, links, server, NobodyForgotten
  <2>3. CASE BackgroundFails(m)
     BY <1>a, <1>b, <1>c, <1>h, <1>j, <2>3 DEF BackgroundFails, Unlock, Rest, Goto,
       manager, requests, links, server, NobodyForgotten
  <2>4. CASE Supervise(m)
     BY <1>a, <1>b, <1>c, <1>h, <1>j, <2>4 DEF Supervise, Goto, Free, Reconnect,
       manager, requests, links, server, NobodyForgotten
  <2>5. CASE BackgroundBegins(m) \/ BackgroundForgets(m)
     BY <1>0, <2>5 DEF BackgroundBegins, Free, Goto, BackgroundOpens, manager,
       requests, links, server, BackgroundForgets
  <2>6. QED
    BY <1>3, <2>1, <2>2, <2>3, <2>4, <2>5 DEF Task
<1>4. ASSUME NEW r \in Requester, Request(r) PROVE NobodyForgotten'
  <2>1. CASE CallTool(r)
     BY <1>a, <1>b, <1>c, <1>h, <1>j, <2>1 DEF CallTool, Ask, Returns, manager,
       requests, links, server, NobodyForgotten
  <2>2. CASE Insert(r)
     BY <1>a, <1>b, <1>c, <1>h, <1>j, <2>2 DEF Insert, manager, requests, links,
       server, NobodyForgotten
  <2>3. CASE Send(r)
     BY <1>a, <1>b, <1>c, <1>h, <1>j, <2>3 DEF Send, Returns, manager, requests,
       links, server, NobodyForgotten
  <2>4. CASE SendBreaks(r)
     BY <1>a, <1>b, <1>c, <1>h, <1>j, <2>4 DEF SendBreaks, Returns, Fault, manager,
       requests, links, server, NobodyForgotten
  <2>5. CASE Answered(r)
     BY <1>a, <1>b, <1>c, <1>h, <1>j, <2>5 DEF Answered, Returns, Fault, manager,
       requests, links, server, NobodyForgotten
  <2>6. CASE Forgotten(r)
     BY <1>a, <1>b, <1>c, <1>h, <1>j, <2>6 DEF Forgotten, Returns, manager, requests,
       links, server, NobodyForgotten
  <2>7. CASE GivesUp(r)
     BY <1>a, <1>b, <1>c, <1>h, <1>j, <2>7 DEF GivesUp, Returns, Fault, manager,
       requests, links, server, NobodyForgotten
  <2>8. QED
    BY <1>4, <2>1, <2>2, <2>3, <2>4, <2>5, <2>6, <2>7 DEF Request
<1>5. ASSUME NEW c \in Conn, ReaderEnds(c) \/ ReaderDrains(c) \/ ServerChanges(c) PROVE NobodyForgotten'
  <2>1. CASE ReaderEnds(c)
     BY <1>a, <1>b, <1>c, <1>h, <1>j, <2>1 DEF ReaderEnds, Fault, manager, requests,
       links, server, NobodyForgotten
  <2>2. CASE ReaderDrains(c)
     BY <1>a, <1>b, <1>c, <1>h, <1>j, <2>2 DEF ReaderDrains, manager, requests, links,
       server, NobodyForgotten
  <2>3. CASE ServerChanges(c)
    BY <1>0, <2>3 DEF ServerChanges, manager, requests, links, server
  <2>4. QED
    BY <1>5, <2>1, <2>2, <2>3
<1>6. ASSUME NEW n \in Contested, HostRegisters(n) PROVE NobodyForgotten'
  BY <1>0, <1>6 DEF HostRegisters, manager, requests, links, server
<1>7. QED
  BY <1>1, <1>2, <1>3, <1>4, <1>5, <1>6 DEF Next

(* What the watchers see.                                                    *)
OffInv == \A a \in Opener : pc[a] \in Opening => pc[Watcher(conn[a])] = "off"
AnswerInv == \A a \in Actor :
    Refreshed(a) => /\ answer[a] \subseteq Tool
                    /\ answer[a] = catalog[conn[a]] \/ permit[conn[a]]
InstallInv == \A a \in Actor :
    pc[a] = "install" => \A n \in answer[a] \ todo[a] : owner[n] = conn[a]

(* The connections that show what their server lists, and those that         *)
(* somebody is about to drop.                                                *)
Current == {c \in Conn : Shown(c) = catalog[c]}
InDrop == {c \in Conn : Dropping(c)}

ShowInv == \A a \in Actor : pc[a] = "watch" => conn[a] \in Current \/ permit[conn[a]]
WakeInv == \A a \in Actor : pc[a] \in {"idle"} \cup Opening /\ closed[conn[a]]
                            => permit[conn[a]] \/ conn[a] \in InDrop
WakeupInv == \A c \in Conn : pc[Watcher(c)] = "idle" /\ ~permit[c] =>
    (~closed[c] /\ (c \in Current \/ missed[c])) \/ c \in InDrop

(* The parts of WatchInv, before a step.                                     *)
LEMMA WatchParts ==
  ASSUME TypeOK, PlaceInv, ConnInv, HoldInv, WatchInv, WakeupsKept
  PROVE  OffInv /\ AnswerInv /\ InstallInv /\ ShowInv /\ WakeInv /\ WakeupInv
<1>1. \A a \in Actor : pc[a] \in {"idle"} \cup Opening => conn[a] \in Conn
  BY Places DEF Opening, Bridging
<1>2. "watch" \in {"idle"} \cup Opening
  BY DEF Opening
<1>3. ShowInv /\ WakeInv
  BY <1>1, <1>2 DEF WatchInv, ShowInv, WakeInv, Current, InDrop
<1>4. WakeupInv
  BY DEF WakeupsKept, WakeupInv, Current, InDrop
<1>5. QED
  BY <1>3, <1>4 DEF WatchInv, OffInv, AnswerInv, InstallInv

(* And after it.                                                             *)
LEMMA WatchPartsNext ==
  ASSUME OffInv', AnswerInv', InstallInv', ShowInv', WakeInv', WakeupInv'
  PROVE  WatchInv' /\ WakeupsKept'
<1>1. WakeupsKept'
  BY DEF WakeupsKept, WakeupInv, Current, InDrop
<1>2. \A a \in Actor : (pc[a] = "watch" => Shown(conn[a]) = catalog[conn[a]] \/ permit[conn[a]])'
  BY DEF ShowInv, Current
<1>3. \A a \in Actor : (pc[a] \in {"idle"} \cup Opening /\ closed[conn[a]]
                        => permit[conn[a]] \/ Dropping(conn[a]))'
  BY DEF WakeInv, InDrop
<1>4. QED
  BY <1>1, <1>2, <1>3 DEF WatchInv, OffInv, AnswerInv, InstallInv

(* One actor at a time opens, watches or refreshes a connection.             *)
Alone == \A a, b \in Actor : /\ pc[a] \in {"idle"} \cup Opening
                             /\ pc[b] \in {"idle"} \cup Opening
                             /\ conn[a] = conn[b]
                             => a = b

(* So it is before every step.                                               *)
LEMMA OneAtATime ==
  ASSUME TypeOK, PlaceInv, ConnInv, HoldInv, WatchInv
  PROVE  Alone
<1> DEFINE P == {"idle"} \cup Opening
<1>1. ASSUME NEW a \in Actor, pc[a] \in P
      PROVE  /\ conn[a] \in Conn /\ op[a] \in {"open", "reopen", "watch"}
             /\ a \in Opener => pc[a] \in Opening /\ op[a] # "none"
                                /\ MyManaged(a) \in Managed
             /\ a \notin Opener => a = Watcher(conn[a]) /\ pc[a] # "off"
  <2>1. pc[a] \in {"idle", "lock", "watch", "answer", "check", "install"}
    BY <1>1 DEF Opening, Bridging
  <2>2. conn[a] \in Conn /\ op[a] \in {"open", "reopen", "watch"}
    BY <2>1, StepOps
  <2>3. a \in Opener => pc[a] \in Opening /\ op[a] # "none" /\ MyManaged(a) \in Managed
    BY <1>1, <2>2, StepOps
  <2>4. a \notin Opener => op[a] = "watch"
    BY <2>2, StepOps
  <2>5. a \notin Opener => a = Watcher(conn[a])
    BY <2>4, StepOps
  <2>6. QED
    BY <2>1, <2>2, <2>3, <2>5
<1> HIDE DEF P
<1>2. ASSUME NEW a \in Opener, NEW b \in Opener, op[a] \in {"open", "reopen"},
             op[b] \in {"open", "reopen"}, conn[a] = conn[b], conn[a] \in Conn
      PROVE  a = b
  <2>1. PICK m \in Managed : MyManaged(a) = m
    BY <1>2, Actors, StepOps
  <2>2. MyManaged(b) = m
    BY <1>2, <2>1, Goods, Numbers DEF Tasks
  <2>3. a \in {VM, Background(m), Supervisor(m)} /\ b \in {VM, Background(m), Supervisor(m)}
    BY <2>1, <2>2, Actors, Work
  <2>4. LockInv /\ OnceInv
    BY HoldParts
  <2>5. /\ a = Background(m) \/ b = Background(m) => holder[m] = Background(m)
        /\ a = Supervisor(m) \/ b = Supervisor(m) => holder[m] = Supervisor(m)
    BY <1>2, <2>4 DEF LockInv
  <2>6. a = VM \/ b = VM => target = m
    BY <2>1, <2>2, Work
  <2>7. (a = VM \/ b = VM) /\ holder[m] # VM
        => op[Background(m)] = "none" /\ op[Supervisor(m)] = "none"
    <3>1. (a = VM \/ b = VM) /\ holder[m] # VM => op[VM] = "open"
      BY <1>2, <2>4, <2>6 DEF LockInv
    <3>2. op[VM] = "open" /\ target = m => pc[Background(m)] = "off" /\ pc[Supervisor(m)] = "off"
      BY <2>4 DEF OnceInv
    <3>3. /\ pc[Background(m)] = "off" => op[Background(m)] = "none"
          /\ pc[Supervisor(m)] = "off" => op[Supervisor(m)] = "none"
      BY Actors, StepOps
    <3>4. QED
      BY <2>6, <3>1, <3>2, <3>3
  <2>8. Background(m) # VM /\ Supervisor(m) # VM /\ Background(m) # Supervisor(m)
    BY Actors
  <2>9. QED
    BY <1>2, <2>3, <2>5, <2>7, <2>8
<1>3. ASSUME NEW a \in Actor, NEW b \in Actor, pc[a] \in P, pc[b] \in P, conn[a] = conn[b]
      PROVE  a = b
  <2>1. a \in Opener => op[a] # "watch"
    BY <1>3, StepOps
  <2>2. b \in Opener => op[b] # "watch"
    BY <1>3, StepOps
  <2>3. CASE a \in Opener /\ b \in Opener
    BY <1>1, <1>2, <1>3, <2>1, <2>2, <2>3
  <2>4. CASE a \notin Opener /\ b \notin Opener
    BY <1>1, <1>3, <2>4
  <2>5. \A x, y \in Actor : pc[x] \in P /\ pc[y] \in P /\ x \in Opener /\ y \notin Opener
                            => conn[x] # conn[y]
    BY <1>1 DEF WatchInv
  <2>6. QED
    BY <1>3, <2>3, <2>4, <2>5
<1>4. QED
  BY <1>3 DEF Alone, P

(* Nobody watches what is being opened.                                      *)
(* Nobody watches what is being opened.                                      *)
LEMMA OffStep ==
  ASSUME TypeOK, PlaceInv, ConnInv, HoldInv, WatchInv, CloseInv, WakeupsKept, Next
  PROVE  OffInv'
<1> USE DEF Names, Posts, Kinds, Watches, Quiet
<1>a. Names
  BY Scene
<1>b. Posts
  BY Scene
<1>c. Kinds
  BY Scene
<1>d. Watches
  BY Scene
<1>e. Quiet
  BY Scene
<1>f. VmConnects => opened + 1 \in Managed /\ opened + 1 > opened
  BY McpBounds DEF VmConnects, TypeOK, Managed
<1> USE DEF Numbered, Given, Tasks, Alone
<1>g. Numbered
  BY Goods
<1>h. Given
  BY Goods
<1>i. Tasks
  BY Goods
<1>j. /\ permit \in [Conn -> BOOLEAN] /\ closed \in [Conn -> BOOLEAN]
      /\ missed \in [Conn -> BOOLEAN] /\ child \in [Conn -> BOOLEAN]
      /\ owner \in [Tool -> Conn \cup {None, Host}]
      /\ sync \in [Conn -> Actor \cup {Nobody}] /\ Nobody \notin Actor
      /\ answer \in [Requester -> (SUBSET Tool) \cup {Failed}]
      /\ todo \in [Actor -> SUBSET Tool] /\ catalog \in [Conn -> Catalog]
  BY Actors DEF TypeOK
<1>k. \A d \in Conn, a \in Actor : sync[d] = a <=> conn[a] = d /\ pc[a] \in Bridging
  BY DEF CloseInv
<1>l. /\ Opener \subseteq Actor /\ Actor \subseteq Requester /\ VM \in Opener
      /\ \A m \in Managed : Background(m) \in Opener /\ Supervisor(m) \in Opener
      /\ \A c \in Conn : Watcher(c) \notin Opener
      /\ \A a \in Opener : op[a] # "watch"
  BY Actors, StepOps
<1>m. Alone
  BY OneAtATime
<1>n. OffInv /\ AnswerInv /\ InstallInv /\ ShowInv /\ WakeInv /\ WakeupInv
  BY WatchParts
<1>o. \A c \in Conn : c > made => pc[Watcher(c)] = "off"
  BY DEF ConnInv
<1>0. UNCHANGED <<conn, pc>> => OffInv'
  BY <1>n DEF OffInv, Opening, Bridging
<1>1. ASSUME NEW a \in Actor, Shared(a) PROVE OffInv'
  <2>1. CASE Connect(a)
    <3>1. CASE Failing(a)
      BY <1>a, <1>i, <1>l, <1>n, <3>1 DEF Failing, OffInv, Opening, Bridging
    <3>2. ASSUME NEW d \in Conn, Making(a, d) PROVE OffInv'
      BY <1>a, <1>i, <1>l, <1>n, <1>o, <3>2 DEF Making, OffInv, Opening, Bridging
    <3>3. QED
      BY <2>1, <3>1, <3>2, Handshake
  <2>2. CASE BridgeBegins(a)
     BY <1>a, <1>b, <1>c, <1>i, <1>l, <1>n, <2>2 DEF BridgeBegins, Ask, Returns, Goto,
       manager, requests, links, server, OffInv, Opening, Bridging
  <2>3. CASE BridgeListed(a)
     BY <1>a, <1>b, <1>c, <1>i, <1>l, <1>n, <2>3 DEF BridgeListed, BridgeFails,
       Forget, Goto, manager, requests, links, server, OffInv, Opening, Bridging
  <2>4. CASE BridgeChecks(a)
     BY <1>a, <1>b, <1>c, <1>i, <1>l, <1>n, <2>4 DEF BridgeChecks, BridgeFails,
       Forget, Goto, manager, requests, links, server, OffInv, Opening, Bridging
  <2>5. CASE BridgeInstalls(a)
     BY <1>a, <1>b, <1>c, <1>i, <1>l, <1>n, <2>5 DEF BridgeInstalls, BridgeFails,
       Forget, Goto, manager, requests, links, server, OffInv, Opening, Bridging
  <2>6. CASE Watch(a)
    <3>1. PICK d \in Conn, w \in Actor : Watching(a, d, w)
      BY <2>6, Watched
    <3>2. QED
       BY <1>a, <1>b, <1>i, <1>l, <1>m, <1>n, <3>1 DEF Watching, OffInv, Opening,
         Bridging
  <2>7. CASE Wakes(a)
     BY <1>a, <1>b, <1>c, <1>i, <1>l, <1>n, <2>7 DEF Wakes, Goto, manager, requests,
       links, server, OffInv, Opening, Bridging
  <2>8. CASE Close(a)
     BY <1>a, <1>b, <1>c, <1>i, <1>l, <1>n, <2>8 DEF Close, Goto, manager, requests,
       links, server, OffInv, Opening, Bridging
  <2>9. CASE Drop(a)
     BY <1>a, <1>b, <1>c, <1>i, <1>l, <1>n, <2>9 DEF Drop, Drops, AfterDrop, Rest,
       Goto, manager, requests, links, server, OffInv, Opening, Bridging
  <2>10. CASE Reconnected(a)
     BY <1>a, <1>b, <1>c, <1>i, <1>l, <1>n, <2>10 DEF Reconnected, Rest, Goto, Unlock,
       Home, manager, requests, links, server, OffInv, Opening, Bridging
  <2>11. CASE ReconnectFails(a)
     BY <1>a, <1>b, <1>c, <1>i, <1>l, <1>n, <2>11 DEF ReconnectFails, Rest, Goto,
       Unlock, Home, manager, requests, links, server, OffInv, Opening, Bridging
  <2>12. QED
     BY <1>1, <2>1, <2>2, <2>3, <2>4, <2>5, <2>6, <2>7, <2>8, <2>9, <2>10, <2>11 DEF
       Shared
<1>2. CASE Vm \/ VmConnects \/ VmDisconnects \/ VmReconnects
  <2>1. CASE VmConnects
     BY <1>a, <1>b, <1>c, <1>i, <1>l, <1>n, <1>e, <1>f, <2>1 DEF VmConnects, Resting,
       manager, requests, links, server, OffInv, Opening, Bridging
  <2>2. CASE VmConnected
     BY <1>a, <1>b, <1>c, <1>i, <1>l, <1>n, <1>e, <2>2 DEF VmConnected, manager,
       requests, links, server, OffInv, Opening, Bridging
  <2>3. CASE VmDisconnects
     BY <1>a, <1>b, <1>c, <1>i, <1>l, <1>n, <2>3 DEF VmDisconnects, Resting, Goto,
       manager, requests, links, server, OffInv, Opening, Bridging
  <2>4. CASE VmTakes
     BY <1>a, <1>b, <1>c, <1>i, <1>l, <1>n, <1>e, <2>4 DEF VmTakes, Free, Goto,
       manager, requests, links, server, OffInv, Opening, Bridging
  <2>5. CASE VmDisconnected
     BY <1>a, <1>b, <1>c, <1>i, <1>l, <1>n, <2>5 DEF VmDisconnected, Unlock, Rest,
       Goto, manager, requests, links, server, OffInv, Opening, Bridging
  <2>6. CASE VmReconnects
     BY <1>a, <1>b, <1>c, <1>i, <1>l, <1>n, <2>6 DEF VmReconnects, Resting, Goto,
       manager, requests, links, server, OffInv, Opening, Bridging
  <2>7. CASE VmRetakes
     BY <1>a, <1>b, <1>c, <1>i, <1>l, <1>n, <1>e, <2>7 DEF VmRetakes, Free, Goto,
       Reconnect, manager, requests, links, server, OffInv, Opening, Bridging
  <2>8. CASE VmConnectFails
     BY <1>a, <1>b, <1>c, <1>i, <1>l, <1>n, <2>8 DEF VmConnectFails, Rest, Goto,
       manager, requests, links, server, OffInv, Opening, Bridging
  <2>9. QED
    BY <1>2, <2>1, <2>2, <2>3, <2>4, <2>5, <2>6, <2>7, <2>8 DEF Vm
<1>3. ASSUME NEW m \in Managed, Task(m) PROVE OffInv'
  <2>1. CASE BackgroundBegins(m)
     BY <1>a, <1>b, <1>c, <1>i, <1>l, <1>n, <2>1 DEF BackgroundBegins, Free, Goto,
       BackgroundOpens, manager, requests, links, server, OffInv, Opening, Bridging
  <2>2. CASE BackgroundConnected(m)
     BY <1>a, <1>b, <1>c, <1>i, <1>l, <1>n, <1>e, <2>2 DEF BackgroundConnected, Goto,
       Unlock, manager, requests, links, server, OffInv, Opening, Bridging
  <2>3. CASE BackgroundUndone(m)
     BY <1>a, <1>b, <1>c, <1>i, <1>l, <1>n, <2>3 DEF BackgroundUndone, Unlock, Rest,
       Goto, manager, requests, links, server, OffInv, Opening, Bridging
  <2>4. CASE BackgroundFails(m)
     BY <1>a, <1>b, <1>c, <1>i, <1>l, <1>n, <2>4 DEF BackgroundFails, Unlock, Rest,
       Goto, manager, requests, links, server, OffInv, Opening, Bridging
  <2>5. CASE BackgroundForgets(m)
     BY <1>a, <1>b, <1>c, <1>i, <1>l, <1>n, <2>5 DEF BackgroundForgets, Goto, manager,
       requests, links, server, OffInv, Opening, Bridging
  <2>6. CASE Supervise(m)
     BY <1>a, <1>b, <1>c, <1>i, <1>l, <1>n, <2>6 DEF Supervise, Goto, Free, Reconnect,
       manager, requests, links, server, OffInv, Opening, Bridging
  <2>7. QED
    BY <1>3, <2>1, <2>2, <2>3, <2>4, <2>5, <2>6 DEF Task
<1>4. ASSUME NEW r \in Requester, Request(r) PROVE OffInv'
  <2>1. CASE CallTool(r)
     BY <1>a, <1>b, <1>c, <1>i, <1>l, <1>n, <2>1 DEF CallTool, Ask, Returns, manager,
       requests, links, server, OffInv, Opening, Bridging
   <2>2. CASE Insert(r) \/ Send(r) \/ SendBreaks(r) \/ Answered(r) \/ Forgotten(r) \/
     GivesUp(r)
     BY <1>0, <2>2 DEF Insert, manager, requests, links, server, Send, Returns,
       SendBreaks, Fault, Answered, Forgotten, GivesUp
  <2>3. QED
    BY <1>4, <2>1, <2>2 DEF Request
<1>5. ASSUME NEW c \in Conn, ReaderEnds(c) \/ ReaderDrains(c) \/ ServerChanges(c) PROVE OffInv'
   BY <1>0, <1>5 DEF ReaderEnds, Fault, manager, requests, links, server,
     ReaderDrains, ServerChanges
<1>6. ASSUME NEW n \in Contested, HostRegisters(n) PROVE OffInv'
  BY <1>0, <1>6 DEF HostRegisters, manager, requests, links, server
<1>7. QED
  BY <1>1, <1>2, <1>3, <1>4, <1>5, <1>6 DEF Next

(* What a refresh has seen is what the server lists, or it has a permit.     *)
LEMMA AnswerStep2 ==
  ASSUME TypeOK, PlaceInv, ConnInv, HoldInv, WatchInv, CloseInv, WakeupsKept, Next
  PROVE  AnswerInv'
<1> USE DEF Names, Posts, Kinds, Watches, Quiet
<1>a. Names
  BY Scene
<1>b. Posts
  BY Scene
<1>c. Kinds
  BY Scene
<1>d. Watches
  BY Scene
<1>e. Quiet
  BY Scene
<1>f. VmConnects => opened + 1 \in Managed /\ opened + 1 > opened
  BY McpBounds DEF VmConnects, TypeOK, Managed
<1> USE DEF Numbered, Given, Tasks, Alone
<1>g. Numbered
  BY Goods
<1>h. Given
  BY Goods
<1>i. Tasks
  BY Goods
<1>j. /\ permit \in [Conn -> BOOLEAN] /\ closed \in [Conn -> BOOLEAN]
      /\ missed \in [Conn -> BOOLEAN] /\ child \in [Conn -> BOOLEAN]
      /\ owner \in [Tool -> Conn \cup {None, Host}]
      /\ sync \in [Conn -> Actor \cup {Nobody}] /\ Nobody \notin Actor
      /\ answer \in [Requester -> (SUBSET Tool) \cup {Failed}]
      /\ todo \in [Actor -> SUBSET Tool] /\ catalog \in [Conn -> Catalog]
  BY Actors DEF TypeOK
<1>k. \A d \in Conn, a \in Actor : sync[d] = a <=> conn[a] = d /\ pc[a] \in Bridging
  BY DEF CloseInv
<1>l. /\ Opener \subseteq Actor /\ Actor \subseteq Requester /\ VM \in Opener
      /\ \A m \in Managed : Background(m) \in Opener /\ Supervisor(m) \in Opener
      /\ \A c \in Conn : Watcher(c) \notin Opener
      /\ \A a \in Opener : op[a] # "watch"
  BY Actors, StepOps
<1>m. Alone
  BY OneAtATime
<1>n. OffInv /\ AnswerInv /\ InstallInv /\ ShowInv /\ WakeInv /\ WakeupInv
  BY WatchParts
<1>o. \A a \in Actor : Refreshed(a) <=> \/ pc[a] \in {"check", "install"}
                                       \/ /\ pc[a] = "answer" /\ stage[a] = "none"
                                          /\ answer[a] # Failed
  BY DEF Refreshed
<1>p. \A c \in Conn : catalog[c] \subseteq Tool
  BY <1>j, McpTools
<1>0. UNCHANGED <<answer, catalog, conn, pc, permit, stage>> => AnswerInv'
  BY <1>n DEF AnswerInv, Refreshed
<1>1. ASSUME NEW a \in Actor, Shared(a) PROVE AnswerInv'
  <2>1. CASE Connect(a)
    <3>0. UNCHANGED <<stage, answer, catalog, permit>>
      BY <2>1 DEF Connect, requests, server
    <3>1. CASE Failing(a)
      BY <1>h, <1>l, <1>n, <3>0, <3>1 DEF Failing, AnswerInv, Refreshed
    <3>2. ASSUME NEW d \in Conn, Making(a, d) PROVE AnswerInv'
      BY <1>h, <1>l, <1>n, <3>0, <3>2 DEF Making, AnswerInv, Refreshed
    <3>3. QED
      BY <2>1, <3>1, <3>2, Handshake
  <2>2. CASE BridgeBegins(a)
     BY <1>a, <1>b, <1>c, <1>h, <1>i, <1>j, <1>n, <2>2 DEF BridgeBegins, Ask, Returns,
       Goto, manager, requests, links, server, AnswerInv, Refreshed
  <2>3. CASE BridgeListed(a)
     BY <1>a, <1>b, <1>c, <1>h, <1>i, <1>j, <1>n, <2>3 DEF BridgeListed, BridgeFails,
       Forget, Goto, manager, requests, links, server, AnswerInv, Refreshed
  <2>4. CASE BridgeChecks(a)
     BY <1>a, <1>b, <1>c, <1>h, <1>i, <1>j, <1>n, <2>4 DEF BridgeChecks, BridgeFails,
       Forget, Goto, manager, requests, links, server, AnswerInv, Refreshed
  <2>5. CASE BridgeInstalls(a)
     BY <1>a, <1>b, <1>c, <1>h, <1>i, <1>j, <1>n, <2>5 DEF BridgeInstalls,
       BridgeFails, Forget, Goto, manager, requests, links, server, AnswerInv,
       Refreshed
  <2>6. CASE Watch(a)
    <3>0. UNCHANGED <<stage, answer, catalog, permit>>
      BY <2>6 DEF Watch, requests, server, links
    <3>1. PICK d \in Conn, w \in Actor : Watching(a, d, w)
      BY <2>6, Watched
    <3>2. QED
      BY <1>l, <1>n, <3>0, <3>1 DEF Watching, AnswerInv, Refreshed
  <2>7. CASE Wakes(a)
     BY <1>a, <1>b, <1>c, <1>h, <1>i, <1>j, <1>n, <1>m, <2>7 DEF Wakes, Goto, manager,
       requests, links, server, AnswerInv, Refreshed, Opening, Bridging
  <2>8. CASE Close(a)
     BY <1>a, <1>b, <1>c, <1>h, <1>i, <1>j, <1>n, <2>8 DEF Close, Goto, manager,
       requests, links, server, AnswerInv, Refreshed
  <2>9. CASE Drop(a)
     BY <1>a, <1>b, <1>c, <1>h, <1>i, <1>j, <1>n, <2>9 DEF Drop, Drops, AfterDrop,
       Rest, Goto, manager, requests, links, server, AnswerInv, Refreshed
  <2>10. CASE Reconnected(a)
     BY <1>a, <1>b, <1>c, <1>h, <1>i, <1>j, <1>n, <2>10 DEF Reconnected, Rest, Goto,
       Unlock, Home, manager, requests, links, server, AnswerInv, Refreshed
  <2>11. CASE ReconnectFails(a)
     BY <1>a, <1>b, <1>c, <1>h, <1>i, <1>j, <1>n, <2>11 DEF ReconnectFails, Rest,
       Goto, Unlock, Home, manager, requests, links, server, AnswerInv, Refreshed
  <2>12. QED
     BY <1>1, <2>1, <2>2, <2>3, <2>4, <2>5, <2>6, <2>7, <2>8, <2>9, <2>10, <2>11 DEF
       Shared
<1>2. CASE Vm \/ VmConnects \/ VmDisconnects \/ VmReconnects
  <2>1. CASE VmConnects
     BY <1>a, <1>b, <1>c, <1>h, <1>i, <1>j, <1>n, <1>e, <1>f, <2>1 DEF VmConnects,
       Resting, manager, requests, links, server, AnswerInv, Refreshed
  <2>2. CASE VmConnected
     BY <1>a, <1>b, <1>c, <1>h, <1>i, <1>j, <1>n, <1>e, <2>2 DEF VmConnected, manager,
       requests, links, server, AnswerInv, Refreshed
  <2>3. CASE VmDisconnects
     BY <1>a, <1>b, <1>c, <1>h, <1>i, <1>j, <1>n, <2>3 DEF VmDisconnects, Resting,
       Goto, manager, requests, links, server, AnswerInv, Refreshed
  <2>4. CASE VmTakes
     BY <1>a, <1>b, <1>c, <1>h, <1>i, <1>j, <1>n, <2>4 DEF VmTakes, Free, Goto,
       manager, requests, links, server, AnswerInv, Refreshed
  <2>5. CASE VmDisconnected
     BY <1>a, <1>b, <1>c, <1>h, <1>i, <1>j, <1>n, <2>5 DEF VmDisconnected, Unlock,
       Rest, Goto, manager, requests, links, server, AnswerInv, Refreshed
  <2>6. CASE VmReconnects
     BY <1>a, <1>b, <1>c, <1>h, <1>i, <1>j, <1>n, <2>6 DEF VmReconnects, Resting,
       Goto, manager, requests, links, server, AnswerInv, Refreshed
  <2>7. CASE VmRetakes
     BY <1>a, <1>b, <1>c, <1>h, <1>i, <1>j, <1>n, <2>7 DEF VmRetakes, Free, Goto,
       Reconnect, manager, requests, links, server, AnswerInv, Refreshed
  <2>8. CASE VmConnectFails
     BY <1>a, <1>b, <1>c, <1>h, <1>i, <1>j, <1>n, <2>8 DEF VmConnectFails, Rest, Goto,
       manager, requests, links, server, AnswerInv, Refreshed
  <2>9. QED
    BY <1>2, <2>1, <2>2, <2>3, <2>4, <2>5, <2>6, <2>7, <2>8 DEF Vm
<1>3. ASSUME NEW m \in Managed, Task(m) PROVE AnswerInv'
  <2>1. CASE BackgroundBegins(m)
     BY <1>a, <1>b, <1>c, <1>h, <1>i, <1>j, <1>n, <2>1 DEF BackgroundBegins, Free,
       Goto, BackgroundOpens, manager, requests, links, server, AnswerInv, Refreshed
  <2>2. CASE BackgroundConnected(m)
     BY <1>a, <1>b, <1>c, <1>h, <1>i, <1>j, <1>n, <1>e, <2>2 DEF BackgroundConnected,
       Goto, Unlock, manager, requests, links, server, AnswerInv, Refreshed
  <2>3. CASE BackgroundUndone(m)
     BY <1>a, <1>b, <1>c, <1>h, <1>i, <1>j, <1>n, <2>3 DEF BackgroundUndone, Unlock,
       Rest, Goto, manager, requests, links, server, AnswerInv, Refreshed
  <2>4. CASE BackgroundFails(m)
     BY <1>a, <1>b, <1>c, <1>h, <1>i, <1>j, <1>n, <2>4 DEF BackgroundFails, Unlock,
       Rest, Goto, manager, requests, links, server, AnswerInv, Refreshed
  <2>5. CASE BackgroundForgets(m)
     BY <1>a, <1>b, <1>c, <1>h, <1>i, <1>j, <1>n, <2>5 DEF BackgroundForgets, Goto,
       manager, requests, links, server, AnswerInv, Refreshed
  <2>6. CASE Supervise(m)
     BY <1>a, <1>b, <1>c, <1>h, <1>i, <1>j, <1>n, <2>6 DEF Supervise, Goto, Free,
       Reconnect, manager, requests, links, server, AnswerInv, Refreshed
  <2>7. QED
    BY <1>3, <2>1, <2>2, <2>3, <2>4, <2>5, <2>6 DEF Task
<1>4. ASSUME NEW r \in Requester, Request(r) PROVE AnswerInv'
  <2>1. CASE CallTool(r)
     BY <1>a, <1>b, <1>c, <1>h, <1>i, <1>j, <1>n, <2>1 DEF CallTool, Ask, Returns,
       manager, requests, links, server, AnswerInv, Refreshed
  <2>2. CASE Insert(r)
     BY <1>a, <1>b, <1>c, <1>h, <1>i, <1>j, <1>n, <2>2 DEF Insert, manager, requests,
       links, server, AnswerInv, Refreshed
  <2>3. CASE Send(r)
     BY <1>a, <1>b, <1>c, <1>h, <1>i, <1>j, <1>n, <2>3 DEF Send, Returns, manager,
       requests, links, server, AnswerInv, Refreshed
  <2>4. CASE SendBreaks(r)
     BY <1>a, <1>b, <1>c, <1>h, <1>i, <1>j, <1>n, <2>4 DEF SendBreaks, Returns, Fault,
       manager, requests, links, server, AnswerInv, Refreshed
  <2>5. CASE Answered(r)
     BY <1>a, <1>b, <1>c, <1>h, <1>i, <1>j, <1>n, <1>p, <2>5 DEF Answered, Returns,
       Fault, manager, requests, links, server, AnswerInv, Refreshed
  <2>6. CASE Forgotten(r)
     BY <1>a, <1>b, <1>c, <1>h, <1>i, <1>j, <1>n, <2>6 DEF Forgotten, Returns,
       manager, requests, links, server, AnswerInv, Refreshed
  <2>7. CASE GivesUp(r)
     BY <1>a, <1>b, <1>c, <1>h, <1>i, <1>j, <1>n, <2>7 DEF GivesUp, Returns, Fault,
       manager, requests, links, server, AnswerInv, Refreshed
  <2>8. QED
    BY <1>4, <2>1, <2>2, <2>3, <2>4, <2>5, <2>6, <2>7 DEF Request
<1>5. ASSUME NEW c \in Conn, ReaderEnds(c) \/ ReaderDrains(c) \/ ServerChanges(c) PROVE AnswerInv'
  <2>1. CASE ReaderEnds(c)
     BY <1>a, <1>b, <1>c, <1>h, <1>i, <1>j, <1>n, <2>1 DEF ReaderEnds, Fault, manager,
       requests, links, server, AnswerInv, Refreshed
  <2>2. CASE ServerChanges(c)
     BY <1>a, <1>b, <1>c, <1>h, <1>i, <1>j, <1>n, <2>2 DEF ServerChanges, manager,
       requests, links, server, AnswerInv, Refreshed
  <2>3. CASE ReaderDrains(c)
    BY <1>0, <2>3 DEF ReaderDrains, manager, requests, links, server
  <2>4. QED
    BY <1>5, <2>1, <2>2, <2>3
<1>6. ASSUME NEW n \in Contested, HostRegisters(n) PROVE AnswerInv'
  BY <1>0, <1>6 DEF HostRegisters, manager, requests, links, server
<1>7. QED
  BY <1>1, <1>2, <1>3, <1>4, <1>5, <1>6 DEF Next

(* A refresh that installs keeps what it installed.                          *)
LEMMA InstallStep ==
  ASSUME TypeOK, PlaceInv, ConnInv, HoldInv, WatchInv, CloseInv, WakeupsKept, Next
  PROVE  InstallInv'
<1> USE DEF Names, Posts, Kinds, Watches, Quiet
<1>a. Names
  BY Scene
<1>b. Posts
  BY Scene
<1>c. Kinds
  BY Scene
<1>d. Watches
  BY Scene
<1>e. Quiet
  BY Scene
<1>f. VmConnects => opened + 1 \in Managed /\ opened + 1 > opened
  BY McpBounds DEF VmConnects, TypeOK, Managed
<1> USE DEF Numbered, Given, Tasks, Alone
<1>g. Numbered
  BY Goods
<1>h. Given
  BY Goods
<1>i. Tasks
  BY Goods
<1>j. /\ permit \in [Conn -> BOOLEAN] /\ closed \in [Conn -> BOOLEAN]
      /\ missed \in [Conn -> BOOLEAN] /\ child \in [Conn -> BOOLEAN]
      /\ owner \in [Tool -> Conn \cup {None, Host}]
      /\ sync \in [Conn -> Actor \cup {Nobody}] /\ Nobody \notin Actor
      /\ answer \in [Requester -> (SUBSET Tool) \cup {Failed}]
      /\ todo \in [Actor -> SUBSET Tool] /\ catalog \in [Conn -> Catalog]
  BY Actors DEF TypeOK
<1>k. \A d \in Conn, a \in Actor : sync[d] = a <=> conn[a] = d /\ pc[a] \in Bridging
  BY DEF CloseInv
<1>l. /\ Opener \subseteq Actor /\ Actor \subseteq Requester /\ VM \in Opener
      /\ \A m \in Managed : Background(m) \in Opener /\ Supervisor(m) \in Opener
      /\ \A c \in Conn : Watcher(c) \notin Opener
      /\ \A a \in Opener : op[a] # "watch"
  BY Actors, StepOps
<1>m. Alone
  BY OneAtATime
<1>n. OffInv /\ AnswerInv /\ InstallInv /\ ShowInv /\ WakeInv /\ WakeupInv
  BY WatchParts
<1>0. UNCHANGED <<answer, conn, owner, pc, todo>> => InstallInv'
  BY <1>n DEF InstallInv
<1>1. ASSUME NEW a \in Actor, Shared(a) PROVE InstallInv'
  <2>1. CASE Connect(a)
    <3>0. UNCHANGED <<answer, todo, owner>>
      BY <2>1 DEF Connect, requests
    <3>1. CASE Failing(a)
      BY <1>l, <1>n, <3>0, <3>1 DEF Failing, InstallInv
    <3>2. ASSUME NEW d \in Conn, Making(a, d) PROVE InstallInv'
      BY <1>l, <1>n, <3>0, <3>2 DEF Making, InstallInv
    <3>3. QED
      BY <2>1, <3>1, <3>2, Handshake
  <2>2. CASE BridgeBegins(a)
     BY <1>a, <1>b, <1>c, <1>h, <1>i, <1>j, <1>n, <2>2 DEF BridgeBegins, Ask, Returns,
       Goto, manager, requests, links, server, InstallInv
  <2>3. CASE BridgeListed(a)
     BY <1>a, <1>b, <1>c, <1>h, <1>i, <1>j, <1>n, <2>3 DEF BridgeListed, BridgeFails,
       Forget, Goto, manager, requests, links, server, InstallInv
  <2>4. CASE BridgeChecks(a)
     BY <1>a, <1>b, <1>c, <1>h, <1>i, <1>j, <1>n, <2>4 DEF BridgeChecks, BridgeFails,
       Forget, Goto, manager, requests, links, server, InstallInv
  <2>5. CASE BridgeInstalls(a)
    <3>1. /\ conn[a] \in Conn /\ conn[a] # None /\ pc[a] = "install" /\ sync[conn[a]] = a
      <4>1. pc[a] = "install"
        BY <2>5 DEF BridgeInstalls
      <4>2. conn[a] \in Conn /\ conn[a] # None
        BY <1>g, <1>i, <4>1
      <4>3. QED
        BY <1>k, <4>1, <4>2 DEF Bridging
    <3>2. UNCHANGED conn
      BY <2>5 DEF BridgeInstalls
    <3>3. \/ pc'[a] # "install" /\ UNCHANGED owner
          \/ /\ pc'[a] # "install"
             /\ owner' = [n \in Tool |-> IF owner[n] = conn[a] /\ n \notin answer[a] THEN None
                                                                                    ELSE owner[n]]
          \/ \E n \in todo[a] : /\ owner[n] \in {None, conn[a]}
                                /\ owner' = [owner EXCEPT ![n] = conn[a]]
                                /\ todo' = [todo EXCEPT ![a] = todo[a] \ {n}]
                                /\ UNCHANGED <<pc, answer>>
      BY <1>c, <2>5 DEF BridgeInstalls, BridgeFails, Goto
    <3>4. \A b \in Actor : b # a => pc'[b] = pc[b] /\ answer'[b] = answer[b] /\ todo'[b] = todo[b]
      BY <1>c, <1>j, <1>l, <2>5 DEF BridgeInstalls, BridgeFails, Forget, Goto
    <3>5. ASSUME NEW b \in Actor, b # a, pc[b] = "install", NEW n \in answer[b] \ todo[b]
          PROVE  owner'[n] = conn[b]
      <4>1. owner[n] = conn[b] /\ conn[b] \in Conn /\ conn[b] # None /\ sync[conn[b]] = b
        BY <1>g, <1>i, <1>k, <1>n, <3>5 DEF InstallInv, Bridging
      <4>2. conn[a] # conn[b]
        BY <3>1, <3>5, <4>1
      <4>3. n \in Tool
        BY <1>n, <3>5 DEF AnswerInv, Refreshed
      <4>4. QED
        BY <1>j, <3>1, <3>3, <4>1, <4>2, <4>3
    <3>6. ASSUME pc'[a] = "install", NEW n \in answer'[a] \ todo'[a] PROVE owner'[n] = conn[a]
      <4>1. PICK k \in todo[a] : /\ owner' = [owner EXCEPT ![k] = conn[a]]
                                 /\ todo' = [todo EXCEPT ![a] = todo[a] \ {k}]
                                 /\ UNCHANGED answer
        BY <3>3, <3>6
      <4>2. n \in Tool /\ k \in Tool
        BY <1>j, <1>n, <3>1, <3>6, <4>1 DEF AnswerInv, Refreshed
      <4>3. n = k \/ n \in answer[a] \ todo[a]
        BY <1>j, <3>6, <4>1
      <4>4. n \in answer[a] \ todo[a] => owner[n] = conn[a]
        BY <1>n, <3>1 DEF InstallInv
      <4>5. QED
        BY <1>j, <4>1, <4>2, <4>3, <4>4
    <3>7. QED
      BY <3>2, <3>4, <3>5, <3>6 DEF InstallInv
  <2>6. CASE Watch(a)
    <3>0. UNCHANGED <<answer, todo, owner>>
      BY <2>6 DEF Watch, requests
    <3>1. PICK d \in Conn, w \in Actor : Watching(a, d, w)
      BY <2>6, Watched
    <3>2. QED
      BY <1>l, <1>n, <3>0, <3>1 DEF Watching, InstallInv
  <2>7. CASE Wakes(a)
     BY <1>a, <1>b, <1>c, <1>h, <1>i, <1>j, <1>n, <2>7 DEF Wakes, Goto, manager,
       requests, links, server, InstallInv
  <2>8. CASE Close(a)
     BY <1>a, <1>b, <1>c, <1>h, <1>i, <1>j, <1>n, <2>8 DEF Close, Goto, manager,
       requests, links, server, InstallInv
  <2>9. CASE Drop(a)
    <3>1. /\ UNCHANGED <<answer, todo>> /\ sync[conn[a]] = Nobody
          /\ owner' = [n \in Tool |-> IF owner[n] = conn[a] THEN None ELSE owner[n]]
      BY <2>9 DEF Drop, Drops
    <3>2. \A b \in Actor : pc'[b] = "install" => b # a /\ pc[b] = "install" /\ conn'[b] = conn[b]
      BY <1>c, <1>l, <2>9 DEF Drop, Drops, AfterDrop, Rest, Goto
    <3>3. ASSUME NEW b \in Actor, pc[b] = "install", NEW n \in answer[b] \ todo[b]
          PROVE  owner'[n] = conn[b]
      <4>1. owner[n] = conn[b] /\ sync[conn[b]] = b /\ b # Nobody
        BY <1>i, <1>j, <1>k, <1>n, <3>3 DEF InstallInv, Bridging
      <4>2. n \in Tool
        BY <1>n, <3>3 DEF AnswerInv, Refreshed
      <4>3. QED
        BY <3>1, <4>1, <4>2
    <3>4. QED
      BY <3>1, <3>2, <3>3 DEF InstallInv
  <2>10. CASE Reconnected(a)
     BY <1>a, <1>b, <1>c, <1>h, <1>i, <1>j, <1>n, <2>10 DEF Reconnected, Rest, Goto,
       Unlock, Home, manager, requests, links, server, InstallInv
  <2>11. CASE ReconnectFails(a)
     BY <1>a, <1>b, <1>c, <1>h, <1>i, <1>j, <1>n, <2>11 DEF ReconnectFails, Rest,
       Goto, Unlock, Home, manager, requests, links, server, InstallInv
  <2>12. QED
     BY <1>1, <2>1, <2>2, <2>3, <2>4, <2>5, <2>6, <2>7, <2>8, <2>9, <2>10, <2>11 DEF
       Shared
<1>2. CASE Vm \/ VmConnects \/ VmDisconnects \/ VmReconnects
  <2>1. CASE VmConnects
     BY <1>a, <1>b, <1>c, <1>h, <1>i, <1>j, <1>n, <1>e, <1>f, <2>1 DEF VmConnects,
       Resting, manager, requests, links, server, InstallInv
  <2>2. CASE VmConnected
     BY <1>a, <1>b, <1>c, <1>h, <1>i, <1>j, <1>n, <1>e, <2>2 DEF VmConnected, manager,
       requests, links, server, InstallInv
  <2>3. CASE VmDisconnects
     BY <1>a, <1>b, <1>c, <1>h, <1>i, <1>j, <1>n, <2>3 DEF VmDisconnects, Resting,
       Goto, manager, requests, links, server, InstallInv
  <2>4. CASE VmTakes
     BY <1>a, <1>b, <1>c, <1>h, <1>i, <1>j, <1>n, <2>4 DEF VmTakes, Free, Goto,
       manager, requests, links, server, InstallInv
  <2>5. CASE VmDisconnected
     BY <1>a, <1>b, <1>c, <1>h, <1>i, <1>j, <1>n, <2>5 DEF VmDisconnected, Unlock,
       Rest, Goto, manager, requests, links, server, InstallInv
  <2>6. CASE VmReconnects
     BY <1>a, <1>b, <1>c, <1>h, <1>i, <1>j, <1>n, <2>6 DEF VmReconnects, Resting,
       Goto, manager, requests, links, server, InstallInv
  <2>7. CASE VmRetakes
     BY <1>a, <1>b, <1>c, <1>h, <1>i, <1>j, <1>n, <2>7 DEF VmRetakes, Free, Goto,
       Reconnect, manager, requests, links, server, InstallInv
  <2>8. CASE VmConnectFails
     BY <1>a, <1>b, <1>c, <1>h, <1>i, <1>j, <1>n, <2>8 DEF VmConnectFails, Rest, Goto,
       manager, requests, links, server, InstallInv
  <2>9. QED
    BY <1>2, <2>1, <2>2, <2>3, <2>4, <2>5, <2>6, <2>7, <2>8 DEF Vm
<1>3. ASSUME NEW m \in Managed, Task(m) PROVE InstallInv'
  <2>1. CASE BackgroundBegins(m)
     BY <1>a, <1>b, <1>c, <1>h, <1>i, <1>j, <1>n, <2>1 DEF BackgroundBegins, Free,
       Goto, BackgroundOpens, manager, requests, links, server, InstallInv
  <2>2. CASE BackgroundConnected(m)
     BY <1>a, <1>b, <1>c, <1>h, <1>i, <1>j, <1>n, <1>e, <2>2 DEF BackgroundConnected,
       Goto, Unlock, manager, requests, links, server, InstallInv
  <2>3. CASE BackgroundUndone(m)
     BY <1>a, <1>b, <1>c, <1>h, <1>i, <1>j, <1>n, <2>3 DEF BackgroundUndone, Unlock,
       Rest, Goto, manager, requests, links, server, InstallInv
  <2>4. CASE BackgroundFails(m)
     BY <1>a, <1>b, <1>c, <1>h, <1>i, <1>j, <1>n, <2>4 DEF BackgroundFails, Unlock,
       Rest, Goto, manager, requests, links, server, InstallInv
  <2>5. CASE BackgroundForgets(m)
     BY <1>a, <1>b, <1>c, <1>h, <1>i, <1>j, <1>n, <2>5 DEF BackgroundForgets, Goto,
       manager, requests, links, server, InstallInv
  <2>6. CASE Supervise(m)
     BY <1>a, <1>b, <1>c, <1>h, <1>i, <1>j, <1>n, <2>6 DEF Supervise, Goto, Free,
       Reconnect, manager, requests, links, server, InstallInv
  <2>7. QED
    BY <1>3, <2>1, <2>2, <2>3, <2>4, <2>5, <2>6 DEF Task
<1>4. ASSUME NEW r \in Requester, Request(r) PROVE InstallInv'
  <2>1. CASE CallTool(r)
     BY <1>a, <1>b, <1>c, <1>h, <1>i, <1>j, <1>n, <2>1 DEF CallTool, Ask, Returns,
       manager, requests, links, server, InstallInv
  <2>2. CASE Send(r)
     BY <1>a, <1>b, <1>c, <1>h, <1>i, <1>j, <1>n, <2>2, SMTT(60) DEF Send, Returns, manager,
       requests, links, server, InstallInv
  <2>3. CASE SendBreaks(r)
     BY <1>a, <1>b, <1>c, <1>h, <1>i, <1>j, <1>n, <2>3 DEF SendBreaks, Returns, Fault,
       manager, requests, links, server, InstallInv
  <2>4. CASE Answered(r)
     BY <1>a, <1>b, <1>c, <1>h, <1>i, <1>j, <1>n, <2>4 DEF Answered, Returns, Fault,
       manager, requests, links, server, InstallInv
  <2>5. CASE Forgotten(r)
     BY <1>a, <1>b, <1>c, <1>h, <1>i, <1>j, <1>n, <2>5 DEF Forgotten, Returns,
       manager, requests, links, server, InstallInv
  <2>6. CASE GivesUp(r)
     BY <1>a, <1>b, <1>c, <1>h, <1>i, <1>j, <1>n, <2>6 DEF GivesUp, Returns, Fault,
       manager, requests, links, server, InstallInv
  <2>7. CASE Insert(r)
    BY <1>0, <2>7 DEF Insert, manager, requests, links, server
  <2>8. QED
    BY <1>4, <2>1, <2>2, <2>3, <2>4, <2>5, <2>6, <2>7 DEF Request
<1>5. ASSUME NEW c \in Conn, ReaderEnds(c) \/ ReaderDrains(c) \/ ServerChanges(c) PROVE InstallInv'
   BY <1>0, <1>5 DEF ReaderEnds, Fault, manager, requests, links, server,
     ReaderDrains, ServerChanges
<1>6. ASSUME NEW n \in Contested, HostRegisters(n) PROVE InstallInv'
  <2>1. CASE HostRegisters(n)
     BY <1>a, <1>b, <1>c, <1>h, <1>i, <1>j, <1>n, <1>g, McpTools, Numbers, <2>1 DEF
       HostRegisters, manager, requests, links, server, InstallInv
  <2>2. QED
    BY <1>6, <2>1
<1>7. QED
  BY <1>1, <1>2, <1>3, <1>4, <1>5, <1>6 DEF Next

(* The registry shows what the server lists until one of the two changes.    *)
LEMMA ShownKept ==
  ASSUME TypeOK, PlaceInv, ConnInv, HoldInv, WatchInv, CloseInv, WakeupsKept, NEW g \in Current, Next
  PROVE  g \in Current' \/ permit'[g] \/ \E x \in Actor : BridgeInstalls(x) /\ conn[x] = g
<1> USE DEF Names, Posts, Kinds, Watches, Quiet
<1>a. Names
  BY Scene
<1>b. Posts
  BY Scene
<1>c. Kinds
  BY Scene
<1>d. Watches
  BY Scene
<1>e. Quiet
  BY Scene
<1>f. VmConnects => opened + 1 \in Managed /\ opened + 1 > opened
  BY McpBounds DEF VmConnects, TypeOK, Managed
<1> USE DEF Numbered, Given, Tasks, Alone
<1>g. Numbered
  BY Goods
<1>h. Given
  BY Goods
<1>i. Tasks
  BY Goods
<1>j. /\ permit \in [Conn -> BOOLEAN] /\ closed \in [Conn -> BOOLEAN]
      /\ missed \in [Conn -> BOOLEAN] /\ child \in [Conn -> BOOLEAN]
      /\ owner \in [Tool -> Conn \cup {None, Host}]
      /\ sync \in [Conn -> Actor \cup {Nobody}] /\ Nobody \notin Actor
      /\ answer \in [Requester -> (SUBSET Tool) \cup {Failed}]
      /\ todo \in [Actor -> SUBSET Tool] /\ catalog \in [Conn -> Catalog]
  BY Actors DEF TypeOK
<1>k. \A d \in Conn, a \in Actor : sync[d] = a <=> conn[a] = d /\ pc[a] \in Bridging
  BY DEF CloseInv
<1>l. /\ Opener \subseteq Actor /\ Actor \subseteq Requester /\ VM \in Opener
      /\ \A m \in Managed : Background(m) \in Opener /\ Supervisor(m) \in Opener
      /\ \A c \in Conn : Watcher(c) \notin Opener
      /\ \A a \in Opener : op[a] # "watch"
  BY Actors, StepOps
<1>m. Alone
  BY OneAtATime
<1>n. OffInv /\ AnswerInv /\ InstallInv /\ ShowInv /\ WakeInv /\ WakeupInv
  BY WatchParts
<1>0. UNCHANGED <<catalog, owner, permit>> => g \in Current'
  BY DEF Current, Shown
<1>1. ASSUME NEW a \in Actor, Shared(a) PROVE g \in Current' \/ permit'[g] \/ \E x \in Actor : BridgeInstalls(x) /\ conn[x] = g
  <2>1. CASE BridgeInstalls(a)
     BY <1>g, <1>i, <1>j, <2>1 DEF BridgeInstalls, BridgeFails, Forget, Goto, manager,
       requests, links, server, Current, Shown
  <2>2. CASE Wakes(a)
     BY <1>g, <1>i, <1>j, <2>2 DEF Wakes, Goto, manager, requests, links, server,
       Current, Shown
  <2>3. CASE Drop(a)
     BY <1>g, <1>i, <1>j, <2>3 DEF Drop, Drops, AfterDrop, Rest, Goto, manager,
       requests, links, server, Current, Shown
   <2>4. CASE Connect(a) \/ BridgeBegins(a) \/ BridgeListed(a) \/ BridgeChecks(a) \/
     Watch(a) \/ Close(a) \/ Reconnected(a) \/ ReconnectFails(a)
     BY <1>0, <2>4 DEF Connect, Goto, Fault, manager, requests, links, server,
       BridgeBegins, Ask, Returns, BridgeListed, BridgeFails, Forget, BridgeChecks,
       Watch, Close, Reconnected, Rest, Unlock, Home, ReconnectFails
  <2>5. QED
    BY <1>1, <2>1, <2>2, <2>3, <2>4 DEF Shared
<1>2. CASE Vm \/ VmConnects \/ VmDisconnects \/ VmReconnects
   BY <1>0, <1>2 DEF Vm, VmConnects, Resting, manager, requests, links, server,
     VmConnected, VmDisconnects, Goto, VmTakes, Free, VmDisconnected, Unlock, Rest,
     VmReconnects, VmRetakes, Reconnect, VmConnectFails
<1>3. ASSUME NEW m \in Managed, Task(m) PROVE g \in Current' \/ permit'[g] \/ \E x \in Actor : BridgeInstalls(x) /\ conn[x] = g
   BY <1>0, <1>3 DEF Task, BackgroundBegins, Free, Goto, BackgroundOpens, manager,
     requests, links, server, BackgroundConnected, Unlock, BackgroundUndone, Rest,
     BackgroundFails, BackgroundForgets, Supervise, Reconnect
<1>4. ASSUME NEW r \in Requester, Request(r) PROVE g \in Current' \/ permit'[g] \/ \E x \in Actor : BridgeInstalls(x) /\ conn[x] = g
  <2>1. CASE SendBreaks(r)
     BY <1>g, <1>i, <1>j, <2>1 DEF SendBreaks, Returns, Fault, manager, requests,
       links, server, Current, Shown
   <2>2. CASE CallTool(r) \/ Insert(r) \/ Send(r) \/ Answered(r) \/ Forgotten(r) \/
     GivesUp(r)
     BY <1>0, <2>2 DEF CallTool, Ask, Returns, manager, requests, links, server,
       Insert, Send, Answered, Fault, Forgotten, GivesUp
  <2>3. QED
    BY <1>4, <2>1, <2>2 DEF Request
<1>5. ASSUME NEW c \in Conn, ReaderEnds(c) \/ ReaderDrains(c) \/ ServerChanges(c) PROVE g \in Current' \/ permit'[g] \/ \E x \in Actor : BridgeInstalls(x) /\ conn[x] = g
  <2>1. CASE ReaderEnds(c)
     BY <1>g, <1>i, <1>j, <2>1 DEF ReaderEnds, Fault, manager, requests, links,
       server, Current, Shown
  <2>2. CASE ServerChanges(c)
     BY <1>g, <1>i, <1>j, <2>2 DEF ServerChanges, manager, requests, links, server,
       Current, Shown
  <2>3. CASE ReaderDrains(c)
    BY <1>0, <2>3 DEF ReaderDrains, manager, requests, links, server
  <2>4. QED
    BY <1>5, <2>1, <2>2, <2>3
<1>6. ASSUME NEW n \in Contested, HostRegisters(n) PROVE g \in Current' \/ permit'[g] \/ \E x \in Actor : BridgeInstalls(x) /\ conn[x] = g
  <2>1. CASE HostRegisters(n)
     BY <1>g, <1>i, <1>j, Numbers, McpTools, <2>1 DEF HostRegisters, manager,
       requests, links, server, Current, Shown
  <2>2. QED
    BY <1>6, <2>1
<1>7. QED
  BY <1>1, <1>2, <1>3, <1>4, <1>5, <1>6 DEF Next

(* Whoever drops a connection wakes its watcher.                             *)
LEMMA DropWakes ==
  ASSUME TypeOK, PlaceInv, ConnInv, HoldInv, WatchInv, CloseInv, WakeupsKept, NEW g \in InDrop, Next
  PROVE  g \in InDrop' \/ permit'[g]
<1> USE DEF Names, Posts, Kinds, Watches, Quiet
<1>a. Names
  BY Scene
<1>b. Posts
  BY Scene
<1>c. Kinds
  BY Scene
<1>d. Watches
  BY Scene
<1>e. Quiet
  BY Scene
<1>f. VmConnects => opened + 1 \in Managed /\ opened + 1 > opened
  BY McpBounds DEF VmConnects, TypeOK, Managed
<1> USE DEF Numbered, Given, Tasks, Alone
<1>g. Numbered
  BY Goods
<1>h. Given
  BY Goods
<1>i. Tasks
  BY Goods
<1>j. /\ permit \in [Conn -> BOOLEAN] /\ closed \in [Conn -> BOOLEAN]
      /\ missed \in [Conn -> BOOLEAN] /\ child \in [Conn -> BOOLEAN]
      /\ owner \in [Tool -> Conn \cup {None, Host}]
      /\ sync \in [Conn -> Actor \cup {Nobody}] /\ Nobody \notin Actor
      /\ answer \in [Requester -> (SUBSET Tool) \cup {Failed}]
      /\ todo \in [Actor -> SUBSET Tool] /\ catalog \in [Conn -> Catalog]
  BY Actors DEF TypeOK
<1>k. \A d \in Conn, a \in Actor : sync[d] = a <=> conn[a] = d /\ pc[a] \in Bridging
  BY DEF CloseInv
<1>l. /\ Opener \subseteq Actor /\ Actor \subseteq Requester /\ VM \in Opener
      /\ \A m \in Managed : Background(m) \in Opener /\ Supervisor(m) \in Opener
      /\ \A c \in Conn : Watcher(c) \notin Opener
      /\ \A a \in Opener : op[a] # "watch"
  BY Actors, StepOps
<1>m. Alone
  BY OneAtATime
<1>n. OffInv /\ AnswerInv /\ InstallInv /\ ShowInv /\ WakeInv /\ WakeupInv
  BY WatchParts
<1>0. UNCHANGED <<conn, pc, permit>> => g \in InDrop'
  BY DEF InDrop, Dropping
<1>1. ASSUME NEW a \in Actor, Shared(a) PROVE g \in InDrop' \/ permit'[g]
  <2>1. CASE Connect(a)
    <3>1. CASE Failing(a)
      BY <1>l, <3>1 DEF Failing, InDrop, Dropping
    <3>2. ASSUME NEW d \in Conn, Making(a, d) PROVE g \in InDrop'
      BY <1>l, <3>2 DEF Making, InDrop, Dropping
    <3>3. QED
      BY <2>1, <3>1, <3>2, Handshake
  <2>2. CASE BridgeBegins(a)
     BY <1>a, <1>b, <1>c, <1>i, <1>j, <1>l, <2>2 DEF BridgeBegins, Ask, Returns, Goto,
       manager, requests, links, server, InDrop, Dropping
  <2>3. CASE BridgeListed(a)
     BY <1>a, <1>b, <1>c, <1>i, <1>j, <1>l, <2>3 DEF BridgeListed, BridgeFails,
       Forget, Goto, manager, requests, links, server, InDrop, Dropping
  <2>4. CASE BridgeChecks(a)
     BY <1>a, <1>b, <1>c, <1>i, <1>j, <1>l, <2>4 DEF BridgeChecks, BridgeFails,
       Forget, Goto, manager, requests, links, server, InDrop, Dropping
  <2>5. CASE BridgeInstalls(a)
     BY <1>a, <1>b, <1>c, <1>i, <1>j, <1>l, <2>5 DEF BridgeInstalls, BridgeFails,
       Forget, Goto, manager, requests, links, server, InDrop, Dropping
  <2>6. CASE Watch(a)
    <3>1. PICK d \in Conn, w \in Actor : Watching(a, d, w)
      BY <2>6, Watched
    <3>2. QED
      BY <1>l, <3>1 DEF Watching, InDrop, Dropping
  <2>7. CASE Wakes(a)
     BY <1>a, <1>b, <1>c, <1>i, <1>j, <1>l, <2>7 DEF Wakes, Goto, manager, requests,
       links, server, InDrop, Dropping
  <2>8. CASE Close(a)
     BY <1>a, <1>b, <1>c, <1>i, <1>j, <1>l, <2>8 DEF Close, Goto, manager, requests,
       links, server, InDrop, Dropping
  <2>9. CASE Drop(a)
     BY <1>a, <1>b, <1>c, <1>i, <1>j, <1>l, <2>9 DEF Drop, Drops, AfterDrop, Rest,
       Goto, manager, requests, links, server, InDrop, Dropping
  <2>10. CASE Reconnected(a)
     BY <1>a, <1>b, <1>c, <1>i, <1>j, <1>l, <2>10 DEF Reconnected, Rest, Goto, Unlock,
       Home, manager, requests, links, server, InDrop, Dropping
  <2>11. CASE ReconnectFails(a)
     BY <1>a, <1>b, <1>c, <1>i, <1>j, <1>l, <2>11 DEF ReconnectFails, Rest, Goto,
       Unlock, Home, manager, requests, links, server, InDrop, Dropping
  <2>12. QED
     BY <1>1, <2>1, <2>2, <2>3, <2>4, <2>5, <2>6, <2>7, <2>8, <2>9, <2>10, <2>11 DEF
       Shared
<1>2. CASE Vm \/ VmConnects \/ VmDisconnects \/ VmReconnects
  <2>1. CASE VmConnects
     BY <1>a, <1>b, <1>c, <1>i, <1>j, <1>l, <1>e, <1>f, <2>1 DEF VmConnects, Resting,
       manager, requests, links, server, InDrop, Dropping
  <2>2. CASE VmConnected
     BY <1>a, <1>b, <1>c, <1>i, <1>j, <1>l, <1>e, <2>2 DEF VmConnected, manager,
       requests, links, server, InDrop, Dropping
  <2>3. CASE VmDisconnects
     BY <1>a, <1>b, <1>c, <1>i, <1>j, <1>l, <2>3 DEF VmDisconnects, Resting, Goto,
       manager, requests, links, server, InDrop, Dropping
  <2>4. CASE VmTakes
     BY <1>a, <1>b, <1>c, <1>i, <1>j, <1>l, <2>4 DEF VmTakes, Free, Goto, manager,
       requests, links, server, InDrop, Dropping
  <2>5. CASE VmDisconnected
     BY <1>a, <1>b, <1>c, <1>i, <1>j, <1>l, <2>5 DEF VmDisconnected, Unlock, Rest,
       Goto, manager, requests, links, server, InDrop, Dropping
  <2>6. CASE VmReconnects
     BY <1>a, <1>b, <1>c, <1>i, <1>j, <1>l, <2>6 DEF VmReconnects, Resting, Goto,
       manager, requests, links, server, InDrop, Dropping
  <2>7. CASE VmRetakes
     BY <1>a, <1>b, <1>c, <1>i, <1>j, <1>l, <2>7 DEF VmRetakes, Free, Goto, Reconnect,
       manager, requests, links, server, InDrop, Dropping
  <2>8. CASE VmConnectFails
     BY <1>a, <1>b, <1>c, <1>i, <1>j, <1>l, <2>8 DEF VmConnectFails, Rest, Goto,
       manager, requests, links, server, InDrop, Dropping
  <2>9. QED
    BY <1>2, <2>1, <2>2, <2>3, <2>4, <2>5, <2>6, <2>7, <2>8 DEF Vm
<1>3. ASSUME NEW m \in Managed, Task(m) PROVE g \in InDrop' \/ permit'[g]
  <2>1. CASE BackgroundBegins(m)
     BY <1>a, <1>b, <1>c, <1>i, <1>j, <1>l, <2>1 DEF BackgroundBegins, Free, Goto,
       BackgroundOpens, manager, requests, links, server, InDrop, Dropping
  <2>2. CASE BackgroundConnected(m)
     BY <1>a, <1>b, <1>c, <1>i, <1>j, <1>l, <1>e, <2>2 DEF BackgroundConnected, Goto,
       Unlock, manager, requests, links, server, InDrop, Dropping
  <2>3. CASE BackgroundUndone(m)
     BY <1>a, <1>b, <1>c, <1>i, <1>j, <1>l, <2>3 DEF BackgroundUndone, Unlock, Rest,
       Goto, manager, requests, links, server, InDrop, Dropping
  <2>4. CASE BackgroundFails(m)
     BY <1>a, <1>b, <1>c, <1>i, <1>j, <1>l, <2>4 DEF BackgroundFails, Unlock, Rest,
       Goto, manager, requests, links, server, InDrop, Dropping
  <2>5. CASE BackgroundForgets(m)
     BY <1>a, <1>b, <1>c, <1>i, <1>j, <1>l, <2>5 DEF BackgroundForgets, Goto, manager,
       requests, links, server, InDrop, Dropping
  <2>6. CASE Supervise(m)
     BY <1>a, <1>b, <1>c, <1>i, <1>j, <1>l, <2>6 DEF Supervise, Goto, Free, Reconnect,
       manager, requests, links, server, InDrop, Dropping
  <2>7. QED
    BY <1>3, <2>1, <2>2, <2>3, <2>4, <2>5, <2>6 DEF Task
<1>4. ASSUME NEW r \in Requester, Request(r) PROVE g \in InDrop' \/ permit'[g]
  <2>1. CASE CallTool(r)
     BY <1>a, <1>b, <1>c, <1>i, <1>j, <1>l, <2>1 DEF CallTool, Ask, Returns, manager,
       requests, links, server, InDrop, Dropping
  <2>2. CASE SendBreaks(r)
     BY <1>a, <1>b, <1>c, <1>i, <1>j, <1>l, <2>2 DEF SendBreaks, Returns, Fault,
       manager, requests, links, server, InDrop, Dropping
  <2>3. CASE Insert(r) \/ Send(r) \/ Answered(r) \/ Forgotten(r) \/ GivesUp(r)
     BY <1>0, <2>3 DEF Insert, manager, requests, links, server, Send, Returns,
       Answered, Fault, Forgotten, GivesUp
  <2>4. QED
    BY <1>4, <2>1, <2>2, <2>3 DEF Request
<1>5. ASSUME NEW c \in Conn, ReaderEnds(c) \/ ReaderDrains(c) \/ ServerChanges(c) PROVE g \in InDrop' \/ permit'[g]
  <2>1. CASE ReaderEnds(c)
     BY <1>a, <1>b, <1>c, <1>i, <1>j, <1>l, <2>1 DEF ReaderEnds, Fault, manager,
       requests, links, server, InDrop, Dropping
  <2>2. CASE ServerChanges(c)
     BY <1>a, <1>b, <1>c, <1>i, <1>j, <1>l, <2>2 DEF ServerChanges, manager, requests,
       links, server, InDrop, Dropping
  <2>3. CASE ReaderDrains(c)
    BY <1>0, <2>3 DEF ReaderDrains, manager, requests, links, server
  <2>4. QED
    BY <1>5, <2>1, <2>2, <2>3
<1>6. ASSUME NEW n \in Contested, HostRegisters(n) PROVE g \in InDrop' \/ permit'[g]
  BY <1>0, <1>6 DEF HostRegisters, manager, requests, links, server
<1>7. QED
  BY <1>1, <1>2, <1>3, <1>4, <1>5, <1>6 DEF Next

(* A refresh that ends has shown what the server lists, or has a permit; or  *)
(* it failed, and is noted or leads to a close.                              *)
LEMMA Installed ==
  ASSUME TypeOK, PlaceInv, ConnInv, HoldInv, WatchInv, CloseInv, WakeupsKept,
         NEW a \in Actor, NEW d \in Conn, d = conn[a], BridgeInstalls(a)
  PROVE  \/ pc' = pc
         \/ d \in Current'
         \/ permit'[d]
         \/ op[a] = "watch" /\ missed'[d]
         \/ op[a] # "watch" /\ pc'[a] = "close"
<1>1. /\ pc \in [Actor -> AllSteps] /\ missed \in [Conn -> BOOLEAN]
      /\ owner \in [Tool -> Conn \cup {None, Host}]
  BY TypeParts DEF TypeOK, ActorTypes
<1>2. InstallInv /\ AnswerInv
  BY WatchParts
<1>3. CASE todo[a] = {} /\ owner' = [n \in Tool |-> IF owner[n] = d /\ n \notin answer[a]
                                                   THEN None ELSE owner[n]]
  <2>1. /\ answer[a] \subseteq Tool
        /\ answer[a] = catalog[d] \/ permit[d]
        /\ \A n \in answer[a] : owner[n] = d
    BY <1>2, <1>3 DEF BridgeInstalls, InstallInv, AnswerInv, Refreshed
  <2>2. {n \in Tool : owner'[n] = d} = answer[a]
    BY <1>3, <2>1, Numbers
  <2>3. permit' = permit
    BY DEF BridgeInstalls, links
  <2>4. CASE catalog' = catalog
    BY <2>1, <2>2, <2>3, <2>4 DEF Current, Shown
  <2>5. CASE catalog' # catalog
    BY <2>5 DEF BridgeInstalls, BridgeFails, server
  <2>6. QED
    BY <2>4, <2>5
<1>4. CASE BridgeFails(a)
  BY <1>1, <1>4 DEF BridgeFails, Goto
<1>5. CASE pc' = pc
  BY <1>5
<1>6. QED
  BY <1>3, <1>4, <1>5 DEF BridgeInstalls

(* What is about to be watched shows what the server lists.                  *)
LEMMA ShowStep ==
  ASSUME TypeOK, PlaceInv, ConnInv, HoldInv, WatchInv, CloseInv, WakeupsKept, Next
  PROVE  ShowInv'
<1> USE DEF Names, Posts, Kinds, Watches, Quiet
<1>a. Names
  BY Scene
<1>b. Posts
  BY Scene
<1>c. Kinds
  BY Scene
<1>d. Watches
  BY Scene
<1>e. Quiet
  BY Scene
<1>f. VmConnects => opened + 1 \in Managed /\ opened + 1 > opened
  BY McpBounds DEF VmConnects, TypeOK, Managed
<1> USE DEF Numbered, Given, Tasks, Alone
<1>g. Numbered
  BY Goods
<1>h. Given
  BY Goods
<1>i. Tasks
  BY Goods
<1>j. /\ permit \in [Conn -> BOOLEAN] /\ closed \in [Conn -> BOOLEAN]
      /\ missed \in [Conn -> BOOLEAN] /\ child \in [Conn -> BOOLEAN]
      /\ owner \in [Tool -> Conn \cup {None, Host}]
      /\ sync \in [Conn -> Actor \cup {Nobody}] /\ Nobody \notin Actor
      /\ answer \in [Requester -> (SUBSET Tool) \cup {Failed}]
      /\ todo \in [Actor -> SUBSET Tool] /\ catalog \in [Conn -> Catalog]
  BY Actors DEF TypeOK
<1>k. \A d \in Conn, a \in Actor : sync[d] = a <=> conn[a] = d /\ pc[a] \in Bridging
  BY DEF CloseInv
<1>l. /\ Opener \subseteq Actor /\ Actor \subseteq Requester /\ VM \in Opener
      /\ \A m \in Managed : Background(m) \in Opener /\ Supervisor(m) \in Opener
      /\ \A c \in Conn : Watcher(c) \notin Opener
      /\ \A a \in Opener : op[a] # "watch"
  BY Actors, StepOps
<1>m. Alone
  BY OneAtATime
<1>n. OffInv /\ AnswerInv /\ InstallInv /\ ShowInv /\ WakeInv /\ WakeupInv
  BY WatchParts
<1>o. \A c \in Conn : /\ pc[Watcher(c)] = "idle" => conn[Watcher(c)] = c
                      /\ \A a \in Actor : pc[a] \in {"idle"} \cup Opening /\ conn[a] = c
                                          /\ pc[Watcher(c)] = "idle" => a = Watcher(c)
  <2>1. \A c \in Conn : pc[Watcher(c)] = "idle" => conn[Watcher(c)] = c
    BY <1>a, <1>b DEF PlaceInv
  <2>2. QED
    BY <1>a, <1>m, <2>1
<1>p. \A c \in Current : \/ c \in Current' \/ permit'[c]
                         \/ \E x \in Actor : BridgeInstalls(x) /\ conn[x] = c
  BY ShownKept
<1>q. \A c \in Conn : c \in InDrop => c \in InDrop' \/ permit'[c]
  BY DropWakes
<1>r. \A x \in Actor : BridgeInstalls(x) => pc[x] = "install" /\ pc[x] \in {"idle"} \cup Opening
  BY DEF BridgeInstalls, Opening, Bridging
<1>s. \A b \in Actor : pc[b] = "watch" /\ conn[b] \in Current
                       => conn[b] \in Current' \/ permit'[conn[b]]
  BY <1>m, <1>p, <1>r DEF Opening
<1>0. UNCHANGED <<catalog, conn, owner, pc, permit>> => ShowInv'
  BY <1>n DEF ShowInv, Current, Shown
<1>1. ASSUME NEW a \in Actor, Shared(a) PROVE ShowInv'
  <2>1. CASE Connect(a)
    <3>0. UNCHANGED <<permit>>
      BY <2>1 DEF Connect
    <3>1. CASE Failing(a)
      BY <1>l, <1>n, <1>s, <3>0, <3>1 DEF Failing, ShowInv
    <3>2. ASSUME NEW d \in Conn, Making(a, d) PROVE ShowInv'
      BY <1>l, <1>n, <1>s, <3>0, <3>2 DEF Making, ShowInv
    <3>3. QED
      BY <2>1, <3>1, <3>2, Handshake
  <2>2. CASE BridgeBegins(a)
     BY <1>a, <1>b, <1>c, <1>i, <1>j, <1>n, <1>s, <2>2 DEF BridgeBegins, Ask, Returns,
       Goto, manager, requests, links, server, ShowInv
  <2>3. CASE BridgeListed(a)
     BY <1>a, <1>b, <1>c, <1>i, <1>j, <1>n, <1>s, <2>3 DEF BridgeListed, BridgeFails,
       Forget, Goto, manager, requests, links, server, ShowInv
  <2>4. CASE BridgeChecks(a)
     BY <1>a, <1>b, <1>c, <1>i, <1>j, <1>n, <1>s, <2>4 DEF BridgeChecks, BridgeFails,
       Forget, Goto, manager, requests, links, server, ShowInv
  <2>5. CASE BridgeInstalls(a)
    <3>1. conn[a] \in Conn /\ UNCHANGED <<conn, permit>>
      BY <1>b, <1>i, <2>5 DEF BridgeInstalls, links
    <3>2. \A b \in Actor : b # a => pc'[b] = pc[b]
      BY <1>c, <2>5 DEF BridgeInstalls, BridgeFails, Goto
    <3>3. pc'[a] = "watch" => op[a] # "watch" /\ pc' # pc
      BY <1>c, <2>5 DEF BridgeInstalls, BridgeFails, Goto
    <3>4. pc'[a] = "watch" => conn[a] \in Current' \/ permit'[conn[a]]
      BY <3>1, <3>3, <2>5, Installed
    <3>5. QED
      BY <1>n, <1>s, <3>1, <3>2, <3>4 DEF ShowInv
  <2>6. CASE Watch(a)
    <3>0. UNCHANGED <<permit>>
      BY <2>6 DEF Watch, links
    <3>1. PICK d \in Conn, w \in Actor : Watching(a, d, w)
      BY <2>6, Watched
    <3>2. QED
      BY <1>l, <1>n, <1>s, <3>0, <3>1 DEF Watching, ShowInv
  <2>7. CASE Wakes(a)
    <3>1. UNCHANGED conn /\ permit' = [permit EXCEPT ![conn[a]] = FALSE] /\ pc[a] = "idle"
      BY <2>7 DEF Wakes
    <3>2. \A b \in Actor : pc'[b] = "watch" => pc[b] = "watch" /\ conn[b] # conn[a]
      BY <1>c, <1>m, <2>7 DEF Wakes, Goto, Opening
    <3>3. QED
      BY <1>i, <1>j, <1>n, <1>s, <3>1, <3>2 DEF ShowInv
  <2>8. CASE Close(a)
     BY <1>a, <1>b, <1>c, <1>i, <1>j, <1>n, <1>s, <2>8 DEF Close, Goto, manager,
       requests, links, server, ShowInv
  <2>9. CASE Drop(a)
     BY <1>a, <1>b, <1>c, <1>i, <1>j, <1>n, <1>s, <2>9 DEF Drop, Drops, AfterDrop,
       Rest, Goto, manager, requests, links, server, ShowInv
  <2>10. CASE Reconnected(a)
     BY <1>a, <1>b, <1>c, <1>i, <1>j, <1>n, <1>s, <2>10 DEF Reconnected, Rest, Goto,
       Unlock, Home, manager, requests, links, server, ShowInv
  <2>11. CASE ReconnectFails(a)
     BY <1>a, <1>b, <1>c, <1>i, <1>j, <1>n, <1>s, <2>11 DEF ReconnectFails, Rest,
       Goto, Unlock, Home, manager, requests, links, server, ShowInv
  <2>12. QED
     BY <1>1, <2>1, <2>2, <2>3, <2>4, <2>5, <2>6, <2>7, <2>8, <2>9, <2>10, <2>11 DEF
       Shared
<1>2. CASE Vm \/ VmConnects \/ VmDisconnects \/ VmReconnects
  <2>1. CASE VmConnects
     BY <1>a, <1>b, <1>c, <1>i, <1>j, <1>n, <1>s, <1>e, <1>f, <2>1 DEF VmConnects,
       Resting, manager, requests, links, server, ShowInv
  <2>2. CASE VmConnected
     BY <1>a, <1>b, <1>c, <1>i, <1>j, <1>n, <1>s, <1>e, <2>2 DEF VmConnected, manager,
       requests, links, server, ShowInv
  <2>3. CASE VmDisconnects
     BY <1>a, <1>b, <1>c, <1>i, <1>j, <1>n, <1>s, <2>3 DEF VmDisconnects, Resting,
       Goto, manager, requests, links, server, ShowInv
  <2>4. CASE VmTakes
     BY <1>a, <1>b, <1>c, <1>i, <1>j, <1>n, <1>s, <2>4 DEF VmTakes, Free, Goto,
       manager, requests, links, server, ShowInv
  <2>5. CASE VmDisconnected
     BY <1>a, <1>b, <1>c, <1>i, <1>j, <1>n, <1>s, <2>5 DEF VmDisconnected, Unlock,
       Rest, Goto, manager, requests, links, server, ShowInv
  <2>6. CASE VmReconnects
     BY <1>a, <1>b, <1>c, <1>i, <1>j, <1>n, <1>s, <2>6 DEF VmReconnects, Resting,
       Goto, manager, requests, links, server, ShowInv
  <2>7. CASE VmRetakes
     BY <1>a, <1>b, <1>c, <1>i, <1>j, <1>n, <1>s, <2>7 DEF VmRetakes, Free, Goto,
       Reconnect, manager, requests, links, server, ShowInv
  <2>8. CASE VmConnectFails
     BY <1>a, <1>b, <1>c, <1>i, <1>j, <1>n, <1>s, <2>8 DEF VmConnectFails, Rest, Goto,
       manager, requests, links, server, ShowInv
  <2>9. QED
    BY <1>2, <2>1, <2>2, <2>3, <2>4, <2>5, <2>6, <2>7, <2>8 DEF Vm
<1>3. ASSUME NEW m \in Managed, Task(m) PROVE ShowInv'
  <2>1. CASE BackgroundBegins(m)
     BY <1>a, <1>b, <1>c, <1>i, <1>j, <1>n, <1>s, <2>1 DEF BackgroundBegins, Free,
       Goto, BackgroundOpens, manager, requests, links, server, ShowInv
  <2>2. CASE BackgroundConnected(m)
     BY <1>a, <1>b, <1>c, <1>i, <1>j, <1>n, <1>s, <1>e, <2>2 DEF BackgroundConnected,
       Goto, Unlock, manager, requests, links, server, ShowInv
  <2>3. CASE BackgroundUndone(m)
     BY <1>a, <1>b, <1>c, <1>i, <1>j, <1>n, <1>s, <2>3 DEF BackgroundUndone, Unlock,
       Rest, Goto, manager, requests, links, server, ShowInv
  <2>4. CASE BackgroundFails(m)
     BY <1>a, <1>b, <1>c, <1>i, <1>j, <1>n, <1>s, <2>4 DEF BackgroundFails, Unlock,
       Rest, Goto, manager, requests, links, server, ShowInv
  <2>5. CASE BackgroundForgets(m)
     BY <1>a, <1>b, <1>c, <1>i, <1>j, <1>n, <1>s, <2>5 DEF BackgroundForgets, Goto,
       manager, requests, links, server, ShowInv
  <2>6. CASE Supervise(m)
     BY <1>a, <1>b, <1>c, <1>i, <1>j, <1>n, <1>s, <2>6 DEF Supervise, Goto, Free,
       Reconnect, manager, requests, links, server, ShowInv
  <2>7. QED
    BY <1>3, <2>1, <2>2, <2>3, <2>4, <2>5, <2>6 DEF Task
<1>4. ASSUME NEW r \in Requester, Request(r) PROVE ShowInv'
  <2>1. CASE CallTool(r)
     BY <1>a, <1>b, <1>c, <1>i, <1>j, <1>n, <1>s, <2>1 DEF CallTool, Ask, Returns,
       manager, requests, links, server, ShowInv
  <2>2. CASE SendBreaks(r)
     BY <1>a, <1>b, <1>c, <1>i, <1>j, <1>n, <1>s, <2>2 DEF SendBreaks, Returns, Fault,
       manager, requests, links, server, ShowInv
  <2>3. CASE Insert(r) \/ Send(r) \/ Answered(r) \/ Forgotten(r) \/ GivesUp(r)
     BY <1>0, <2>3 DEF Insert, manager, requests, links, server, Send, Returns,
       Answered, Fault, Forgotten, GivesUp
  <2>4. QED
    BY <1>4, <2>1, <2>2, <2>3 DEF Request
<1>5. ASSUME NEW c \in Conn, ReaderEnds(c) \/ ReaderDrains(c) \/ ServerChanges(c) PROVE ShowInv'
  <2>1. CASE ReaderEnds(c)
     BY <1>a, <1>b, <1>c, <1>i, <1>j, <1>n, <1>s, <2>1 DEF ReaderEnds, Fault, manager,
       requests, links, server, ShowInv
  <2>2. CASE ServerChanges(c)
     BY <1>a, <1>b, <1>c, <1>i, <1>j, <1>n, <1>s, <2>2 DEF ServerChanges, manager,
       requests, links, server, ShowInv
  <2>3. CASE ReaderDrains(c)
    BY <1>0, <2>3 DEF ReaderDrains, manager, requests, links, server
  <2>4. QED
    BY <1>5, <2>1, <2>2, <2>3
<1>6. ASSUME NEW n \in Contested, HostRegisters(n) PROVE ShowInv'
  <2>1. CASE HostRegisters(n)
     BY <1>a, <1>b, <1>c, <1>i, <1>j, <1>n, <1>s, <2>1 DEF HostRegisters, manager,
       requests, links, server, ShowInv
  <2>2. QED
    BY <1>6, <2>1
<1>7. QED
  BY <1>1, <1>2, <1>3, <1>4, <1>5, <1>6 DEF Next

(* Who will find a connection closed will be woken.                          *)
LEMMA WakeStep ==
  ASSUME TypeOK, PlaceInv, ConnInv, HoldInv, WatchInv, CloseInv, WakeupsKept, Next
  PROVE  WakeInv'
<1> USE DEF Names, Posts, Kinds, Watches, Quiet
<1>a. Names
  BY Scene
<1>b. Posts
  BY Scene
<1>c. Kinds
  BY Scene
<1>d. Watches
  BY Scene
<1>e. Quiet
  BY Scene
<1>f. VmConnects => opened + 1 \in Managed /\ opened + 1 > opened
  BY McpBounds DEF VmConnects, TypeOK, Managed
<1> USE DEF Numbered, Given, Tasks, Alone
<1>g. Numbered
  BY Goods
<1>h. Given
  BY Goods
<1>i. Tasks
  BY Goods
<1>j. /\ permit \in [Conn -> BOOLEAN] /\ closed \in [Conn -> BOOLEAN]
      /\ missed \in [Conn -> BOOLEAN] /\ child \in [Conn -> BOOLEAN]
      /\ owner \in [Tool -> Conn \cup {None, Host}]
      /\ sync \in [Conn -> Actor \cup {Nobody}] /\ Nobody \notin Actor
      /\ answer \in [Requester -> (SUBSET Tool) \cup {Failed}]
      /\ todo \in [Actor -> SUBSET Tool] /\ catalog \in [Conn -> Catalog]
  BY Actors DEF TypeOK
<1>k. \A d \in Conn, a \in Actor : sync[d] = a <=> conn[a] = d /\ pc[a] \in Bridging
  BY DEF CloseInv
<1>l. /\ Opener \subseteq Actor /\ Actor \subseteq Requester /\ VM \in Opener
      /\ \A m \in Managed : Background(m) \in Opener /\ Supervisor(m) \in Opener
      /\ \A c \in Conn : Watcher(c) \notin Opener
      /\ \A a \in Opener : op[a] # "watch"
  BY Actors, StepOps
<1>m. Alone
  BY OneAtATime
<1>n. OffInv /\ AnswerInv /\ InstallInv /\ ShowInv /\ WakeInv /\ WakeupInv
  BY WatchParts
<1>o. \A c \in Conn : /\ pc[Watcher(c)] = "idle" => conn[Watcher(c)] = c
                      /\ \A a \in Actor : pc[a] \in {"idle"} \cup Opening /\ conn[a] = c
                                          /\ pc[Watcher(c)] = "idle" => a = Watcher(c)
  <2>1. \A c \in Conn : pc[Watcher(c)] = "idle" => conn[Watcher(c)] = c
    BY <1>a, <1>b DEF PlaceInv
  <2>2. QED
    BY <1>a, <1>m, <2>1
<1>p. \A c \in Current : \/ c \in Current' \/ permit'[c]
                         \/ \E x \in Actor : BridgeInstalls(x) /\ conn[x] = c
  BY ShownKept
<1>q. \A c \in Conn : c \in InDrop => c \in InDrop' \/ permit'[c]
  BY DropWakes
<1>r. \A x \in Actor : BridgeInstalls(x) => pc[x] = "install" /\ pc[x] \in {"idle"} \cup Opening
  BY DEF BridgeInstalls, Opening, Bridging
<1>0. UNCHANGED <<closed, conn, pc, permit>> => WakeInv'
  BY <1>n DEF WakeInv, InDrop, Dropping
<1>1. ASSUME NEW a \in Actor, Shared(a) PROVE WakeInv'
  <2>1. CASE Connect(a)
    <3>0. UNCHANGED <<permit, closed>>
      BY <2>1 DEF Connect, links
    <3>9. \A c \in Conn : c > made => ~closed[c]
      BY DEF ConnInv
    <3>1. CASE Failing(a)
      BY <1>i, <1>l, <1>n, <1>q, <3>0, <3>1 DEF Failing, WakeInv, Opening, Bridging
    <3>2. ASSUME NEW d \in Conn, Making(a, d) PROVE WakeInv'
      BY <1>i, <1>l, <1>n, <1>q, <3>0, <3>2, <3>9 DEF Making, WakeInv, Opening, Bridging
    <3>3. QED
      BY <2>1, <3>1, <3>2, Handshake
  <2>2. CASE BridgeBegins(a)
     BY <1>a, <1>b, <1>c, <1>i, <1>j, <1>n, <1>q, <2>2 DEF BridgeBegins, Ask, Returns,
       Goto, manager, requests, links, server, WakeInv, Opening, Bridging
  <2>3. CASE BridgeListed(a)
     BY <1>a, <1>b, <1>c, <1>i, <1>j, <1>n, <1>q, <2>3 DEF BridgeListed, BridgeFails,
       Forget, Goto, manager, requests, links, server, WakeInv, Opening, Bridging
  <2>4. CASE BridgeChecks(a)
     BY <1>a, <1>b, <1>c, <1>i, <1>j, <1>n, <1>q, <2>4 DEF BridgeChecks, BridgeFails,
       Forget, Goto, manager, requests, links, server, WakeInv, Opening, Bridging
  <2>5. CASE BridgeInstalls(a)
     BY <1>a, <1>b, <1>c, <1>i, <1>j, <1>n, <1>q, <2>5 DEF BridgeInstalls,
       BridgeFails, Forget, Goto, manager, requests, links, server, WakeInv, Opening,
       Bridging
  <2>6. CASE Watch(a)
    <3>0. UNCHANGED <<permit, closed>>
      BY <2>6 DEF Watch, links
    <3>1. PICK d \in Conn, w \in Actor : Watching(a, d, w)
      BY <2>6, Watched
    <3>2. QED
      BY <1>i, <1>l, <1>n, <1>q, <3>0, <3>1 DEF Watching, WakeInv, Opening, Bridging
  <2>7. CASE Wakes(a)
    <3>1. UNCHANGED <<conn, closed>> /\ permit' = [permit EXCEPT ![conn[a]] = FALSE] /\ pc[a] = "idle"
      BY <2>7 DEF Wakes
    <3>2. /\ \A b \in Actor : b # a => pc'[b] = pc[b]
          /\ closed[conn[a]] => pc'[a] = "close"
      BY <1>c, <2>7 DEF Wakes, Goto
    <3>3. \A b \in Actor : b # a /\ pc[b] \in {"idle"} \cup Opening => conn[b] # conn[a]
      BY <1>m, <3>1
    <3>4. \A b \in Actor : pc[b] \in {"idle"} \cup Opening => conn[b] \in Conn
      BY <1>i DEF Opening, Bridging
    <3>5. "close" \notin {"idle"} \cup Opening
      BY DEF Opening, Bridging
    <3>6. QED
      BY <1>j, <1>n, <1>q, <3>1, <3>2, <3>3, <3>4, <3>5 DEF WakeInv
  <2>8. CASE Close(a)
    <3>1. /\ UNCHANGED <<conn, permit>> /\ closed' = [closed EXCEPT ![conn[a]] = TRUE]
          /\ pc[a] = "close" /\ pc' = [pc EXCEPT ![a] = "drop"] /\ conn[a] \in Conn
      BY <1>i, <2>8 DEF Close, Goto
    <3>2. pc'[a] = "drop" /\ \A b \in Actor : b # a => pc'[b] = pc[b]
      BY <1>c, <3>1
    <3>3. conn[a] \in InDrop'
      BY <3>1, <3>2 DEF InDrop, Dropping
    <3>4. \A c \in Conn : c # conn[a] => closed'[c] = closed[c]
      BY <1>j, <3>1
    <3>5. "drop" \notin {"idle"} \cup Opening
      BY DEF Opening, Bridging
    <3>6. \A b \in Actor : pc[b] \in {"idle"} \cup Opening => conn[b] \in Conn
      BY <1>i DEF Opening, Bridging
    <3>7. QED
      BY <1>n, <1>q, <3>1, <3>2, <3>3, <3>4, <3>5, <3>6 DEF WakeInv
  <2>9. CASE Drop(a)
     BY <1>a, <1>b, <1>c, <1>i, <1>j, <1>n, <1>q, <2>9 DEF Drop, Drops, AfterDrop,
       Rest, Goto, manager, requests, links, server, WakeInv, Opening, Bridging
  <2>10. CASE Reconnected(a)
     BY <1>a, <1>b, <1>c, <1>i, <1>j, <1>n, <1>q, <2>10 DEF Reconnected, Rest, Goto,
       Unlock, Home, manager, requests, links, server, WakeInv, Opening, Bridging
  <2>11. CASE ReconnectFails(a)
     BY <1>a, <1>b, <1>c, <1>i, <1>j, <1>n, <1>q, <2>11 DEF ReconnectFails, Rest,
       Goto, Unlock, Home, manager, requests, links, server, WakeInv, Opening,
       Bridging
  <2>12. QED
     BY <1>1, <2>1, <2>2, <2>3, <2>4, <2>5, <2>6, <2>7, <2>8, <2>9, <2>10, <2>11 DEF
       Shared
<1>2. CASE Vm \/ VmConnects \/ VmDisconnects \/ VmReconnects
  <2>1. CASE VmConnects
     BY <1>a, <1>b, <1>c, <1>i, <1>j, <1>n, <1>q, <1>e, <1>f, <2>1 DEF VmConnects,
       Resting, manager, requests, links, server, WakeInv, Opening, Bridging
  <2>2. CASE VmConnected
     BY <1>a, <1>b, <1>c, <1>i, <1>j, <1>n, <1>q, <1>e, <2>2 DEF VmConnected, manager,
       requests, links, server, WakeInv, Opening, Bridging
  <2>3. CASE VmDisconnects
     BY <1>a, <1>b, <1>c, <1>i, <1>j, <1>n, <1>q, <2>3 DEF VmDisconnects, Resting,
       Goto, manager, requests, links, server, WakeInv, Opening, Bridging
  <2>4. CASE VmTakes
     BY <1>a, <1>b, <1>c, <1>i, <1>j, <1>n, <1>q, <2>4 DEF VmTakes, Free, Goto,
       manager, requests, links, server, WakeInv, Opening, Bridging
  <2>5. CASE VmDisconnected
     BY <1>a, <1>b, <1>c, <1>i, <1>j, <1>n, <1>q, <2>5 DEF VmDisconnected, Unlock,
       Rest, Goto, manager, requests, links, server, WakeInv, Opening, Bridging
  <2>6. CASE VmReconnects
     BY <1>a, <1>b, <1>c, <1>i, <1>j, <1>n, <1>q, <2>6 DEF VmReconnects, Resting,
       Goto, manager, requests, links, server, WakeInv, Opening, Bridging
  <2>7. CASE VmRetakes
     BY <1>a, <1>b, <1>c, <1>i, <1>j, <1>n, <1>q, <2>7 DEF VmRetakes, Free, Goto,
       Reconnect, manager, requests, links, server, WakeInv, Opening, Bridging
  <2>8. CASE VmConnectFails
     BY <1>a, <1>b, <1>c, <1>i, <1>j, <1>n, <1>q, <2>8 DEF VmConnectFails, Rest, Goto,
       manager, requests, links, server, WakeInv, Opening, Bridging
  <2>9. QED
    BY <1>2, <2>1, <2>2, <2>3, <2>4, <2>5, <2>6, <2>7, <2>8 DEF Vm
<1>3. ASSUME NEW m \in Managed, Task(m) PROVE WakeInv'
  <2>1. CASE BackgroundBegins(m)
     BY <1>a, <1>b, <1>c, <1>i, <1>j, <1>n, <1>q, <2>1 DEF BackgroundBegins, Free,
       Goto, BackgroundOpens, manager, requests, links, server, WakeInv, Opening,
       Bridging
  <2>2. CASE BackgroundConnected(m)
     BY <1>a, <1>b, <1>c, <1>i, <1>j, <1>n, <1>q, <1>e, <2>2 DEF BackgroundConnected,
       Goto, Unlock, manager, requests, links, server, WakeInv, Opening, Bridging
  <2>3. CASE BackgroundUndone(m)
     BY <1>a, <1>b, <1>c, <1>i, <1>j, <1>n, <1>q, <2>3 DEF BackgroundUndone, Unlock,
       Rest, Goto, manager, requests, links, server, WakeInv, Opening, Bridging
  <2>4. CASE BackgroundFails(m)
     BY <1>a, <1>b, <1>c, <1>i, <1>j, <1>n, <1>q, <2>4 DEF BackgroundFails, Unlock,
       Rest, Goto, manager, requests, links, server, WakeInv, Opening, Bridging
  <2>5. CASE BackgroundForgets(m)
     BY <1>a, <1>b, <1>c, <1>i, <1>j, <1>n, <1>q, <2>5 DEF BackgroundForgets, Goto,
       manager, requests, links, server, WakeInv, Opening, Bridging
  <2>6. CASE Supervise(m)
     BY <1>a, <1>b, <1>c, <1>i, <1>j, <1>n, <1>q, <2>6 DEF Supervise, Goto, Free,
       Reconnect, manager, requests, links, server, WakeInv, Opening, Bridging
  <2>7. QED
    BY <1>3, <2>1, <2>2, <2>3, <2>4, <2>5, <2>6 DEF Task
<1>4. ASSUME NEW r \in Requester, Request(r) PROVE WakeInv'
  <2>1. CASE CallTool(r)
     BY <1>a, <1>b, <1>c, <1>i, <1>j, <1>n, <1>q, <2>1 DEF CallTool, Ask, Returns,
       manager, requests, links, server, WakeInv, Opening, Bridging
  <2>2. CASE SendBreaks(r)
     BY <1>a, <1>b, <1>c, <1>i, <1>j, <1>n, <1>q, <2>2 DEF SendBreaks, Returns, Fault,
       manager, requests, links, server, WakeInv, Opening, Bridging
  <2>3. CASE Insert(r) \/ Send(r) \/ Answered(r) \/ Forgotten(r) \/ GivesUp(r)
     BY <1>0, <2>3 DEF Insert, manager, requests, links, server, Send, Returns,
       Answered, Fault, Forgotten, GivesUp
  <2>4. QED
    BY <1>4, <2>1, <2>2, <2>3 DEF Request
<1>5. ASSUME NEW c \in Conn, ReaderEnds(c) \/ ReaderDrains(c) \/ ServerChanges(c) PROVE WakeInv'
  <2>1. CASE ReaderEnds(c)
     BY <1>a, <1>b, <1>c, <1>i, <1>j, <1>n, <1>q, <2>1 DEF ReaderEnds, Fault, manager,
       requests, links, server, WakeInv, Opening, Bridging
  <2>2. CASE ServerChanges(c)
     BY <1>a, <1>b, <1>c, <1>i, <1>j, <1>n, <1>q, <2>2 DEF ServerChanges, manager,
       requests, links, server, WakeInv, Opening, Bridging
  <2>3. CASE ReaderDrains(c)
    BY <1>0, <2>3 DEF ReaderDrains, manager, requests, links, server
  <2>4. QED
    BY <1>5, <2>1, <2>2, <2>3
<1>6. ASSUME NEW n \in Contested, HostRegisters(n) PROVE WakeInv'
  BY <1>0, <1>6 DEF HostRegisters, manager, requests, links, server
<1>7. QED
  BY <1>1, <1>2, <1>3, <1>4, <1>5, <1>6 DEF Next

(* A watcher that sleeps sleeps on a connection that needs nothing.          *)
LEMMA WakeupStep ==
  ASSUME TypeOK, PlaceInv, ConnInv, HoldInv, WatchInv, CloseInv, WakeupsKept, Next
  PROVE  WakeupInv'
<1> USE DEF Names, Posts, Kinds, Watches, Quiet
<1>a. Names
  BY Scene
<1>b. Posts
  BY Scene
<1>c. Kinds
  BY Scene
<1>d. Watches
  BY Scene
<1>e. Quiet
  BY Scene
<1>f. VmConnects => opened + 1 \in Managed /\ opened + 1 > opened
  BY McpBounds DEF VmConnects, TypeOK, Managed
<1> USE DEF Numbered, Given, Tasks, Alone
<1>g. Numbered
  BY Goods
<1>h. Given
  BY Goods
<1>i. Tasks
  BY Goods
<1>j. /\ permit \in [Conn -> BOOLEAN] /\ closed \in [Conn -> BOOLEAN]
      /\ missed \in [Conn -> BOOLEAN] /\ child \in [Conn -> BOOLEAN]
      /\ owner \in [Tool -> Conn \cup {None, Host}]
      /\ sync \in [Conn -> Actor \cup {Nobody}] /\ Nobody \notin Actor
      /\ answer \in [Requester -> (SUBSET Tool) \cup {Failed}]
      /\ todo \in [Actor -> SUBSET Tool] /\ catalog \in [Conn -> Catalog]
  BY Actors DEF TypeOK
<1>k. \A d \in Conn, a \in Actor : sync[d] = a <=> conn[a] = d /\ pc[a] \in Bridging
  BY DEF CloseInv
<1>l. /\ Opener \subseteq Actor /\ Actor \subseteq Requester /\ VM \in Opener
      /\ \A m \in Managed : Background(m) \in Opener /\ Supervisor(m) \in Opener
      /\ \A c \in Conn : Watcher(c) \notin Opener
      /\ \A a \in Opener : op[a] # "watch"
  BY Actors, StepOps
<1>m. Alone
  BY OneAtATime
<1>n. OffInv /\ AnswerInv /\ InstallInv /\ ShowInv /\ WakeInv /\ WakeupInv
  BY WatchParts
<1>o. \A c \in Conn : /\ pc[Watcher(c)] = "idle" => conn[Watcher(c)] = c
                      /\ \A a \in Actor : pc[a] \in {"idle"} \cup Opening /\ conn[a] = c
                                          /\ pc[Watcher(c)] = "idle" => a = Watcher(c)
  <2>1. \A c \in Conn : pc[Watcher(c)] = "idle" => conn[Watcher(c)] = c
    BY <1>a, <1>b DEF PlaceInv
  <2>2. QED
    BY <1>a, <1>m, <2>1
<1>p. \A c \in Current : \/ c \in Current' \/ permit'[c]
                         \/ \E x \in Actor : BridgeInstalls(x) /\ conn[x] = c
  BY ShownKept
<1>q. \A c \in Conn : c \in InDrop => c \in InDrop' \/ permit'[c]
  BY DropWakes
<1>r. \A x \in Actor : BridgeInstalls(x) => pc[x] = "install" /\ pc[x] \in {"idle"} \cup Opening
  BY DEF BridgeInstalls, Opening, Bridging
<1>s. \A c \in Current : pc[Watcher(c)] = "idle" => c \in Current' \/ permit'[c]
  <2>1. \A c \in Current : c \in Conn
    BY DEF Current
  <2>2. QED
    BY <1>o, <1>p, <1>r, <2>1
<1>t. \A c \in Conn : /\ pc[Watcher(c)] = "idle" /\ ~permit[c]
                      => \/ ~closed[c] /\ (c \in Current' \/ permit'[c] \/ missed[c])
                         \/ c \in InDrop' \/ permit'[c]
  BY <1>n, <1>q, <1>s DEF WakeupInv
<1>0. UNCHANGED <<catalog, closed, conn, missed, owner, pc, permit>> => WakeupInv'
  BY <1>n DEF WakeupInv, Current, Shown, InDrop, Dropping
<1>1. ASSUME NEW a \in Actor, Shared(a) PROVE WakeupInv'
  <2>1. CASE Connect(a)
    <3>0. UNCHANGED <<permit, closed, missed>>
      BY <2>1 DEF Connect, links, server
    <3>1. CASE Failing(a)
      BY <1>a, <1>t, <3>0, <3>1 DEF Failing, WakeupInv
    <3>2. ASSUME NEW d \in Conn, Making(a, d) PROVE WakeupInv'
      BY <1>a, <1>t, <3>0, <3>2 DEF Making, WakeupInv
    <3>3. QED
      BY <2>1, <3>1, <3>2, Handshake
  <2>2. CASE BridgeBegins(a)
     BY <1>a, <1>b, <1>c, <1>i, <1>j, <1>t, <2>2 DEF BridgeBegins, Ask, Returns, Goto,
       manager, requests, links, server, WakeupInv
  <2>3. CASE BridgeListed(a)
    <3>1. /\ conn[a] \in Conn /\ UNCHANGED <<conn, permit, closed>>
          /\ pc[a] \in {"idle"} \cup Opening /\ pc[a] # "idle"
      BY <1>i, <2>3 DEF BridgeListed, links, Opening, Bridging
    <3>2. \A b \in Actor : b # a => pc'[b] = pc[b]
      BY <1>c, <2>3 DEF BridgeListed, BridgeFails, Goto
    <3>3. \A c \in Conn : c # conn[a] => missed'[c] = missed[c]
      BY <1>j, <3>1, <2>3 DEF BridgeListed, BridgeFails, server
    <3>4. ASSUME NEW c \in Conn, pc[Watcher(c)] = "idle" PROVE conn[a] # c
      BY <1>o, <3>1, <3>4
    <3>5. ASSUME pc'[a] = "idle"
          PROVE  /\ a = Watcher(conn[a])
                 /\ conn[a] \in Current' \/ permit'[conn[a]] \/ missed'[conn[a]]
                 /\ closed[conn[a]] => permit[conn[a]] \/ conn[a] \in InDrop
      <4>1. op[a] = "watch"
        BY <1>b, <1>c, <3>5, <2>3 DEF BridgeListed, BridgeFails, Goto
      <4>2. a = Watcher(conn[a])
        BY <4>1, StepOps
      <4>3. conn[a] \in Current' \/ permit'[conn[a]] \/ missed'[conn[a]]
        BY <1>j, <3>1, <3>5, <1>c, <4>1, <2>3 DEF BridgeListed, BridgeFails, Goto
      <4>4. closed[conn[a]] => permit[conn[a]] \/ conn[a] \in InDrop
        BY <1>n, <3>1 DEF WakeInv
      <4>5. QED
        BY <4>2, <4>3, <4>4
    <3>6. \A c \in Conn : Watcher(c) \in Actor /\ (a = Watcher(c) /\ a = Watcher(conn[a]) => c = conn[a])
      BY <1>a, <3>1
    <3>7. QED
      BY <1>q, <1>t, <3>1, <3>2, <3>3, <3>4, <3>5, <3>6 DEF WakeupInv
  <2>4. CASE BridgeChecks(a)
    <3>1. /\ conn[a] \in Conn /\ UNCHANGED <<conn, permit, closed>>
          /\ pc[a] \in {"idle"} \cup Opening /\ pc[a] # "idle"
      BY <1>i, <2>4 DEF BridgeChecks, links, Opening, Bridging
    <3>2. \A b \in Actor : b # a => pc'[b] = pc[b]
      BY <1>c, <2>4 DEF BridgeChecks, BridgeFails, Goto
    <3>3. \A c \in Conn : c # conn[a] => missed'[c] = missed[c]
      BY <1>j, <3>1, <2>4 DEF BridgeChecks, BridgeFails, server
    <3>4. ASSUME NEW c \in Conn, pc[Watcher(c)] = "idle" PROVE conn[a] # c
      BY <1>o, <3>1, <3>4
    <3>5. ASSUME pc'[a] = "idle"
          PROVE  /\ a = Watcher(conn[a])
                 /\ conn[a] \in Current' \/ permit'[conn[a]] \/ missed'[conn[a]]
                 /\ closed[conn[a]] => permit[conn[a]] \/ conn[a] \in InDrop
      <4>1. op[a] = "watch"
        BY <1>b, <1>c, <3>5, <2>4 DEF BridgeChecks, BridgeFails, Goto
      <4>2. a = Watcher(conn[a])
        BY <4>1, StepOps
      <4>3. conn[a] \in Current' \/ permit'[conn[a]] \/ missed'[conn[a]]
        BY <1>j, <3>1, <3>5, <1>c, <4>1, <2>4 DEF BridgeChecks, BridgeFails, Goto
      <4>4. closed[conn[a]] => permit[conn[a]] \/ conn[a] \in InDrop
        BY <1>n, <3>1 DEF WakeInv
      <4>5. QED
        BY <4>2, <4>3, <4>4
    <3>6. \A c \in Conn : Watcher(c) \in Actor /\ (a = Watcher(c) /\ a = Watcher(conn[a]) => c = conn[a])
      BY <1>a, <3>1
    <3>7. QED
      BY <1>q, <1>t, <3>1, <3>2, <3>3, <3>4, <3>5, <3>6 DEF WakeupInv
  <2>5. CASE BridgeInstalls(a)
    <3>1. /\ conn[a] \in Conn /\ UNCHANGED <<conn, permit, closed>>
          /\ pc[a] \in {"idle"} \cup Opening /\ pc[a] # "idle"
      BY <1>i, <2>5 DEF BridgeInstalls, links, Opening, Bridging
    <3>2. \A b \in Actor : b # a => pc'[b] = pc[b]
      BY <1>c, <2>5 DEF BridgeInstalls, BridgeFails, Goto
    <3>3. \A c \in Conn : c # conn[a] => missed'[c] = missed[c]
      BY <1>j, <3>1, <2>5 DEF BridgeInstalls, BridgeFails, server
    <3>4. ASSUME NEW c \in Conn, pc[Watcher(c)] = "idle" PROVE conn[a] # c
      BY <1>o, <3>1, <3>4
    <3>5. ASSUME pc'[a] = "idle"
          PROVE  /\ a = Watcher(conn[a])
                 /\ conn[a] \in Current' \/ permit'[conn[a]] \/ missed'[conn[a]]
                 /\ closed[conn[a]] => permit[conn[a]] \/ conn[a] \in InDrop
      <4>1. op[a] = "watch"
        BY <1>b, <1>c, <3>5, <2>5 DEF BridgeInstalls, BridgeFails, Goto
      <4>2. a = Watcher(conn[a])
        BY <4>1, StepOps
      <4>3. conn[a] \in Current' \/ permit'[conn[a]] \/ missed'[conn[a]]
        BY <3>1, <3>5, <4>1, <2>5, Installed
      <4>4. closed[conn[a]] => permit[conn[a]] \/ conn[a] \in InDrop
        BY <1>n, <3>1 DEF WakeInv
      <4>5. QED
        BY <4>2, <4>3, <4>4
    <3>6. \A c \in Conn : Watcher(c) \in Actor /\ (a = Watcher(c) /\ a = Watcher(conn[a]) => c = conn[a])
      BY <1>a, <3>1
    <3>7. QED
      BY <1>q, <1>t, <3>1, <3>2, <3>3, <3>4, <3>5, <3>6 DEF WakeupInv
  <2>6. CASE Watch(a)
    <3>0. UNCHANGED <<permit, closed, missed, owner, catalog>>
      BY <2>6 DEF Watch, links, server
    <3>1. PICK d \in Conn, w \in Actor : Watching(a, d, w)
      BY <2>6, Watched
    <3>2. /\ d \in Current \/ permit[d]
          /\ closed[d] => permit[d] \/ d \in InDrop
      BY <1>n, <3>1 DEF Watching, ShowInv, WakeInv, Opening
    <3>3. Current' = Current
      BY <3>0 DEF Current, Shown
    <3>4. \A c \in Conn : pc'[Watcher(c)] = "idle" => pc[Watcher(c)] = "idle" \/ c = d
      BY <1>a, <3>1 DEF Watching
    <3>5. QED
      BY <1>q, <1>t, <3>0, <3>1, <3>2, <3>3, <3>4 DEF WakeupInv
  <2>7. CASE Wakes(a)
    <3>1. /\ UNCHANGED <<conn, closed, missed>> /\ permit' = [permit EXCEPT ![conn[a]] = FALSE]
          /\ pc[a] = "idle" /\ conn[a] \in Conn
      BY <1>i, <2>7 DEF Wakes, server
    <3>2. /\ \A b \in Actor : b # a => pc'[b] = pc[b]
          /\ pc'[a] # "idle"
      BY <1>c, <2>7 DEF Wakes, Goto
    <3>3. pc[a] \in {"idle"} \cup Opening
      BY <3>1
    <3>4. \A c \in Conn : c # conn[a] => permit'[c] = permit[c]
      BY <1>j, <3>1
    <3>5. \A c \in Conn : pc'[Watcher(c)] = "idle" => /\ Watcher(c) # a /\ pc[Watcher(c)] = "idle"
                                                     /\ c # conn[a]
      BY <1>a, <1>o, <3>2, <3>3
    <3>6. QED
      BY <1>t, <3>1, <3>4, <3>5 DEF WakeupInv
  <2>8. CASE Close(a)
    <3>1. /\ UNCHANGED <<conn, permit>> /\ closed' = [closed EXCEPT ![conn[a]] = TRUE]
          /\ pc[a] = "close" /\ pc' = [pc EXCEPT ![a] = "drop"] /\ conn[a] \in Conn
      BY <1>i, <2>8 DEF Close, Goto
    <3>2. pc'[a] = "drop" /\ \A b \in Actor : b # a => pc'[b] = pc[b]
      BY <1>c, <3>1
    <3>3. conn[a] \in InDrop'
      BY <3>1, <3>2 DEF InDrop, Dropping
    <3>4. \A c \in Conn : c # conn[a] => closed'[c] = closed[c]
      BY <1>j, <3>1
    <3>5. missed' = missed
      BY <2>8 DEF Close, server
    <3>6. QED
      BY <1>a, <1>q, <1>t, <3>1, <3>2, <3>3, <3>4, <3>5 DEF WakeupInv
  <2>9. CASE Drop(a)
     BY <1>a, <1>b, <1>c, <1>i, <1>j, <1>t, <2>9 DEF Drop, Drops, AfterDrop, Rest,
       Goto, manager, requests, links, server, WakeupInv
  <2>10. CASE Reconnected(a)
     BY <1>a, <1>b, <1>c, <1>i, <1>j, <1>t, <2>10 DEF Reconnected, Rest, Goto, Unlock,
       Home, manager, requests, links, server, WakeupInv
  <2>11. CASE ReconnectFails(a)
     BY <1>a, <1>b, <1>c, <1>i, <1>j, <1>t, <2>11 DEF ReconnectFails, Rest, Goto,
       Unlock, Home, manager, requests, links, server, WakeupInv
  <2>12. QED
     BY <1>1, <2>1, <2>2, <2>3, <2>4, <2>5, <2>6, <2>7, <2>8, <2>9, <2>10, <2>11 DEF
       Shared
<1>2. CASE Vm \/ VmConnects \/ VmDisconnects \/ VmReconnects
  <2>1. CASE VmConnects
     BY <1>a, <1>b, <1>c, <1>i, <1>j, <1>t, <1>e, <1>f, <2>1 DEF VmConnects, Resting,
       manager, requests, links, server, WakeupInv
  <2>2. CASE VmConnected
     BY <1>a, <1>b, <1>c, <1>i, <1>j, <1>t, <1>e, <2>2 DEF VmConnected, manager,
       requests, links, server, WakeupInv
  <2>3. CASE VmDisconnects
     BY <1>a, <1>b, <1>c, <1>i, <1>j, <1>t, <2>3 DEF VmDisconnects, Resting, Goto,
       manager, requests, links, server, WakeupInv
  <2>4. CASE VmTakes
     BY <1>a, <1>b, <1>c, <1>i, <1>j, <1>t, <2>4 DEF VmTakes, Free, Goto, manager,
       requests, links, server, WakeupInv
  <2>5. CASE VmDisconnected
     BY <1>a, <1>b, <1>c, <1>i, <1>j, <1>t, <2>5 DEF VmDisconnected, Unlock, Rest,
       Goto, manager, requests, links, server, WakeupInv
  <2>6. CASE VmReconnects
     BY <1>a, <1>b, <1>c, <1>i, <1>j, <1>t, <2>6 DEF VmReconnects, Resting, Goto,
       manager, requests, links, server, WakeupInv
  <2>7. CASE VmRetakes
     BY <1>a, <1>b, <1>c, <1>i, <1>j, <1>t, <2>7 DEF VmRetakes, Free, Goto, Reconnect,
       manager, requests, links, server, WakeupInv
  <2>8. CASE VmConnectFails
     BY <1>a, <1>b, <1>c, <1>i, <1>j, <1>t, <2>8 DEF VmConnectFails, Rest, Goto,
       manager, requests, links, server, WakeupInv
  <2>9. QED
    BY <1>2, <2>1, <2>2, <2>3, <2>4, <2>5, <2>6, <2>7, <2>8 DEF Vm
<1>3. ASSUME NEW m \in Managed, Task(m) PROVE WakeupInv'
  <2>1. CASE BackgroundBegins(m)
     BY <1>a, <1>b, <1>c, <1>i, <1>j, <1>t, <2>1 DEF BackgroundBegins, Free, Goto,
       BackgroundOpens, manager, requests, links, server, WakeupInv
  <2>2. CASE BackgroundConnected(m)
     BY <1>a, <1>b, <1>c, <1>i, <1>j, <1>t, <1>e, <2>2 DEF BackgroundConnected, Goto,
       Unlock, manager, requests, links, server, WakeupInv
  <2>3. CASE BackgroundUndone(m)
     BY <1>a, <1>b, <1>c, <1>i, <1>j, <1>t, <2>3 DEF BackgroundUndone, Unlock, Rest,
       Goto, manager, requests, links, server, WakeupInv
  <2>4. CASE BackgroundFails(m)
     BY <1>a, <1>b, <1>c, <1>i, <1>j, <1>t, <2>4 DEF BackgroundFails, Unlock, Rest,
       Goto, manager, requests, links, server, WakeupInv
  <2>5. CASE BackgroundForgets(m)
     BY <1>a, <1>b, <1>c, <1>i, <1>j, <1>t, <2>5 DEF BackgroundForgets, Goto, manager,
       requests, links, server, WakeupInv
  <2>6. CASE Supervise(m)
     BY <1>a, <1>b, <1>c, <1>i, <1>j, <1>t, <2>6 DEF Supervise, Goto, Free, Reconnect,
       manager, requests, links, server, WakeupInv
  <2>7. QED
    BY <1>3, <2>1, <2>2, <2>3, <2>4, <2>5, <2>6 DEF Task
<1>4. ASSUME NEW r \in Requester, Request(r) PROVE WakeupInv'
  <2>1. CASE CallTool(r)
     BY <1>a, <1>b, <1>c, <1>i, <1>j, <1>t, <2>1 DEF CallTool, Ask, Returns, manager,
       requests, links, server, WakeupInv
  <2>2. CASE SendBreaks(r)
     BY <1>a, <1>b, <1>c, <1>i, <1>j, <1>t, <2>2 DEF SendBreaks, Returns, Fault,
       manager, requests, links, server, WakeupInv
  <2>3. CASE Insert(r) \/ Send(r) \/ Answered(r) \/ Forgotten(r) \/ GivesUp(r)
     BY <1>0, <2>3 DEF Insert, manager, requests, links, server, Send, Returns,
       Answered, Fault, Forgotten, GivesUp
  <2>4. QED
    BY <1>4, <2>1, <2>2, <2>3 DEF Request
<1>5. ASSUME NEW c \in Conn, ReaderEnds(c) \/ ReaderDrains(c) \/ ServerChanges(c) PROVE WakeupInv'
  <2>1. CASE ReaderEnds(c)
     BY <1>a, <1>b, <1>c, <1>i, <1>j, <1>t, <2>1 DEF ReaderEnds, Fault, manager,
       requests, links, server, WakeupInv
  <2>2. CASE ServerChanges(c)
     BY <1>a, <1>b, <1>c, <1>i, <1>j, <1>t, <2>2 DEF ServerChanges, manager, requests,
       links, server, WakeupInv
  <2>3. CASE ReaderDrains(c)
    BY <1>0, <2>3 DEF ReaderDrains, manager, requests, links, server
  <2>4. QED
    BY <1>5, <2>1, <2>2, <2>3
<1>6. ASSUME NEW n \in Contested, HostRegisters(n) PROVE WakeupInv'
  <2>1. CASE HostRegisters(n)
     BY <1>a, <1>b, <1>c, <1>i, <1>j, <1>t, <2>1 DEF HostRegisters, manager, requests,
       links, server, WakeupInv
  <2>2. QED
    BY <1>6, <2>1
<1>7. QED
  BY <1>1, <1>2, <1>3, <1>4, <1>5, <1>6 DEF Next

(* Each step keeps what the watchers rest on.                                *)
LEMMA WatchStep ==
  ASSUME TypeOK, PlaceInv, ConnInv, HoldInv, CloseInv, WatchInv, WakeupsKept, Next
  PROVE  WatchInv' /\ WakeupsKept'
BY WatchPartsNext, OffStep, AnswerStep2, InstallStep, ShowStep, WakeStep, WakeupStep

-----------------------------------------------------------------------------
(* The theorems.                                                             *)

(* At the start nothing is opened, asked or published.                       *)
LEMMA Start == ASSUME Init PROVE IInv
<1>1. TypeOK
  BY McpBounds, McpTools, Actors, StepSets, StepsAll DEF Init, TypeOK, AllSteps
<1>2. PlaceInv
  BY Actors, StepSets DEF Init, PlaceInv
<1>3. made \in Nat /\ \A c \in Conn : c > made
  BY Numbers DEF Init, None
<1>4. ConnInv
  BY <1>3, Actors, Numbers DEF Init, ConnInv, Shown, None
<1>5. CloseInv
  BY Actors DEF Init, CloseInv, Bridging
<1>6. HoldInv
  <2>1. /\ map = 0 /\ target = 0 /\ opened = 0 /\ None = 0
        /\ VM \in Actor /\ Nobody # VM /\ pc[VM] = "off" /\ op[VM] = "none"
        /\ \A m \in Managed :
              /\ slot[m] = None /\ ~token[m] /\ m \notin left /\ holder[m] = Nobody
              /\ Nobody # Background(m) /\ Nobody # Supervisor(m)
              /\ pc[Background(m)] = "off" /\ pc[Supervisor(m)] = "off"
              /\ op[Background(m)] = "none" /\ op[Supervisor(m)] = "none"
    BY Actors DEF Init, None
  <2>2. QED
    BY <2>1 DEF HoldInv
<1>7. TokenInv
  BY Actors DEF Init, TokenInv
<1>8. LiveInv
  BY Actors DEF Init, LiveInv
<1>9. WatchInv
  BY Actors DEF Init, WatchInv, Refreshed, Opening, Bridging
<1>10. NothingLeft /\ NobodyForgotten /\ WakeupsKept
  BY Actors DEF Init, NothingLeft, NobodyForgotten, WakeupsKept
<1>11. QED
  BY <1>1, <1>2, <1>4, <1>5, <1>6, <1>7, <1>8, <1>9, <1>10 DEF IInv

(* Each step keeps the whole invariant.                                      *)
LEMMA Keeps == ASSUME IInv, [Next]_vars PROVE IInv'
<1>1. CASE Next
  <2>1. TypeOK' /\ PlaceInv' /\ ConnInv' /\ HoldInv'
    BY <1>1, TypeStep, PlaceStep, ConnStepAll, HoldStep DEF IInv
  <2>2. CloseInv' /\ TokenInv' /\ LiveInv'
    BY <1>1, CloseStep, TokenStep, LiveStep DEF IInv
  <2>3. WatchInv' /\ WakeupsKept' /\ NobodyForgotten'
    BY <1>1, WatchStep, ForgottenStep DEF IInv
  <2>4. NothingLeft'
    BY <2>1, <2>2, LeftIsEmpty, PTL
  <2>5. QED
    BY <2>1, <2>2, <2>3, <2>4 DEF IInv
<1>2. CASE UNCHANGED vars
  <2> USE <1>2 DEF vars, manager, requests, links, server
  <2>1. TypeOK' /\ PlaceInv' /\ ConnInv'
    BY DEF IInv, TypeOK, PlaceInv, ConnInv, Shown, MyManaged
  <2>2. CloseInv' /\ HoldInv' /\ TokenInv'
    BY DEF IInv, CloseInv, HoldInv, TokenInv
  <2>3. LiveInv'
    BY DEF IInv, LiveInv, Gone, Shown, MyManaged
  <2>4. WatchInv'
    BY DEF IInv, WatchInv, Refreshed, Dropping, Shown
  <2>5. NothingLeft' /\ NobodyForgotten' /\ WakeupsKept'
    BY DEF IInv, NothingLeft, NobodyForgotten, WakeupsKept, Dropping, Shown
  <2>6. QED
    BY <2>1, <2>2, <2>3, <2>4, <2>5 DEF IInv
<1>3. QED
  BY <1>1, <1>2

(* Whatever the VM, its tasks, the watchers, the calls and the server do,    *)
(* the parts of IInv hold.                                                   *)
THEOREM Invariance == Spec => []IInv
<1>1. Init => IInv
  BY Start
<1>2. IInv /\ [Next]_vars => IInv'
  BY Keeps
<1>3. QED
  BY <1>1, <1>2, PTL DEF Spec

(* Everything keeps its type.                                                *)
THEOREM TypeCorrect == Spec => []TypeOK
<1>1. IInv => TypeOK
  BY DEF IInv
<1>2. QED
  BY <1>1, Invariance, PTL

(* Once a disconnect has returned, no tool and no process of any connection  *)
(* made for that server is left (mcp.rs:155), whatever handshake, reconnect  *)
(* or refresh was going on.                                                  *)
THEOREM NothingStays == Spec => []NothingLeft
<1>1. IInv => NothingLeft
  BY DEF IInv
<1>2. QED
  BY <1>1, Invariance, PTL

(* Whoever waits for an answer is told when the connection ends              *)
(* (lib.rs:305): nobody waits in the map of a reader that is over.           *)
THEOREM EverybodyTold == Spec => []NobodyForgotten
<1>1. IInv => NobodyForgotten
  BY DEF IInv
<1>2. QED
  BY <1>1, Invariance, PTL

(* A watcher that sleeps without a permit sleeps on an open connection whose *)
(* tools are what the server lists, or a refresh failed, or on one that is   *)
(* about to be dropped (lib.rs:675).                                         *)
THEOREM NoWakeupLost == Spec => []WakeupsKept
<1>1. IInv => WakeupsKept
  BY DEF IInv
<1>2. QED
  BY <1>1, Invariance, PTL

=============================================================================
