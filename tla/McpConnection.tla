--------------------------- MODULE McpConnection ---------------------------
(* One MCP server as a plugin drives it: the connections made to it          *)
(* (crates/rness-mcp/src/lib.rs, stdio), the tools they publish, and the     *)
(* slot that the VM's connect, disconnect and reconnect share with a         *)
(* background handshake and a reconnecting supervisor (rness-lua             *)
(* api/mcp.rs).  The server lists any tools, changes its list, stops         *)
(* talking or dies; calls time out or are cancelled.                         *)
EXTENDS Integers, FiniteSets

CONSTANTS
    Tool,           \* public names
    Call,           \* tool calls
    Catalog,        \* what a server may list
    First,          \* what it lists when it starts
    Contested,      \* names another plugin registers as well
    MaxManaged,     \* bound: connects by the VM
    MaxConns,       \* bound: handshakes that succeed
    MaxAttempts,    \* reconnect policy: max_attempts
    MaxChanges,     \* bound: changes of a server's list
    MaxFaults       \* bound: servers that stop, timeouts, refusals

ASSUME McpBounds == /\ {MaxManaged, MaxAttempts, MaxChanges, MaxFaults} \subseteq Nat
                    /\ MaxConns \in Nat
ASSUME McpTools == First \in Catalog /\ Catalog \subseteq SUBSET Tool /\ Contested \subseteq Tool

None == 0
Nobody == <<"nobody", 0>>
Host == -1                  \* somebody else's registration
Managed == 1..MaxManaged
Conn == 1..MaxConns

VM == <<"vm", 0>>
Background(m) == <<"background", m>>
Supervisor(m) == <<"supervisor", m>>
Watcher(c) == <<"watcher", c>>
Actor == {VM} \cup {Background(m) : m \in Managed} \cup {Supervisor(m) : m \in Managed}
              \cup {Watcher(c) : c \in Conn}
Requester == Actor \cup {<<"call", k>> : k \in Call}

VARIABLES
    map,        \* the managed connection the VM knows, or None
    opened,     \* managed connections so far
    slot,       \* managed -> its connection, or None
    holder,     \* managed -> who has locked the slot
    token,      \* managed -> its cancel token
    attempts,   \* managed -> reconnects the supervisor has tried
    left,       \* history: managed connections whose disconnect has returned
    pc,         \* actor -> the step it is at
    op,         \* actor -> what it is doing
    target,     \* the managed connection the VM is working on
    conn,       \* requester -> the connection it works on
    stage,      \* requester -> where its request is
    answer,     \* requester -> what its request returned
    todo,       \* actor -> names it has still to look at
    made,       \* connections so far
    home,       \* connection -> its managed connection
    closed,
    reader,     \* connection -> where its reader task is
    permit,     \* connection -> the permit of `changed`
    sync,       \* connection -> who holds its sync lock
    pending,    \* connection -> requests with a sender in the map
    child,      \* connection -> its process is alive
    owner,      \* the registry: name -> connection, Host or None
    catalog,    \* connection -> what its server lists
    missed,     \* history: a refresh failed since the list last changed
    changes, faults

manager == <<map, opened, slot, holder, token, attempts, left, target>>
requests == <<stage, answer, pending>>
links == <<made, home, closed, reader, permit, child>>
server == <<catalog, missed, changes>>
vars == <<manager, pc, op, conn, requests, todo, links, sync, owner, server, faults>>

Failed == {"failed"}        \* no list of tools

Init ==
    /\ map = None /\ opened = 0 /\ target = None
    /\ slot = [m \in Managed |-> None] /\ holder = [m \in Managed |-> Nobody]
    /\ token = [m \in Managed |-> FALSE] /\ attempts = [m \in Managed |-> 0]
    /\ left = {}
    /\ pc = [a \in Actor |-> "off"] /\ op = [a \in Actor |-> "none"]
    /\ conn = [r \in Requester |-> None]
    /\ stage = [r \in Requester |-> "none"] /\ answer = [r \in Requester |-> {}]
    /\ todo = [a \in Actor |-> {}]
    /\ made = 0 /\ home = [c \in Conn |-> None]
    /\ closed = [c \in Conn |-> FALSE] /\ reader = [c \in Conn |-> "none"]
    /\ permit = [c \in Conn |-> FALSE] /\ sync = [c \in Conn |-> Nobody]
    /\ pending = [c \in Conn |-> {}] /\ child = [c \in Conn |-> FALSE]
    /\ owner = [n \in Tool |-> None]
    /\ catalog = [c \in Conn |-> First] /\ missed = [c \in Conn |-> FALSE]
    /\ changes = 0 /\ faults = 0

Fault == faults < MaxFaults /\ faults' = faults + 1
Goto(a, step) == pc' = [pc EXCEPT ![a] = step]
Rest(a, step) == /\ Goto(a, step)
                 /\ op' = [op EXCEPT ![a] = "none"]
                 /\ conn' = [conn EXCEPT ![a] = None]
Shown(c) == {n \in Tool : owner[n] = c}
MyManaged(a) == IF a = VM THEN target ELSE a[2]
Unlock(m) == holder' = [holder EXCEPT ![m] = Nobody]
Free(m) == holder[m] = Nobody
-----------------------------------------------------------------------------
(* Requests (request, request_with_id, send_raw).  The connection is looked  *)
(* at before the request enters the map and again before it is written.      *)

(* The future returns, or is dropped: its entry goes with it.                *)
Returns(r, result) ==
    /\ stage' = [stage EXCEPT ![r] = "none"]
    /\ answer' = IF r \in Actor THEN [answer EXCEPT ![r] = result] ELSE answer

(* The actor or call `r` asks its connection.                                *)
Ask(r, c) ==
    IF closed[c] THEN Returns(r, Failed)
                 ELSE stage' = [stage EXCEPT ![r] = "insert"] /\ UNCHANGED answer

CallTool(r) ==
    /\ r \notin Actor /\ stage[r] = "none" /\ conn[r] = None
    /\ \E c \in Conn : Shown(c) # {} /\ conn' = [conn EXCEPT ![r] = c] /\ Ask(r, c)
    /\ UNCHANGED <<manager, pc, op, pending, todo, links, sync, owner, server, faults>>

Insert(r) ==
    /\ stage[r] = "insert"
    /\ pending' = [pending EXCEPT ![conn[r]] = @ \cup {r}]
    /\ stage' = [stage EXCEPT ![r] = "send"]
    /\ UNCHANGED <<manager, pc, op, conn, answer, todo, links, sync, owner, server, faults>>

(* Bug: written without a second look at `closed`.                           *)
SendBlindly(r) ==
    /\ stage[r] = "send"
    /\ stage' = [stage EXCEPT ![r] = "wait"] /\ UNCHANGED <<answer, pending>>
    /\ UNCHANGED <<manager, pc, op, conn, todo, links, sync, owner, server, faults>>

Send(r) ==
    /\ stage[r] = "send"
    /\ IF closed[conn[r]]
       THEN Returns(r, Failed) /\ pending' = [pending EXCEPT ![conn[r]] = @ \ {r}]
       ELSE stage' = [stage EXCEPT ![r] = "wait"] /\ UNCHANGED <<answer, pending>>
    /\ UNCHANGED <<manager, pc, op, conn, todo, links, sync, owner, server, faults>>

(* A write that fails, or is given up half-way, ends the connection:         *)
(* IncompleteWrite aborts the reader, forgets every request, kills the child.*)
SendBreaks(r) ==
    LET c == conn[r]
    IN  /\ stage[r] = "send" /\ ~closed[c] /\ Fault
        /\ Returns(r, Failed)
        /\ closed' = [closed EXCEPT ![c] = TRUE]
        /\ reader' = [reader EXCEPT ![c] = IF @ = "reading" THEN "over" ELSE @]
        /\ pending' = [pending EXCEPT ![c] = {}]
        /\ child' = [child EXCEPT ![c] = FALSE]
        /\ permit' = [permit EXCEPT ![c] = TRUE]
        /\ UNCHANGED <<manager, pc, op, conn, made, home, todo, sync, owner, server>>

(* The reader hands the answer of the server to whoever is in the map.       *)
Answered(r) ==
    LET c == conn[r]
    IN  /\ stage[r] = "wait" /\ reader[c] = "reading" /\ child[c] /\ r \in pending[c]
        /\ pending' = [pending EXCEPT ![c] = @ \ {r}]
        /\ \/ Returns(r, catalog[c]) /\ UNCHANGED faults
           \/ Returns(r, Failed) /\ Fault
        /\ UNCHANGED <<manager, pc, op, conn, todo, links, sync, owner, server>>

(* The sender was dropped or has said "connection closed".                   *)
Forgotten(r) ==
    /\ stage[r] = "wait" /\ r \notin pending[conn[r]]
    /\ Returns(r, Failed)
    /\ UNCHANGED <<manager, pc, op, conn, pending, todo, links, sync, owner, server, faults>>

(* The timeout, or the caller's token.                                       *)
GivesUp(r) ==
    /\ stage[r] \in {"send", "wait"} /\ Fault
    /\ Returns(r, Failed)
    /\ pending' = [pending EXCEPT ![conn[r]] = @ \ {r}]
    /\ UNCHANGED <<manager, pc, op, conn, todo, links, sync, owner, server>>
-----------------------------------------------------------------------------
(* The reader task and the server.                                           *)

(* End of file or a line that is no JSON; `closed` is set first.             *)
ReaderEnds(c) ==
    /\ reader[c] = "reading"
    /\ \/ ~child[c] /\ UNCHANGED <<child, faults>>
       \/ child[c] /\ Fault /\ child' \in {child, [child EXCEPT ![c] = FALSE]}
    /\ reader' = [reader EXCEPT ![c] = "ended"]
    /\ closed' = [closed EXCEPT ![c] = TRUE]
    /\ permit' = [permit EXCEPT ![c] = TRUE]
    /\ UNCHANGED <<manager, pc, op, conn, requests, made, home, todo, sync, owner, server>>

(* "EOF/protocol failure: fail calls" (lib.rs:305).                          *)
ReaderDrains(c) ==
    /\ reader[c] = "ended"
    /\ reader' = [reader EXCEPT ![c] = "over"]
    /\ pending' = [pending EXCEPT ![c] = {}]
    /\ UNCHANGED <<manager, pc, op, conn, stage, answer, made, home, closed, permit, child,
                   todo, sync, owner, server, faults>>

(* Bug: the notification is lost on a watcher that is refreshing.            *)
ServerChangesUnheard(c) ==
    /\ reader[c] = "reading" /\ child[c] /\ changes < MaxChanges
    /\ changes' = changes + 1
    /\ \E names \in Catalog \ {catalog[c]} : catalog' = [catalog EXCEPT ![c] = names]
    /\ missed' = [missed EXCEPT ![c] = FALSE]
    /\ permit' = [permit EXCEPT ![c] = @ \/ pc[Watcher(c)] = "idle"]
    /\ UNCHANGED <<manager, pc, op, conn, requests, made, home, closed, reader, child,
                   todo, sync, owner, faults>>

(* The list changes and the reader stores a permit, watched or not.          *)
ServerChanges(c) ==
    /\ reader[c] = "reading" /\ child[c] /\ changes < MaxChanges
    /\ changes' = changes + 1
    /\ \E names \in Catalog \ {catalog[c]} : catalog' = [catalog EXCEPT ![c] = names]
    /\ missed' = [missed EXCEPT ![c] = FALSE]
    /\ permit' = [permit EXCEPT ![c] = TRUE]
    /\ UNCHANGED <<manager, pc, op, conn, requests, made, home, closed, reader, child,
                   todo, sync, owner, faults>>

(* Another plugin registers a free name, or takes its own back.              *)
HostRegisters(n) ==
    /\ owner[n] \in {None, Host}
    /\ owner' = [owner EXCEPT ![n] = IF @ = None THEN Host ELSE None]
    /\ UNCHANGED <<manager, pc, op, conn, requests, todo, links, sync, server, faults>>
-----------------------------------------------------------------------------
(* connect, bridge_tools, watch and disconnect, by whoever runs them.        *)

(* The handshake; one that fails leaves nothing.                             *)
Connect(a) ==
    /\ pc[a] = "connect"
    /\ \/ /\ made < MaxConns
          /\ LET c == made + 1
             IN  /\ made' = c
                 /\ home' = [home EXCEPT ![c] = MyManaged(a)]
                 /\ reader' = [reader EXCEPT ![c] = "reading"]
                 /\ child' = [child EXCEPT ![c] = TRUE]
                 /\ conn' = [conn EXCEPT ![a] = c]
          /\ Goto(a, "lock") /\ UNCHANGED faults
       \/ /\ Goto(a, "failed")
          /\ IF made < MaxConns THEN Fault ELSE UNCHANGED faults
          /\ UNCHANGED <<made, home, reader, child, conn>>
    /\ UNCHANGED <<manager, op, requests, closed, permit, todo, sync, owner, server>>

BridgeBegins(a) ==
    /\ pc[a] = "lock" /\ sync[conn[a]] = Nobody
    /\ sync' = [sync EXCEPT ![conn[a]] = a]
    /\ Ask(a, conn[a])
    /\ Goto(a, "answer")
    /\ UNCHANGED <<manager, op, conn, pending, todo, links, owner, server, faults>>

Forget(a) == todo' = [todo EXCEPT ![a] = {}] /\ answer' = [answer EXCEPT ![a] = {}]

(* A watcher only warns; whoever opened the connection closes it.            *)
BridgeFails(a) ==
    LET c == conn[a]
    IN  /\ sync' = [sync EXCEPT ![c] = Nobody]
        /\ Goto(a, IF op[a] = "watch" THEN "idle" ELSE "close")
        /\ missed' = [missed EXCEPT ![c] = op[a] = "watch"]
        /\ Forget(a)
        /\ UNCHANGED <<owner, catalog, changes>>

BridgeListed(a) ==
    /\ pc[a] = "answer" /\ stage[a] = "none"
    /\ IF answer[a] = Failed
       THEN BridgeFails(a)
       ELSE /\ todo' = [todo EXCEPT ![a] = answer[a]]
            /\ Goto(a, "check")
            /\ UNCHANGED <<answer, sync, owner, server>>
    /\ UNCHANGED <<manager, op, conn, stage, pending, links, faults>>

(* "Check conflicts before changing any registration" (lib.rs:625).          *)
BridgeChecks(a) ==
    /\ pc[a] = "check"
    /\ \/ /\ todo[a] = {}
          /\ todo' = [todo EXCEPT ![a] = answer[a]]
          /\ Goto(a, "install")
          /\ UNCHANGED <<answer, sync, owner, server>>
       \/ \E n \in todo[a] :
             IF owner[n] \in {None, conn[a]}
             THEN /\ todo' = [todo EXCEPT ![a] = @ \ {n}]
                  /\ UNCHANGED <<pc, answer, sync, owner, server>>
             ELSE BridgeFails(a)
    /\ UNCHANGED <<manager, op, conn, stage, pending, links, faults>>

(* try_register and replace_if_current look again, each under the lock of    *)
(* the registry; then what the server no longer lists goes.                  *)
BridgeInstalls(a) ==
    LET c == conn[a]
    IN  /\ pc[a] = "install"
        /\ \/ /\ todo[a] = {}
              /\ owner' = [n \in Tool |-> IF owner[n] = c /\ n \notin answer[a] THEN None
                                                                             ELSE owner[n]]
              /\ sync' = [sync EXCEPT ![c] = Nobody]
              /\ Goto(a, IF op[a] = "watch" THEN "idle" ELSE "watch")
              /\ Forget(a)
              /\ UNCHANGED server
           \/ \E n \in todo[a] :
                 IF owner[n] \in {None, c}
                 THEN /\ owner' = [owner EXCEPT ![n] = c]
                      /\ todo' = [todo EXCEPT ![a] = @ \ {n}]
                      /\ UNCHANGED <<pc, answer, sync, server>>
                 ELSE BridgeFails(a)
        /\ UNCHANGED <<manager, op, conn, stage, pending, links, faults>>

Watch(a) ==
    /\ pc[a] = "watch" /\ sync[conn[a]] = Nobody
    /\ LET w == Watcher(conn[a])
       IN  /\ pc' = [pc EXCEPT ![w] = "idle", ![a] = "watched"]
           /\ op' = [op EXCEPT ![w] = "watch"]
           /\ conn' = [conn EXCEPT ![w] = conn[a]]
    /\ UNCHANGED <<manager, requests, todo, links, sync, owner, server, faults>>

(* The watcher takes the permit; EOF removes the tools.                      *)
Wakes(a) ==
    /\ pc[a] = "idle" /\ permit[conn[a]]
    /\ permit' = [permit EXCEPT ![conn[a]] = FALSE]
    /\ Goto(a, IF closed[conn[a]] THEN "close" ELSE "lock")
    /\ UNCHANGED <<manager, op, conn, requests, made, home, closed, reader, child,
                   todo, sync, owner, server, faults>>

(* disconnect: `closed` is set before the sync lock is waited for, so that a *)
(* refresh that goes on does not ask again.                                  *)
Close(a) ==
    /\ pc[a] = "close"
    /\ closed' = [closed EXCEPT ![conn[a]] = TRUE]
    /\ Goto(a, "drop")
    /\ UNCHANGED <<manager, op, conn, requests, made, home, reader, permit, child,
                   todo, sync, owner, server, faults>>

AfterDrop(a) == CASE op[a] \in {"open", "reopen"} -> "failed"
                  [] op[a] = "reconnect" -> "connect"
                  [] OTHER -> "dropped"

Drops(a) ==
    LET c == conn[a]
    IN  /\ reader' = [reader EXCEPT ![c] = IF @ = "reading" THEN "over" ELSE @]
        /\ permit' = [permit EXCEPT ![c] = TRUE]
        /\ owner' = [n \in Tool |-> IF owner[n] = c THEN None ELSE owner[n]]
        /\ pending' = [pending EXCEPT ![c] = {}]
        /\ child' = [child EXCEPT ![c] = FALSE]
        /\ IF op[a] = "watch"
           THEN Rest(a, "off")
           ELSE /\ Goto(a, AfterDrop(a))
                /\ op' = [op EXCEPT ![a] = IF @ = "reconnect" THEN "reopen" ELSE @]
                /\ conn' = conn
        /\ UNCHANGED <<manager, stage, answer, made, home, closed, todo, sync, server, faults>>

(* Bug: the tools go without waiting for a refresh to end.                   *)
DropAtOnce(a) == pc[a] = "drop" /\ Drops(a)

Drop(a) == pc[a] = "drop" /\ sync[conn[a]] = Nobody /\ Drops(a)
-----------------------------------------------------------------------------
(* The VM (rness.mcp.connect, disconnect, reconnect), one call at a time.    *)

Resting == pc[VM] = "off"

VmConnects ==
    /\ Resting /\ map = None /\ opened < MaxManaged
    /\ opened' = opened + 1
    /\ \/ /\ target' = opened + 1
          /\ pc' = [pc EXCEPT ![VM] = "connect"]
          /\ op' = [op EXCEPT ![VM] = "open"]
          /\ map' = map
       \/ /\ map' = opened + 1 /\ target' = target
          /\ pc' = [pc EXCEPT ![Background(opened + 1)] = "queued"]
          /\ op' = op
    /\ UNCHANGED <<slot, holder, token, attempts, left, conn, requests, todo, links, sync,
                   owner, server, faults>>

(* The foreground connect publishes its slot when everything is there.       *)
VmConnected ==
    LET m == target
    IN  /\ pc[VM] = "watched" /\ op[VM] = "open"
        /\ map' = m
        /\ slot' = [slot EXCEPT ![m] = conn[VM]]
        /\ pc' = [pc EXCEPT ![VM] = "off", ![Supervisor(m)] = "supervising"]
        /\ op' = [op EXCEPT ![VM] = "none"] /\ conn' = [conn EXCEPT ![VM] = None]
        /\ UNCHANGED <<opened, holder, token, attempts, left, target, requests, todo, links, sync, owner, server, faults>>

VmDisconnects ==
    /\ Resting /\ map # None
    /\ target' = map /\ map' = None
    /\ token' = [token EXCEPT ![map] = TRUE]
    /\ Goto(VM, "take")
    /\ UNCHANGED <<opened, slot, holder, attempts, left, op, conn, requests, todo, links,
                   sync, owner, server, faults>>

(* The slot stays locked until its connection is disconnected.               *)
VmTakes ==
    LET m == target
    IN  /\ pc[VM] = "take" /\ Free(m)
        /\ IF slot[m] = None
           THEN /\ left' = left \cup {m}
                /\ Goto(VM, "off")
                /\ UNCHANGED <<slot, holder, op, conn>>
           ELSE /\ holder' = [holder EXCEPT ![m] = VM]
                /\ slot' = [slot EXCEPT ![m] = None]
                /\ conn' = [conn EXCEPT ![VM] = slot[m]]
                /\ op' = [op EXCEPT ![VM] = "disconnect"]
                /\ Goto(VM, "close")
                /\ UNCHANGED left
        /\ UNCHANGED <<map, opened, token, attempts, target, requests, todo, links, sync,
                       owner, server, faults>>

VmDisconnected ==
    /\ pc[VM] = "dropped"
    /\ left' = left \cup {target}
    /\ Unlock(target)
    /\ Rest(VM, "off")
    /\ UNCHANGED <<map, opened, slot, token, attempts, target, requests, todo, links, sync,
                   owner, server, faults>>

VmReconnects ==
    /\ Resting /\ map # None
    /\ target' = map
    /\ Goto(VM, "retake")
    /\ UNCHANGED <<map, opened, slot, holder, token, attempts, left, op, conn, requests,
                   todo, links, sync, owner, server, faults>>

(* The slot is locked and its connection closed and opened anew.             *)
Reconnect(a) ==
    LET m == MyManaged(a)
    IN  /\ holder' = [holder EXCEPT ![m] = a]
        /\ conn' = [conn EXCEPT ![a] = slot[m]]
        /\ op' = [op EXCEPT ![a] = "reconnect"]
        /\ Goto(a, "close")

VmRetakes ==
    /\ pc[VM] = "retake" /\ Free(target)
    /\ IF slot[target] = None
       THEN Goto(VM, "off") /\ UNCHANGED <<holder, op, conn>>
       ELSE Reconnect(VM)
    /\ UNCHANGED <<map, opened, slot, token, attempts, left, target, requests, todo, links,
                   sync, owner, server, faults>>

(* Where the VM and the supervisor go when an operation is over.             *)
Home(a) == IF a = VM THEN "off" ELSE "supervising"

Reconnected(a) ==
    LET m == MyManaged(a)
    IN  /\ pc[a] = "watched" /\ op[a] = "reopen"
        /\ slot' = [slot EXCEPT ![m] = conn[a]]
        /\ Unlock(m)
        /\ Rest(a, Home(a))
        /\ UNCHANGED <<map, opened, token, attempts, left, target, requests, todo, links, sync,
                       owner, server, faults>>

(* The old, closed connection stays in the slot.                             *)
ReconnectFails(a) ==
    /\ pc[a] = "failed" /\ op[a] = "reopen"
    /\ Unlock(MyManaged(a))
    /\ Rest(a, Home(a))
    /\ UNCHANGED <<map, opened, slot, token, attempts, left, target, requests, todo, links,
                   sync, owner, server, faults>>

VmConnectFails ==
    /\ pc[VM] = "failed" /\ op[VM] = "open"
    /\ Rest(VM, "off")
    /\ UNCHANGED <<manager, requests, todo, links, sync, owner, server, faults>>
-----------------------------------------------------------------------------
(* connect_in_background and supervise.                                      *)

BackgroundOpens(m) ==
    /\ holder' = [holder EXCEPT ![m] = Background(m)]
    /\ op' = [op EXCEPT ![Background(m)] = "open"]
    /\ Goto(Background(m), "connect")

(* Bug: the handshake does not look at the token.                            *)
BackgroundBeginsAnyway(m) ==
    /\ pc[Background(m)] = "queued" /\ Free(m)
    /\ BackgroundOpens(m)
    /\ UNCHANGED <<map, opened, slot, token, attempts, left, target, conn, requests, todo,
                   links, sync, owner, server, faults>>

(* "give up quietly if disconnected meanwhile" (mcp.rs:85).                  *)
BackgroundBegins(m) ==
    /\ pc[Background(m)] = "queued" /\ Free(m)
    /\ IF token[m] THEN Goto(Background(m), "off") /\ UNCHANGED <<holder, op>>
                   ELSE BackgroundOpens(m)
    /\ UNCHANGED <<map, opened, slot, token, attempts, left, target, conn, requests, todo,
                   links, sync, owner, server, faults>>

BackgroundConnected(m) ==
    LET b == Background(m)
    IN  /\ pc[b] = "watched"
        /\ IF token[m]
           THEN /\ op' = [op EXCEPT ![b] = "undo"]
                /\ Goto(b, "close")
                /\ UNCHANGED <<slot, holder, conn>>
           ELSE /\ slot' = [slot EXCEPT ![m] = conn[b]]
                /\ Unlock(m)
                /\ pc' = [pc EXCEPT ![b] = "off", ![Supervisor(m)] = "supervising"]
                /\ op' = [op EXCEPT ![b] = "none"] /\ conn' = [conn EXCEPT ![b] = None]
        /\ UNCHANGED <<map, opened, token, attempts, left, target, requests, todo, links, sync, owner, server, faults>>

BackgroundUndone(m) ==
    /\ pc[Background(m)] = "dropped"
    /\ Unlock(m)
    /\ Rest(Background(m), "off")
    /\ UNCHANGED <<map, opened, slot, token, attempts, left, target, requests,
                   todo, links, sync, owner, server, faults>>

(* The slot is let go first, the map is looked at after.                     *)
BackgroundFails(m) ==
    /\ pc[Background(m)] = "failed"
    /\ Unlock(m)
    /\ Rest(Background(m), "forget")
    /\ UNCHANGED <<map, opened, slot, token, attempts, left, target, requests,
                   todo, links, sync, owner, server, faults>>

BackgroundForgets(m) ==
    /\ pc[Background(m)] = "forget"
    /\ map' = IF map = m THEN None ELSE map
    /\ Goto(Background(m), "off")
    /\ UNCHANGED <<opened, slot, holder, token, attempts, left, target, op, conn, requests,
                   todo, links, sync, owner, server, faults>>

(* A closed connection is opened again, a bounded number of times.           *)
Supervise(m) ==
    LET s == Supervisor(m)
    IN  /\ pc[s] = "supervising"
        /\ \/ /\ token[m] \/ attempts[m] = MaxAttempts
              /\ Goto(s, "off")
              /\ UNCHANGED <<holder, attempts, op, conn>>
           \/ /\ ~token[m] /\ Free(m) /\ slot[m] # None /\ closed[slot[m]]
              /\ attempts[m] < MaxAttempts
              /\ attempts' = [attempts EXCEPT ![m] = @ + 1]
              /\ Reconnect(s)
        /\ UNCHANGED <<map, opened, slot, token, left, target, requests, todo, links, sync,
                       owner, server, faults>>
-----------------------------------------------------------------------------
Shared(a) == \/ Connect(a) \/ BridgeBegins(a) \/ BridgeListed(a) \/ BridgeChecks(a)
             \/ BridgeInstalls(a) \/ Watch(a) \/ Wakes(a) \/ Close(a) \/ Drop(a)
             \/ Reconnected(a) \/ ReconnectFails(a)
Vm == VmConnected \/ VmTakes \/ VmDisconnected \/ VmRetakes \/ VmConnectFails
Task(m) == \/ BackgroundBegins(m) \/ BackgroundConnected(m) \/ BackgroundUndone(m)
           \/ BackgroundFails(m) \/ BackgroundForgets(m) \/ Supervise(m)
Request(r) == \/ CallTool(r) \/ Insert(r) \/ Send(r) \/ SendBreaks(r) \/ Answered(r)
              \/ Forgotten(r) \/ GivesUp(r)

Next ==
    \/ \E a \in Actor : Shared(a)
    \/ Vm \/ VmConnects \/ VmDisconnects \/ VmReconnects
    \/ \E m \in Managed : Task(m)
    \/ \E r \in Requester : Request(r)
    \/ \E c \in Conn : ReaderEnds(c) \/ ReaderDrains(c) \/ ServerChanges(c)
    \/ \E n \in Contested : HostRegisters(n)

Spec == Init /\ [][Next]_vars
-----------------------------------------------------------------------------
(* Properties.                                                               *)

(* What an operation goes through; whoever does none rests.                  *)
Bridging == {"answer", "check", "install"}
Opening == {"lock", "watch"} \cup Bridging
Steps == [none |-> {"off", "queued", "forget", "supervising", "take", "retake"},
          open |-> {"connect", "watched", "close", "drop", "failed"} \cup Opening,
          reopen |-> {"connect", "watched", "close", "drop", "failed"} \cup Opening,
          reconnect |-> {"close", "drop"},
          disconnect |-> {"close", "drop", "dropped"},
          undo |-> {"close", "drop", "dropped"},
          watch |-> {"idle", "lock", "close", "drop"} \cup Bridging]

TypeOK ==
    /\ map \in Managed \cup {None} /\ target \in Managed \cup {None}
    /\ opened \in 0..MaxManaged /\ made \in 0..MaxConns
    /\ slot \in [Managed -> Conn \cup {None}]
    /\ holder \in [Managed -> Actor \cup {Nobody}]
    /\ token \in [Managed -> BOOLEAN] /\ attempts \in [Managed -> 0..MaxAttempts]
    /\ left \subseteq Managed
    /\ op \in [Actor -> DOMAIN Steps]
    /\ pc \in [Actor -> UNION {Steps[o] : o \in DOMAIN Steps}]
    /\ sync \in [Conn -> Actor \cup {Nobody}]
    /\ conn \in [Requester -> Conn \cup {None}]
    /\ stage \in [Requester -> {"none", "insert", "send", "wait"}]
    /\ answer \in [Requester -> (SUBSET Tool) \cup {Failed}]
    /\ todo \in [Actor -> SUBSET Tool]
    /\ home \in [Conn -> Managed \cup {None}]
    /\ reader \in [Conn -> {"none", "reading", "ended", "over"}]
    /\ closed \in [Conn -> BOOLEAN] /\ permit \in [Conn -> BOOLEAN]
    /\ child \in [Conn -> BOOLEAN] /\ missed \in [Conn -> BOOLEAN]
    /\ pending \in [Conn -> SUBSET Requester]
    /\ owner \in [Tool -> Conn \cup {None, Host}]
    /\ catalog \in [Conn -> Catalog]
    /\ changes \in 0..MaxChanges /\ faults \in 0..MaxFaults

(* "disconnect waits on this mutex and removes any newly installed tools"    *)
(* (mcp.rs:155): once a disconnect has returned, no tool and no process of   *)
(* any connection made for that server is left, nor comes back.              *)
NothingLeft ==
    \A m \in left : \A c \in Conn : home[c] = m => Shown(c) = {} /\ ~child[c]

(* "fail calls" (lib.rs:305): whoever waits for an answer either has a       *)
(* reader that will bring it, or is no longer in the map and is told so,     *)
(* without its timeout, by whatever step the connection ended.               *)
NobodyForgotten ==
    \A r \in Requester : stage[r] = "wait" =>
        r \notin pending[conn[r]] \/ reader[conn[r]] # "over"

(* "Watch catalog changes. EOF removes stale tools" (lib.rs:675): a watcher  *)
(* that sleeps has nothing to do.  The registry shows what the server lists, *)
(* unless a refresh failed since it last changed, and the connection is      *)
(* open, unless somebody is about to drop it and will wake the watcher.      *)
Dropping(c) == \E a \in Actor : pc[a] = "drop" /\ conn[a] = c
WakeupsKept ==
    \A c \in Conn : pc[Watcher(c)] = "idle" /\ ~permit[c] =>
        \/ ~closed[c] /\ (Shown(c) = catalog[c] \/ missed[c])
        \/ Dropping(c)
-----------------------------------------------------------------------------
(* What the properties rest on.                                              *)

Opener == {VM} \cup {Background(m) : m \in Managed} \cup {Supervisor(m) : m \in Managed}

(* Each actor does what its code can do, and asks only inside bridge_tools.  *)
PlaceInv ==
    /\ \A a \in Actor : pc[a] \in Steps[op[a]] /\ (stage[a] # "none" => pc[a] = "answer")
    /\ op[VM] \in {"none", "open", "reopen", "reconnect", "disconnect"}
    /\ op[VM] = "none" => pc[VM] \in {"off", "take", "retake"}
    /\ \A m \in Managed :
          /\ op[Background(m)] \in {"none", "open", "undo"}
          /\ op[Background(m)] = "none" => pc[Background(m)] \in {"off", "queued", "forget"}
          /\ op[Supervisor(m)] \in {"none", "reconnect", "reopen"}
          /\ op[Supervisor(m)] = "none" => pc[Supervisor(m)] \in {"off", "supervising"}
    /\ \A c \in Conn : IF op[Watcher(c)] = "none"
                       THEN pc[Watcher(c)] = "off"
                       ELSE op[Watcher(c)] = "watch" /\ conn[Watcher(c)] = c

(* Nothing is known of a connection before it is made; who works on one      *)
(* works for the server it was made for.                                     *)
ConnInv ==
    /\ \A c \in Conn : IF c > made THEN /\ home[c] = None /\ reader[c] = "none"
                                        /\ ~closed[c] /\ ~child[c] /\ Shown(c) = {}
                                        /\ pc[Watcher(c)] = "off"
                                   ELSE home[c] \in Managed
    /\ \A r \in Requester : conn[r] <= made /\ (stage[r] # "none" => conn[r] # None)
    /\ \A a \in Actor : /\ op[a] = "none" => conn[a] = None
                        /\ op[a] # "none" /\ pc[a] \notin {"connect", "failed"}
                              => conn[a] # None
    /\ \A a \in Opener : conn[a] # None => home[conn[a]] = MyManaged(a)
    /\ \A m \in Managed : slot[m] # None => home[slot[m]] = m

(* `closed` comes first; the sync lock is held while tools are looked at.    *)
CloseInv ==
    /\ \A c \in Conn : reader[c] \in {"ended", "over"} => closed[c]
    /\ \A a \in Actor : pc[a] = "drop" => closed[conn[a]]
    /\ \A c \in Conn, a \in Actor : sync[c] = a <=> conn[a] = c /\ pc[a] \in Bridging

(* Whoever works on a managed connection has its slot locked, but for the    *)
(* VM's first connect, when nobody else has heard of it.                     *)
HoldInv ==
    /\ \A m \in Managed :
          /\ holder[m] \in {Nobody, VM, Background(m), Supervisor(m)}
          /\ holder[m] = VM
                <=> target = m /\ op[VM] \in {"disconnect", "reconnect", "reopen"}
          /\ holder[m] = Background(m) <=> op[Background(m)] # "none"
          /\ holder[m] = Supervisor(m) <=> op[Supervisor(m)] # "none"
          /\ pc[Background(m)] # "off" => slot[m] = None /\ pc[Supervisor(m)] = "off"
          /\ m > opened => /\ pc[Background(m)] = "off" /\ pc[Supervisor(m)] = "off"
                           /\ slot[m] = None /\ ~token[m] /\ m \notin left
    /\ map <= opened /\ target <= opened
    /\ pc[VM] # "off" => target # None
    /\ op[VM] = "open" => /\ pc[Background(target)] = "off"
                          /\ pc[Supervisor(target)] = "off"
    /\ op[VM] \in {"open", "disconnect"} => slot[target] = None

(* The VM cancels what it disconnects, once and for all.                     *)
TokenInv ==
    /\ map # None => ~token[map]
    /\ op[VM] \in {"open", "reconnect", "reopen"} \/ pc[VM] = "retake" => ~token[target]
    /\ op[VM] = "disconnect" \/ pc[VM] = "take" => token[target]
    /\ \A m \in left : token[m] /\ holder[m] = Nobody /\ slot[m] = None

(* A connection that was dropped: a refresh that still comes for it is told  *)
(* that it is closed.                                                        *)
Gone(c) == /\ closed[c] /\ ~child[c] /\ Shown(c) = {}
           /\ sync[c] # Nobody => LET a == sync[c]
                                  IN  pc[a] = "answer" /\ stage[a] = "none"
                                      /\ answer[a] = Failed

(* Every connection is gone, in its slot or in somebody's hands.             *)
LiveInv ==
    /\ \A c \in 1..made : \/ Gone(c)
                          \/ slot[home[c]] = c
                          \/ \E a \in Opener : op[a] # "none" /\ conn[a] = c
    /\ \A a \in Opener : pc[a] \in {"connect", "failed", "dropped"} /\ conn[a] # None
                         => Gone(conn[a])
    /\ \A a \in Opener :
          /\ op[a] = "reconnect" => slot[MyManaged(a)] = conn[a]
          /\ op[a] = "reopen" => slot[MyManaged(a)] # None /\ Gone(slot[MyManaged(a)])

(* What a refresh has seen is what the server lists, or the watcher will be  *)
(* woken; so it is when the connection closes.                               *)
Refreshed(a) == pc[a] \in {"check", "install"}
                \/ (pc[a] = "answer" /\ stage[a] = "none" /\ answer[a] # Failed)
WatchInv ==
    /\ \A a \in Opener : pc[a] \in Opening => pc[Watcher(conn[a])] = "off"
    /\ \A a \in Actor :
          /\ Refreshed(a) => /\ answer[a] \subseteq Tool
                             /\ answer[a] = catalog[conn[a]] \/ permit[conn[a]]
          /\ pc[a] = "install" => \A n \in answer[a] \ todo[a] : owner[n] = conn[a]
          /\ pc[a] = "watch" => Shown(conn[a]) = catalog[conn[a]] \/ permit[conn[a]]
          /\ pc[a] \in {"idle"} \cup Opening /\ closed[conn[a]]
                => permit[conn[a]] \/ Dropping(conn[a])

IInv == /\ TypeOK /\ PlaceInv /\ ConnInv /\ CloseInv /\ HoldInv /\ TokenInv
        /\ LiveInv /\ WatchInv /\ NothingLeft /\ NobodyForgotten /\ WakeupsKept
=============================================================================
