------------------------------- MODULE WsHub -------------------------------
(***************************************************************************)
(* The WebSocket hub (grpcbackend_cpp/src/websocket/hub.cpp): groups of    *)
(* connections, each under its mutex cons_lck, and the operations that     *)
(* move a connection to a group, broadcast to a group and close one.       *)
(*                                                                         *)
(* The hub is the con_handler of every connection: the worker of a         *)
(* connection calls on_connect, on_message and on_disconnect, which call   *)
(* the group's handler in turn, and that handler may call the hub again.   *)
(* Threads of the application call it at any time.                         *)
(*                                                                         *)
(* A connection (module WsConnection) is reduced to what the hub depends   *)
(* on: whether a Read is armed, done, the CLOSEs in its queue, and its     *)
(* response_queue_lck, which send_cb holds while it calls on_disconnect    *)
(* and which every send_message and close has to take.                     *)
(***************************************************************************)
EXTENDS Naturals

CONSTANTS
    Con,        \* the connections
    Worker,     \* threads that run the completion queues
    WorkerOf,   \* the worker of each connection
    App,        \* threads of the application
    Group,      \* names of the groups
    Default,    \* the group "" every connection starts in
    Calls,      \* which operations are called from which places
    MaxCloses   \* bound: CLOSEs waiting in a queue when a closer starts

Operation == {"move", "broadcast", "close_group", "close_all"}
Place == {"app", "on_connect", "on_message", "on_disconnect"}

ASSUME ConstantsOK ==
    /\ WorkerOf \in [Con -> Worker]
    /\ Worker \cap App = {}
    /\ Default \in Group
    /\ {"unset", "reset", "none"} \cap Group = {}
    /\ "none" \notin Con
    /\ Calls \subseteq Place \X Operation
    /\ MaxCloses \in Nat

Thread == Worker \cup App

VARIABLES
    members,  \* per group, its set cons
    attr,     \* per connection, the group its group_attribute points to
    reading,  \* per connection, what its armed Read waits for
    done,     \* per connection, its flag done
    closes,   \* per connection, the CLOSEs in its queue
    flying,   \* a CLOSE is being written although done is set
    cb,       \* per worker, the callback of the hub it runs
    op        \* per thread, the operation of the hub it runs

convars == <<reading, done, closes, flying>>
vars == <<members, attr, convars, cb, op>>

NoCallback == [kind |-> "none", step |-> "none", con |-> "none", group |-> "none"]
NoOperation == [name |-> "none", step |-> "none", con |-> "none",
                group |-> "none", to |-> "none", todo |-> {}, left |-> {}]

Init ==
    /\ members = [g \in Group |-> {}]
    /\ attr = [c \in Con |-> "unset"]
    /\ reading = [c \in Con |-> "request"]
    /\ done = [c \in Con |-> FALSE]
    /\ closes = [c \in Con |-> 0]
    /\ flying = [c \in Con |-> FALSE]
    /\ cb = [w \in Worker |-> NoCallback]
    /\ op = [t \in Thread |-> NoOperation]

-----------------------------------------------------------------------------
(* Mistaken forms of the helpers below, to see that the properties notice. *)

BugLockIgnored(g) == TRUE
BugLeavesMembers(c, g) == UNCHANGED members
BugLeavesAttr(c, g) == UNCHANGED attr
BugCloseGroupHolds(t, g) ==
    /\ op[t].name \in {"broadcast", "close_all", "close_group"}
    /\ op[t].step \in {"each", "push"}
    /\ op[t].group = g

-----------------------------------------------------------------------------
(* Locks: who holds one follows from where the threads are.                *)

(* broadcast and close_all keep cons_lck while they go through the group;  *)
(* every other user of it takes and gives it back within a step.           *)
Holds(t, g) ==
    /\ op[t].name \in {"broadcast", "close_all"}
    /\ op[t].step \in {"each", "push"}
    /\ op[t].group = g

GroupFree(g) == \A t \in Thread : ~Holds(t, g)

(* send_cb keeps response_queue_lck while the hub handles the disconnect.  *)
QueueFree(c) == \A w \in Worker : ~(cb[w].kind = "write" /\ cb[w].con = c)

InsertInto(c, g) == members' = [members EXCEPT ![g] = @ \cup {c}]
EraseFrom(c, g) == members' = [members EXCEPT ![g] = @ \ {c}]
PointTo(c, g) == attr' = [attr EXCEPT ![c] = g]

-----------------------------------------------------------------------------
(* on_connect, on_message and on_disconnect, called by the worker.         *)

Idle(c) == cb[WorkerOf[c]] = NoCallback
Callback(k, s, c, g) == [kind |-> k, step |-> s, con |-> c, group |-> g]
Begin(k, s, c, g) == cb' = [cb EXCEPT ![WorkerOf[c]] = Callback(k, s, c, g)]
Step(w, s) == cb' = [cb EXCEPT ![w].step = s]

OnConnect(c) ==
    /\ Idle(c) /\ reading[c] = "request"
    /\ reading' = [reading EXCEPT ![c] = "message"]
    /\ PointTo(c, Default)
    /\ Begin("connect", "insert", c, Default)
    /\ UNCHANGED <<members, done, closes, flying, op>>

ConnectInsert(w) ==
    /\ cb[w].step = "insert"
    /\ GroupFree(Default)
    /\ InsertInto(cb[w].con, Default)
    /\ Step(w, "handler")
    /\ UNCHANGED <<attr, convars, op>>

(* A message for a connection that is done is dropped and not read again.  *)
OnMessage(c) ==
    /\ Idle(c) /\ reading[c] = "message"
    /\ reading' = [reading EXCEPT ![c] = "none"]
    /\ IF done[c] THEN UNCHANGED cb ELSE Begin("message", "handler", c, attr[c])
    /\ UNCHANGED <<members, attr, done, closes, flying, op>>

ReadFails(c) ==
    /\ Idle(c) /\ reading[c] # "none"
    /\ reading' = [reading EXCEPT ![c] = "none"]
    /\ UNCHANGED <<members, attr, done, closes, flying, cb, op>>

(* The client's CLOSE, seen by the connection's on_message. *)
ReadClose(c) ==
    /\ Idle(c) /\ reading[c] = "message"
    /\ reading' = [reading EXCEPT ![c] = "none"]
    /\ Begin("read", "handler", c, attr[c])
    /\ UNCHANGED <<members, attr, done, closes, flying, op>>

CloseWritten(c) == closes[c] > 0 /\ (done[c] => flying[c])

(* The server's CLOSE has been written, seen by send_cb. *)
WriteClose(c) ==
    /\ Idle(c) /\ CloseWritten(c)
    /\ closes' = [closes EXCEPT ![c] = @ - 1]
    /\ flying' = [flying EXCEPT ![c] = FALSE]
    /\ Begin("write", "handler", c, attr[c])
    /\ UNCHANGED <<members, attr, reading, done, op>>

(* The connection sets done when on_disconnect returns; the message then   *)
(* being written may be another CLOSE.                                     *)
Finish(w) ==
    LET c == cb[w].con IN
    /\ done' = [done EXCEPT ![c] = TRUE]
    /\ \E f \in IF done[c] \/ closes[c] = 0 THEN {flying[c]} ELSE BOOLEAN :
          flying' = [flying EXCEPT ![c] = f]
    /\ cb' = [cb EXCEPT ![w] = NoCallback]
    /\ UNCHANGED <<reading, closes>>

HandlerDone(w) == cb[w].step = "handler" /\ op[w].name = "none"
Disconnecting(w) == cb[w].kind \in {"read", "write"}

ConnectReturns(w) ==
    /\ HandlerDone(w) /\ cb[w].kind = "connect"
    /\ cb' = [cb EXCEPT ![w] = NoCallback]
    /\ UNCHANGED <<members, attr, convars, op>>

MessageReturns(w) ==
    /\ HandlerDone(w) /\ cb[w].kind = "message"
    /\ reading' = [reading EXCEPT ![cb[w].con] = "message"]
    /\ cb' = [cb EXCEPT ![w] = NoCallback]
    /\ UNCHANGED <<members, attr, done, closes, flying, op>>

(* After its handler, on_disconnect leaves the group it found before. *)
DisconnectErase(w) ==
    /\ HandlerDone(w) /\ Disconnecting(w)
    /\ cb[w].group \in Group
    /\ GroupFree(cb[w].group)
    /\ EraseFrom(cb[w].con, cb[w].group)
    /\ Step(w, "reset")
    /\ UNCHANGED <<attr, convars, op>>

DisconnectReset(w) ==
    /\ cb[w].step = "reset"
    /\ PointTo(cb[w].con, "reset")
    /\ Finish(w)
    /\ UNCHANGED <<members, op>>

(* A second on_disconnect finds no group: the default handler is called. *)
DisconnectDefault(w) ==
    /\ HandlerDone(w) /\ Disconnecting(w)
    /\ cb[w].group \notin Group
    /\ Finish(w)
    /\ UNCHANGED <<members, attr, op>>

-----------------------------------------------------------------------------
(* The operations of the hub.                                              *)

PlaceOf(t) ==
    IF t \in App THEN "app"
    ELSE CASE cb[t].kind = "connect" -> "on_connect"
           [] cb[t].kind = "message" -> "on_message"
           [] OTHER                  -> "on_disconnect"

(* A worker calls the hub from the handler it runs, which is given one     *)
(* connection; the application may have kept any that was opened.          *)
MayCall(t, name) ==
    /\ op[t].name = "none"
    /\ t \in Worker => cb[t].step = "handler"
    /\ <<PlaceOf(t), name>> \in Calls

Knows(t, c) == IF t \in Worker THEN cb[t].con = c ELSE attr[c] # "unset"

Start(t, name, step, g) ==
    op' = [op EXCEPT ![t] =
             [NoOperation EXCEPT !.name = name, !.step = step, !.group = g]]

(* set_connection_group *)
MoveStart(t, c, g) ==
    /\ MayCall(t, "move") /\ Knows(t, c)
    /\ op' = [op EXCEPT ![t] =
                [NoOperation EXCEPT
                    !.name = "move", !.con = c, !.group = attr[c], !.to = g,
                    !.step = IF attr[c] \in Group THEN "erase" ELSE "assign"]]
    /\ UNCHANGED <<members, attr, convars, cb>>

MoveErase(t) ==
    /\ op[t].step = "erase"
    /\ GroupFree(op[t].group)
    /\ EraseFrom(op[t].con, op[t].group)
    /\ op' = [op EXCEPT ![t].step = "assign"]
    /\ UNCHANGED <<attr, convars, cb>>

MoveAssign(t) ==
    /\ op[t].step = "assign"
    /\ PointTo(op[t].con, op[t].to)
    /\ op' = [op EXCEPT ![t].step = "insert"]
    /\ UNCHANGED <<members, convars, cb>>

MoveInsert(t) ==
    /\ op[t].step = "insert"
    /\ GroupFree(op[t].to)
    /\ InsertInto(op[t].con, op[t].to)
    /\ op' = [op EXCEPT ![t] = NoOperation]
    /\ UNCHANGED <<attr, convars, cb>>

(* broadcast by group name; by connection it is that of the connection's   *)
(* group, read before the lock is taken.                                   *)
BroadcastStart(t, g) ==
    /\ MayCall(t, "broadcast")
    /\ Start(t, "broadcast", "lock", g)
    /\ UNCHANGED <<members, attr, convars, cb>>

MayClose(t, name) ==
    MayCall(t, name) /\ \A c \in Con : closes[c] < MaxCloses

CloseGroupStart(t, g) ==
    /\ MayClose(t, "close_group")
    /\ Start(t, "close_group", "lock", g)
    /\ UNCHANGED <<members, attr, convars, cb>>

CloseAllStart(t, g) ==
    /\ MayClose(t, "close_all")
    /\ op' = [op EXCEPT ![t] =
                [NoOperation EXCEPT !.name = "close_all", !.step = "lock",
                                    !.group = g, !.left = Group \ {g}]]
    /\ UNCHANGED <<members, attr, convars, cb>>

(* close_group goes through a copy of the set, the others through the set  *)
(* itself and keep the lock.                                               *)
LockGroup(t) ==
    /\ op[t].step = "lock"
    /\ GroupFree(op[t].group)
    /\ op' = [op EXCEPT ![t].step = "each", ![t].todo = members[op[t].group]]
    /\ UNCHANGED <<members, attr, convars, cb>>

(* send_message or close of the next connection: the check of done. *)
EachCon(t) ==
    /\ op[t].step = "each"
    /\ \E c \in op[t].todo :
          op' = IF done[c]
                THEN [op EXCEPT ![t].todo = @ \ {c}]
                ELSE [op EXCEPT ![t].todo = @ \ {c}, ![t].con = c, ![t].step = "push"]
    /\ UNCHANGED <<members, attr, convars, cb>>

(* ... and queue_response, which takes the connection's lock.  A CLOSE     *)
(* pushed after done is set is written if nothing else is in the queue.    *)
PushTo(t) ==
    LET c == op[t].con IN
    /\ op[t].step = "push"
    /\ QueueFree(c)
    /\ op' = [op EXCEPT ![t].step = "each", ![t].con = "none"]
    /\ IF op[t].name = "broadcast"
       THEN UNCHANGED convars
       ELSE /\ closes' = [closes EXCEPT ![c] = @ + 1]
            /\ \E f \in IF done[c] /\ closes[c] = 0 THEN BOOLEAN ELSE {flying[c]} :
                  flying' = [flying EXCEPT ![c] = f]
            /\ UNCHANGED <<reading, done>>
    /\ UNCHANGED <<members, attr, cb>>

EachEnds(t) == op[t].step = "each" /\ op[t].todo = {}

OperationEnds(t) ==
    /\ EachEnds(t) /\ op[t].name \in {"broadcast", "close_group"}
    /\ op' = [op EXCEPT ![t] = NoOperation]
    /\ UNCHANGED <<members, attr, convars, cb>>

CloseAllEnds(t) ==
    /\ EachEnds(t) /\ op[t].name = "close_all"
    /\ members' = [members EXCEPT ![op[t].group] = {}]
    /\ \/ /\ op[t].left = {}
          /\ op' = [op EXCEPT ![t] = NoOperation]
       \/ \E g \in op[t].left :
             op' = [op EXCEPT ![t].group = g, ![t].left = @ \ {g},
                              ![t].step = "lock"]
    /\ UNCHANGED <<attr, convars, cb>>

-----------------------------------------------------------------------------
Deliver(c) == OnConnect(c) \/ OnMessage(c) \/ ReadFails(c) \/ ReadClose(c)

CallbackStep(w) ==
    \/ ConnectInsert(w)
    \/ ConnectReturns(w) \/ MessageReturns(w)
    \/ DisconnectErase(w) \/ DisconnectReset(w) \/ DisconnectDefault(w)

StartOperation(t) ==
    \E g \in Group :
       \/ \E c \in Con : MoveStart(t, c, g)
       \/ BroadcastStart(t, g) \/ CloseGroupStart(t, g) \/ CloseAllStart(t, g)

OperationStep(t) ==
    \/ MoveErase(t) \/ MoveAssign(t) \/ MoveInsert(t)
    \/ LockGroup(t) \/ EachCon(t) \/ PushTo(t)
    \/ OperationEnds(t) \/ CloseAllEnds(t)

Next ==
    \/ \E c \in Con : Deliver(c) \/ WriteClose(c)
    \/ \E w \in Worker : CallbackStep(w)
    \/ \E t \in Thread : StartOperation(t) \/ OperationStep(t)

Spec == Init /\ [][Next]_vars

(***************************************************************************)
(* Handlers return and threads go on; a thread that waits for a mutex      *)
(* which is free again and again gets it at last.  Nobody has to call.     *)
(***************************************************************************)
Fairness ==
    /\ \A w \in Worker : SF_vars(CallbackStep(w))
    /\ \A t \in Thread : SF_vars(OperationStep(t))

FairSpec == Spec /\ Fairness

-----------------------------------------------------------------------------
(* When only its own worker moves it, from on_connect or on_message, a     *)
(* connection is never in a group its attribute does not name, not even    *)
(* while it is moved: it is in one at most, and in none when it has ended. *)
NoStaleMember ==
    \A c \in Con, g \in Group : c \in members[g] => attr[c] = g

(* How far a connection has come, in the words of module Membership.       *)
Phase(c) ==
    LET w == WorkerOf[c]
        at(step) == cb[w].con = c /\ cb[w].step = step
    IN  IF attr[c] = "unset" \/ at("insert") THEN "new"
        ELSE IF attr[c] = "reset" \/ at("reset") THEN "gone"
        ELSE IF op[w].name = "move" /\ op[w].con = c /\ op[w].step # "erase" THEN "moving"
        ELSE "open"

phases == [c \in Con |-> Phase(c)]

(* However its steps overlap with those of others, on_connect, a move and  *)
(* on_disconnect each change the groups of a connection at one moment; it  *)
(* is in one group at most, and after on_disconnect it never comes back.   *)
Groups == INSTANCE Membership WITH phase <- phases
ImplementsMembership == Groups!Spec

Settled(c) ==
    /\ \A w \in Worker : cb[w].con = c => cb[w].step = "handler"
    /\ \A t \in Thread : ~(op[t].name = "move" /\ op[t].con = c)

(* ... and without close_all, which empties the groups, a connection that  *)
(* nobody is moving is in the group its attribute names.                   *)
MembershipMatchesAttr ==
    \A c \in Con : Settled(c) =>
        \A g \in Group : c \in members[g] <=> attr[c] = g

(* The set a thread iterates over does not change under it. *)
GroupStableWhileIterated ==
    [][\A t \in Thread, g \in Group :
          Holds(t, g) /\ Holds(t, g)' => members'[g] = members[g]]_vars

(* Every operation of the hub returns: no thread waits for ever for the    *)
(* lock of a group or of a connection.                                     *)
OperationsFinish ==
    \A t \in Thread : op[t].name # "none" ~> op[t].name = "none"

(* A disconnect is handled to its end. *)
DisconnectsFinish ==
    \A w \in Worker : Disconnecting(w) ~> ~Disconnecting(w)

(* websocket/hub.h says of broadcast that it sends to all connections of   *)
(* the group: it gets to the last one.                                     *)
BroadcastFinishes ==
    \A t \in Thread : op[t].name = "broadcast" ~> op[t].name # "broadcast"

=============================================================================
