---------------------------- MODULE WsHubProofs ----------------------------
(***************************************************************************)
(* Theorems about WsHub, for any connections, workers, threads of the      *)
(* application and groups.                                                 *)
(***************************************************************************)
EXTENDS WsHub, TLAPS

-----------------------------------------------------------------------------
(* What holds however the hub is used.                                     *)

GroupOrNone == Group \cup {"unset", "reset", "none"}

CallbackType ==
    {NoCallback} \cup
    [kind : {"connect", "message", "read", "write"}, step : {"insert", "handler", "reset"},
     con : Con, group : GroupOrNone]

OperationType ==
    [name : {"none"} \cup Operation,
     step : {"none", "erase", "assign", "insert", "lock", "each", "push"},
     con : Con \cup {"none"}, group : GroupOrNone, to : GroupOrNone,
     todo : SUBSET Con, left : SUBSET Group]

TypeOK ==
    /\ members \in [Group -> SUBSET Con]
    /\ attr \in [Con -> Group \cup {"unset", "reset"}]
    /\ reading \in [Con -> {"request", "message", "none"}]
    /\ cb \in [Worker -> CallbackType]
    /\ op \in [Thread -> OperationType]

(* The steps of a move are not those of the operations on a group. *)
Moving(o) ==
    /\ o.name = "move"
    /\ o.step \in {"erase", "assign", "insert"}
    /\ o.con \in Con /\ o.to \in Group
    /\ o.step = "erase" => o.group \in Group

Visiting(o) ==
    /\ o.name \in {"broadcast", "close_group", "close_all"}
    /\ o.step \in {"lock", "each", "push"}
    /\ o.group \in Group

OperationInv == \A t \in Thread : op[t] = NoOperation \/ Moving(op[t]) \/ Visiting(op[t])

(* The mutex of a group has one holder. *)
LockInv == \A t, u \in Thread, g \in Group : Holds(t, g) /\ Holds(u, g) => t = u

Inv == TypeOK /\ OperationInv /\ LockInv

-----------------------------------------------------------------------------
(* What holds when connections are only moved by their own handlers.       *)

OnlyOwnMoves == {<<"app", "move">>, <<"on_disconnect", "move">>} \cap Calls = {}

(* A worker is in one callback, of one of its connections.  A disconnect   *)
(* has read the attribute, which stays what it was.                        *)
InCallback(k) ==
    /\ k.con \in Con
    /\ \/ k.kind = "connect" /\ k.step \in {"insert", "handler"}
       \/ k.kind = "message" /\ k.step = "handler"
       \/ k.kind \in {"read", "write"} /\ k.step \in {"handler", "reset"}
    /\ k.kind \in {"connect", "message"} => reading[k.con] # "request"
    /\ k.step = "insert" => attr[k.con] = Default
    /\ k.kind \in {"read", "write"} => k.group = attr[k.con]
    /\ k.step = "reset" => k.group \in Group

CallbackInv ==
    \A w \in Worker :
        cb[w] # NoCallback => InCallback(cb[w]) /\ WorkerOf[cb[w].con] = w

(* Who moves a connection runs a handler of it, and no other thread moves  *)
(* it meanwhile.                                                           *)
OwnMove(t) ==
    /\ t \in Worker
    /\ cb[t].kind \in {"connect", "message"} /\ cb[t].step = "handler"
    /\ op[t].con = cb[t].con
    /\ op[t].step = "erase" => op[t].group = attr[op[t].con]
    /\ op[t].step = "insert" => op[t].to = attr[op[t].con]

MoveInv == \A t \in Thread : op[t].name = "move" => OwnMove(t)

(* Its worker is between taking c from a group and putting it into one. *)
Between(c) ==
    LET w == WorkerOf[c]
    IN  /\ cb[w].con = c
        /\ \/ cb[w].step \in {"insert", "reset"}
           \/ op[w].name = "move" /\ op[w].step \in {"assign", "insert"}

MemberInv ==
    \A c \in Con, g \in Group : c \in members[g] => attr[c] = g /\ ~Between(c)

(* Without close_all, a connection is in a group unless it is between two. *)
NoCloseAll == \A p \in Place : <<p, "close_all">> \notin Calls

PresentInv ==
    /\ \A c \in Con : attr[c] \in Group /\ ~Between(c) => c \in members[attr[c]]
    /\ \A t \in Thread : op[t].name # "close_all"

(* Before its on_connect a connection is in no group. *)
RequestInv == \A c \in Con : reading[c] = "request" => attr[c] = "unset"

Own == CallbackInv /\ MoveInv /\ MemberInv /\ RequestInv
OwnInv == Inv /\ Own

-----------------------------------------------------------------------------
(* Every step keeps what holds however the hub is used.                    *)

LEMMA InitInv == Init => Inv
<1> SUFFICES ASSUME Init PROVE Inv
    OBVIOUS
<1>1. NoOperation \in OperationType
  BY DEF NoOperation, OperationType, GroupOrNone
<1>2. NoCallback \in CallbackType
  BY DEF NoCallback, CallbackType, GroupOrNone
<1>3. TypeOK
  BY <1>1, <1>2 DEF Init, TypeOK
<1>4. OperationInv
  BY DEF Init, OperationInv
<1>5. LockInv
  BY DEF Init, LockInv, Holds, NoOperation
<1> QED BY <1>3, <1>4, <1>5 DEF Inv

(* Thread t goes on to o, which holds no group it did not hold before, or  *)
(* one that was free.                                                      *)
LEMMA OperationChanges ==
    ASSUME Inv, NEW t \in Thread, NEW o \in OperationType,
           op' = [op EXCEPT ![t] = o],
           o = NoOperation \/ Moving(o) \/ Visiting(o),
           \A g \in Group : Holds(t, g)' => Holds(t, g) \/ GroupFree(g),
           members' \in [Group -> SUBSET Con],
           attr' \in [Con -> Group \cup {"unset", "reset"}],
           UNCHANGED <<reading, cb>>
    PROVE  Inv'
<1>1. /\ op'[t] = o
      /\ \A u \in Thread \ {t} : op'[u] = op[u]
      /\ op' \in [Thread -> OperationType]
  BY DEF Inv, TypeOK
<1>2. TypeOK'
  BY <1>1 DEF Inv, TypeOK
<1>3. OperationInv'
  BY <1>1 DEF Inv, OperationInv
<1>4. LockInv'
  <2> SUFFICES ASSUME NEW u \in Thread, NEW v \in Thread, NEW g \in Group,
                      Holds(u, g)', Holds(v, g)'
               PROVE  u = v
      BY DEF LockInv
  <2>1. \A x \in Thread \ {t} : Holds(x, g)' <=> Holds(x, g)
    BY <1>1 DEF Holds
  <2> QED BY <2>1 DEF Inv, LockInv, GroupFree
<1> QED BY <1>2, <1>3, <1>4 DEF Inv

(* A callback changes neither operations nor locks. *)
LEMMA CallbackChanges ==
    ASSUME Inv, UNCHANGED op,
           members' \in [Group -> SUBSET Con],
           attr' \in [Con -> Group \cup {"unset", "reset"}],
           reading' \in [Con -> {"request", "message", "none"}],
           cb' \in [Worker -> CallbackType]
    PROVE  Inv'
BY DEF Inv, TypeOK, OperationInv, LockInv, Holds

(* The operations of the hub. *)
LEMMA StartInv ==
    ASSUME Inv, NEW t \in Thread, StartOperation(t)
    PROVE  Inv'
<1>0. TypeOK /\ OperationInv
  BY DEF Inv
<1>1. ASSUME NEW g \in Group, NEW c \in Con, MoveStart(t, c, g) PROVE Inv'
  <2> DEFINE o == [NoOperation EXCEPT
                      !.name = "move", !.con = c, !.group = attr[c], !.to = g,
                      !.step = IF attr[c] \in Group THEN "erase" ELSE "assign"]
  <2>1. op' = [op EXCEPT ![t] = o] /\ UNCHANGED <<members, attr, reading, cb>>
    BY <1>1 DEF MoveStart, convars
  <2>2. o \in OperationType /\ Moving(o) /\ op'[t] = o
    BY <1>0, <2>1 DEF TypeOK, OperationType, NoOperation, Operation, Moving, GroupOrNone
  <2>3. \A h \in Group : ~Holds(t, h)'
    BY <2>2 DEF Holds, Moving
  <2> HIDE DEF o
  <2> QED BY <1>0, <2>1, <2>2, <2>3, OperationChanges DEF TypeOK
<1>2. ASSUME NEW o \in OperationType, Visiting(o), o.step = "lock",
             op' = [op EXCEPT ![t] = o],
             UNCHANGED <<members, attr, convars, cb>>
      PROVE  Inv'
  <2>1. \A h \in Group : ~Holds(t, h)'
    BY <1>0, <1>2 DEF Holds, TypeOK
  <2> QED BY <1>0, <1>2, <2>1, OperationChanges DEF TypeOK, convars
<1>3. ASSUME NEW g \in Group, BroadcastStart(t, g) \/ CloseGroupStart(t, g) PROVE Inv'
  <2>1. PICK name \in {"broadcast", "close_group"} :
           /\ Start(t, name, "lock", g)
           /\ UNCHANGED <<members, attr, convars, cb>>
    BY <1>3 DEF BroadcastStart, CloseGroupStart
  <2> DEFINE o == [NoOperation EXCEPT !.name = name, !.step = "lock", !.group = g]
  <2>2. o \in OperationType /\ Visiting(o) /\ o.step = "lock"
    BY DEF OperationType, NoOperation, Operation, Visiting, GroupOrNone
  <2>3. op' = [op EXCEPT ![t] = o]
    BY <2>1 DEF Start
  <2> HIDE DEF o
  <2> QED BY <1>2, <2>1, <2>2, <2>3
<1>4. ASSUME NEW g \in Group, CloseAllStart(t, g) PROVE Inv'
  <2> DEFINE o == [NoOperation EXCEPT !.name = "close_all", !.step = "lock",
                                      !.group = g, !.left = Group \ {g}]
  <2>1. o \in OperationType /\ Visiting(o) /\ o.step = "lock"
    BY DEF OperationType, NoOperation, Operation, Visiting, GroupOrNone
  <2>2. op' = [op EXCEPT ![t] = o] /\ UNCHANGED <<members, attr, convars, cb>>
    BY <1>4 DEF CloseAllStart
  <2> HIDE DEF o
  <2> QED BY <1>2, <2>1, <2>2
<1> QED BY <1>1, <1>3, <1>4 DEF StartOperation

LEMMA MoveStepInv ==
    ASSUME Inv, NEW t \in Thread, MoveErase(t) \/ MoveAssign(t) \/ MoveInsert(t)
    PROVE  Inv'
<1>1. /\ TypeOK /\ op[t] \in OperationType
      /\ Moving(op[t])
  BY DEF Inv, TypeOK, OperationInv, NoOperation, Visiting, MoveErase, MoveAssign, MoveInsert
<1>2. ASSUME NEW s \in {"assign", "insert"}, op' = [op EXCEPT ![t].step = s],
             members' \in [Group -> SUBSET Con],
             attr' \in [Con -> Group \cup {"unset", "reset"}],
             UNCHANGED <<reading, cb>>
      PROVE  Inv'
  <2> DEFINE o == [op[t] EXCEPT !.step = s]
  <2>1. o \in OperationType /\ Moving(o)
    BY <1>1 DEF OperationType, Moving
  <2>2. op' = [op EXCEPT ![t] = o] /\ op'[t] = o
    BY <1>1, <1>2 DEF TypeOK
  <2>3. \A h \in Group : ~Holds(t, h)'
    BY <2>1, <2>2 DEF Holds, Moving
  <2> HIDE DEF o
  <2> QED BY <1>2, <2>1, <2>2, <2>3, OperationChanges
<1>3. CASE MoveErase(t)
  <2>1. members' \in [Group -> SUBSET Con]
    BY <1>1, <1>3 DEF MoveErase, EraseFrom, TypeOK
  <2> QED BY <1>1, <1>2, <1>3, <2>1 DEF MoveErase, convars, TypeOK
<1>4. CASE MoveAssign(t)
  <2>1. attr' \in [Con -> Group \cup {"unset", "reset"}]
    BY <1>1, <1>4 DEF MoveAssign, PointTo, TypeOK, Moving
  <2> QED BY <1>1, <1>2, <1>4, <2>1 DEF MoveAssign, convars, TypeOK
<1>5. CASE MoveInsert(t)
  <2>1. NoOperation \in OperationType /\ op'[t] = NoOperation
    BY <1>1, <1>5 DEF MoveInsert, TypeOK, NoOperation, OperationType, GroupOrNone
  <2>2. members' \in [Group -> SUBSET Con]
    BY <1>1, <1>5 DEF MoveInsert, InsertInto, TypeOK, Moving
  <2>3. \A h \in Group : ~Holds(t, h)'
    BY <2>1 DEF Holds, NoOperation
  <2> QED BY <1>1, <1>5, <2>1, <2>2, <2>3, OperationChanges DEF MoveInsert, convars, TypeOK
<1> QED BY <1>3, <1>4, <1>5

(* The operations on a group: taking its lock needs it free. *)
LEMMA VisitStepInv ==
    ASSUME Inv, NEW t \in Thread,
           LockGroup(t) \/ EachCon(t) \/ PushTo(t) \/ OperationEnds(t) \/ CloseAllEnds(t)
    PROVE  Inv'
<1>1. /\ TypeOK /\ op[t] \in OperationType
      /\ Visiting(op[t])
  <2>1. op[t].step \in {"lock", "each", "push"}
    BY DEF LockGroup, EachCon, PushTo, OperationEnds, CloseAllEnds, EachEnds
  <2>2. op[t] # NoOperation /\ ~Moving(op[t])
    BY <2>1 DEF NoOperation, Moving
  <2> QED BY <2>2 DEF Inv, TypeOK, OperationInv
<1>2. ASSUME NEW o \in OperationType, Visiting(o), op' = [op EXCEPT ![t] = o],
             o.group = op[t].group, o.name = op[t].name,
             op[t].step = "lock" => GroupFree(o.group),
             UNCHANGED <<members, attr, reading, cb>>
      PROVE  Inv'
  <2>1. op'[t] = o
    BY <1>1, <1>2 DEF TypeOK
  <2>2. \A h \in Group : Holds(t, h)' => Holds(t, h) \/ GroupFree(h)
    BY <1>1, <1>2, <2>1 DEF Holds, Visiting
  <2> QED BY <1>1, <1>2, <2>2, OperationChanges DEF TypeOK
<1>3. CASE LockGroup(t)
  <2> DEFINE o == [op[t] EXCEPT !.step = "each", !.todo = members[op[t].group]]
  <2>1. o \in OperationType /\ Visiting(o) /\ o.group = op[t].group /\ o.name = op[t].name
    BY <1>1 DEF OperationType, Visiting, TypeOK
  <2>2. op' = [op EXCEPT ![t] = o] /\ GroupFree(o.group)
    BY <1>1, <1>3, <2>1 DEF LockGroup, TypeOK
  <2> HIDE DEF o
  <2> QED BY <1>2, <1>3, <2>1, <2>2 DEF LockGroup, convars
<1>4. CASE EachCon(t)
  <2>1. PICK c \in op[t].todo :
          op' = IF done[c]
                THEN [op EXCEPT ![t].todo = @ \ {c}]
                ELSE [op EXCEPT ![t].todo = @ \ {c}, ![t].con = c, ![t].step = "push"]
    BY <1>4 DEF EachCon
  <2> DEFINE o == IF done[c]
                  THEN [op[t] EXCEPT !.todo = @ \ {c}]
                  ELSE [op[t] EXCEPT !.todo = @ \ {c}, !.con = c, !.step = "push"]
  <2>2. o \in OperationType /\ Visiting(o) /\ o.group = op[t].group /\ o.name = op[t].name
    <3>1. c \in Con BY <1>1 DEF OperationType
    <3> QED BY <1>1, <3>1 DEF OperationType, Visiting
  <2>3. op' = [op EXCEPT ![t] = o] /\ op[t].step # "lock"
    BY <1>1, <1>4, <2>1 DEF EachCon, TypeOK
  <2> HIDE DEF o
  <2> QED BY <1>2, <1>4, <2>2, <2>3 DEF EachCon, convars
<1>5. CASE PushTo(t)
  <2> DEFINE o == [op[t] EXCEPT !.step = "each", !.con = "none"]
  <2>1. o \in OperationType /\ Visiting(o) /\ o.group = op[t].group /\ o.name = op[t].name
    BY <1>1 DEF OperationType, Visiting
  <2>2. op' = [op EXCEPT ![t] = o] /\ op[t].step # "lock"
    BY <1>1, <1>5 DEF PushTo, TypeOK
  <2>3. UNCHANGED <<members, attr, reading, cb>>
    BY <1>5 DEF PushTo, convars
  <2> HIDE DEF o
  <2> QED BY <1>2, <2>1, <2>2, <2>3
<1>6. ASSUME op' = [op EXCEPT ![t] = NoOperation], members' \in [Group -> SUBSET Con],
             UNCHANGED <<attr, convars, cb>>
      PROVE  Inv'
  <2>1. NoOperation \in OperationType /\ op'[t] = NoOperation
    BY <1>1, <1>6 DEF TypeOK, NoOperation, OperationType, GroupOrNone
  <2>2. \A h \in Group : ~Holds(t, h)'
    BY <2>1 DEF Holds, NoOperation
  <2> QED BY <1>1, <1>6, <2>1, <2>2, OperationChanges DEF TypeOK, convars
<1>7. CASE OperationEnds(t)
  BY <1>1, <1>6, <1>7 DEF OperationEnds, TypeOK
<1>8. CASE CloseAllEnds(t)
  <2>1. members' \in [Group -> SUBSET Con]
    BY <1>1, <1>8 DEF CloseAllEnds, TypeOK
  <2>2. CASE op' = [op EXCEPT ![t] = NoOperation]
    BY <1>6, <1>8, <2>1, <2>2 DEF CloseAllEnds
  <2>3. ASSUME NEW g \in op[t].left,
               op' = [op EXCEPT ![t].group = g, ![t].left = @ \ {g}, ![t].step = "lock"]
        PROVE  Inv'
    <3> DEFINE o == [op[t] EXCEPT !.group = g, !.left = @ \ {g}, !.step = "lock"]
    <3>1. g \in Group BY <1>1 DEF OperationType
    <3>2. o \in OperationType /\ Visiting(o) /\ o.step = "lock"
      BY <1>1, <3>1 DEF OperationType, Visiting, GroupOrNone
    <3>3. op' = [op EXCEPT ![t] = o] /\ op'[t] = o
      BY <1>1, <2>3 DEF TypeOK
    <3>4. \A h \in Group : ~Holds(t, h)'
      BY <3>2, <3>3 DEF Holds
    <3> HIDE DEF o
    <3> QED BY <1>1, <1>8, <2>1, <3>2, <3>3, <3>4, OperationChanges DEF CloseAllEnds, convars, TypeOK
  <2> QED BY <1>8, <2>2, <2>3 DEF CloseAllEnds
<1> QED BY <1>3, <1>4, <1>5, <1>7, <1>8

(* The callbacks. *)
LEMMA DeliverInv ==
    ASSUME Inv, NEW c \in Con, Deliver(c) \/ WriteClose(c)
    PROVE  Inv'
<1>1. TypeOK
  BY DEF Inv
<1>2. attr' \in [Con -> Group \cup {"unset", "reset"}]
  BY <1>1, ConstantsOK DEF TypeOK, Deliver, OnConnect, OnMessage, ReadFails, ReadClose,
     WriteClose, PointTo
<1>3. reading' \in [Con -> {"request", "message", "none"}]
  BY <1>1 DEF TypeOK, Deliver, OnConnect, OnMessage, ReadFails, ReadClose, WriteClose
<1>4. ASSUME NEW k \in {"connect", "message", "read", "write"},
             NEW s \in {"insert", "handler"}, NEW g \in GroupOrNone, Begin(k, s, c, g)
      PROVE  cb' \in [Worker -> CallbackType]
  <2>1. Callback(k, s, c, g) \in CallbackType
    BY DEF Callback, CallbackType
  <2> QED BY <1>1, <1>4, <2>1 DEF TypeOK, Begin
<1>5. attr[c] \in GroupOrNone /\ Default \in GroupOrNone
  BY <1>1, ConstantsOK DEF TypeOK, GroupOrNone
<1>6. cb' \in [Worker -> CallbackType]
  BY <1>1, <1>4, <1>5 DEF Deliver, OnConnect, OnMessage, ReadFails, ReadClose, WriteClose, TypeOK
<1>7. UNCHANGED <<members, op>>
  BY DEF Deliver, OnConnect, OnMessage, ReadFails, ReadClose, WriteClose
<1> QED BY <1>1, <1>2, <1>3, <1>6, <1>7, CallbackChanges DEF TypeOK

LEMMA CallbackStepInv ==
    ASSUME Inv, NEW w \in Worker, CallbackStep(w)
    PROVE  Inv'
<1>1. TypeOK
  BY DEF Inv
<1>2. cb[w] \in CallbackType \ {NoCallback}
  <2>1. cb[w].step \in {"insert", "handler", "reset"}
    BY DEF CallbackStep, ConnectInsert, ConnectReturns, MessageReturns, DisconnectErase,
       DisconnectReset, DisconnectDefault, HandlerDone
  <2>2. cb[w] # NoCallback
    BY <2>1 DEF NoCallback
  <2> QED BY <1>1, <2>2 DEF TypeOK
<1>3. cb[w].con \in Con
  BY <1>2 DEF CallbackType
<1>4. CASE ConnectInsert(w)
  <2>1. members' \in [Group -> SUBSET Con]
    BY <1>1, <1>3, <1>4, ConstantsOK DEF TypeOK, ConnectInsert, InsertInto
  <2>2. cb' \in [Worker -> CallbackType]
    BY <1>1, <1>2, <1>4 DEF TypeOK, ConnectInsert, Step, CallbackType
  <2> QED BY <1>1, <1>4, <2>1, <2>2, CallbackChanges DEF ConnectInsert, convars, TypeOK
<1>5. ASSUME cb' = [cb EXCEPT ![w] = NoCallback], UNCHANGED <<members, op>>,
             attr' \in [Con -> Group \cup {"unset", "reset"}],
             reading' \in [Con -> {"request", "message", "none"}]
      PROVE  Inv'
  <2>1. cb' \in [Worker -> CallbackType]
    BY <1>1, <1>5 DEF TypeOK, CallbackType
  <2> QED BY <1>1, <1>5, <2>1, CallbackChanges DEF TypeOK
<1>6. CASE ConnectReturns(w)
  BY <1>1, <1>5, <1>6 DEF ConnectReturns, convars, TypeOK
<1>7. CASE MessageReturns(w)
  <2>1. reading' \in [Con -> {"request", "message", "none"}]
    BY <1>1, <1>3, <1>7 DEF MessageReturns, TypeOK
  <2> QED BY <1>1, <1>5, <1>7, <2>1 DEF MessageReturns, TypeOK
<1>8. CASE DisconnectErase(w)
  <2>1. members' \in [Group -> SUBSET Con]
    BY <1>1, <1>3, <1>8 DEF TypeOK, DisconnectErase, EraseFrom
  <2>2. cb' \in [Worker -> CallbackType]
    BY <1>1, <1>2, <1>8 DEF TypeOK, DisconnectErase, Step, CallbackType
  <2> QED BY <1>1, <1>8, <2>1, <2>2, CallbackChanges DEF DisconnectErase, convars, TypeOK
<1>9. CASE DisconnectReset(w)
  <2>1. attr' \in [Con -> Group \cup {"unset", "reset"}]
    BY <1>1, <1>3, <1>9 DEF DisconnectReset, PointTo, TypeOK
  <2> QED BY <1>1, <1>5, <1>9, <2>1 DEF DisconnectReset, Finish, TypeOK
<1>10. CASE DisconnectDefault(w)
  BY <1>1, <1>5, <1>10 DEF DisconnectDefault, Finish, TypeOK
<1> QED BY <1>4, <1>6, <1>7, <1>8, <1>9, <1>10 DEF CallbackStep

LEMMA NextInv == Inv /\ [Next]_vars => Inv'
<1> SUFFICES ASSUME Inv, [Next]_vars PROVE Inv'
    OBVIOUS
<1>1. CASE UNCHANGED vars
  <2>1. UNCHANGED <<members, attr, reading, cb, op>> /\ TypeOK
    BY <1>1 DEF vars, convars, Inv
  <2> QED BY <2>1, CallbackChanges DEF TypeOK
<1>2. CASE Next
  BY <1>2, DeliverInv, CallbackStepInv, StartInv, MoveStepInv, VisitStepInv DEF Next, OperationStep
<1> QED BY <1>1, <1>2

THEOREM Invariance == Spec => []Inv
BY InitInv, NextInv, PTL DEF Spec

(* broadcast and close_all go through a set that nobody changes: every     *)
(* step that changes one needs its lock free, or holds it and gives it     *)
(* back.                                                                   *)
THEOREM StableWhileIterated == Spec => GroupStableWhileIterated
<1>1. ASSUME Inv, [Next]_vars, NEW t \in Thread, NEW g \in Group,
             Holds(t, g), Holds(t, g)'
      PROVE  members'[g] = members[g]
  <2>1. TypeOK /\ ~GroupFree(g) /\ ConstantsOK
    BY <1>1, ConstantsOK DEF Inv, GroupFree
  <2>2. ASSUME NEW c, NEW h, GroupFree(h), InsertInto(c, h) \/ EraseFrom(c, h)
        PROVE  members'[g] = members[g]
    BY <2>1, <2>2 DEF InsertInto, EraseFrom, TypeOK
  <2>3. ASSUME NEW c \in Con, Deliver(c) \/ WriteClose(c) PROVE UNCHANGED members
    BY <2>3 DEF Deliver, OnConnect, OnMessage, ReadFails, ReadClose, WriteClose
  <2>4. ASSUME NEW w \in Worker, CallbackStep(w) PROVE members'[g] = members[g]
    BY <2>2, <2>4 DEF CallbackStep, ConnectInsert, ConnectReturns, MessageReturns,
       DisconnectErase, DisconnectReset, DisconnectDefault
  <2>5. ASSUME NEW u \in Thread, StartOperation(u) PROVE UNCHANGED members
    BY <2>5 DEF StartOperation, MoveStart, BroadcastStart, CloseGroupStart, CloseAllStart
  <2>6. ASSUME NEW u \in Thread, MoveErase(u) \/ MoveAssign(u) \/ MoveInsert(u)
        PROVE  members'[g] = members[g]
    BY <2>2, <2>6 DEF MoveErase, MoveAssign, MoveInsert
  <2>7. ASSUME NEW u \in Thread, LockGroup(u) \/ EachCon(u) \/ PushTo(u) \/ OperationEnds(u)
        PROVE  UNCHANGED members
    BY <2>7 DEF LockGroup, EachCon, PushTo, OperationEnds
  <2>8. ASSUME NEW u \in Thread, CloseAllEnds(u) PROVE members'[g] = members[g]
    <3>1. ~(op[u].group = g)
      <4>1. SUFFICES ASSUME op[u].group = g PROVE FALSE
        OBVIOUS
      <4>2. Holds(u, g)
        BY <2>8, <4>1 DEF CloseAllEnds, EachEnds, Holds
      <4>3. u = t
        BY <1>1, <4>2 DEF Inv, LockInv
      <4>4. op'[t].step \in {"none", "lock"}
        <5>1. op \in [Thread -> OperationType] /\ op[t] \in OperationType
          BY <2>1 DEF TypeOK
        <5>2. CASE op' = [op EXCEPT ![t] = NoOperation]
          BY <5>1, <5>2 DEF NoOperation
        <5>3. ASSUME NEW h, op' = [op EXCEPT ![t].group = h, ![t].left = @ \ {h},
                                             ![t].step = "lock"]
              PROVE  op'[t].step = "lock"
          BY <5>1, <5>3 DEF OperationType
        <5> QED BY <2>8, <4>3, <5>2, <5>3 DEF CloseAllEnds
      <4> QED BY <1>1, <4>4 DEF Holds
    <3> QED BY <2>1, <2>8, <3>1 DEF CloseAllEnds, TypeOK
  <2>9. CASE UNCHANGED vars
    BY <2>9 DEF vars
  <2> QED BY <1>1, <2>3, <2>4, <2>5, <2>6, <2>7, <2>8, <2>9 DEF Next, OperationStep
<1>2. Inv /\ [Next]_vars =>
        [\A t \in Thread, g \in Group :
            Holds(t, g) /\ Holds(t, g)' => members'[g] = members[g]]_vars
  BY <1>1
<1> QED BY Invariance, <1>2, PTL DEF Spec, GroupStableWhileIterated

-----------------------------------------------------------------------------
(* Connections moved by their own handlers.                                *)

LEMMA InitOwn == Init => Own
BY ConstantsOK DEF Init, Own, CallbackInv, MoveInv, MemberInv, RequestInv, NoOperation, Thread

(* A worker changes what belongs to the connection it is in a callback of; *)
(* what concerns the others stays true of them.                            *)
LEMMA LocalStep ==
    ASSUME Inv, Own, NEW w \in Worker, NEW c \in Con, WorkerOf[c] = w,
           cb[w] = NoCallback \/ cb[w].con = c,
           cb'[w] = NoCallback \/ cb'[w].con = c,
           \A v \in Worker \ {w} : cb'[v] = cb[v],
           \A t \in Thread \ {w} : op'[t] = op[t],
           \A d \in Con \ {c} : attr'[d] = attr[d] /\ reading'[d] = reading[d],
           \A d \in Con \ {c}, g \in Group : d \in members'[g] => d \in members[g],
           cb'[w] # NoCallback => InCallback(cb[w])',
           op'[w].name = "move" => OwnMove(w)',
           \A g \in Group : c \in members'[g] => attr'[c] = g /\ ~Between(c)',
           reading'[c] = "request" => attr'[c] = "unset"
    PROVE  Own'
<1>1. \A v \in Worker \ {w} : cb[v] # NoCallback => cb[v].con \in Con \ {c}
  BY DEF Own, CallbackInv, InCallback
<1>2. CallbackInv'
  <2> SUFFICES ASSUME NEW v \in Worker, cb'[v] # NoCallback
               PROVE  InCallback(cb[v])' /\ WorkerOf[cb'[v].con] = v
      BY DEF CallbackInv
  <2>1. CASE v = w
    BY <2>1
  <2>2. CASE v # w
    BY <1>1, <2>2 DEF Own, CallbackInv, InCallback
  <2> QED BY <2>1, <2>2
<1>3. MoveInv'
  <2> SUFFICES ASSUME NEW t \in Thread, op'[t].name = "move" PROVE OwnMove(t)'
      BY DEF MoveInv
  <2>1. CASE t = w
    BY <2>1
  <2>2. CASE t # w
    <3>1. OwnMove(t) /\ op'[t] = op[t]
      BY <2>2 DEF Own, MoveInv
    <3>2. cb'[t] = cb[t] /\ cb[t] # NoCallback
      BY <2>2, <3>1 DEF OwnMove, NoCallback
    <3>3. attr'[op[t].con] = attr[op[t].con]
      BY <1>1, <2>2, <3>1, <3>2 DEF OwnMove
    <3> QED BY <3>1, <3>2, <3>3 DEF OwnMove
  <2> QED BY <2>1, <2>2
<1>4. MemberInv'
  <2> SUFFICES ASSUME NEW d \in Con, NEW g \in Group, d \in members'[g]
               PROVE  attr'[d] = g /\ ~Between(d)'
      BY DEF MemberInv
  <2>1. CASE d = c
    BY <2>1
  <2>2. CASE d # c
    <3>1. attr'[d] = g /\ ~Between(d) /\ WorkerOf[d] \in Worker
      BY <2>2, ConstantsOK DEF Own, MemberInv
    <3>2. CASE WorkerOf[d] = w
      BY <2>2, <3>1, <3>2, ConstantsOK DEF Between, NoCallback
    <3>3. CASE WorkerOf[d] # w
      BY <2>2, <3>1, <3>3 DEF Between, Thread
    <3> QED BY <3>1, <3>2, <3>3
  <2> QED BY <2>1, <2>2
<1>5. RequestInv'
  BY DEF Own, RequestInv
<1> QED BY <1>2, <1>3, <1>4, <1>5 DEF Own

(* Operations on groups take nobody into one. *)
LEMMA VisitOwn ==
    ASSUME Own, NEW t \in Thread, op[t].name # "move", op'[t].name # "move",
           \A u \in Thread \ {t} : op'[u] = op[u],
           \A g \in Group : members'[g] \subseteq members[g],
           UNCHANGED <<attr, reading, cb>>
    PROVE  Own'
<1>1. CallbackInv' /\ RequestInv'
  BY DEF Own, CallbackInv, InCallback, RequestInv
<1>2. MoveInv'
  BY DEF Own, MoveInv, OwnMove
<1>3. \A c \in Con : Between(c)' <=> Between(c)
  BY ConstantsOK DEF Between, Thread
<1> QED BY <1>1, <1>2, <1>3 DEF Own, MemberInv

(* A callback begins: the worker moves nothing. *)
LEMMA DeliverOwn ==
    ASSUME Inv, Own, NEW c \in Con, Deliver(c) \/ WriteClose(c)
    PROVE  Own'
<1> DEFINE w == WorkerOf[c]
<1>1. /\ w \in Worker /\ cb[w] = NoCallback /\ TypeOK
      /\ UNCHANGED <<members, op>>
  BY ConstantsOK DEF Deliver, OnConnect, OnMessage, ReadFails, ReadClose, WriteClose, Idle, Inv
<1>2. op[w].name # "move"
  BY <1>1 DEF Own, MoveInv, OwnMove, NoCallback, Thread
<1>3. \A g \in Group : c \in members[g] => attr[c] = g
  BY DEF Own, MemberInv
<1>4. ASSUME NEW k, NEW s, NEW g, Begin(k, s, c, g)
      PROVE  /\ cb'[w] = Callback(k, s, c, g)
             /\ \A v \in Worker \ {w} : cb'[v] = cb[v]
  BY <1>1, <1>4 DEF TypeOK, Begin
<1>5. CASE OnConnect(c)
  <2>1. /\ cb'[w] = Callback("connect", "insert", c, Default)
        /\ \A v \in Worker \ {w} : cb'[v] = cb[v]
    BY <1>4, <1>5 DEF OnConnect
  <2>2. /\ attr'[c] = Default /\ reading'[c] = "message"
        /\ \A d \in Con \ {c} : attr'[d] = attr[d] /\ reading'[d] = reading[d]
    BY <1>1, <1>5 DEF OnConnect, PointTo, TypeOK
  <2>3. InCallback(cb[w])'
    BY <2>1, <2>2 DEF InCallback, Callback
  <2>4. \A g \in Group : c \notin members[g]
    BY <1>3, <1>5, ConstantsOK DEF Own, RequestInv, OnConnect
  <2>5. cb'[w].con = c BY <2>1 DEF Callback
  <2> HIDE DEF w
  <2> QED BY <1>1, <1>2, <2>1, <2>2, <2>3, <2>4, <2>5, LocalStep DEF w
<1>6. ASSUME UNCHANGED attr, UNCHANGED cb,
             reading' = [reading EXCEPT ![c] = "none"]
      PROVE  Own'
  <2>1. reading'[c] = "none" /\ \A d \in Con \ {c} : reading'[d] = reading[d]
    BY <1>1, <1>6 DEF TypeOK
  <2>2. ~Between(c)'
    BY <1>1, <1>6, ConstantsOK DEF Between, NoCallback
  <2> HIDE DEF w
  <2> QED BY <1>1, <1>2, <1>3, <1>6, <2>1, <2>2, LocalStep DEF w
<1>7. ASSUME UNCHANGED attr, NEW k \in {"message", "read", "write"},
             Begin(k, "handler", c, attr[c]),
             \/ reading' = [reading EXCEPT ![c] = "none"]
             \/ k = "write" /\ UNCHANGED reading
      PROVE  Own'
  <2>1. /\ cb'[w] = Callback(k, "handler", c, attr[c])
        /\ \A v \in Worker \ {w} : cb'[v] = cb[v]
    BY <1>4, <1>7
  <2>2. /\ reading'[c] = "none" \/ (k = "write" /\ reading'[c] = reading[c])
        /\ \A d \in Con \ {c} : reading'[d] = reading[d]
    BY <1>1, <1>7 DEF TypeOK
  <2>3. InCallback(cb[w])'
    BY <1>7, <2>1, <2>2 DEF InCallback, Callback
  <2>4. cb'[w].con = c /\ ~Between(c)'
    BY <1>1, <1>2, <2>1 DEF Between, Callback
  <2>5. reading'[c] = "request" => attr'[c] = "unset"
    BY <1>7, <2>2 DEF Own, RequestInv
  <2> HIDE DEF w
  <2> QED BY <1>1, <1>2, <1>3, <1>7, <2>1, <2>2, <2>3, <2>4, <2>5, LocalStep DEF w
<1>8. CASE OnMessage(c)
  BY <1>6, <1>7, <1>8 DEF OnMessage
<1>9. CASE ReadFails(c)
  BY <1>6, <1>9 DEF ReadFails
<1>10. CASE ReadClose(c)
  BY <1>7, <1>10 DEF ReadClose
<1>11. CASE WriteClose(c)
  BY <1>7, <1>11 DEF WriteClose
<1> QED BY <1>5, <1>8, <1>9, <1>10, <1>11 DEF Deliver

(* A callback goes on or ends. *)
LEMMA CallbackStepOwn ==
    ASSUME Inv, Own, NEW w \in Worker, CallbackStep(w)
    PROVE  Own'
<1>1. cb[w].step \in {"insert", "handler", "reset"} /\ cb[w] # NoCallback
  <2>1. cb[w].step \in {"insert", "handler", "reset"}
    BY DEF CallbackStep, ConnectInsert, ConnectReturns, MessageReturns, DisconnectErase,
       DisconnectReset, DisconnectDefault, HandlerDone
  <2> QED BY <2>1 DEF NoCallback
<1>2. PICK c \in Con : /\ TypeOK /\ c = cb[w].con /\ WorkerOf[c] = w /\ InCallback(cb[w])
  BY <1>1 DEF Inv, Own, CallbackInv, InCallback
<1>3. op[w].name # "move" /\ UNCHANGED op
  BY DEF Own, MoveInv, OwnMove, CallbackStep, ConnectInsert, ConnectReturns, MessageReturns,
     DisconnectErase, DisconnectReset, DisconnectDefault, HandlerDone, Thread
<1>4. \A g \in Group : c \in members[g] => attr[c] = g /\ ~Between(c)
  BY <1>2 DEF Own, MemberInv
<1>5. ASSUME NEW s \in {"handler", "reset"}, Step(w, s)
      PROVE  /\ cb'[w] = [cb[w] EXCEPT !.step = s] /\ cb'[w].con = c /\ cb'[w].step = s
             /\ cb'[w].kind = cb[w].kind /\ cb'[w].group = cb[w].group
             /\ \A v \in Worker \ {w} : cb'[v] = cb[v]
  BY <1>1, <1>2, <1>5 DEF TypeOK, Step, CallbackType
<1>6. CASE ConnectInsert(w)
  <2>1. /\ cb'[w].con = c /\ cb'[w].step = "handler"
        /\ cb'[w].kind = cb[w].kind /\ cb'[w].group = cb[w].group
        /\ \A v \in Worker \ {w} : cb'[v] = cb[v]
    BY <1>5, <1>6 DEF ConnectInsert
  <2>2. UNCHANGED <<attr, reading>>
    BY <1>6 DEF ConnectInsert, convars
  <2>3. InCallback(cb[w])'
    BY <1>2, <1>6, <2>1, <2>2 DEF InCallback, ConnectInsert
  <2>4. attr[c] = Default /\ Between(c)
    BY <1>2, <1>6 DEF InCallback, ConnectInsert, Between
  <2>5. \A g \in Group : c \in members'[g] => g = Default
    BY <1>2, <1>4, <1>6, <2>4 DEF ConnectInsert, InsertInto, TypeOK
  <2>6. \A d \in Con \ {c}, g \in Group : d \in members'[g] => d \in members[g]
    BY <1>2, <1>6 DEF ConnectInsert, InsertInto, TypeOK
  <2>7. ~Between(c)'
    BY <1>2, <1>3, <2>1 DEF Between
  <2>8. reading'[c] = "request" => attr'[c] = "unset"
    BY <1>2, <2>2 DEF Own, RequestInv
  <2> QED BY <1>2, <1>3, <2>1, <2>2, <2>3, <2>4, <2>5, <2>6, <2>7, <2>8, LocalStep
<1>7. ASSUME cb' = [cb EXCEPT ![w] = NoCallback], UNCHANGED members,
             \/ UNCHANGED attr
             \/ attr' = [attr EXCEPT ![c] = "reset"] /\ Between(c) /\ cb[w].step = "reset",
             UNCHANGED reading \/ reading' = [reading EXCEPT ![c] = "message"]
      PROVE  Own'
  <2>1. cb'[w] = NoCallback /\ \A v \in Worker \ {w} : cb'[v] = cb[v]
    BY <1>2, <1>7 DEF TypeOK
  <2>2. ~Between(c)'
    BY <1>2, <2>1, ConstantsOK DEF Between, NoCallback
  <2>3. \A d \in Con \ {c} : attr'[d] = attr[d] /\ reading'[d] = reading[d]
    BY <1>2, <1>7 DEF TypeOK
  <2>4. \A g \in Group : c \in members'[g] => attr'[c] = g
    BY <1>4, <1>7
  <2>5. reading'[c] = "request" => attr'[c] = "unset"
    <3>1. reading[c] = "request" => attr[c] = "unset"
      BY <1>2 DEF Own, RequestInv
    <3>2. cb[w].step = "reset" => attr[c] # "unset"
      BY <1>2, ConstantsOK DEF InCallback
    <3> QED BY <1>2, <1>7, <3>1, <3>2 DEF TypeOK
  <2> QED BY <1>2, <1>3, <1>7, <2>1, <2>2, <2>3, <2>4, <2>5, LocalStep
<1>8. CASE ConnectReturns(w)
  BY <1>2, <1>7, <1>8 DEF ConnectReturns, convars
<1>9. CASE MessageReturns(w)
  BY <1>2, <1>7, <1>9 DEF MessageReturns
<1>10. CASE DisconnectDefault(w)
  BY <1>2, <1>7, <1>10 DEF DisconnectDefault, Finish
<1>11. CASE DisconnectReset(w)
  <2>1. Between(c)
    BY <1>2, <1>11 DEF Between, DisconnectReset
  <2> QED BY <1>2, <1>7, <1>11, <2>1 DEF DisconnectReset, Finish, PointTo
<1>12. CASE DisconnectErase(w)
  <2>1. /\ cb'[w].con = c /\ cb'[w].step = "reset"
        /\ cb'[w].kind = cb[w].kind /\ cb'[w].group = cb[w].group
        /\ \A v \in Worker \ {w} : cb'[v] = cb[v]
    BY <1>5, <1>12 DEF DisconnectErase
  <2>2. UNCHANGED <<attr, reading>>
    BY <1>12 DEF DisconnectErase, convars
  <2>3. InCallback(cb[w])'
    BY <1>2, <1>12, <2>1, <2>2 DEF InCallback, DisconnectErase, Disconnecting
  <2>4. attr[c] = cb[w].group
    BY <1>2, <1>12 DEF InCallback, DisconnectErase, Disconnecting
  <2>5. \A g \in Group : c \notin members'[g]
    BY <1>2, <1>4, <1>12, <2>4 DEF DisconnectErase, EraseFrom, TypeOK
  <2>6. \A d \in Con \ {c}, g \in Group : d \in members'[g] => d \in members[g]
    BY <1>2, <1>12 DEF DisconnectErase, EraseFrom, TypeOK
  <2>7. reading'[c] = "request" => attr'[c] = "unset"
    BY <1>2, <2>2 DEF Own, RequestInv
  <2> QED BY <1>2, <1>3, <2>1, <2>2, <2>3, <2>5, <2>6, <2>7, LocalStep
<1> QED BY <1>6, <1>8, <1>9, <1>10, <1>11, <1>12 DEF CallbackStep

(* A handler begins to move its connection. *)
LEMMA MoveStartOwn ==
    ASSUME Inv, Own, OnlyOwnMoves, NEW t \in Thread, NEW c \in Con, NEW g \in Group,
           MoveStart(t, c, g)
    PROVE  Own'
<1>1. t \in Worker /\ cb[t].kind \in {"connect", "message"}
  <2>1. PlaceOf(t) # "app" /\ PlaceOf(t) # "on_disconnect"
    BY DEF MoveStart, MayCall, OnlyOwnMoves
  <2> QED BY <2>1 DEF PlaceOf, Thread
<1>2. cb[t].step = "handler" /\ cb[t].con = c /\ cb[t] # NoCallback
  BY <1>1 DEF MoveStart, MayCall, Knows, NoCallback
<1>3. TypeOK /\ InCallback(cb[t]) /\ WorkerOf[c] = t
  BY <1>1, <1>2 DEF Inv, Own, CallbackInv
<1>4. /\ op'[t].con = c /\ op'[t].to = g /\ op'[t].group = attr[c]
      /\ op'[t].step = IF attr[c] \in Group THEN "erase" ELSE "assign"
      /\ \A u \in Thread \ {t} : op'[u] = op[u]
      /\ UNCHANGED <<members, attr, reading, cb>>
  BY <1>3 DEF MoveStart, TypeOK, NoOperation, convars
<1>5. OwnMove(t)'
  BY <1>1, <1>2, <1>4 DEF OwnMove
<1>6. \A h \in Group : c \in members[h] => attr[c] = h /\ attr[c] \in Group
  BY DEF Own, MemberInv
<1>7. \A h \in Group : c \in members'[h] => attr'[c] = h /\ ~Between(c)'
  BY <1>2, <1>3, <1>4, <1>6 DEF Between
<1>8. InCallback(cb[t])' /\ (reading'[c] = "request" => attr'[c] = "unset")
  BY <1>3, <1>4 DEF InCallback, Own, RequestInv
<1> QED BY <1>1, <1>2, <1>3, <1>4, <1>5, <1>7, <1>8, LocalStep

(* A move goes on. *)
LEMMA MoveStepOwn ==
    ASSUME Inv, Own, NEW t \in Thread, MoveErase(t) \/ MoveAssign(t) \/ MoveInsert(t)
    PROVE  Own'
<1>1. TypeOK /\ Moving(op[t]) /\ OwnMove(t)
  BY DEF Inv, TypeOK, OperationInv, NoOperation, Moving, Visiting, MoveErase, MoveAssign,
     MoveInsert, Own, MoveInv
<1>2. PICK c \in Con :
         /\ c = op[t].con /\ c = cb[t].con /\ cb[t] # NoCallback
         /\ WorkerOf[c] = t /\ t \in Worker /\ InCallback(cb[t])
  BY <1>1 DEF OwnMove, Moving, NoCallback, Own, CallbackInv
<1>3. \A g \in Group : c \in members[g] => attr[c] = g /\ ~Between(c)
  BY <1>2 DEF Own, MemberInv
<1>4. UNCHANGED <<reading, cb>> /\ (reading[c] = "request" => attr[c] = "unset")
  BY <1>2 DEF MoveErase, MoveAssign, MoveInsert, convars, Own, RequestInv
<1>5. cb[t].kind \in {"connect", "message"} /\ cb[t].step = "handler" /\ reading[c] # "request"
  BY <1>1, <1>2 DEF OwnMove, InCallback
<1>6. CASE MoveErase(t)
  <2>1. /\ op'[t].con = c /\ op'[t].step = "assign"
        /\ \A u \in Thread \ {t} : op'[u] = op[u]
    BY <1>1, <1>2, <1>6 DEF MoveErase, TypeOK, OperationType
  <2>2. op[t].group = attr[c] /\ UNCHANGED attr
    BY <1>1, <1>2, <1>6 DEF MoveErase, OwnMove
  <2>3. \A g \in Group : c \notin members'[g]
    BY <1>1, <1>2, <1>3, <1>6, <2>2 DEF MoveErase, EraseFrom, TypeOK
  <2>4. \A d \in Con \ {c}, g \in Group : d \in members'[g] => d \in members[g]
    BY <1>1, <1>2, <1>6 DEF MoveErase, EraseFrom, TypeOK
  <2>5. OwnMove(t)' /\ InCallback(cb[t])'
    BY <1>1, <1>2, <1>4, <1>5, <2>1, <2>2 DEF OwnMove, InCallback
  <2> QED BY <1>2, <1>4, <2>1, <2>2, <2>3, <2>4, <2>5, LocalStep
<1>7. CASE MoveAssign(t)
  <2>1. /\ op'[t].con = c /\ op'[t].step = "insert" /\ op'[t].to = op[t].to
        /\ \A u \in Thread \ {t} : op'[u] = op[u]
    BY <1>1, <1>2, <1>7 DEF MoveAssign, TypeOK, OperationType
  <2>2. attr'[c] = op[t].to /\ \A d \in Con \ {c} : attr'[d] = attr[d]
    BY <1>1, <1>2, <1>7 DEF MoveAssign, PointTo, TypeOK
  <2>3. UNCHANGED members /\ \A g \in Group : c \notin members[g]
    <3>1. Between(c)
      BY <1>1, <1>2, <1>7 DEF Between, MoveAssign, Moving
    <3> QED BY <1>3, <1>7, <3>1 DEF MoveAssign
  <2>4. OwnMove(t)' /\ InCallback(cb[t])'
    BY <1>1, <1>2, <1>4, <1>5, <2>1, <2>2 DEF OwnMove, InCallback
  <2> QED BY <1>2, <1>4, <1>5, <2>1, <2>2, <2>3, <2>4, LocalStep
<1>8. CASE MoveInsert(t)
  <2>1. op'[t].name = "none" /\ \A u \in Thread \ {t} : op'[u] = op[u]
    BY <1>1, <1>8 DEF MoveInsert, TypeOK, NoOperation
  <2>2. op[t].to = attr[c] /\ UNCHANGED attr
    BY <1>1, <1>2, <1>8 DEF MoveInsert, OwnMove
  <2>3. \A g \in Group : c \in members'[g] => attr'[c] = g
    BY <1>1, <1>2, <1>3, <1>8, <2>2 DEF MoveInsert, InsertInto, TypeOK
  <2>4. \A d \in Con \ {c}, g \in Group : d \in members'[g] => d \in members[g]
    BY <1>1, <1>2, <1>8 DEF MoveInsert, InsertInto, TypeOK
  <2>5. InCallback(cb[t])' /\ ~Between(c)'
    BY <1>2, <1>4, <1>5, <2>1, <2>2 DEF Between, InCallback
  <2> QED BY <1>2, <1>4, <2>1, <2>2, <2>3, <2>4, <2>5, LocalStep
<1> QED BY <1>6, <1>7, <1>8

(* An operation on a group keeps its name until it ends. *)
LEMMA VisitNames ==
    ASSUME Inv, NEW t \in Thread,
           LockGroup(t) \/ EachCon(t) \/ PushTo(t) \/ OperationEnds(t) \/ CloseAllEnds(t)
    PROVE  op'[t].name \in {op[t].name, "none"} /\ \A u \in Thread \ {t} : op'[u] = op[u]
<1>0. TypeOK /\ op[t] \in OperationType
  BY DEF Inv, TypeOK
<1>1. \A o : op' = [op EXCEPT ![t] = o] => op'[t] = o /\ \A u \in Thread \ {t} : op'[u] = op[u]
  BY <1>0 DEF TypeOK
<1>2. CASE LockGroup(t)
  BY <1>0, <1>2 DEF LockGroup, TypeOK, OperationType
<1>3. CASE EachCon(t)
  <2>1. PICK c \in op[t].todo :
          op' = IF done[c]
                THEN [op EXCEPT ![t].todo = @ \ {c}]
                ELSE [op EXCEPT ![t].todo = @ \ {c}, ![t].con = c, ![t].step = "push"]
    BY <1>3 DEF EachCon
  <2> QED BY <1>0, <2>1 DEF TypeOK, OperationType
<1>4. CASE PushTo(t)
  BY <1>0, <1>4 DEF PushTo, TypeOK, OperationType
<1>5. CASE OperationEnds(t)
  BY <1>1, <1>5 DEF OperationEnds, NoOperation
<1>6. CASE CloseAllEnds(t)
  <2>1. CASE op' = [op EXCEPT ![t] = NoOperation]
    BY <1>1, <2>1 DEF NoOperation
  <2>2. ASSUME NEW g, op' = [op EXCEPT ![t].group = g, ![t].left = @ \ {g},
                                       ![t].step = "lock"]
        PROVE  op'[t].name = op[t].name /\ \A u \in Thread \ {t} : op'[u] = op[u]
    BY <1>0, <2>2 DEF TypeOK, OperationType
  <2> QED BY <1>6, <2>1, <2>2 DEF CloseAllEnds
<1> QED BY <1>2, <1>3, <1>4, <1>5, <1>6

(* What broadcasts and closes do concerns nobody's group, but that          *)
(* close_all empties it.                                                   *)
LEMMA OperationOwn ==
    ASSUME Inv, Own, OnlyOwnMoves, NEW t \in Thread, StartOperation(t) \/ OperationStep(t)
    PROVE  Own'
<1>1. TypeOK /\ op[t] \in OperationType /\ OperationInv
  BY DEF Inv, TypeOK
<1>2. ASSUME NEW g \in Group,
             BroadcastStart(t, g) \/ CloseGroupStart(t, g) \/ CloseAllStart(t, g)
      PROVE  Own'
  <2>1. op[t].name = "none" /\ op'[t].name # "move" /\ \A u \in Thread \ {t} : op'[u] = op[u]
    BY <1>1, <1>2 DEF BroadcastStart, CloseGroupStart, CloseAllStart, MayClose, MayCall, Start,
       TypeOK, NoOperation
  <2>2. UNCHANGED <<members, attr, reading, cb>>
    BY <1>2 DEF BroadcastStart, CloseGroupStart, CloseAllStart, convars
  <2> QED BY <2>1, <2>2, VisitOwn
<1>3. ASSUME LockGroup(t) \/ EachCon(t) \/ PushTo(t) \/ OperationEnds(t) \/ CloseAllEnds(t)
      PROVE  Own'
  <2>1. op[t].name # "move"
    <3>1. op[t].step \in {"lock", "each", "push"}
      BY <1>3 DEF LockGroup, EachCon, PushTo, OperationEnds, CloseAllEnds, EachEnds
    <3> QED BY <1>1, <3>1 DEF OperationInv, Moving, Visiting, NoOperation
  <2>2. op'[t].name \in {op[t].name, "none"} /\ \A u \in Thread \ {t} : op'[u] = op[u]
    BY <1>3, VisitNames
  <2>3. \A g \in Group : members'[g] \subseteq members[g]
    BY <1>1, <1>3 DEF LockGroup, EachCon, PushTo, OperationEnds, CloseAllEnds, TypeOK
  <2>4. UNCHANGED <<attr, reading, cb>>
    BY <1>3 DEF LockGroup, EachCon, PushTo, OperationEnds, CloseAllEnds, convars
  <2> QED BY <2>1, <2>2, <2>3, <2>4, VisitOwn
<1> QED BY <1>2, <1>3, MoveStartOwn, MoveStepOwn DEF StartOperation, OperationStep

LEMMA NextOwn == OnlyOwnMoves /\ Inv /\ Own /\ [Next]_vars => Own'
<1> SUFFICES ASSUME OnlyOwnMoves, Inv, Own, [Next]_vars PROVE Own'
    OBVIOUS
<1>1. CASE UNCHANGED vars
  BY <1>1 DEF vars, convars, Own, CallbackInv, InCallback, MoveInv, OwnMove, MemberInv, Between,
     RequestInv
<1>2. CASE Next
  BY <1>2, DeliverOwn, CallbackStepOwn, OperationOwn DEF Next
<1> QED BY <1>1, <1>2

LEMMA OwnInvariance == ASSUME OnlyOwnMoves PROVE Spec => []OwnInv
<1>1. Init => OwnInv
  BY InitInv, InitOwn DEF OwnInv
<1>2. OwnInv /\ [Next]_vars => OwnInv'
  BY NextInv, NextOwn DEF OwnInv
<1> QED BY <1>1, <1>2, PTL DEF Spec

(* While only its handlers move a connection, from on_connect and          *)
(* on_message, it is in no group its attribute does not name, whatever     *)
(* moves, disconnects and closes of groups overlap.                        *)
THEOREM NobodyStaysBehind == ASSUME OnlyOwnMoves PROVE Spec => []NoStaleMember
<1>1. OwnInv => NoStaleMember
  BY DEF OwnInv, Own, MemberInv, NoStaleMember
<1> QED BY <1>1, OwnInvariance, PTL

(* ... and so it is in one group at most. *)
OneGroup ==
    \A c \in Con : \A g, h \in Group :
        c \in members[g] /\ c \in members[h] => g = h

COROLLARY InOneGroup == ASSUME OnlyOwnMoves PROVE Spec => []OneGroup
<1>1. NoStaleMember => OneGroup
  BY DEF NoStaleMember, OneGroup
<1> QED BY <1>1, NobodyStaysBehind, PTL

-----------------------------------------------------------------------------
(* Connections moved by their own handlers, and groups never emptied.      *)

LEMMA InitPresent == Init => PresentInv
BY ConstantsOK DEF Init, PresentInv, NoOperation

(* What a worker does to one of its connections takes no other out of a    *)
(* group.                                                                  *)
LEMMA LocalPresent ==
    ASSUME PresentInv, NEW w \in Worker, NEW c \in Con, WorkerOf[c] = w,
           cb[w] = NoCallback \/ cb[w].con = c,
           cb'[w] = NoCallback \/ cb'[w].con = c,
           \A v \in Worker \ {w} : cb'[v] = cb[v],
           \A t \in Thread \ {w} : op'[t] = op[t],
           op'[w].name # "close_all",
           \A d \in Con \ {c} : attr'[d] = attr[d],
           \A d \in Con \ {c}, g \in Group : d \in members[g] => d \in members'[g],
           attr'[c] \in Group /\ ~Between(c)' => c \in members'[attr'[c]]
    PROVE  PresentInv'
<1>1. ASSUME NEW d \in Con \ {c} PROVE Between(d)' <=> Between(d)
  <2>1. WorkerOf[d] \in Worker
    BY ConstantsOK
  <2>2. CASE WorkerOf[d] = w
    BY <2>2, ConstantsOK DEF Between, NoCallback
  <2>3. CASE WorkerOf[d] # w
    BY <2>1, <2>3 DEF Between, Thread
  <2> QED BY <2>2, <2>3
<1> QED BY <1>1 DEF PresentInv

(* Operations on groups take nobody out of one. *)
LEMMA VisitPresent ==
    ASSUME PresentInv, NEW t \in Thread,
           op[t].name # "move", op'[t].name \notin {"move", "close_all"},
           \A u \in Thread \ {t} : op'[u] = op[u],
           UNCHANGED <<members, attr, cb>>
    PROVE  PresentInv'
<1>1. \A c \in Con : Between(c)' <=> Between(c)
  BY ConstantsOK DEF Between, Thread
<1> QED BY <1>1 DEF PresentInv

LEMMA DeliverPresent ==
    ASSUME Inv, Own, PresentInv, NEW c \in Con, Deliver(c) \/ WriteClose(c)
    PROVE  PresentInv'
<1> DEFINE w == WorkerOf[c]
<1>1. /\ w \in Worker /\ cb[w] = NoCallback /\ TypeOK
      /\ UNCHANGED <<members, op>> /\ op[w].name # "close_all"
  BY ConstantsOK DEF Deliver, OnConnect, OnMessage, ReadFails, ReadClose, WriteClose, Idle, Inv,
     PresentInv, Thread
<1>2. attr[c] \in Group => c \in members[attr[c]]
  BY <1>1, ConstantsOK DEF PresentInv, Between, NoCallback
<1>3. ASSUME NEW k, NEW s, NEW g, Begin(k, s, c, g)
      PROVE  /\ cb'[w].con = c /\ cb'[w].step = s
             /\ \A v \in Worker \ {w} : cb'[v] = cb[v]
  BY <1>1, <1>3 DEF TypeOK, Begin, Callback
<1>4. CASE OnConnect(c)
  <2>1. /\ cb'[w].con = c /\ cb'[w].step = "insert"
        /\ \A v \in Worker \ {w} : cb'[v] = cb[v]
    BY <1>3, <1>4 DEF OnConnect
  <2>2. \A d \in Con \ {c} : attr'[d] = attr[d]
    BY <1>1, <1>4 DEF OnConnect, PointTo, TypeOK
  <2>3. Between(c)'
    BY <2>1 DEF Between
  <2> HIDE DEF w
  <2> QED BY <1>1, <2>1, <2>2, <2>3, LocalPresent DEF w
<1>5. CASE UNCHANGED <<cb, attr>>
  <2> HIDE DEF w
  <2> QED BY <1>1, <1>2, <1>5, LocalPresent DEF w
<1>6. ASSUME UNCHANGED attr, NEW k, Begin(k, "handler", c, attr[c])
      PROVE  PresentInv'
  <2>1. cb'[w].con = c /\ \A v \in Worker \ {w} : cb'[v] = cb[v]
    BY <1>3, <1>6
  <2> HIDE DEF w
  <2> QED BY <1>1, <1>2, <1>6, <2>1, LocalPresent DEF w
<1> QED BY <1>4, <1>5, <1>6 DEF Deliver, OnMessage, ReadFails, ReadClose, WriteClose

LEMMA CallbackStepPresent ==
    ASSUME Inv, Own, PresentInv, NEW w \in Worker, CallbackStep(w)
    PROVE  PresentInv'
<1>1. cb[w] # NoCallback
  BY DEF CallbackStep, ConnectInsert, ConnectReturns, MessageReturns, DisconnectErase,
     DisconnectReset, DisconnectDefault, HandlerDone, NoCallback
<1>2. PICK c \in Con : /\ c = cb[w].con /\ WorkerOf[c] = w /\ InCallback(cb[w])
                       /\ TypeOK
  BY <1>1 DEF Own, CallbackInv, InCallback, Inv
<1>3. UNCHANGED op /\ op'[w].name # "close_all"
  BY DEF CallbackStep, ConnectInsert, ConnectReturns, MessageReturns, DisconnectErase,
     DisconnectReset, DisconnectDefault, PresentInv, Thread
<1>4. ASSUME NEW s, Step(w, s)
      PROVE  cb'[w].con = c /\ cb'[w].step = s /\ \A v \in Worker \ {w} : cb'[v] = cb[v]
  <2>1. cb[w] \in CallbackType
    BY <1>2 DEF TypeOK
  <2> QED BY <1>1, <1>2, <1>4, <2>1 DEF Step, TypeOK, CallbackType
<1>5. CASE ConnectInsert(w)
  <2>1. /\ cb'[w].con = c /\ \A v \in Worker \ {w} : cb'[v] = cb[v]
        /\ UNCHANGED attr /\ attr[c] = Default
    BY <1>2, <1>4, <1>5 DEF ConnectInsert, InCallback
  <2>2. /\ c \in members'[Default]
        /\ \A d \in Con, g \in Group : d \in members[g] => d \in members'[g]
    BY <1>2, <1>5, ConstantsOK DEF ConnectInsert, InsertInto, TypeOK
  <2> QED BY <1>2, <1>3, <2>1, <2>2, LocalPresent
<1>6. CASE DisconnectErase(w)
  <2>1. /\ cb'[w].con = c /\ cb'[w].step = "reset"
        /\ \A v \in Worker \ {w} : cb'[v] = cb[v]
    BY <1>4, <1>6 DEF DisconnectErase
  <2>2. UNCHANGED attr
    BY <1>6 DEF DisconnectErase
  <2>3. \A d \in Con \ {c}, g \in Group : d \in members[g] => d \in members'[g]
    BY <1>2, <1>6 DEF DisconnectErase, EraseFrom, TypeOK
  <2>4. Between(c)'
    BY <1>2, <2>1 DEF Between
  <2> QED BY <1>2, <1>3, <2>1, <2>2, <2>3, <2>4, LocalPresent
<1>7. ASSUME cb' = [cb EXCEPT ![w] = NoCallback], UNCHANGED members,
             \A d \in Con \ {c} : attr'[d] = attr[d],
             attr'[c] \in Group => UNCHANGED attr /\ ~Between(c)
      PROVE  PresentInv'
  <2>1. cb'[w] = NoCallback /\ \A v \in Worker \ {w} : cb'[v] = cb[v]
    BY <1>2, <1>7 DEF TypeOK
  <2>2. attr'[c] \in Group => c \in members'[attr'[c]]
    BY <1>7 DEF PresentInv
  <2> QED BY <1>2, <1>3, <1>7, <2>1, <2>2, LocalPresent
<1>8. CASE ConnectReturns(w) \/ MessageReturns(w)
  <2>1. ~Between(c)
    BY <1>2, <1>8 DEF Between, ConnectReturns, MessageReturns, HandlerDone
  <2> QED BY <1>7, <1>8, <2>1 DEF ConnectReturns, MessageReturns
<1>9. CASE DisconnectDefault(w)
  <2>1. attr[c] \notin Group
    BY <1>2, <1>9 DEF DisconnectDefault, InCallback, Disconnecting
  <2> QED BY <1>7, <1>9, <2>1 DEF DisconnectDefault, Finish
<1>10. CASE DisconnectReset(w)
  <2>1. attr'[c] = "reset" /\ \A d \in Con \ {c} : attr'[d] = attr[d]
    BY <1>2, <1>10 DEF DisconnectReset, PointTo, TypeOK
  <2> QED BY <1>7, <1>10, <2>1, ConstantsOK DEF DisconnectReset, Finish
<1> QED BY <1>5, <1>6, <1>8, <1>9, <1>10 DEF CallbackStep

LEMMA OperationPresent ==
    ASSUME Inv, Own, PresentInv, OnlyOwnMoves, NoCloseAll,
           NEW t \in Thread, StartOperation(t) \/ OperationStep(t)
    PROVE  PresentInv'
<1>1. TypeOK /\ op[t] \in OperationType /\ OperationInv
  BY DEF Inv, TypeOK
<1>2. ASSUME NEW g \in Group, BroadcastStart(t, g) \/ CloseGroupStart(t, g)
      PROVE  PresentInv'
  <2>1. /\ op[t].name = "none" /\ op'[t].name \notin {"move", "close_all"}
        /\ \A u \in Thread \ {t} : op'[u] = op[u]
    BY <1>1, <1>2 DEF BroadcastStart, CloseGroupStart, MayClose, MayCall, Start, TypeOK, NoOperation
  <2> QED BY <1>2, <2>1, VisitPresent DEF BroadcastStart, CloseGroupStart
<1>3. ASSUME NEW g \in Group, CloseAllStart(t, g)
      PROVE  FALSE
  <2>1. PlaceOf(t) \in Place
    BY DEF PlaceOf, Place
  <2> QED BY <1>3, <2>1 DEF CloseAllStart, MayClose, MayCall, NoCloseAll
<1>4. CASE LockGroup(t) \/ EachCon(t) \/ PushTo(t) \/ OperationEnds(t) \/ CloseAllEnds(t)
  <2>1. op[t].name # "move" /\ ~CloseAllEnds(t) /\ op[t].name # "close_all"
    <3>1. op[t].step \in {"lock", "each", "push"}
      BY <1>4 DEF LockGroup, EachCon, PushTo, OperationEnds, CloseAllEnds, EachEnds
    <3>2. op[t].name # "move"
      BY <1>1, <3>1 DEF OperationInv, Moving, Visiting, NoOperation
    <3> QED BY <3>2 DEF PresentInv, CloseAllEnds
  <2>2. op'[t].name \in {op[t].name, "none"} /\ \A u \in Thread \ {t} : op'[u] = op[u]
    BY <1>4, VisitNames
  <2>3. UNCHANGED <<members, attr, cb>>
    BY <1>4, <2>1 DEF LockGroup, EachCon, PushTo, OperationEnds
  <2> QED BY <2>1, <2>2, <2>3, VisitPresent
<1>5. ASSUME NEW c \in Con, NEW g \in Group, MoveStart(t, c, g)
      PROVE  PresentInv'
  <2>1. t \in Worker /\ cb[t].kind \in {"connect", "message"}
    <3>1. PlaceOf(t) # "app" /\ PlaceOf(t) # "on_disconnect"
      BY <1>5 DEF MoveStart, MayCall, OnlyOwnMoves
    <3> QED BY <3>1 DEF PlaceOf, Thread
  <2>2. /\ cb[t].step = "handler" /\ cb[t].con = c /\ WorkerOf[c] = t
        /\ op[t].name = "none" /\ ~Between(c)
    <3>1. cb[t].step = "handler" /\ cb[t].con = c /\ cb[t] # NoCallback /\ op[t].name = "none"
      BY <1>5, <2>1 DEF MoveStart, MayCall, Knows, NoCallback
    <3> QED BY <2>1, <3>1 DEF Own, CallbackInv, Between
  <2>3. /\ op'[t].name = "move" /\ \A u \in Thread \ {t} : op'[u] = op[u]
        /\ UNCHANGED <<members, attr, cb>>
    BY <1>1, <1>5 DEF MoveStart, TypeOK, NoOperation
  <2> QED BY <2>1, <2>2, <2>3, LocalPresent DEF PresentInv
<1>6. CASE MoveErase(t) \/ MoveAssign(t) \/ MoveInsert(t)
  <2>1. Moving(op[t]) /\ OwnMove(t)
    BY <1>1, <1>6 DEF OperationInv, NoOperation, Moving, Visiting, MoveErase, MoveAssign,
       MoveInsert, Own, MoveInv
  <2>2. PICK c \in Con :
           /\ c = op[t].con /\ c = cb[t].con /\ WorkerOf[c] = t /\ t \in Worker
    BY <2>1 DEF OwnMove, Moving, NoCallback, Own, CallbackInv
  <2>3. UNCHANGED cb
    BY <1>6 DEF MoveErase, MoveAssign, MoveInsert
  <2>4. CASE MoveErase(t) \/ MoveAssign(t)
    <3>1. /\ op'[t].name = "move" /\ op'[t].step \in {"assign", "insert"}
          /\ \A u \in Thread \ {t} : op'[u] = op[u]
      BY <1>1, <2>1, <2>4 DEF MoveErase, MoveAssign, TypeOK, OperationType, Moving
    <3>2. Between(c)'
      BY <2>2, <2>3, <3>1 DEF Between
    <3>3. \A d \in Con \ {c} : attr'[d] = attr[d]
      BY <1>1, <2>2, <2>4 DEF MoveErase, MoveAssign, PointTo, TypeOK
    <3>4. \A d \in Con \ {c}, g \in Group : d \in members[g] => d \in members'[g]
      BY <1>1, <2>2, <2>4 DEF MoveErase, MoveAssign, EraseFrom, TypeOK
    <3> QED BY <2>2, <2>3, <3>1, <3>2, <3>3, <3>4, LocalPresent
  <2>5. CASE MoveInsert(t)
    <3>1. op'[t].name = "none" /\ \A u \in Thread \ {t} : op'[u] = op[u]
      BY <1>1, <2>5 DEF MoveInsert, TypeOK, NoOperation
    <3>2. UNCHANGED attr /\ attr[c] = op[t].to
      BY <2>1, <2>2, <2>5 DEF MoveInsert, OwnMove
    <3>3. /\ c \in members'[attr'[c]]
          /\ \A d \in Con, g \in Group : d \in members[g] => d \in members'[g]
      BY <1>1, <2>1, <2>2, <2>5, <3>2 DEF MoveInsert, InsertInto, TypeOK, Moving
    <3> QED BY <2>2, <2>3, <3>1, <3>2, <3>3, LocalPresent
  <2> QED BY <1>6, <2>4, <2>5
<1> QED BY <1>2, <1>3, <1>4, <1>5, <1>6 DEF StartOperation, OperationStep

(* If moreover nobody calls close_all, a connection that nobody is moving  *)
(* is in the group its attribute names and in no other.                    *)
THEOREM MembersAreNamed ==
    ASSUME OnlyOwnMoves, NoCloseAll
    PROVE  Spec => []MembershipMatchesAttr
<1>1. Init => OwnInv /\ PresentInv
  BY InitInv, InitOwn, InitPresent DEF OwnInv
<1>2. OwnInv /\ PresentInv /\ [Next]_vars => (OwnInv /\ PresentInv)'
  <2> SUFFICES ASSUME Inv, Own, PresentInv, [Next]_vars PROVE PresentInv'
      BY NextInv, NextOwn DEF OwnInv
  <2>1. CASE UNCHANGED vars
    BY <2>1 DEF vars, convars, PresentInv, Between
  <2>2. CASE Next
    BY <2>2, DeliverPresent, CallbackStepPresent, OperationPresent DEF Next
  <2> QED BY <2>1, <2>2
<1>3. OwnInv /\ PresentInv => MembershipMatchesAttr
  <2> SUFFICES ASSUME OwnInv, PresentInv, NEW c \in Con, Settled(c), NEW g \in Group
               PROVE  c \in members[g] <=> attr[c] = g
      BY DEF MembershipMatchesAttr
  <2>1. ~Between(c)
    <3>1. WorkerOf[c] \in Worker
      BY ConstantsOK
    <3>2. op[WorkerOf[c]].name = "move" => op[WorkerOf[c]].con = cb[WorkerOf[c]].con
      BY <3>1 DEF OwnInv, Own, MoveInv, OwnMove, Thread
    <3> QED BY <3>1, <3>2 DEF Settled, Between, Thread
  <2> QED BY <2>1 DEF OwnInv, Own, MemberInv, PresentInv
<1> QED BY <1>1, <1>2, <1>3, PTL DEF Spec

-----------------------------------------------------------------------------
(* The hub implements Membership.                                          *)

(* Who is called back while it is connected has a group: the attribute is  *)
(* set before the first message, and reset when the connection is done.    *)
NamedInv ==
    /\ done \in [Con -> BOOLEAN]
    /\ \A c \in Con : attr[c] = "reset" => done[c]
    /\ \A c \in Con : reading[c] = "message" => attr[c] # "unset"
    /\ \A w \in Worker : cb[w].kind \in {"connect", "message"} => attr[cb[w].con] \in Group

LEMMA InitNamed == Init => NamedInv
BY ConstantsOK DEF Init, NamedInv, NoCallback

(* A worker changes what belongs to one of its connections. *)
LEMMA LocalNamed ==
    ASSUME Own, NamedInv, NEW w \in Worker, NEW c \in Con, WorkerOf[c] = w,
           \A v \in Worker \ {w} : cb'[v] = cb[v],
           \A d \in Con \ {c} :
              attr'[d] = attr[d] /\ reading'[d] = reading[d] /\ done'[d] = done[d],
           done' \in [Con -> BOOLEAN],
           attr'[c] = "reset" => done'[c],
           reading'[c] = "message" => attr'[c] # "unset",
           cb'[w].kind \in {"connect", "message"} => cb'[w].con = c /\ attr'[c] \in Group
    PROVE  NamedInv'
<1>1. ASSUME NEW v \in Worker, cb'[v].kind \in {"connect", "message"}
      PROVE  attr'[cb'[v].con] \in Group
  <2>1. CASE v = w
    BY <1>1, <2>1
  <2>2. CASE v # w
    <3>1. cb[v] # NoCallback /\ cb'[v] = cb[v]
      BY <1>1, <2>2 DEF NoCallback
    <3>2. cb[v].con \in Con \ {c}
      BY <2>2, <3>1 DEF Own, CallbackInv, InCallback
    <3> QED BY <1>1, <3>1, <3>2 DEF NamedInv
  <2> QED BY <2>1, <2>2
<1> QED BY <1>1 DEF NamedInv

LEMMA DeliverNamed ==
    ASSUME Inv, Own, NamedInv, NEW c \in Con, Deliver(c) \/ WriteClose(c)
    PROVE  NamedInv'
<1> DEFINE w == WorkerOf[c]
<1>1. w \in Worker /\ cb[w] = NoCallback /\ TypeOK /\ UNCHANGED done
  BY ConstantsOK DEF Deliver, OnConnect, OnMessage, ReadFails, ReadClose, WriteClose, Idle, Inv
<1>2. ASSUME NEW k, NEW s, NEW g, Begin(k, s, c, g)
      PROVE  /\ cb'[w].con = c /\ cb'[w].kind = k
             /\ \A v \in Worker \ {w} : cb'[v] = cb[v]
  BY <1>1, <1>2 DEF TypeOK, Begin, Callback
<1>3. CASE OnConnect(c)
  <2>1. /\ attr'[c] = Default /\ reading'[c] = "message"
        /\ \A d \in Con \ {c} : attr'[d] = attr[d] /\ reading'[d] = reading[d]
    BY <1>1, <1>3 DEF OnConnect, PointTo, TypeOK
  <2>2. cb'[w].con = c /\ \A v \in Worker \ {w} : cb'[v] = cb[v]
    BY <1>2, <1>3 DEF OnConnect
  <2>3. Default \in Group /\ Default # "reset" /\ Default # "unset"
    BY ConstantsOK
  <2> HIDE DEF w
  <2> QED BY <1>1, <2>1, <2>2, <2>3, LocalNamed DEF w, NamedInv
<1>4. ASSUME UNCHANGED attr,
             \/ reading' = [reading EXCEPT ![c] = "none"]
             \/ UNCHANGED reading,
             \/ UNCHANGED cb
             \/ \E k \in {"read", "write"} : Begin(k, "handler", c, attr[c])
             \/ attr[c] \in Group /\ Begin("message", "handler", c, attr[c])
      PROVE  NamedInv'
  <2>1. /\ \A d \in Con \ {c} : reading'[d] = reading[d]
        /\ reading'[c] = "message" => reading[c] = "message"
    BY <1>1, <1>4 DEF TypeOK
  <2>2. /\ cb'[w].kind \in {"connect", "message"} => cb'[w].con = c /\ attr'[c] \in Group
        /\ \A v \in Worker \ {w} : cb'[v] = cb[v]
    BY <1>1, <1>2, <1>4 DEF NoCallback
  <2>3. attr[c] = "reset" => done[c]
    BY DEF NamedInv
  <2>4. reading'[c] = "message" => attr[c] # "unset"
    BY <2>1 DEF NamedInv
  <2> HIDE DEF w
  <2> QED BY <1>1, <1>4, <2>1, <2>2, <2>3, <2>4, LocalNamed DEF w, NamedInv
<1>5. CASE OnMessage(c)
  <2>1. ~done[c] => attr[c] \in Group
    BY <1>1, <1>5 DEF OnMessage, NamedInv, TypeOK
  <2> QED BY <1>4, <1>5, <2>1 DEF OnMessage
<1> QED BY <1>3, <1>4, <1>5 DEF Deliver, ReadFails, ReadClose, WriteClose

LEMMA CallbackStepNamed ==
    ASSUME Inv, Own, NamedInv, NEW w \in Worker, CallbackStep(w)
    PROVE  NamedInv'
<1>1. cb[w] # NoCallback
  BY DEF CallbackStep, ConnectInsert, ConnectReturns, MessageReturns, DisconnectErase,
     DisconnectReset, DisconnectDefault, HandlerDone, NoCallback
<1>2. PICK c \in Con : c = cb[w].con /\ WorkerOf[c] = w /\ TypeOK
  BY <1>1 DEF Own, CallbackInv, InCallback, Inv
<1>3. ASSUME NEW s, Step(w, s)
      PROVE  /\ cb'[w].con = c /\ cb'[w].kind = cb[w].kind
             /\ \A v \in Worker \ {w} : cb'[v] = cb[v]
  <2>1. cb[w] \in CallbackType
    BY <1>2 DEF TypeOK
  <2> QED BY <1>1, <1>2, <1>3, <2>1 DEF Step, TypeOK, CallbackType
<1>4. CASE ConnectInsert(w) \/ DisconnectErase(w)
  <2>1. /\ cb'[w].con = c /\ cb'[w].kind = cb[w].kind
        /\ \A v \in Worker \ {w} : cb'[v] = cb[v]
        /\ UNCHANGED <<attr, reading, done>>
    BY <1>3, <1>4 DEF ConnectInsert, DisconnectErase, convars
  <2> QED BY <1>2, <2>1, LocalNamed DEF NamedInv
<1>5. ASSUME cb' = [cb EXCEPT ![w] = NoCallback],
             done' = done \/ done' = [done EXCEPT ![c] = TRUE],
             \/ UNCHANGED attr
             \/ attr' = [attr EXCEPT ![c] = "reset"] /\ done' = [done EXCEPT ![c] = TRUE],
             \/ UNCHANGED reading
             \/ reading' = [reading EXCEPT ![c] = "message"] /\ UNCHANGED attr /\ attr[c] \in Group
      PROVE  NamedInv'
  <2>1. cb'[w] = NoCallback /\ \A v \in Worker \ {w} : cb'[v] = cb[v]
    BY <1>2, <1>5 DEF TypeOK
  <2>2. \A d \in Con \ {c} :
           attr'[d] = attr[d] /\ reading'[d] = reading[d] /\ done'[d] = done[d]
    BY <1>2, <1>5 DEF TypeOK, NamedInv
  <2>3. done' \in [Con -> BOOLEAN] /\ (attr'[c] = "reset" => done'[c])
    BY <1>2, <1>5 DEF TypeOK, NamedInv
  <2>4. reading'[c] = "message" => attr'[c] # "unset"
    BY <1>2, <1>5, ConstantsOK DEF TypeOK, NamedInv
  <2>5. cb'[w].kind \notin {"connect", "message"}
    BY <2>1 DEF NoCallback
  <2> QED BY <1>2, <2>1, <2>2, <2>3, <2>4, <2>5, LocalNamed
<1>6. CASE ConnectReturns(w)
  BY <1>5, <1>6 DEF ConnectReturns, convars
<1>7. CASE MessageReturns(w)
  BY <1>2, <1>5, <1>7 DEF MessageReturns, NamedInv
<1>8. CASE DisconnectReset(w) \/ DisconnectDefault(w)
  BY <1>2, <1>5, <1>8 DEF DisconnectReset, DisconnectDefault, Finish, PointTo
<1> QED BY <1>4, <1>6, <1>7, <1>8 DEF CallbackStep

LEMMA OperationNamed ==
    ASSUME Inv, Own, NamedInv, NEW t \in Thread, StartOperation(t) \/ OperationStep(t)
    PROVE  NamedInv'
<1>1. TypeOK /\ OperationInv
  BY DEF Inv
<1>2. CASE UNCHANGED <<attr, reading, done, cb>>
  BY <1>2 DEF NamedInv
<1>3. CASE MoveAssign(t)
  <2>1. Moving(op[t]) /\ UNCHANGED <<reading, done, cb>>
    BY <1>1, <1>3 DEF OperationInv, NoOperation, Visiting, MoveAssign, convars
  <2>2. /\ attr'[op[t].con] \in Group
        /\ \A d \in Con \ {op[t].con} : attr'[d] = attr[d]
    BY <1>1, <1>3, <2>1 DEF MoveAssign, PointTo, TypeOK, Moving
  <2>3. \A w \in Worker : cb[w].kind \in {"connect", "message"} => cb[w].con \in Con
    BY DEF Own, CallbackInv, InCallback, NoCallback
  <2> QED BY <2>1, <2>2, <2>3, ConstantsOK DEF NamedInv
<1> QED BY <1>2, <1>3 DEF StartOperation, MoveStart, BroadcastStart, CloseGroupStart,
           CloseAllStart, OperationStep, MoveErase, MoveInsert, LockGroup, EachCon, PushTo,
           OperationEnds, CloseAllEnds, convars

MembershipInv == OwnInv /\ NamedInv

LEMMA MembershipInvariance == ASSUME OnlyOwnMoves PROVE Spec => []MembershipInv
<1>1. Init => MembershipInv
  BY InitInv, InitOwn, InitNamed DEF MembershipInv, OwnInv
<1>2. MembershipInv /\ [Next]_vars => MembershipInv'
  <2> SUFFICES ASSUME Inv, Own, NamedInv, [Next]_vars PROVE NamedInv'
      BY NextInv, NextOwn DEF MembershipInv, OwnInv
  <2>1. CASE UNCHANGED vars
    BY <2>1 DEF vars, convars, NamedInv
  <2>2. CASE Next
    BY <2>2, DeliverNamed, CallbackStepNamed, OperationNamed DEF Next
  <2> QED BY <2>1, <2>2
<1> QED BY <1>1, <1>2, PTL DEF Spec

(* What a worker does to one of its connections is no step of the others. *)
LEMMA OthersKeepPhase ==
    ASSUME Own, NEW w \in Worker, NEW c \in Con, WorkerOf[c] = w,
           cb[w] = NoCallback \/ cb[w].con = c,
           cb'[w] = NoCallback \/ cb'[w].con = c,
           op[w].name = "move" => op[w].con = c,
           op'[w].name = "move" => op'[w].con = c,
           \A v \in Worker \ {w} : cb'[v] = cb[v],
           \A t \in Thread \ {w} : op'[t] = op[t],
           \A d \in Con \ {c} : attr'[d] = attr[d]
    PROVE  phases' = [phases EXCEPT ![c] = Phase(c)']
<1>1. ASSUME NEW d \in Con \ {c} PROVE Phase(d)' = Phase(d)
  <2>1. WorkerOf[d] \in Worker /\ attr'[d] = attr[d] /\ d # "none"
    BY ConstantsOK
  <2>2. CASE WorkerOf[d] = w
    <3>1. cb[w].con # d /\ cb'[w].con # d
      BY <2>1 DEF NoCallback
    <3>2. ~(op[w].name = "move" /\ op[w].con = d) /\ ~(op'[w].name = "move" /\ op'[w].con = d)
      OBVIOUS
    <3> QED BY <2>1, <2>2, <3>1, <3>2 DEF Phase
  <2>3. CASE WorkerOf[d] # w
    <3>1. cb'[WorkerOf[d]] = cb[WorkerOf[d]] /\ op'[WorkerOf[d]] = op[WorkerOf[d]]
      BY <2>1, <2>3 DEF Thread
    <3> QED BY <2>1, <3>1 DEF Phase
  <2> QED BY <2>2, <2>3
<1> QED BY <1>1 DEF phases

(* ... and with the phase of c it leaves every phase as it was. *)
LEMMA PhaseKept ==
    ASSUME NEW c \in Con, phases' = [phases EXCEPT ![c] = Phase(c)'], Phase(c)' = Phase(c)
    PROVE  UNCHANGED phases
BY DEF phases

LEMMA InitMembership == Init => Groups!Init
BY DEF Init, Groups!Init, phases, Phase

LEMMA DeliverMembership ==
    ASSUME MembershipInv, NEW c \in Con, Deliver(c) \/ WriteClose(c)
    PROVE  UNCHANGED <<members, phases>>
<1> DEFINE w == WorkerOf[c]
<1>1. /\ w \in Worker /\ w \in Thread /\ cb[w] = NoCallback /\ TypeOK /\ Own
      /\ UNCHANGED <<members, op>> /\ c # "none"
  BY ConstantsOK DEF Deliver, OnConnect, OnMessage, ReadFails, ReadClose, WriteClose, Idle,
     MembershipInv, OwnInv, Inv, Thread
<1>2. op[w].name # "move"
  BY <1>1 DEF Own, MoveInv, OwnMove, NoCallback
<1>3. ASSUME NEW k, NEW s, NEW g, Begin(k, s, c, g)
      PROVE  /\ cb'[w].con = c /\ cb'[w].step = s
             /\ \A v \in Worker \ {w} : cb'[v] = cb[v]
  BY <1>1, <1>3 DEF TypeOK, Begin, Callback
<1>4. ASSUME cb'[w] = NoCallback \/ cb'[w].con = c,
             \A v \in Worker \ {w} : cb'[v] = cb[v],
             \A d \in Con \ {c} : attr'[d] = attr[d],
             Phase(c)' = Phase(c)
      PROVE  UNCHANGED <<members, phases>>
  <2> HIDE DEF w
  <2>1. phases' = [phases EXCEPT ![c] = Phase(c)']
    BY <1>1, <1>2, <1>4, OthersKeepPhase DEF w
  <2> QED BY <1>1, <1>4, <2>1, PhaseKept
<1>5. CASE OnConnect(c)
  <2>1. /\ cb'[w].con = c /\ cb'[w].step = "insert"
        /\ \A v \in Worker \ {w} : cb'[v] = cb[v]
    BY <1>3, <1>5 DEF OnConnect
  <2>2. \A d \in Con \ {c} : attr'[d] = attr[d]
    BY <1>1, <1>5 DEF OnConnect, PointTo, TypeOK
  <2>3. attr[c] = "unset"
    BY <1>1, <1>5 DEF OnConnect, Own, RequestInv
  <2>4. Phase(c) = "new" /\ Phase(c)' = "new"
    BY <2>1, <2>3 DEF Phase
  <2> HIDE DEF w
  <2> QED BY <1>4, <2>1, <2>2, <2>4
<1>6. CASE UNCHANGED <<cb, attr>>
  BY <1>1, <1>6 DEF phases, Phase
<1>7. ASSUME UNCHANGED attr, NEW k, Begin(k, "handler", c, attr[c])
      PROVE  UNCHANGED <<members, phases>>
  <2>1. /\ cb'[w].con = c /\ cb'[w].step = "handler"
        /\ \A v \in Worker \ {w} : cb'[v] = cb[v]
    BY <1>3, <1>7
  <2>2. cb[w].con # c
    BY <1>1 DEF NoCallback
  <2>3. Phase(c)' = Phase(c)
    BY <1>1, <1>2, <1>7, <2>1, <2>2 DEF Phase
  <2> HIDE DEF w
  <2> QED BY <1>4, <1>7, <2>1, <2>3
<1> QED BY <1>5, <1>6, <1>7 DEF Deliver, OnMessage, ReadFails, ReadClose, WriteClose

LEMMA CallbackStepMembership ==
    ASSUME MembershipInv, NEW w \in Worker, CallbackStep(w)
    PROVE  Groups!Next \/ UNCHANGED <<members, phases>>
<1>0. TypeOK /\ Own /\ Inv
  BY DEF MembershipInv, OwnInv, Inv
<1>1. cb[w] # NoCallback
  BY DEF CallbackStep, ConnectInsert, ConnectReturns, MessageReturns, DisconnectErase,
     DisconnectReset, DisconnectDefault, HandlerDone, NoCallback
<1>2. PICK c \in Con : c = cb[w].con /\ WorkerOf[c] = w /\ InCallback(cb[w]) /\ c # "none"
  BY <1>0, <1>1, ConstantsOK DEF Own, CallbackInv, InCallback
<1>3. UNCHANGED op /\ op[w].name # "move"
  BY <1>0, <1>2 DEF CallbackStep, ConnectInsert, ConnectReturns, MessageReturns, DisconnectErase,
     DisconnectReset, DisconnectDefault, HandlerDone, Own, MoveInv, OwnMove, Thread, InCallback
<1>4. ASSUME NEW s, Step(w, s)
      PROVE  /\ cb'[w].con = c /\ cb'[w].step = s
             /\ \A v \in Worker \ {w} : cb'[v] = cb[v]
  <2>1. cb[w] \in CallbackType
    BY <1>0 DEF TypeOK
  <2> QED BY <1>0, <1>1, <1>2, <1>4, <2>1 DEF Step, TypeOK, CallbackType
<1>5. ASSUME cb'[w] = NoCallback \/ cb'[w].con = c,
             \A v \in Worker \ {w} : cb'[v] = cb[v],
             \A d \in Con \ {c} : attr'[d] = attr[d]
      PROVE  phases' = [phases EXCEPT ![c] = Phase(c)']
  BY <1>0, <1>2, <1>3, <1>5, OthersKeepPhase
<1>6. phases[c] = Phase(c)
  BY DEF phases
<1>7. CASE ConnectInsert(w)
  <2>1. /\ cb'[w].con = c /\ cb'[w].step = "handler"
        /\ \A v \in Worker \ {w} : cb'[v] = cb[v]
        /\ UNCHANGED attr /\ attr[c] = Default
    BY <1>2, <1>4, <1>7 DEF ConnectInsert, InCallback
  <2>2. phases' = [phases EXCEPT ![c] = Phase(c)']
    BY <1>5, <2>1
  <2>3. Phase(c) = "new"
    BY <1>2, <1>7 DEF Phase, ConnectInsert
  <2>4. Phase(c)' = "open"
    BY <1>2, <1>3, <2>1, ConstantsOK DEF Phase
  <2>5. Groups!Connect(c)
    BY <1>2, <1>6, <1>7, <2>2, <2>3, <2>4 DEF ConnectInsert, InsertInto, Groups!Connect, Groups!Enter
  <2> QED BY <2>5 DEF Groups!Next
<1>8. CASE DisconnectErase(w)
  <2>1. /\ cb'[w].con = c /\ cb'[w].step = "reset"
        /\ \A v \in Worker \ {w} : cb'[v] = cb[v]
    BY <1>4, <1>8 DEF DisconnectErase
  <2>2. UNCHANGED attr /\ attr[c] = cb[w].group /\ attr[c] \in Group
    BY <1>2, <1>8 DEF DisconnectErase, Disconnecting, InCallback
  <2>3. attr[c] # "unset" /\ attr[c] # "reset" /\ cb[w].step = "handler"
    BY <1>8, <2>2, ConstantsOK DEF DisconnectErase, HandlerDone
  <2>4. Phase(c) = "open"
    BY <1>2, <1>3, <2>3 DEF Phase
  <2>5. Phase(c)' = "gone"
    BY <1>2, <2>1, <2>2, <2>3 DEF Phase
  <2>6. phases' = [phases EXCEPT ![c] = Phase(c)']
    BY <1>5, <2>1, <2>2
  <2>7. members' = [members EXCEPT ![attr[c]] = @ \ {c}]
    BY <1>2, <1>8, <2>2 DEF DisconnectErase, EraseFrom
  <2>8. \A g \in Group : c \in members[g] => g = attr[c]
    BY <1>0 DEF Own, MemberInv
  <2>9. members' = [g \in Group |-> members[g] \ {c}]
    BY <1>0, <2>7, <2>8 DEF TypeOK
  <2>10. Groups!Disconnect(c)
    BY <1>6, <2>4, <2>5, <2>6, <2>9 DEF Groups!Disconnect, Groups!Leave
  <2> QED BY <2>10 DEF Groups!Next
<1>9. ASSUME cb' = [cb EXCEPT ![w] = NoCallback], UNCHANGED members,
             \A d \in Con \ {c} : attr'[d] = attr[d], Phase(c)' = Phase(c)
      PROVE  UNCHANGED <<members, phases>>
  <2>1. cb'[w] = NoCallback /\ \A v \in Worker \ {w} : cb'[v] = cb[v]
    BY <1>0, <1>9 DEF TypeOK
  <2>2. phases' = [phases EXCEPT ![c] = Phase(c)']
    BY <1>5, <1>9, <2>1
  <2> QED BY <1>9, <2>2, PhaseKept
<1>10. ASSUME cb' = [cb EXCEPT ![w] = NoCallback] PROVE cb'[w].con # c
  BY <1>0, <1>2, <1>10 DEF TypeOK, NoCallback
<1>11. CASE ConnectReturns(w) \/ MessageReturns(w) \/ DisconnectDefault(w)
  <2>1. /\ cb' = [cb EXCEPT ![w] = NoCallback] /\ UNCHANGED <<members, attr>>
        /\ cb[w].step = "handler"
    BY <1>11 DEF ConnectReturns, MessageReturns, DisconnectDefault, HandlerDone, Finish
  <2>2. Phase(c)' = Phase(c)
    BY <1>2, <1>3, <1>10, <2>1 DEF Phase
  <2> QED BY <1>9, <2>1, <2>2
<1>12. CASE DisconnectReset(w)
  <2>1. /\ cb' = [cb EXCEPT ![w] = NoCallback] /\ UNCHANGED members /\ cb[w].step = "reset"
        /\ attr'[c] = "reset" /\ \A d \in Con \ {c} : attr'[d] = attr[d]
    BY <1>0, <1>2, <1>12 DEF DisconnectReset, Finish, PointTo, TypeOK
  <2>2. attr[c] # "unset"
    BY <1>2, <2>1, ConstantsOK DEF InCallback
  <2>3. Phase(c) = "gone" /\ Phase(c)' = "gone"
    BY <1>2, <1>10, <2>1, <2>2 DEF Phase
  <2> QED BY <1>9, <2>1, <2>3
<1> QED BY <1>7, <1>8, <1>11, <1>12 DEF CallbackStep

LEMMA OperationMembership ==
    ASSUME MembershipInv, OnlyOwnMoves, NEW t \in Thread, StartOperation(t) \/ OperationStep(t)
    PROVE  Groups!Next \/ UNCHANGED <<members, phases>>
<1>0. /\ TypeOK /\ Own /\ Inv /\ NamedInv /\ OperationInv /\ op[t] \in OperationType
  BY DEF MembershipInv, OwnInv, Inv, TypeOK
<1>1. ASSUME op[t].name # "move", op'[t].name # "move",
             \A u \in Thread \ {t} : op'[u] = op[u], UNCHANGED <<attr, cb>>
      PROVE  UNCHANGED phases
  <2>1. \A c \in Con : Phase(c)' = Phase(c)
    BY <1>1, ConstantsOK DEF Phase, Thread
  <2> QED BY <2>1 DEF phases
<1>2. ASSUME NEW g \in Group,
             BroadcastStart(t, g) \/ CloseGroupStart(t, g) \/ CloseAllStart(t, g)
      PROVE  UNCHANGED <<members, phases>>
  <2>1. op[t].name = "none" /\ op'[t].name # "move" /\ \A u \in Thread \ {t} : op'[u] = op[u]
    BY <1>0, <1>2 DEF BroadcastStart, CloseGroupStart, CloseAllStart, MayClose, MayCall, Start,
       TypeOK, NoOperation
  <2>2. UNCHANGED <<members, attr, cb>>
    BY <1>2 DEF BroadcastStart, CloseGroupStart, CloseAllStart
  <2> QED BY <1>1, <2>1, <2>2
<1>3. ASSUME LockGroup(t) \/ EachCon(t) \/ PushTo(t) \/ OperationEnds(t) \/ CloseAllEnds(t)
      PROVE  Groups!Next \/ UNCHANGED <<members, phases>>
  <2>1. op[t].name # "move" /\ Visiting(op[t])
    <3>1. op[t].step \in {"lock", "each", "push"}
      BY <1>3 DEF LockGroup, EachCon, PushTo, OperationEnds, CloseAllEnds, EachEnds
    <3> QED BY <1>0, <3>1 DEF OperationInv, Moving, Visiting, NoOperation
  <2>2. op'[t].name \in {op[t].name, "none"} /\ \A u \in Thread \ {t} : op'[u] = op[u]
    BY <1>0, <1>3, VisitNames
  <2>3. UNCHANGED <<attr, cb>>
    BY <1>3 DEF LockGroup, EachCon, PushTo, OperationEnds, CloseAllEnds
  <2>4. UNCHANGED phases
    BY <1>1, <2>1, <2>2, <2>3
  <2>5. CASE CloseAllEnds(t)
    <3>1. Groups!Empty(op[t].group) /\ op[t].group \in Group
      BY <2>1, <2>4, <2>5 DEF CloseAllEnds, Groups!Empty, Visiting
    <3> QED BY <3>1 DEF Groups!Next
  <2>6. CASE ~CloseAllEnds(t)
    BY <1>3, <2>4, <2>6 DEF LockGroup, EachCon, PushTo, OperationEnds
  <2> QED BY <2>5, <2>6
<1>4. ASSUME NEW c \in Con, NEW g \in Group, MoveStart(t, c, g)
      PROVE  UNCHANGED <<members, phases>>
  <2>1. t \in Worker /\ cb[t].kind \in {"connect", "message"}
    <3>1. PlaceOf(t) # "app" /\ PlaceOf(t) # "on_disconnect"
      BY <1>4 DEF MoveStart, MayCall, OnlyOwnMoves
    <3> QED BY <3>1 DEF PlaceOf, Thread
  <2>2. cb[t].step = "handler" /\ cb[t].con = c /\ cb[t] # NoCallback /\ op[t].name = "none"
    BY <1>4, <2>1 DEF MoveStart, MayCall, Knows, NoCallback
  <2>3. WorkerOf[c] = t /\ attr[c] \in Group
    BY <1>0, <2>1, <2>2 DEF Own, CallbackInv, NamedInv
  <2>4. /\ op'[t].con = c /\ op'[t].step = "erase"
        /\ \A u \in Thread \ {t} : op'[u] = op[u]
        /\ UNCHANGED <<members, attr, cb>>
    BY <1>0, <1>4, <2>3 DEF MoveStart, TypeOK, NoOperation
  <2>5. phases' = [phases EXCEPT ![c] = Phase(c)']
    BY <1>0, <2>1, <2>2, <2>3, <2>4, OthersKeepPhase
  <2>6. Phase(c)' = Phase(c)
    BY <2>2, <2>3, <2>4 DEF Phase
  <2> QED BY <2>4, <2>5, <2>6, PhaseKept
<1>5. CASE MoveErase(t) \/ MoveAssign(t) \/ MoveInsert(t)
  <2>1. Moving(op[t]) /\ OwnMove(t)
    BY <1>0, <1>5 DEF OperationInv, NoOperation, Moving, Visiting, MoveErase, MoveAssign,
       MoveInsert, Own, MoveInv
  <2>2. PICK c \in Con :
           /\ c = op[t].con /\ c = cb[t].con /\ WorkerOf[c] = t /\ t \in Worker
           /\ cb[t].step = "handler" /\ cb[t].kind \in {"connect", "message"}
    BY <1>0, <2>1 DEF OwnMove, Moving, NoCallback, Own, CallbackInv
  <2>3. /\ UNCHANGED cb /\ attr[c] \in Group /\ attr[c] # "unset" /\ attr[c] # "reset"
        /\ phases[c] = Phase(c)
    BY <1>0, <1>5, <2>2, ConstantsOK DEF MoveErase, MoveAssign, MoveInsert, NamedInv, phases
  <2>4. ASSUME op'[t].name = "move" => op'[t].con = c,
               \A u \in Thread \ {t} : op'[u] = op[u],
               \A d \in Con \ {c} : attr'[d] = attr[d]
        PROVE  phases' = [phases EXCEPT ![c] = Phase(c)']
    BY <1>0, <2>2, <2>3, <2>4, OthersKeepPhase
  <2>5. CASE MoveErase(t)
    <3>1. /\ op'[t].name = "move" /\ op'[t].con = c /\ op'[t].step = "assign"
          /\ \A u \in Thread \ {t} : op'[u] = op[u]
          /\ UNCHANGED attr
      BY <1>0, <2>1, <2>2, <2>5 DEF MoveErase, TypeOK, OperationType, Moving
    <3>2. phases' = [phases EXCEPT ![c] = Phase(c)']
      BY <2>4, <3>1
    <3>3. Phase(c) = "open"
      BY <2>2, <2>3, <2>5 DEF Phase, MoveErase
    <3>4. Phase(c)' = "moving"
      BY <2>2, <2>3, <3>1 DEF Phase
    <3>5. members' = [members EXCEPT ![attr[c]] = @ \ {c}]
      BY <2>1, <2>2, <2>5 DEF MoveErase, EraseFrom, OwnMove
    <3>6. \A g \in Group : c \in members[g] => g = attr[c]
      BY <1>0 DEF Own, MemberInv
    <3>7. members' = [g \in Group |-> members[g] \ {c}]
      BY <1>0, <3>5, <3>6 DEF TypeOK
    <3>8. Groups!MoveOut(c)
      BY <2>3, <3>2, <3>3, <3>4, <3>7 DEF Groups!MoveOut, Groups!Leave
    <3> QED BY <3>8 DEF Groups!Next
  <2>6. CASE MoveAssign(t)
    <3>1. /\ op'[t].name = "move" /\ op'[t].con = c /\ op'[t].step = "insert"
          /\ \A u \in Thread \ {t} : op'[u] = op[u]
          /\ op[t].step = "assign" /\ UNCHANGED members
      BY <1>0, <2>1, <2>2, <2>6 DEF MoveAssign, TypeOK, OperationType, Moving
    <3>2. /\ attr'[c] \in Group /\ attr'[c] # "unset" /\ attr'[c] # "reset"
          /\ \A d \in Con \ {c} : attr'[d] = attr[d]
      BY <1>0, <2>1, <2>2, <2>6, ConstantsOK DEF MoveAssign, PointTo, TypeOK, Moving
    <3>3. Phase(c)' = "moving" /\ Phase(c) = "moving"
      BY <2>1, <2>2, <2>3, <3>1, <3>2 DEF Phase, Moving
    <3> QED BY <2>4, <3>1, <3>2, <3>3, PhaseKept
  <2>7. CASE MoveInsert(t)
    <3>1. op'[t].name = "none" /\ \A u \in Thread \ {t} : op'[u] = op[u]
      BY <1>0, <2>7 DEF MoveInsert, TypeOK, NoOperation
    <3>2. UNCHANGED attr /\ op[t].step = "insert" /\ op[t].to \in Group
      BY <2>1, <2>7 DEF MoveInsert, Moving
    <3>3. Phase(c) = "moving"
      BY <2>1, <2>2, <2>3, <3>2 DEF Phase, Moving
    <3>4. Phase(c)' = "open"
      BY <2>2, <2>3, <3>1, <3>2 DEF Phase
    <3>5. phases' = [phases EXCEPT ![c] = Phase(c)']
      BY <2>4, <3>1, <3>2
    <3>6. members' = [members EXCEPT ![op[t].to] = @ \cup {c}]
      BY <2>2, <2>7 DEF MoveInsert, InsertInto
    <3>7. Groups!MoveIn(c, op[t].to)
      BY <2>3, <3>3, <3>4, <3>5, <3>6 DEF Groups!MoveIn, Groups!Enter
    <3> QED BY <3>2, <3>7 DEF Groups!Next
  <2> QED BY <1>5, <2>5, <2>6, <2>7
<1> QED BY <1>2, <1>3, <1>4, <1>5 DEF StartOperation, OperationStep

(* While only its handlers move a connection, the groups are those of      *)
(* Membership: the insertion of on_connect is the moment a connection      *)
(* comes, the two halves of set_connection_group are the ways out and in,  *)
(* the erasure of on_disconnect is the end, the clear of close_all empties *)
(* a group, and no other step of the hub changes anything.                 *)
THEOREM Refinement == ASSUME OnlyOwnMoves PROVE Spec => ImplementsMembership
<1>1. Init => Groups!Init
  BY InitMembership
<1>2. MembershipInv /\ [Next]_vars => [Groups!Next]_(Groups!vars)
  <2> SUFFICES ASSUME MembershipInv, [Next]_vars
               PROVE  Groups!Next \/ UNCHANGED <<members, phases>>
      BY DEF Groups!vars
  <2>1. CASE UNCHANGED vars
    BY <2>1 DEF vars, phases, Phase
  <2>2. CASE Next
    BY <2>2, DeliverMembership, CallbackStepMembership, OperationMembership DEF Next
  <2> QED BY <2>1, <2>2
<1> QED BY <1>1, <1>2, MembershipInvariance, PTL DEF Spec, ImplementsMembership, Groups!Spec

=============================================================================
