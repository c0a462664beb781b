------------------------- MODULE WsConnectionProofs -------------------------
(***************************************************************************)
(* Theorems about WsConnection, for any threads, payloads and bounds.      *)
(***************************************************************************)
EXTENDS WsConnection, TLAPS

-----------------------------------------------------------------------------
(* Sequences.                                                              *)

LEMMA AppendFacts ==
    ASSUME NEW S, NEW s \in Seq(S), NEW e \in S
    PROVE  /\ Append(s, e) \in Seq(S)
           /\ Len(Append(s, e)) = Len(s) + 1
           /\ \A i \in 1 .. Len(s) : Append(s, e)[i] = s[i]
           /\ Append(s, e)[Len(s) + 1] = e
  OBVIOUS

LEMMA TailFacts ==
    ASSUME NEW S, NEW s \in Seq(S), s # <<>>
    PROVE  /\ Len(s) \in Nat \ {0}
           /\ Head(s) \in S
           /\ Head(s) = s[1]
           /\ Tail(s) \in Seq(S)
           /\ Len(Tail(s)) = Len(s) - 1
           /\ \A i \in 1 .. Len(Tail(s)) : Tail(s)[i] = s[i + 1]
  OBVIOUS

LEMMA EmptyFacts ==
    ASSUME NEW S, NEW s \in Seq(S)
    PROVE  /\ Len(s) \in Nat
           /\ s = <<>> <=> Len(s) = 0
           /\ \A i \in 1 .. Len(s) : s[i] \in S
  OBVIOUS

-----------------------------------------------------------------------------
(* The queue.                                                              *)

(* The queue holds what was accepted and has not been reported back, the   *)
(* wire what was accepted first, and at most one message is under way: one *)
(* exactly while the queue is not empty, unless the connection is done.    *)
QueueInv ==
    /\ Len(accepted) = acked + Len(response_queue)
    /\ \A i \in 1 .. Len(response_queue) :
          response_queue[i] = accepted[acked + i]
    /\ Len(wire) \in acked .. (acked + 1)
    /\ Len(wire) <= Len(accepted)
    /\ \A i \in 1 .. Len(wire) : wire[i] = accepted[i]
    /\ ~done /\ response_queue # <<>> => Len(wire) = acked + 1

Inv == TypeOK /\ QueueInv

LEMMA InitInv == Init => Inv
  <1> SUFFICES ASSUME Init PROVE Inv
    OBVIOUS
  <1>1. \A S : <<>> \in Seq(S)
    OBVIOUS
  <1>2. TypeOK
    <2>1. pend \in [Thread -> Payload \cup {Close, None}]
      BY DEF Init
    <2> QED
      BY <1>1, <2>1 DEF Init, TypeOK
  <1>3. QueueInv
    BY DEF Init, QueueInv
  <1> QED
    BY <1>2, <1>3 DEF Inv

(* A push keeps the queue's invariant. *)
LEMMA EnqueueInv ==
    ASSUME Inv, NEW m \in Msg, Enqueue(m), done' = done
    PROVE  /\ QueueInv'
           /\ response_queue' \in Seq(Msg)
           /\ accepted' \in Seq(Msg)
           /\ wire' \in Seq(Msg)
           /\ acked' \in Nat
  <1> USE DEF Inv, TypeOK, Enqueue, AfterPush
  <1>1. /\ response_queue' \in Seq(Msg)
        /\ accepted' \in Seq(Msg)
        /\ wire' \in Seq(Msg)
        /\ acked' \in Nat
    BY AppendFacts
  <1>2. /\ Len(response_queue) \in Nat
        /\ Len(accepted) \in Nat
        /\ Len(wire) \in Nat
        /\ response_queue = <<>> <=> Len(response_queue) = 0
    BY EmptyFacts
  <1>3. CASE response_queue = <<>>
    <2>1. Len(wire) = acked /\ Len(accepted) = acked
      BY <1>2, <1>3 DEF QueueInv
    <2>2. Len(wire') = acked + 1 /\ Len(accepted') = acked + 1
      BY <1>3, <2>1, AppendFacts
    <2>3. \A i \in 1 .. Len(wire') : wire'[i] = accepted'[i]
      BY <1>2, <1>3, <2>1, <2>2, AppendFacts DEF QueueInv
    <2>4. Len(response_queue') = 1 /\ response_queue'[1] = accepted'[acked + 1]
      BY <1>2, <1>3, <2>1, AppendFacts
    <2> QED
      BY <1>1, <2>1, <2>2, <2>3, <2>4 DEF QueueInv
  <1>4. CASE response_queue # <<>>
    <2>1. wire' = wire
      BY <1>4
    <2>2. /\ Len(response_queue') = Len(response_queue) + 1
          /\ Len(accepted') = Len(accepted) + 1
      BY AppendFacts
    <2>3. \A i \in 1 .. Len(response_queue') :
             response_queue'[i] = accepted'[acked + i]
      BY <1>2, <2>2, AppendFacts DEF QueueInv
    <2>4. \A i \in 1 .. Len(wire) : wire[i] = accepted'[i]
      BY <1>2, AppendFacts DEF QueueInv
    <2> QED
      BY <1>1, <1>2, <1>4, <2>1, <2>2, <2>3, <2>4 DEF QueueInv
  <1> QED
    BY <1>1, <1>3, <1>4

(* So does the completion of a write. *)
LEMMA WriteDoneInv ==
    ASSUME Inv, WriteDone
    PROVE  Inv'
  <1> USE DEF Inv, TypeOK
  <1> DEFINE rest == Tail(response_queue)
  <1>1. /\ Len(response_queue) \in Nat
        /\ Len(accepted) \in Nat
        /\ Len(wire) \in Nat
        /\ response_queue = <<>> <=> Len(response_queue) = 0
    BY EmptyFacts
  <1>2. Len(wire) = acked + 1 /\ response_queue # <<>>
    BY <1>1 DEF WriteDone, QueueInv
  <1>3. /\ acked' = acked + 1
        /\ response_queue' = rest
        /\ accepted' = accepted
        /\ done' = done
        /\ wire' = AfterWrite(rest)
    BY DEF WriteDone
  <1>4. /\ rest \in Seq(Msg)
        /\ Len(rest) = Len(response_queue) - 1
        /\ \A i \in 1 .. Len(rest) : rest[i] = response_queue[i + 1]
        /\ rest = <<>> <=> Len(rest) = 0
        /\ rest # <<>> => Head(rest) = rest[1] /\ rest[1] \in Msg
    <2>1. /\ rest \in Seq(Msg)
          /\ Len(rest) = Len(response_queue) - 1
          /\ \A i \in 1 .. Len(rest) : rest[i] = response_queue[i + 1]
      BY <1>2, TailFacts
    <2>2. rest = <<>> <=> Len(rest) = 0
      BY <2>1, EmptyFacts
    <2>3. rest # <<>> => Head(rest) = rest[1] /\ rest[1] \in Msg
      BY <2>1, TailFacts
    <2> HIDE DEF rest
    <2> QED
      BY <2>1, <2>2, <2>3
  <1>5. /\ Len(accepted') = acked' + Len(response_queue')
        /\ \A i \in 1 .. Len(response_queue') :
              response_queue'[i] = accepted'[acked' + i]
    <2> HIDE DEF rest
    <2>1. Len(accepted') = acked' + Len(response_queue')
      <3>1. Len(accepted) = acked + Len(response_queue) /\ acked \in Nat
        BY DEF QueueInv
      <3>2. Len(accepted') = Len(accepted) /\ Len(response_queue') = Len(rest)
        BY <1>3
      <3> QED
        BY <1>1, <1>3, <1>4, <3>1, <3>2
    <2>2. ASSUME NEW i \in 1 .. Len(rest)
          PROVE  rest[i] = accepted[(acked + 1) + i]
      <3>1. i + 1 \in 1 .. Len(response_queue)
        BY <1>1, <1>4
      <3>2. rest[i] = response_queue[i + 1]
        BY <1>4
      <3>3. response_queue[i + 1] = accepted[acked + (i + 1)]
        BY <3>1 DEF QueueInv
      <3>4. acked + (i + 1) = (acked + 1) + i
        OBVIOUS
      <3> QED
        BY <3>2, <3>3, <3>4
    <2> QED
      BY <1>3, <2>1, <2>2
  <1> HIDE DEF rest
  <1>6. /\ wire' \in Seq(Msg)
        /\ Len(wire') \in acked' .. (acked' + 1)
        /\ Len(wire') <= Len(accepted')
        /\ \A i \in 1 .. Len(wire') : wire'[i] = accepted'[i]
        /\ ~done' /\ response_queue' # <<>> => Len(wire') = acked' + 1
    <2>1. CASE ~done /\ rest # <<>>
      <3>1. wire' = Append(wire, rest[1])
        BY <1>3, <1>4, <2>1 DEF AfterWrite
      <3>2. rest[1] = accepted[acked + 2] /\ Len(accepted) >= acked + 2
        <4>1. 1 \in 1 .. Len(rest) /\ Len(rest) \in Nat
          BY <1>1, <1>2, <1>4, <2>1
        <4>2. acked' + 1 = acked + 2
          BY <1>3
        <4> QED
          BY <1>3, <1>5, <4>1, <4>2
      <3>3. Len(wire') = acked + 2 /\ wire' \in Seq(Msg)
        BY <1>2, <1>4, <2>1, <3>1, AppendFacts
      <3>4. \A i \in 1 .. Len(wire') : wire'[i] = accepted[i]
        BY <1>1, <1>2, <1>4, <2>1, <3>1, <3>2, <3>3, AppendFacts DEF QueueInv
      <3> QED
        BY <1>1, <1>3, <3>2, <3>3, <3>4
    <2>2. CASE done \/ rest = <<>>
      <3>1. wire' = wire
        BY <1>3, <2>2 DEF AfterWrite
      <3>2. Len(wire') \in acked' .. (acked' + 1)
        BY <1>1, <1>2, <1>3, <3>1
      <3>3. wire' \in Seq(Msg) /\ Len(wire') <= Len(accepted')
        BY <1>3, <3>1 DEF QueueInv
      <3>4. \A i \in 1 .. Len(wire') : wire'[i] = accepted'[i]
        BY <1>3, <3>1 DEF QueueInv
      <3>5. ~(~done' /\ response_queue' # <<>>)
        BY <1>3, <2>2
      <3> QED
        BY <3>2, <3>3, <3>4, <3>5
    <2> QED
      BY <2>1, <2>2
  <1>7. TypeOK'
    <2>1. wpc' \in Handler \cup {"next"} /\ disconnects' \in Nat
      BY DEF WriteDone, Handler
    <2> QED
      BY <1>3, <1>4, <1>6, <2>1 DEF WriteDone, callvars, clientvars
  <1> QED
    BY <1>5, <1>6, <1>7 DEF QueueInv

(* No other step touches the queue, except that some set done. *)
LEMMA QueueUnchanged ==
    ASSUME Inv, UNCHANGED outvars, done => done'
    PROVE  QueueInv'
  BY DEF Inv, TypeOK, QueueInv, outvars

LEMMA NextInv == Inv /\ [Next]_vars => Inv'
  <1> SUFFICES ASSUME Inv, [Next]_vars PROVE Inv'
    OBVIOUS
  <1> USE DEF Inv, TypeOK
  <1> USE DEF outvars, callvars, endvars, clientvars
  <1>1. CASE Client
    <2>1. CASE ClientCalls
      BY <2>1, QueueUnchanged DEF ClientCalls
    <2>2. ASSUME NEW m \in {"request", "data", "close"}, ClientSends(m)
          PROVE  Inv'
      <3>1. inbox' \in Seq({"request", "data", "close"})
        BY <2>2, AppendFacts DEF ClientSends
      <3> QED
        BY <2>2, <3>1, QueueUnchanged DEF ClientSends
    <2>3. CASE ClientLeaves
      BY <2>3, QueueUnchanged DEF ClientLeaves
    <2> QED
      BY <1>1, <2>1, <2>2, <2>3 DEF Client
  <1>2. CASE CallArrives \/ CallRefused \/ ReadFails
    BY <1>2, QueueUnchanged DEF CallArrives, CallRefused, ReadFails
  <1>3. CASE Read
    <2>1. inbox # <<>> => Tail(inbox) \in Seq({"request", "data", "close"})
      BY TailFacts
    <2>2. CASE ReadRequest
      BY <2>1, <2>2, QueueUnchanged DEF ReadRequest, Handler
    <2>3. CASE ReadData
      BY <2>1, <2>3, QueueUnchanged DEF ReadData, AfterData, Handler
    <2>4. CASE ReadClose
      BY <2>1, <2>4, QueueUnchanged DEF ReadClose, Handler
    <2> QED
      BY <1>3, <2>2, <2>3, <2>4 DEF Read
  <1>4. CASE WriteDone
    BY <1>4, WriteDoneInv
  <1>5. CASE ConnectReturns
    <2>1. Response \in Msg
      BY DEF Msg
    <2> QED
      BY <1>5, <2>1, EnqueueInv DEF ConnectReturns
  <1>6. CASE MessageReturns \/ CallbackReturns \/ HandlerThrows
    BY <1>6, QueueUnchanged
       DEF MessageReturns, CallbackReturns, HandlerThrows, Rearmed
  <1>7. CASE DisconnectReturns
    BY <1>7, QueueUnchanged DEF DisconnectReturns, FinishOnce
  <1>8. ASSUME NEW t \in Thread, NEW m \in Payload, SendMessage(t, m)
        PROVE  Inv'
    BY <1>8, QueueUnchanged DEF SendMessage
  <1>9. ASSUME NEW t \in Thread, CloseCall(t)
        PROVE  Inv'
    BY <1>9, QueueUnchanged DEF CloseCall
  <1>10. ASSUME NEW t \in Thread, QueueResponse(t)
         PROVE  Inv'
    <2>1. pend[t] \in Msg
      BY <1>10 DEF QueueResponse, HasMessage, Msg
    <2> QED
      BY <1>10, <2>1, EnqueueInv DEF QueueResponse, HasMessage
  <1>11. CASE UNCHANGED vars
    BY <1>11, QueueUnchanged DEF vars
  <1> QED
    BY <1>1, <1>2, <1>3, <1>4, <1>5, <1>6, <1>7, <1>8, <1>9, <1>10, <1>11
       DEF Next, HandlerReturns

LEMMA Invariance == Spec => []Inv
  BY InitInv, NextInv, PTL DEF Spec

(* The fields of a connection hold values of their kinds. *)
THEOREM TypeCorrect == Spec => []TypeOK
  BY Invariance, PTL DEF Inv

(* The message send_cb pops is the one whose write completed, and the      *)
(* stream never has two writes: with any number of threads, whatever the   *)
(* handlers do.                                                            *)
THEOREM OneWriteAtATime == Spec => []FrontIsInFlight
  <1>1. Inv => FrontIsInFlight
    <2> SUFFICES ASSUME Inv PROVE FrontIsInFlight
      OBVIOUS
    <2> USE DEF Inv, TypeOK
    <2>1. /\ Len(response_queue) \in Nat
          /\ response_queue = <<>> <=> Len(response_queue) = 0
          /\ Len(accepted) \in Nat
          /\ Len(wire) \in Nat
      BY EmptyFacts
    <2>2. ASSUME Len(wire) = acked + 1
          PROVE  response_queue # <<>> /\ Head(response_queue) = wire[Len(wire)]
      <3>1. response_queue # <<>>
        BY <2>1, <2>2 DEF QueueInv
      <3>2. Head(response_queue) = response_queue[1]
        BY <3>1, TailFacts
      <3>3. response_queue[1] = accepted[acked + 1]
        BY <2>1, <3>1 DEF QueueInv
      <3>4. wire[acked + 1] = accepted[acked + 1]
        BY <2>1, <2>2 DEF QueueInv
      <3> QED
        BY <2>2, <3>1, <3>2, <3>3, <3>4
    <2> QED
      BY <2>2 DEF QueueInv, FrontIsInFlight
  <1> QED
    BY <1>1, Invariance, PTL

-----------------------------------------------------------------------------
(* The connection implements its abstract specification.                   *)

LEMMA OutboxFlow ==
    ASSUME Inv'
    PROVE  Outbox!Flow(accepted', wire', acked', done')
  <1> USE DEF Inv, TypeOK
  <1>1. /\ Len(response_queue') \in Nat
        /\ response_queue' = <<>> <=> Len(response_queue') = 0
        /\ Len(accepted') \in Nat
    BY EmptyFacts
  <1>2. /\ Len(accepted') = acked' + Len(response_queue')
        /\ Len(wire') \in acked' .. (acked' + 1)
        /\ Len(wire') <= Len(accepted')
        /\ ~done' /\ response_queue' # <<>> => Len(wire') = acked' + 1
        /\ acked' \in Nat
    BY DEF QueueInv
  <1>3. acked' < Len(accepted') => response_queue' # <<>>
    BY <1>1, <1>2
  <1> QED
    BY <1>2, <1>3 DEF Outbox!Flow

LEMMA OutboxAccepts ==
    ASSUME Inv, Inv', NEW m \in Msg, Enqueue(m), done' = done
    PROVE  Outbox!Accept(m)
  <1> USE DEF Inv, TypeOK, Enqueue
  <1>1. wire' \in Outbox!MayHandOver(wire, accepted')
    <2>1. CASE response_queue = <<>>
      <3>1. Len(accepted) = acked /\ Len(wire) = acked
        BY <2>1, EmptyFacts DEF QueueInv
      <3>2. Len(accepted') = acked + 1 /\ accepted'[acked + 1] = m
        BY <3>1, AppendFacts
      <3>3. wire' = Append(wire, accepted'[Len(wire) + 1])
        BY <2>1, <3>1, <3>2 DEF AfterPush
      <3>4. Len(wire) < Len(accepted')
        BY <3>1, <3>2
      <3> QED
        BY <3>3, <3>4 DEF Outbox!MayHandOver
    <2>2. CASE response_queue # <<>>
      BY <2>2 DEF AfterPush, Outbox!MayHandOver
    <2> QED
      BY <2>1, <2>2
  <1> QED
    BY <1>1, OutboxFlow DEF Outbox!Accept

LEMMA OutboxAcknowledges ==
    ASSUME Inv, Inv', WriteDone
    PROVE  Outbox!Acknowledge
  <1> USE DEF Inv, TypeOK
  <1>1. acked < Len(wire)
    BY DEF WriteDone
  <1>2. wire' \in Outbox!MayHandOver(wire, accepted)
    <2> DEFINE rest == Tail(response_queue)
    <2>1. \/ wire' = wire
          \/ rest # <<>> /\ wire' = Append(wire, Head(rest))
      BY DEF WriteDone, AfterWrite
    <2>2. CASE rest # <<>> /\ wire' = Append(wire, Head(rest))
      <3> Head(rest) \in Msg
        BY <2>2, TailFacts
      <3> HIDE DEF rest
      <3>1. Len(wire') = Len(wire) + 1 /\ Len(wire) \in Nat
        BY <2>2, AppendFacts
      <3>2. Len(wire') <= Len(accepted') /\ accepted' = accepted
        BY DEF QueueInv, WriteDone
      <3>3. wire'[Len(wire) + 1] = accepted[Len(wire) + 1]
        <4>1. Len(wire) + 1 \in 1 .. Len(wire')
          BY <3>1
        <4>2. \A i \in 1 .. Len(wire') : wire'[i] = accepted'[i]
          BY DEF QueueInv
        <4> QED
          BY <3>2, <4>1, <4>2
      <3>4. wire'[Len(wire) + 1] = Head(rest)
        BY <2>2, AppendFacts
      <3>5. Len(wire) < Len(accepted)
        BY <3>1, <3>2, EmptyFacts
      <3> QED
        BY <2>2, <3>3, <3>4, <3>5 DEF Outbox!MayHandOver
    <2> QED
      BY <2>1, <2>2 DEF Outbox!MayHandOver
  <1>3. UNCHANGED <<accepted, done>> /\ acked' = acked + 1
    BY DEF WriteDone
  <1> QED
    BY <1>1, <1>2, <1>3, OutboxFlow DEF Outbox!Acknowledge

(* Every step of a connection is a step of the outbox or leaves it alone:  *)
(* messages reach the stream in the order they were accepted, and no       *)
(* accepted message waits while the stream is idle, until done is set.     *)
THEOREM Refinement == Spec => ImplementsOutbox
  <1>1. Init => Outbox!Init
    BY DEF Init, Outbox!Init
  <1>2. Inv /\ Inv' /\ [Next]_vars => [Outbox!Next]_(Outbox!vars)
    <2> SUFFICES ASSUME Inv, Inv', [Next]_vars
                 PROVE  Outbox!Next \/ UNCHANGED Outbox!vars
      OBVIOUS
    <2> USE DEF outvars, callvars, endvars, clientvars
    <2>1. CASE Client \/ CallArrives \/ CallRefused \/ Read \/ ReadFails
      BY <2>1 DEF Client, ClientCalls, ClientSends, ClientLeaves, CallArrives,
                  CallRefused, Read, ReadRequest, ReadData, ReadClose,
                  ReadFails, Outbox!vars
    <2>2. CASE WriteDone
      BY <2>2, OutboxAcknowledges DEF Outbox!Next
    <2>3. CASE ConnectReturns
      <3>1. Response \in Msg
        BY DEF Msg
      <3> QED
        BY <2>3, <3>1, OutboxAccepts DEF ConnectReturns, Outbox!Next
    <2>4. CASE MessageReturns \/ CallbackReturns \/ HandlerThrows
      BY <2>4 DEF MessageReturns, CallbackReturns, HandlerThrows, Outbox!vars
    <2>5. CASE DisconnectReturns
      BY <2>5 DEF DisconnectReturns, Outbox!Next, Outbox!Shut
    <2>6. ASSUME NEW t \in Thread
          PROVE  /\ \A m \in Payload : SendMessage(t, m) => UNCHANGED Outbox!vars
                 /\ CloseCall(t) => UNCHANGED Outbox!vars
                 /\ QueueResponse(t) => Outbox!Next
      <3>1. QueueResponse(t) => pend[t] \in Msg
        BY DEF Inv, TypeOK, QueueResponse, HasMessage, Msg
      <3>2. QueueResponse(t) => Outbox!Next
        BY <3>1, OutboxAccepts DEF QueueResponse, HasMessage, Outbox!Next
      <3> QED
        BY <3>2 DEF SendMessage, CloseCall, Outbox!vars
    <2>7. CASE UNCHANGED vars
      BY <2>7 DEF vars, Outbox!vars
    <2> QED
      BY <2>1, <2>2, <2>3, <2>4, <2>5, <2>6, <2>7 DEF Next, HandlerReturns
  <1> QED
    BY <1>1, <1>2, Invariance, PTL DEF Spec, ImplementsOutbox, Outbox!Spec

-----------------------------------------------------------------------------
(* The end of a connection.                                                *)

(* A disconnect that is being handled has been counted, and one that has   *)
(* been handled has set done.                                              *)
EndInv ==
    /\ finishes \in {0, 1}
    /\ done <=> finishes = 1
    /\ done => disconnects > 0
    /\ wpc \in {"disc_read", "disc_write"} => disconnects > 0

LEMMA EndInvariance == Spec => []EndInv
  <1>1. Init => EndInv
    BY DEF Init, EndInv
  <1>2. TypeOK /\ EndInv /\ [Next]_vars => EndInv'
    <2> SUFFICES ASSUME TypeOK, EndInv, [Next]_vars PROVE EndInv'
      OBVIOUS
    <2> USE DEF TypeOK, EndInv, outvars, callvars, endvars, clientvars
    <2>1. CASE Client \/ CallArrives \/ CallRefused \/ ReadFails
      BY <2>1 DEF Client, ClientCalls, ClientSends, ClientLeaves, CallArrives,
                  CallRefused, ReadFails
    <2>2. CASE Read
      BY <2>2 DEF Read, ReadRequest, ReadData, ReadClose, AfterData
    <2>3. CASE WriteDone
      BY <2>3 DEF WriteDone
    <2>4. CASE ConnectReturns \/ MessageReturns \/ CallbackReturns \/ HandlerThrows
      BY <2>4 DEF ConnectReturns, MessageReturns, CallbackReturns, HandlerThrows
    <2>5. CASE DisconnectReturns
      BY <2>5 DEF DisconnectReturns, Returning, FinishOnce
    <2>6. ASSUME NEW t \in Thread,
                 \/ \E m \in Payload : SendMessage(t, m)
                 \/ CloseCall(t)
                 \/ QueueResponse(t)
          PROVE  EndInv'
      BY <2>6 DEF SendMessage, CloseCall, QueueResponse, HasMessage
    <2>7. CASE UNCHANGED vars
      BY <2>7 DEF vars
    <2> QED
      BY <2>1, <2>2, <2>3, <2>4, <2>5, <2>6, <2>7 DEF Next, HandlerReturns
  <1> QED
    BY <1>1, <1>2, TypeCorrect, PTL DEF Spec

(* Finish is called at most once, with done, and after on_disconnect, even *)
(* when both sides close and when handlers throw.                          *)
THEOREM FinishOnceHolds == Spec => []FinishedOnceAfterDisconnect
  BY EndInvariance, PTL DEF EndInv, FinishedOnceAfterDisconnect

(* With handlers that return, a disconnect is being handled or has set done. *)
DisconnectedInv ==
    disconnects > 0 => done \/ wpc \in {"disc_read", "disc_write"}

(* Handlers that do not throw get no message of the client after they have *)
(* been told of the disconnect, whichever side ended the connection.       *)
THEOREM NoLateMessage ==
    ASSUME MayThrow = FALSE
    PROVE  Spec => NoMessageAfterDisconnect
  <1>1. Init => DisconnectedInv
    BY DEF Init, DisconnectedInv
  <1>2. /\ TypeOK /\ DisconnectedInv /\ [Next]_vars => DisconnectedInv'
        /\ TypeOK /\ DisconnectedInv /\ [Next]_vars =>
              [wpc # "on_message" /\ wpc' = "on_message" => disconnects = 0]_vars
    <2> SUFFICES ASSUME TypeOK, DisconnectedInv, [Next]_vars
                 PROVE  /\ DisconnectedInv'
                        /\ wpc # "on_message" /\ wpc' = "on_message" =>
                              disconnects = 0
      OBVIOUS
    <2> USE DEF TypeOK, DisconnectedInv, outvars, callvars, endvars, clientvars
    <2>1. CASE Client \/ CallArrives \/ CallRefused \/ ReadFails
      BY <2>1 DEF Client, ClientCalls, ClientSends, ClientLeaves, CallArrives,
                  CallRefused, ReadFails
    <2>2. CASE Read
      BY <2>2 DEF Read, ReadRequest, ReadData, ReadClose, AfterData
    <2>3. CASE WriteDone
      <3>1. wpc' # "on_message"
        BY <2>3 DEF WriteDone
      <3>2. wpc = "next" /\ done' = done
        BY <2>3 DEF WriteDone
      <3>3. disconnects' = disconnects \/ wpc' = "disc_write"
        BY <2>3 DEF WriteDone
      <3> QED
        BY <3>1, <3>2, <3>3
    <2>4. CASE ConnectReturns \/ MessageReturns \/ CallbackReturns
      BY <2>4 DEF ConnectReturns, MessageReturns, CallbackReturns, Returning
    <2>5. CASE DisconnectReturns
      BY <2>5 DEF DisconnectReturns
    <2>6. CASE HandlerThrows
      BY <2>6, MayThrow = FALSE DEF HandlerThrows
    <2>7. ASSUME NEW t \in Thread,
                 \/ \E m \in Payload : SendMessage(t, m)
                 \/ CloseCall(t)
                 \/ QueueResponse(t)
          PROVE  DisconnectedInv' /\ wpc' = wpc
      BY <2>7 DEF SendMessage, CloseCall, QueueResponse, HasMessage
    <2>8. CASE UNCHANGED vars
      BY <2>8 DEF vars
    <2> QED
      BY <2>1, <2>2, <2>3, <2>4, <2>5, <2>6, <2>7, <2>8
         DEF Next, HandlerReturns
  <1> QED
    BY <1>1, <1>2, TypeCorrect, PTL DEF Spec, NoMessageAfterDisconnect

(* The worker is in a call only while it runs a handler that makes calls.  *)
CallInv == pend[Worker] # None => wpc \in SendsIn /\ ~done

LEMMA CallInvariance == Spec => []CallInv
  <1>1. Init => CallInv
    BY DEF Init, CallInv, Thread
  <1>2. TypeOK /\ CallInv /\ [Next]_vars => CallInv'
    <2> SUFFICES ASSUME TypeOK, CallInv, [Next]_vars PROVE CallInv'
      OBVIOUS
    <2> USE DEF TypeOK, CallInv, outvars, callvars, endvars, clientvars
    <2>1. CASE Client \/ CallArrives \/ CallRefused \/ ReadFails
      BY <2>1 DEF Client, ClientCalls, ClientSends, ClientLeaves, CallArrives,
                  CallRefused, ReadFails
    <2>2. wpc = "next" => pend[Worker] = None
      BY ConstantsOK DEF Handler
    <2>3. CASE Read \/ WriteDone
      BY <2>2, <2>3 DEF Read, ReadRequest, ReadData, ReadClose, WriteDone
    <2>4. CASE HandlerReturns \/ HandlerThrows
      BY <2>4 DEF HandlerReturns, ConnectReturns, MessageReturns,
                  CallbackReturns, DisconnectReturns, HandlerThrows, Returning
    <2>5. ASSUME NEW t \in Thread,
                 \/ \E m \in Payload : SendMessage(t, m)
                 \/ CloseCall(t)
                 \/ QueueResponse(t)
          PROVE  CallInv'
      BY <2>5 DEF SendMessage, CloseCall, QueueResponse, HasMessage, MayCall, Thread
    <2>6. CASE UNCHANGED vars
      BY <2>6 DEF vars
    <2> QED
      BY <2>1, <2>3, <2>4, <2>5, <2>6 DEF Next
  <1> QED
    BY <1>1, <1>2, TypeCorrect, PTL DEF Spec

(* A connection that has not been given to a handler has not ended, and    *)
(* on_connect runs before anything can end it.                             *)
BeginInv ==
    /\ rd \in {"call", "request"} => ~opened
    /\ rd = "message" => opened
    /\ ~opened => ~done /\ acked = Len(wire) /\ wpc = "next"
    /\ wpc = "on_connect" => ~done
    /\ \A t \in Thread : pend[t] # None => opened

(* For the worker the check of done and the push are one: nothing it does  *)
(* gives a message to the stream after Finish.                             *)
THEOREM NoLateWrite == Spec => NoWriteAfterFinish
  <1>1. Init => BeginInv
    BY DEF Init, BeginInv
  <1>2. /\ TypeOK /\ BeginInv /\ EndInv /\ CallInv /\ [Next]_vars => BeginInv'
        /\ TypeOK /\ BeginInv /\ EndInv /\ CallInv /\ [Next]_vars =>
              [wire' # wire /\ finishes > 0 => \E t \in App : Pushes(t)]_vars
    <2> SUFFICES ASSUME TypeOK, BeginInv, EndInv, CallInv, [Next]_vars
                 PROVE  /\ BeginInv'
                        /\ wire' # wire /\ finishes > 0 => \E t \in App : Pushes(t)
      OBVIOUS
    <2> USE DEF TypeOK, BeginInv, EndInv, outvars, callvars, endvars, clientvars
    <2>1. CASE Client \/ CallArrives \/ CallRefused \/ ReadFails
      BY <2>1 DEF Client, ClientCalls, ClientSends, ClientLeaves, CallArrives,
                  CallRefused, ReadFails
    <2>2. CASE Read
      BY <2>2 DEF Read, ReadRequest, ReadData, ReadClose, AfterData
    <2>3. CASE WriteDone
      <3>1. opened /\ opened' /\ rd' = rd /\ wpc' # "on_connect"
        BY <2>3, EmptyFacts DEF WriteDone
      <3>2. wire' # wire => ~done
        BY <2>3 DEF WriteDone, AfterWrite
      <3> QED
        BY <3>1, <3>2
    <2>4. CASE ConnectReturns
      BY <2>4 DEF ConnectReturns, Returning
    <2>5. CASE MessageReturns \/ CallbackReturns \/ HandlerThrows
      BY <2>5 DEF MessageReturns, CallbackReturns, HandlerThrows, Returning,
                  Rearmed, Handler
    <2>6. CASE DisconnectReturns
      BY <2>6 DEF DisconnectReturns, Returning
    <2>7. ASSUME NEW t \in Thread,
                 (\E m \in Payload : SendMessage(t, m)) \/ CloseCall(t)
          PROVE  BeginInv' /\ wire' = wire
      BY <2>7 DEF SendMessage, CloseCall, MayCall
    <2>8. ASSUME NEW t \in Thread, QueueResponse(t)
          PROVE  BeginInv' /\ (finishes > 0 => \E u \in App : Pushes(u))
      <3>1. BeginInv'
        BY <2>8 DEF QueueResponse, HasMessage
      <3>2. Pushes(t)
        BY <2>8 DEF QueueResponse, HasMessage, Pushes
      <3>3. CASE t = Worker
        BY <2>8, <3>3 DEF CallInv, QueueResponse, HasMessage
      <3>4. CASE t \in App
        BY <3>1, <3>2, <3>4
      <3> QED
        BY <3>1, <3>3, <3>4 DEF Thread
    <2>9. CASE UNCHANGED vars
      BY <2>9 DEF vars
    <2> QED
      BY <2>1, <2>2, <2>3, <2>4, <2>5, <2>6, <2>7, <2>8, <2>9
         DEF Next, HandlerReturns
  <1> QED
    BY <1>1, <1>2, TypeCorrect, EndInvariance, CallInvariance, PTL
       DEF Spec, NoWriteAfterFinish

=============================================================================
