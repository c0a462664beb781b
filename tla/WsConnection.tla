---------------------------- MODULE WsConnection ----------------------------
(***************************************************************************)
(* One WebSocket connection of the server (class ws_connection of          *)
(* grpcbackend_cpp/src/handler.cpp), from the RPC it waits for to its end. *)
(*                                                                         *)
(* Two kinds of threads touch it.  The WORKER runs every completion of the *)
(* connection's completion queue, one after the other: the call, the       *)
(* reads, the writes.  From a completion it calls the user's handlers      *)
(* on_connect, on_message, on_disconnect and the callback given with a     *)
(* message, and a handler may call send_message and close in turn.  APP    *)
(* threads hold the connection as well (workers of other connections that  *)
(* broadcast to it, threads of the application) and make the same calls at *)
(* any time.  The two sides meet at response_queue, guarded by             *)
(* response_queue_lck, and at the atomic flag done, which is read outside  *)
(* the lock.                                                               *)
(*                                                                         *)
(* The client and the gRPC stream are the environment: the client's        *)
(* messages arrive in order, every Read and Write armed completes once,    *)
(* with ok or not, and send_cb ignores the ok of a write.                  *)
(***************************************************************************)
EXTENDS Naturals, Sequences

CONSTANTS
    App,        \* threads other than the worker that hold the connection
    Worker,     \* the thread that runs the connection's completion queue
    Payload,    \* the messages given to send_message, each at most once
    SendsIn,    \* the places in which the user's handlers send or close
    MayThrow,   \* whether the user's handlers may throw an exception
    MaxCloses,  \* bound: calls of close() that pass its check of done
    MaxInbox    \* bound: client messages under way

Response == "response"   \* the headers message queued at the end of on_connect
Close == "close"         \* the message close() queues
None == "none"

Handler == {"on_connect", "on_message", "disc_read", "disc_write", "callback"}

ASSUME ConstantsOK ==
    /\ Worker \notin App
    /\ Payload \cap {Response, Close, None} = {}
    /\ SendsIn \subseteq Handler
    /\ MayThrow \in BOOLEAN
    /\ MaxCloses \in Nat
    /\ MaxInbox \in Nat

Thread == App \cup {Worker}
Msg == Payload \cup {Response, Close}

VARIABLES
    wpc,            \* what the worker does for this connection
    rd,             \* the completion the reading side waits for
    opened,         \* a handler has been given the connection
    response_queue, \* messages not yet reported back by the stream
    pend,           \* per thread, a message past the check of done
    done,           \* the flag that says Finish has been claimed
    finishes,       \* calls of stream.Finish
    disconnects,    \* calls of the handler's on_disconnect
    closes,         \* calls of close() that passed the check
    accepted,       \* history: every message pushed to response_queue
    wire,           \* history: every message given to stream.Write
    acked,          \* how many of those writes have completed
    client,         \* the client's side of the stream
    inbox           \* the client's messages not yet read

outvars == <<response_queue, accepted, wire, acked>>
callvars == <<pend, closes>>
endvars == <<done, finishes, disconnects>>
clientvars == <<client, inbox>>
vars == <<wpc, rd, opened, outvars, callvars, endvars, clientvars>>

Init ==
    /\ wpc = "next"
    /\ rd = "call"
    /\ opened = FALSE
    /\ response_queue = <<>>
    /\ pend = [t \in Thread |-> None]
    /\ done = FALSE
    /\ finishes = 0
    /\ disconnects = 0
    /\ closes = 0
    /\ accepted = <<>>
    /\ wire = <<>>
    /\ acked = 0
    /\ client = "new"
    /\ inbox = <<>>

-----------------------------------------------------------------------------
(* What the helpers below would be with a mistake in the code, to see that *)
(* the properties notice.                                                  *)

BugWritesAtOnce(m) == Append(wire, m)
BugWritesAfterDone(rest) ==
    IF rest # <<>> THEN Append(wire, Head(rest)) ELSE wire
BugForgetsNext(rest) == wire
BugWritesNewest(rest) ==
    IF ~done /\ rest # <<>> THEN Append(wire, rest[Len(rest)]) ELSE wire
BugDeliversWhenDone == "on_message"
BugForgetsToRead == "none"
BugFinishesAgain == finishes + 1

-----------------------------------------------------------------------------
(* The outgoing queue.                                                     *)

(* queue_response writes only a message that finds the queue empty. *)
AfterPush(m) == IF response_queue = <<>> THEN Append(wire, m) ELSE wire

(* send_cb writes the new front, unless the connection is done. *)
AfterWrite(rest) ==
    IF ~done /\ rest # <<>> THEN Append(wire, Head(rest)) ELSE wire

Enqueue(m) ==
    /\ response_queue' = Append(response_queue, m)
    /\ accepted' = Append(accepted, m)
    /\ wire' = AfterPush(m)
    /\ acked' = acked

(* response_queue_lck is held from one step to the next only while send_cb *)
(* calls on_disconnect.                                                    *)
Locked == wpc = "disc_write"

-----------------------------------------------------------------------------
(* The client.                                                             *)

ClientCalls ==
    /\ client = "new"
    /\ client' = "called"
    /\ UNCHANGED <<wpc, rd, opened, outvars, callvars, endvars, inbox>>

ClientSends(m) ==
    /\ Len(inbox) < MaxInbox
    /\ inbox' = Append(inbox, m)
    /\ \/ client = "called" /\ m = "request" /\ client' = "open"
       \/ client = "open" /\ m = "data" /\ UNCHANGED client
       \/ client = "open" /\ m = "close" /\ client' = "closing"
    /\ UNCHANGED <<wpc, rd, opened, outvars, callvars, endvars>>

ClientLeaves ==
    /\ client \in {"called", "open", "closing"}
    /\ client' = "gone"
    /\ UNCHANGED <<wpc, rd, opened, outvars, callvars, endvars, inbox>>

-----------------------------------------------------------------------------
(* The reading side: completions the worker takes from its queue.          *)

(* start: the call arrives, or the server shuts down and it never will. *)
CallArrives ==
    /\ wpc = "next" /\ rd = "call" /\ client # "new"
    /\ rd' = "request"
    /\ UNCHANGED <<wpc, opened, outvars, callvars, endvars, clientvars>>

CallRefused ==
    /\ wpc = "next" /\ rd = "call"
    /\ rd' = "none"
    /\ UNCHANGED <<wpc, opened, outvars, callvars, endvars, clientvars>>

(* on_connect arms the first Read of a message before it calls the handler. *)
ReadRequest ==
    /\ wpc = "next" /\ rd = "request" /\ inbox # <<>>
    /\ inbox' = Tail(inbox)
    /\ rd' = "message"
    /\ opened' = TRUE
    /\ wpc' = "on_connect"
    /\ UNCHANGED <<outvars, callvars, endvars, client>>

(* on_message hands data to the handler only while the connection is not done. *)
AfterData == IF done THEN "next" ELSE "on_message"

ReadData ==
    /\ wpc = "next" /\ rd = "message" /\ inbox # <<>>
    /\ Head(inbox) = "data"
    /\ inbox' = Tail(inbox)
    /\ rd' = "none"
    /\ wpc' = AfterData
    /\ UNCHANGED <<opened, outvars, callvars, endvars, client>>

ReadClose ==
    /\ wpc = "next" /\ rd = "message" /\ inbox # <<>>
    /\ Head(inbox) = "close"
    /\ inbox' = Tail(inbox)
    /\ rd' = "none"
    /\ wpc' = "disc_read"
    /\ disconnects' = disconnects + 1
    /\ UNCHANGED <<opened, outvars, callvars, done, finishes, client>>

(* A Read that completes without a message: its continuation only returns. *)
ReadFails ==
    /\ wpc = "next" /\ rd \in {"request", "message"}
    /\ client = "gone" \/ finishes > 0
    /\ rd' = "none"
    /\ UNCHANGED <<wpc, opened, outvars, callvars, endvars, clientvars>>

-----------------------------------------------------------------------------
(* The writing side: send_cb up to the first call it makes.                *)

WriteDone ==
    LET m == Head(response_queue) IN
    /\ wpc = "next" /\ acked < Len(wire)
    /\ acked' = acked + 1
    /\ response_queue' = Tail(response_queue)
    /\ wire' = AfterWrite(Tail(response_queue))
    /\ wpc' = IF m = Close THEN "disc_write"
              ELSE IF m = Response THEN "next" ELSE "callback"
    /\ disconnects' = IF m = Close THEN disconnects + 1 ELSE disconnects
    /\ UNCHANGED <<rd, opened, accepted, callvars, done, finishes, clientvars>>

-----------------------------------------------------------------------------
(* The handlers return, or throw.  A handler returns only between calls.   *)

Returning(h) == wpc = h /\ pend[Worker] = None

ConnectReturns ==
    /\ Returning("on_connect")
    /\ wpc' = "next"
    /\ Enqueue(Response)
    /\ UNCHANGED <<rd, opened, callvars, endvars, clientvars>>

Rearmed == "message"

MessageReturns ==
    /\ Returning("on_message")
    /\ wpc' = "next"
    /\ rd' = Rearmed
    /\ UNCHANGED <<opened, outvars, callvars, endvars, clientvars>>

FinishOnce == IF done THEN finishes ELSE finishes + 1

(* done.exchange(true) lets one of the two callers of Finish through. *)
DisconnectReturns ==
    /\ Returning("disc_read") \/ Returning("disc_write")
    /\ wpc' = "next"
    /\ done' = TRUE
    /\ finishes' = FinishOnce
    /\ UNCHANGED <<rd, opened, outvars, callvars, disconnects, clientvars>>

CallbackReturns ==
    /\ Returning("callback")
    /\ wpc' = "next"
    /\ UNCHANGED <<rd, opened, outvars, callvars, endvars, clientvars>>

(* The exception leaves the completion (async_task logs it), so nothing    *)
(* that follows the call of the handler is done; send_cb itself catches    *)
(* the exception of a callback.                                            *)
HandlerThrows ==
    /\ MayThrow
    /\ \E h \in Handler : Returning(h)
    /\ wpc' = "next"
    /\ UNCHANGED <<rd, opened, outvars, callvars, endvars, clientvars>>

-----------------------------------------------------------------------------
(* send_message and close, in any thread: the check of done, and later the *)
(* push under the lock.                                                    *)

MayCall(t) ==
    /\ opened
    /\ pend[t] = None
    /\ t = Worker => wpc \in SendsIn

Unused(m) ==
    /\ \A i \in 1 .. Len(accepted) : accepted[i] # m
    /\ \A t \in Thread : pend[t] # m

SendMessage(t, m) ==
    /\ MayCall(t) /\ Unused(m)
    /\ ~done
    /\ pend' = [pend EXCEPT ![t] = m]
    /\ UNCHANGED <<wpc, rd, opened, outvars, closes, endvars, clientvars>>

CloseCall(t) ==
    /\ MayCall(t) /\ closes < MaxCloses
    /\ ~done
    /\ pend' = [pend EXCEPT ![t] = Close]
    /\ closes' = closes + 1
    /\ UNCHANGED <<wpc, rd, opened, outvars, endvars, clientvars>>

HasMessage(t) == pend[t] # None

QueueResponse(t) ==
    /\ HasMessage(t)
    /\ ~Locked
    /\ Enqueue(pend[t])
    /\ pend' = [pend EXCEPT ![t] = None]
    /\ UNCHANGED <<wpc, rd, opened, closes, endvars, clientvars>>

-----------------------------------------------------------------------------
HandlerReturns ==
    ConnectReturns \/ MessageReturns \/ DisconnectReturns \/ CallbackReturns

Read == ReadRequest \/ ReadData \/ ReadClose

Client ==
    ClientCalls \/ (\E m \in {"request", "data", "close"} : ClientSends(m))
                \/ ClientLeaves

Next ==
    \/ Client
    \/ CallArrives \/ CallRefused
    \/ Read \/ ReadFails
    \/ WriteDone
    \/ HandlerReturns \/ HandlerThrows
    \/ \E t \in Thread :
          \/ \E m \in Payload : SendMessage(t, m)
          \/ CloseCall(t)
          \/ QueueResponse(t)

Spec == Init /\ [][Next]_vars

(***************************************************************************)
(* Handlers return and a thread that waits for the lock gets it.  A        *)
(* completion queue is first in, first out, so a completion that stays     *)
(* ready is taken however often the worker is busy with others: strong     *)
(* fairness.  The client owes nothing.                                     *)
(***************************************************************************)
Fairness ==
    /\ WF_vars(HandlerReturns)
    /\ \A t \in Thread : WF_vars(QueueResponse(t))
    /\ SF_vars(Read)
    /\ SF_vars(WriteDone)

FairSpec == Spec /\ Fairness

-----------------------------------------------------------------------------
(* Every variable holds values of the kind the code's fields hold. *)
TypeOK ==
    /\ wpc \in Handler \cup {"next"}
    /\ rd \in {"call", "request", "message", "none"}
    /\ opened \in BOOLEAN
    /\ response_queue \in Seq(Msg)
    /\ pend \in [Thread -> Payload \cup {Close, None}]
    /\ done \in BOOLEAN
    /\ finishes \in Nat
    /\ disconnects \in Nat
    /\ closes \in Nat
    /\ accepted \in Seq(Msg)
    /\ wire \in Seq(Msg)
    /\ acked \in Nat
    /\ client \in {"new", "called", "open", "closing", "gone"}
    /\ inbox \in Seq({"request", "data", "close"})

(* gRPC allows one outstanding Write: the stream never has two, and the    *)
(* message send_cb takes off the queue when a write completes is the one   *)
(* that was written.                                                       *)
FrontIsInFlight ==
    /\ Len(wire) \in acked .. (acked + 1)
    /\ Len(wire) = acked + 1 =>
          /\ response_queue # <<>>
          /\ Head(response_queue) = wire[Len(wire)]

(* Finish is called once at most, exactly when done is set, and never      *)
(* before the handler has been told of the disconnect, although both the   *)
(* reading and the writing side end the connection.                        *)
FinishedOnceAfterDisconnect ==
    /\ finishes \in {0, 1}
    /\ done <=> finishes = 1
    /\ done => disconnects > 0

(* With handlers that do not throw, a handler told of the disconnect is    *)
(* not given another message of the client.                                *)
NoMessageAfterDisconnect ==
    [][wpc # "on_message" /\ wpc' = "on_message" => disconnects = 0]_vars

(* Once Finish has been called nothing is given to the stream any more but *)
(* by another thread that had found the connection not done before: never  *)
(* by a completion, and never by a call of the connection's own handlers.  *)
Pushes(t) == pend[t] # None /\ pend'[t] = None
NoWriteAfterFinish ==
    [][wire' # wire /\ finishes > 0 => \E t \in App : Pushes(t)]_vars

(* The queue implements the first-in first-out outbox of WsOutbox, which   *)
(* stops promising progress once done is set.                              *)
Outbox == INSTANCE WsOutbox WITH sent <- wire, shut <- done
ImplementsOutbox == Outbox!Spec

Queued(m) == \E i \in 1 .. Len(response_queue) : response_queue[i] = m

(* A close ends in the disconnect notification, from either side: a CLOSE  *)
(* that was queued is written in the end, and for that of a client that    *)
(* stays the reading side comes back.                                      *)
CloseDisconnects ==
    /\ Queued(Close) ~> disconnects > 0
    /\ (opened /\ client = "closing") ~> (disconnects > 0 \/ client = "gone")

(* A message that was queued leaves the queue, unless the connection ends; *)
(* so nothing ever waits in a queue that no write completion will visit.   *)
EveryMessageSettles == \A m \in Payload : Queued(m) ~> (~Queued(m) \/ done)

=============================================================================
