------------------------------- MODULE Server -------------------------------
(***************************************************************************)
(* Start and shutdown of the server: the threads of the completion queues, *)
(* the calls they serve, and the objects they use (server.cpp, and         *)
(* async_task of handler.cpp).                                             *)
(*                                                                         *)
(* shutdown_server closes the members of the hub, stops the gRPC server,   *)
(* which waits for the calls that are under way and cuts them when the     *)
(* deadline passes, then shuts queue after queue and joins its thread, and *)
(* only then destroys the service and the hub.  An operation that is       *)
(* started on a queue after its Shutdown fails an assertion of gRPC: the   *)
(* program aborts.                                                         *)
(*                                                                         *)
(* A call is reduced to what this needs: a WebSocket reads its request, is *)
(* a member of the hub, writes its headers and CLOSE, and finishes; an     *)
(* HTTP request is read and answered.  close_all holds the lock of the hub *)
(* while it queues a CLOSE for each member, which takes the lock of the    *)
(* member's queue; send_cb holds that one while on_disconnect takes the    *)
(* other.                                                                  *)
(***************************************************************************)
EXTENDS Naturals, Sequences

CONSTANTS
    NumWorkers,  \* completion queues, each with its thread
    WsCall, HttpCall,   \* the calls that clients make
    Closed,      \* WebSockets that the application itself may close, once
    Apart,       \* a bound: calls made only if the application closes none
    Caller       \* threads of the application that shut the server down

Worker == 1 .. NumWorkers
Call == WsCall \cup HttpCall
Acceptor == {"ws", "http"}      \* a call that is requested and has not come

ASSUME ServerConstants ==
    /\ NumWorkers \in Nat \ {0}
    /\ WsCall \cap HttpCall = {} /\ Call \cap Acceptor = {}
    /\ Closed \subseteq WsCall /\ Apart \subseteq Call
    /\ Caller \cap Worker = {}

VARIABLES
    exit,       \* shutdown_server has been called
    phase,      \* how far the one call that found exit unset has come
    by,         \* the thread that makes it
    turn,       \* the queue it shuts, whose thread it joins
    mserver,    \* the gRPC server
    service, hub,    \* the objects exist
    aborted,    \* the program has ended in an assertion
    worker,     \* per thread: what it does, or the completion it handles
    under,      \* per queue, the operations under way
    ready,      \* per queue, the completions to be delivered
    shut,       \* per queue, whether it has been shut
    link,       \* per call: whether the client is there
    on,         \* per call, its queue
    members,    \* the hub's connections
    left,       \* those close_all has still to close
    pending,    \* per connection, messages behind the one being written
    closing,    \* per connection, where the application's close is
    done,       \* connections whose done is set
    met, told,  \* history: connections that had on_connect, on_disconnect
    late,       \* history: those that had on_connect after close_all
    cut         \* history: something has cut the shutdown short

server == <<exit, phase, by, turn, mserver, service, hub>>
queues == <<under, ready, shut>>
calls == <<link, on>>
socket == <<members, left, pending, closing, done, met, told, late>>
vars == <<server, aborted, worker, queues, calls, socket, cut>>

Init ==
    /\ exit = FALSE /\ phase = "none" /\ by = 0 /\ turn = 1
    /\ mserver = "none" /\ service = TRUE /\ hub = TRUE
    /\ aborted = FALSE
    /\ worker = [w \in Worker |-> <<"none">>]
    /\ under = [w \in Worker |-> {}]
    /\ ready = [w \in Worker |-> {}]
    /\ shut = [w \in Worker |-> FALSE]
    /\ link = [c \in Call |-> "none"]
    /\ on = [c \in Call |-> 0]
    /\ members = {} /\ left = {} /\ done = {}
    /\ pending = [c \in WsCall |-> <<>>]
    /\ closing \in [WsCall -> {"none", "never"}]
    /\ \A c \in WsCall \ Closed : closing[c] = "never"
    /\ met = {} /\ told = {} /\ late = {}
    /\ cut = FALSE

-----------------------------------------------------------------------------
(* Mistaken forms of the definitions below.                                *)

BugJoinsNobody(w) == TRUE
BugJoinsUnstarted(w) == worker[w] = <<"ended">>
BugDropsCompletions(w) == shut[w]
BugDoesNotWait == TRUE

-----------------------------------------------------------------------------
(* Operations on a queue.                                                  *)

Start(w, os) ==
    IF shut[w] /\ os # {} THEN aborted' = TRUE /\ UNCHANGED under
    ELSE under' = [under EXCEPT ![w] = @ \cup os] /\ UNCHANGED aborted

Kind(c) == IF c \in WsCall THEN "ws" ELSE "http"

(* A call that did not come, a Read that failed, a Finish that is over:    *)
(* the continuation does nothing, and its delivery is left out.            *)
Inert(o, ok) == o[2] = "finish" \/ (o[2] \in {"call", "read"} /\ ~ok)

Complete(w, o, ok) ==
    /\ o \in under[w]
    /\ under' = [under EXCEPT ![w] = @ \ {o}]
    /\ ready' = IF Inert(o, ok) THEN ready
                ELSE [ready EXCEPT ![w] = @ \cup {<<o[1], o[2], ok>>}]
    /\ UNCHANGED shut

(* start_server: one thread per queue. *)
StartServer ==
    /\ ~exit /\ mserver = "none"
    /\ mserver' = "serving"
    /\ worker' = [w \in Worker |-> <<"start">>]
    /\ UNCHANGED <<exit, phase, by, turn, service, hub, aborted, queues,
                   calls, socket, cut>>

(* The beginning of async_task: one call of each kind is requested. *)
Register(w) ==
    /\ worker[w] = <<"start">>
    /\ worker' = [worker EXCEPT ![w] = <<"next">>]
    /\ Start(w, Acceptor \X {"call"})
    /\ UNCHANGED <<server, ready, shut, calls, socket, cut>>

-----------------------------------------------------------------------------
(* Clients and gRPC.                                                       *)

ClientCalls(w, c) ==
    /\ mserver = "serving" /\ link[c] = "none"
    /\ c \in Apart => \A d \in WsCall : closing[d] = "never"
    /\ <<Kind(c), "call">> \in under[w]
    /\ under' = [under EXCEPT ![w] = @ \ {<<Kind(c), "call">>}]
    /\ ready' = [ready EXCEPT ![w] = @ \cup {<<c, "call", TRUE>>}]
    /\ link' = [link EXCEPT ![c] = "live"]
    /\ on' = [on EXCEPT ![c] = w]
    /\ UNCHANGED <<server, aborted, worker, shut, socket, cut>>

Stopping == mserver \in {"stopping", "cut", "stopped"}

(* A server that stops gives the requested calls back. *)
CallRefused(w, k) ==
    /\ Stopping
    /\ Complete(w, <<k, "call">>, FALSE)
    /\ UNCHANGED <<server, aborted, worker, calls, socket, cut>>

(* The client's request, and for a WebSocket its CLOSE. *)
ClientSends(w, c) ==
    /\ link[c] = "live"
    /\ Complete(w, <<c, "read">>, TRUE)
    /\ UNCHANGED <<server, aborted, worker, calls, socket, cut>>

(* The call is over once Finish has gone out. *)
Sent(w, c, o) ==
    /\ link[c] = "live"
    /\ Complete(w, <<c, o>>, TRUE)
    /\ link' = IF o = "finish" THEN [link EXCEPT ![c] = "gone"] ELSE link
    /\ UNCHANGED <<server, aborted, worker, on, socket, cut>>

Fails(w, c, o) ==
    /\ link[c] = "gone"
    /\ Complete(w, <<c, o>>, FALSE)
    /\ UNCHANGED <<server, aborted, worker, calls, socket, cut>>

ClientBreaks(c) ==
    /\ link[c] = "live"
    /\ link' = [link EXCEPT ![c] = "gone"]
    /\ cut' = TRUE
    /\ UNCHANGED <<server, aborted, worker, queues, on, socket>>

Deadline ==
    /\ mserver = "stopping"
    /\ mserver' = "cut"
    /\ link' = [c \in Call |-> IF link[c] = "live" THEN "gone" ELSE link[c]]
    /\ cut' = TRUE
    /\ UNCHANGED <<exit, phase, by, turn, service, hub, aborted, worker,
                   queues, on, socket>>

-----------------------------------------------------------------------------
(* The loop of async_task.  User code runs between Next and the end of the *)
(* continuation.                                                           *)

Take(w, e) ==
    /\ worker[w] = <<"next">> /\ e \in ready[w]
    /\ worker' = [worker EXCEPT ![w] = e]
    /\ ready' = [ready EXCEPT ![w] = @ \ {e}]
    /\ UNCHANGED <<server, aborted, under, shut, calls, socket, cut>>

(* Next returns false when nothing is left of a queue that was shut. *)
Drained(w) == shut[w] /\ ready[w] = {} /\ under[w] = {}

Ends(w) ==
    /\ worker[w] = <<"next">> /\ Drained(w)
    /\ worker' = [worker EXCEPT ![w] = <<"ended">>]
    /\ UNCHANGED <<server, aborted, queues, calls, socket, cut>>

(* A thread that is inside shutdown_server does not get on. *)
Running(w) == by # w \/ phase \in {"done", "threw"}

Handling(w, e) ==
    /\ worker[w] = e /\ Running(w)
    /\ worker' = [worker EXCEPT ![w] = <<"next">>]
    /\ UNCHANGED <<server, ready, shut, calls, cut>>

(* start: the next call is requested, and the request read. *)
CallArrives(w, c) ==
    /\ Handling(w, <<c, "call", TRUE>>)
    /\ Start(w, {<<Kind(c), "call">>, <<c, "read">>})
    /\ UNCHANGED socket

(* close_all keeps the hub's lock until it has closed the last member. *)
HubFree == phase # "closing"

(* on_connect: the next message is read, and the hub has a new member;     *)
(* when the user's on_connect returns, the headers are written.            *)
Connect(w, c) ==
    /\ c \in WsCall \ met /\ HubFree
    /\ worker[w] = <<c, "read", TRUE>>
    /\ worker' = [worker EXCEPT ![w] = <<c, "connect">>]
    /\ Start(w, {<<c, "read">>})
    /\ members' = members \cup {c}
    /\ met' = met \cup {c}
    /\ late' = IF phase \in {"none", "close_all"} THEN late ELSE late \cup {c}
    /\ UNCHANGED <<server, ready, shut, calls, left, pending, closing, done, told, cut>>

(* A message of c is being written, or its completion has not been handled. *)
Writing(c) ==
    \E o \in {"write", "close"} :
        \/ <<c, o>> \in under[on[c]]
        \/ \E ok \in BOOLEAN : <<c, o, ok>> \in ready[on[c]] \cup {worker[on[c]]}

(* send_cb keeps the lock of the queue while on_disconnect runs. *)
QueueFree(c) == worker[on[c]] # <<c, "disconnect">>

(* queue_response: only the first message of the queue is written. *)
Queue(c, o) ==
    IF Writing(c) \/ pending[c] # <<>>
    THEN pending' = [pending EXCEPT ![c] = Append(@, o)] /\ UNCHANGED <<under, aborted>>
    ELSE Start(on[c], {<<c, o>>}) /\ UNCHANGED pending

ConnectReturns(w, c) ==
    /\ w = on[c] /\ Handling(w, <<c, "connect">>)
    /\ Queue(c, "write")
    /\ UNCHANGED <<members, left, closing, done, met, told, late>>

(* close by a thread of the application: it looks at done before it waits  *)
(* for the lock of the queue.                                              *)
AppCloses(c) ==
    /\ c \in met /\ closing[c] = "none"
    /\ closing' = [closing EXCEPT ![c] = IF c \in done THEN "over" ELSE "called"]
    /\ cut' = (cut \/ exit)
    /\ UNCHANGED <<server, aborted, worker, queues, calls, members, left, pending, done,
                   met, told, late>>

AppQueues(c) ==
    /\ closing[c] = "called" /\ QueueFree(c)
    /\ closing' = [closing EXCEPT ![c] = "over"]
    /\ Queue(c, "close")
    /\ UNCHANGED <<server, worker, ready, shut, calls, members, left, done, met, told, late, cut>>

Answer(w, c) ==
    /\ c \in HttpCall
    /\ Handling(w, <<c, "read", TRUE>>)
    /\ Start(w, {<<c, "finish">>})
    /\ UNCHANGED socket

(* The CLOSE of the client, told whether done is set or not. *)
Disconnect(c) ==
    /\ told' = told \cup {c}
    /\ members' = members \ {c}
    /\ done' = done \cup {c}

FinishOnce(c) == IF c \in done THEN {} ELSE {<<c, "finish">>}

(* hub::on_disconnect takes the lock, unless the connection has left. *)
HubLets(c) == c \in told \/ HubFree

ClientCloses(w, c) ==
    /\ c \in met /\ HubLets(c)
    /\ Handling(w, <<c, "read", TRUE>>)
    /\ Disconnect(c)
    /\ Start(w, FinishOnce(c))
    /\ UNCHANGED <<left, pending, closing, met, late>>

(* send_cb, whether the message has arrived or not: the next one is        *)
(* written, and after CLOSE the connection ends.                           *)
WritesNext(w, c) ==
    IF c \in done \/ pending[c] = <<>>
    THEN UNCHANGED <<under, aborted, pending>>
    ELSE /\ Start(w, {<<c, Head(pending[c])>>})
         /\ pending' = [pending EXCEPT ![c] = Tail(@)]

HeadersWritten(w, c, ok) ==
    /\ Handling(w, <<c, "write", ok>>)
    /\ WritesNext(w, c)
    /\ UNCHANGED <<members, left, closing, done, met, told, late>>

CloseWritten(w, c, ok) ==
    /\ worker[w] = <<c, "close", ok>>
    /\ worker' = [worker EXCEPT ![w] = <<c, "disconnect">>]
    /\ WritesNext(w, c)
    /\ UNCHANGED <<server, ready, shut, calls, members, left, closing, done, met, told, late, cut>>

ServerCloses(w, c) ==
    /\ HubLets(c)
    /\ Handling(w, <<c, "disconnect">>)
    /\ Disconnect(c)
    /\ Start(w, FinishOnce(c))
    /\ UNCHANGED <<left, pending, closing, met, late>>

-----------------------------------------------------------------------------
(* shutdown_server, called by a thread of the application, by the          *)
(* destructor, or by an HTTP handler on a worker, whose exception the      *)
(* router turns into an answer.  A second call finds exit set and returns. *)

Begin(t) ==
    /\ ~exit
    /\ exit' = TRUE
    /\ by' = t
    /\ phase' = "close_all"
    /\ cut' = (cut \/ t \in Worker \/ (\E w \in Worker : worker[w] = <<"start">>)
                   \/ \E c \in WsCall : closing[c] = "called")
    /\ UNCHANGED <<turn, mserver, service, hub, aborted, worker, queues, calls, socket>>

ShutdownInHandler(w) ==
    /\ \E c \in HttpCall : worker[w] = <<c, "read", TRUE>>
    /\ Begin(w)

(* hub->close_all: the lock is taken, CLOSE is queued for each member in   *)
(* turn, which waits for the lock of its queue, and the hub is emptied.    *)
CloseAll ==
    /\ phase = "close_all"
    /\ phase' = "closing"
    /\ left' = members
    /\ UNCHANGED <<exit, by, turn, mserver, service, hub, aborted, worker, queues, calls,
                   members, pending, closing, done, met, told, late, cut>>

CloseEach ==
    /\ phase = "closing"
    /\ \E c \in left :
          /\ left' = left \ {c}
          /\ IF c \in done THEN UNCHANGED <<under, aborted, pending>>
             ELSE QueueFree(c) /\ Queue(c, "close")
    /\ UNCHANGED <<server, worker, ready, shut, calls, members, closing, done, met, told,
                   late, cut>>

AllClosed ==
    /\ phase = "closing" /\ left = {}
    /\ members' = {}
    /\ phase' = IF mserver = "none" THEN "queues" ELSE "stop"
    /\ UNCHANGED <<exit, by, turn, mserver, service, hub, aborted, worker, queues, calls,
                   left, pending, closing, done, met, told, late, cut>>

StopServer ==
    /\ phase = "stop"
    /\ phase' = "wait"
    /\ mserver' = "stopping"
    /\ UNCHANGED <<exit, by, turn, service, hub, aborted, worker, queues,
                   calls, socket, cut>>

CallsOver == \A c \in Call : link[c] # "live"

Stopped ==
    /\ phase = "wait" /\ CallsOver
    /\ phase' = "queues"
    /\ mserver' = "stopped"
    /\ UNCHANGED <<exit, by, turn, service, hub, aborted, worker, queues,
                   calls, socket, cut>>

ShutQueue ==
    /\ phase = "queues" /\ turn \in Worker
    /\ phase' = "join"
    /\ shut' = [shut EXCEPT ![turn] = TRUE]
    /\ UNCHANGED <<exit, by, turn, mserver, service, hub, aborted, worker,
                   under, ready, calls, socket, cut>>

Joined(w) == worker[w] \in {<<"none">>, <<"ended">>}

Join ==
    /\ phase = "join" /\ Joined(turn)
    /\ phase' = "queues"
    /\ turn' = turn + 1
    /\ UNCHANGED <<exit, by, mserver, service, hub, aborted, worker, queues,
                   calls, socket, cut>>

(* A thread cannot join itself: std::system_error, which async_task swallows. *)
JoinThrows ==
    /\ phase = "join" /\ by = turn
    /\ phase' = "threw"
    /\ UNCHANGED <<exit, by, turn, mserver, service, hub, aborted, worker,
                   queues, calls, socket, cut>>

ResetService ==
    /\ phase = "queues" /\ turn \notin Worker
    /\ phase' = "reset"
    /\ service' = FALSE
    /\ UNCHANGED <<exit, by, turn, mserver, hub, aborted, worker, queues,
                   calls, socket, cut>>

ResetHub ==
    /\ phase = "reset"
    /\ phase' = "done"
    /\ hub' = FALSE
    /\ UNCHANGED <<exit, by, turn, mserver, service, aborted, worker, queues,
                   calls, socket, cut>>

-----------------------------------------------------------------------------
Handle(w) ==
    \/ \E c \in Call : CallArrives(w, c) \/ Answer(w, c)
    \/ \E c \in WsCall :
          \/ Connect(w, c) \/ ConnectReturns(w, c) \/ ClientCloses(w, c)
          \/ ServerCloses(w, c)
          \/ \E ok \in BOOLEAN : CloseWritten(w, c, ok) \/ HeadersWritten(w, c, ok)

Environment(w) ==
    \/ \E k \in Acceptor : CallRefused(w, k)
    \/ \E c \in Call, o \in {"write", "close", "finish"} : Sent(w, c, o)
    \/ \E c \in Call, o \in {"read", "write", "close", "finish"} : Fails(w, c, o)

Thread(w) ==
    \/ Register(w) \/ Ends(w) \/ Handle(w)
    \/ \E e \in ready[w] : Take(w, e)

Shutting ==
    \/ CloseAll \/ CloseEach \/ AllClosed \/ StopServer \/ Stopped \/ ShutQueue \/ Join \/ JoinThrows
    \/ ResetService \/ ResetHub

Next ==
    /\ ~aborted
    /\ \/ StartServer \/ Deadline \/ Shutting
       \/ \E t \in Caller : Begin(t)
       \/ \E c \in Call : ClientBreaks(c)
       \/ \E c \in WsCall : AppCloses(c) \/ AppQueues(c)
       \/ \E w \in Worker :
             \/ Thread(w) \/ Environment(w) \/ ShutdownInHandler(w)
             \/ \E c \in Call : ClientCalls(w, c) \/ ClientSends(w, c)

Spec == Init /\ [][Next]_vars

(***************************************************************************)
(* Threads get on, gRPC completes what it can, and time passes.  One       *)
(* condition for all of them is as good as one for each: every step uses   *)
(* up something there is only so much of, so that none goes on for ever.   *)
(***************************************************************************)
Progress ==
    /\ ~aborted
    /\ Shutting \/ Deadline \/ \E w \in Worker : Thread(w) \/ Environment(w)

Fairness == WF_vars(Progress)

FairSpec == Spec /\ Fairness

-----------------------------------------------------------------------------
(* The service and the hub are destroyed after the last thread that serves *)
(* calls with them has ended, whoever shuts the server down, and when.     *)
ServiceOutlivesThreads ==
    ~service \/ ~hub => \A w \in Worker : worker[w] \in {<<"none">>, <<"ended">>}

(* Whatever clients do and even if the deadline cuts the calls, when the   *)
(* shutdown is over every connection that was in the hub when it began has *)
(* had its on_disconnect: only one that came too late has not.             *)
MembersTold == phase = "done" => met \subseteq told \cup late

(* A shutdown that nothing cuts short (no client breaks off, the deadline  *)
(* does not pass, all threads have registered, no handler calls it) starts *)
(* no operation on a queue that has been shut, leaves no connection in the *)
(* hub, which would outlive the service it refers to, and has told all.    *)
CleanWhenUncut ==
    ~cut => /\ ~aborted
            /\ phase = "done" => members = {} /\ met \subseteq told

(* close_all waits for the queue of a connection, whose thread waits in    *)
(* on_disconnect, for a CLOSE sent before, for the lock of close_all.      *)
LocksCrossed ==
    \E c \in left : phase = "closing" /\ c \notin told /\ ~QueueFree(c)

(* A shutdown that has begun ends, unless the program does, a handler      *)
(* waits for its own thread, or close_all and the CLOSE of a connection    *)
(* that the application has closed before take their locks crosswise.      *)
ShutdownEnds ==
    phase = "close_all" ~> phase \in {"done", "threw"} \/ aborted \/ LocksCrossed

=============================================================================
