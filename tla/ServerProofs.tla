---------------------------- MODULE ServerProofs ----------------------------
(***************************************************************************)
(* That shutdown_server destroys nothing a thread may still use, tells     *)
(* every connection of the hub, and is clean when nothing cuts it short,   *)
(* for any number of queues, calls and threads that shut the server down.  *)
(***************************************************************************)
EXTENDS Server, TLAPS

(***************************************************************************)
(* Threads are joined in the order of the queues, so those before turn     *)
(* have ended or were never started; start_server does not start them      *)
(* again, since exit is set before the first is joined.                    *)
(***************************************************************************)
Function == worker = [w \in Worker |-> worker[w]]
TurnInRange == turn \in 1 .. NumWorkers + 1 /\ (phase = "join" => turn \in Worker)
JoinedInOrder == \A w \in Worker : w < turn => worker[w] \in {<<"none">>, <<"ended">>}
ExitFirst == phase # "none" \/ turn # 1 => exit
DestroyedLast == phase = "reset" \/ ~service \/ ~hub => turn \notin Worker

IInv == Function /\ TurnInRange /\ JoinedInOrder /\ ExitFirst /\ DestroyedLast

(* A completion is none of the other things a thread may be at. *)
LEMMA Places ==
    /\ \A a, b, c : <<a, b, c>> \notin {<<"none">>, <<"ended">>}
    /\ \A a, b : <<a, b>> \notin {<<"none">>, <<"ended">>}
    /\ <<"start">> \notin {<<"none">>, <<"ended">>}
    /\ <<"next">> \notin {<<"none">>, <<"ended">>}
<1>1. \A a, b, c, d : <<a, b, c>> # <<d>>
  <2>1. \A a, b, c : DOMAIN <<a, b, c>> = 1 .. 3 BY SMT
  <2>2. \A d : DOMAIN <<d>> = 1 .. 1 BY SMT
  <2>3. 3 \in 1 .. 3 /\ 3 \notin 1 .. 1 BY SMT
  <2> QED BY <2>1, <2>2, <2>3
<1>2. \A a, b, d : <<a, b>> # <<d>>
  <2>1. \A a, b : DOMAIN <<a, b>> = 1 .. 2 BY SMT
  <2>2. \A d : DOMAIN <<d>> = 1 .. 1 BY SMT
  <2>3. 2 \in 1 .. 2 /\ 2 \notin 1 .. 1 BY SMT
  <2> QED BY <2>1, <2>2, <2>3
<1>3. <<"start">> # <<"none">> /\ <<"start">> # <<"ended">> BY SMT
<1>4. <<"next">> # <<"none">> /\ <<"next">> # <<"ended">> BY SMT
<1> QED BY <1>1, <1>2, <1>3, <1>4

(* A thread that is not joined moves on: those before turn stay put. *)
LEMMA ThreadMoves ==
    ASSUME IInv, NEW w \in Worker, worker[w] \notin {<<"none">>, <<"ended">>},
           NEW x, worker' = [worker EXCEPT ![w] = x],
           UNCHANGED <<exit, phase, turn, service, hub>>
    PROVE  IInv'
<1>1. Function'
  BY DEF IInv, Function
<1>2. JoinedInOrder'
  <2> SUFFICES ASSUME NEW v \in Worker, v < turn
               PROVE  worker'[v] \in {<<"none">>, <<"ended">>}
      BY DEF JoinedInOrder
  <2>1. v # w BY DEF IInv, JoinedInOrder
  <2>2. worker'[v] = worker[v] BY <2>1 DEF IInv, Function
  <2> QED BY <2>2 DEF IInv, JoinedInOrder
<1> QED BY <1>1, <1>2 DEF IInv, TurnInRange, ExitFirst, DestroyedLast

(* A step that moves neither the threads nor the shutdown. *)
LEMMA NothingMoves ==
    ASSUME IInv, UNCHANGED <<worker, exit, phase, turn, service, hub>>
    PROVE  IInv'
BY DEF IInv, Function, TurnInRange, JoinedInOrder, ExitFirst, DestroyedLast

LEMMA InitIInv == Init => IInv
BY ServerConstants DEF Init, IInv, Function, TurnInRange, JoinedInOrder, ExitFirst,
   DestroyedLast, Worker

(* The threads of the queues. *)
LEMMA ThreadStep ==
    ASSUME IInv, NEW w \in Worker, Thread(w)
    PROVE  IInv'
<1>1. CASE Register(w)
  BY <1>1, ThreadMoves, Places DEF Register, server
<1>2. CASE Ends(w)
  BY <1>2, ThreadMoves, Places DEF Ends, server
<1>3. ASSUME NEW e \in ready[w], Take(w, e) PROVE IInv'
  BY <1>3, ThreadMoves, Places DEF Take, server
<1>4. CASE Handle(w)
  <2>1. ASSUME NEW a, NEW b, NEW c, Handling(w, <<a, b, c>>) PROVE IInv'
    <3>1. worker[w] \notin {<<"none">>, <<"ended">>} BY <2>1, Places DEF Handling
    <3> QED BY <2>1, <3>1, ThreadMoves DEF Handling, server
  <2>2. ASSUME NEW a, NEW b, Handling(w, <<a, b>>) PROVE IInv'
    <3>1. worker[w] \notin {<<"none">>, <<"ended">>} BY <2>2, Places DEF Handling
    <3> QED BY <2>2, <3>1, ThreadMoves DEF Handling, server
  <2>3. ASSUME NEW c \in Call, CallArrives(w, c) \/ Answer(w, c) PROVE IInv'
    BY <2>1, <2>3 DEF CallArrives, Answer
  <2>4. ASSUME NEW c \in WsCall, Connect(w, c) PROVE IInv'
    <3>1. worker[w] \notin {<<"none">>, <<"ended">>} BY <2>4, Places DEF Connect
    <3> QED BY <2>4, <3>1, ThreadMoves DEF Connect, server
  <2>5. ASSUME NEW c \in WsCall, ConnectReturns(w, c) \/ ServerCloses(w, c) PROVE IInv'
    BY <2>2, <2>5 DEF ConnectReturns, ServerCloses
  <2>6. ASSUME NEW c \in WsCall, ClientCloses(w, c) PROVE IInv'
    BY <2>1, <2>6 DEF ClientCloses
  <2>7. ASSUME NEW c \in WsCall, NEW ok \in BOOLEAN, HeadersWritten(w, c, ok) PROVE IInv'
    BY <2>1, <2>7 DEF HeadersWritten
  <2>8. ASSUME NEW c \in WsCall, NEW ok \in BOOLEAN, CloseWritten(w, c, ok) PROVE IInv'
    <3>1. worker[w] \notin {<<"none">>, <<"ended">>} BY <2>8, Places DEF CloseWritten
    <3> QED BY <2>8, <3>1, ThreadMoves DEF CloseWritten, server
  <2> QED BY <1>4, <2>3, <2>4, <2>5, <2>6, <2>7, <2>8 DEF Handle
<1> QED BY <1>1, <1>2, <1>3, <1>4 DEF Thread

(* The thread that shuts the server down. *)
LEMMA ShuttingStep ==
    ASSUME IInv, Shutting
    PROVE  IInv'
<1> USE DEF IInv, Function, TurnInRange, JoinedInOrder, ExitFirst, DestroyedLast
<1>1. CASE CloseAll   BY <1>1 DEF CloseAll
<1>9. CASE CloseEach  BY <1>9 DEF CloseEach, server
<1>10. CASE AllClosed BY <1>10 DEF AllClosed
<1>2. CASE StopServer BY <1>2 DEF StopServer
<1>3. CASE Stopped    BY <1>3 DEF Stopped
<1>4. CASE ShutQueue  BY <1>4 DEF ShutQueue
<1>5. CASE JoinThrows BY <1>5 DEF JoinThrows
<1>6. CASE ResetService BY <1>6 DEF ResetService
<1>7. CASE ResetHub   BY <1>7 DEF ResetHub
<1>8. CASE Join
  <2>1. turn \in Worker /\ service /\ hub
    BY <1>8 DEF Join
  <2> QED BY <1>8, <2>1, ServerConstants DEF Join, Joined, Worker
<1> QED BY <1>1, <1>2, <1>3, <1>4, <1>5, <1>6, <1>7, <1>8, <1>9, <1>10 DEF Shutting

(* Every step keeps the invariant. *)
LEMMA NextIInv == IInv /\ [Next]_vars => IInv'
<1> SUFFICES ASSUME IInv, [Next]_vars PROVE IInv'
    OBVIOUS
<1>1. CASE UNCHANGED vars
  BY <1>1, NothingMoves DEF vars, server
<1>2. CASE StartServer
  <2>1. turn = 1 BY <1>2 DEF StartServer, IInv, ExitFirst
  <2> QED BY <1>2, <2>1 DEF StartServer, IInv, Function, TurnInRange, JoinedInOrder,
             ExitFirst, DestroyedLast, Worker
<1>3. CASE Deadline
  BY <1>3, NothingMoves DEF Deadline
<1>4. CASE Shutting
  BY <1>4, ShuttingStep
<1>5. ASSUME NEW t, Begin(t) PROVE IInv'
  BY <1>5 DEF Begin, IInv, Function, TurnInRange, JoinedInOrder, ExitFirst, DestroyedLast
<1>6. ASSUME NEW c \in Call, ClientBreaks(c) PROVE IInv'
  BY <1>6, NothingMoves DEF ClientBreaks, server
<1>7. ASSUME NEW w \in Worker, Thread(w) PROVE IInv'
  BY <1>7, ThreadStep
<1>8. ASSUME NEW w \in Worker, Environment(w) PROVE IInv'
  <2>1. UNCHANGED <<server, worker>>
    BY <1>8 DEF Environment, CallRefused, Sent, Fails
  <2> QED BY <2>1, NothingMoves DEF server
<1>9. ASSUME NEW w \in Worker, NEW c \in Call, ClientCalls(w, c) \/ ClientSends(w, c)
      PROVE  IInv'
  <2>1. UNCHANGED <<server, worker>>
    BY <1>9 DEF ClientCalls, ClientSends
  <2> QED BY <2>1, NothingMoves DEF server
<1>10. ASSUME NEW c \in WsCall, AppCloses(c) \/ AppQueues(c) PROVE IInv'
  <2>1. UNCHANGED <<server, worker>>
    BY <1>10 DEF AppCloses, AppQueues
  <2> QED BY <2>1, NothingMoves DEF server
<1> QED BY <1>1, <1>2, <1>3, <1>4, <1>5, <1>6, <1>7, <1>8, <1>9, <1>10 DEF Next, ShutdownInHandler

(* The service and the hub outlive the threads that serve calls with them: *)
(* server.cpp 86-95, whoever shuts the server down, and when.              *)
THEOREM ObjectsOutliveThreads == Spec => []ServiceOutlivesThreads
<1>1. IInv => ServiceOutlivesThreads
  BY ServerConstants DEF IInv, TurnInRange, JoinedInOrder, DestroyedLast,
     ServiceOutlivesThreads, Worker
<1> QED BY InitIInv, NextIInv, <1>1, PTL DEF Spec

-----------------------------------------------------------------------------
(* Every member is told, and a shutdown that nothing cuts short is clean.  *)

Operation == {"call", "read", "write", "close", "finish"}
Outcomes(o) == IF o \in {"write", "close"} THEN BOOLEAN ELSE {TRUE}

(* What is open of a call: started and not completed, completed and not    *)
(* yet taken, or being handled; and on_connect or on_disconnect, which is  *)
(* under way.                                                              *)
Under(w, c, o) == <<c, o>> \in under[w]
InReady(w, c, o) == \E ok \in Outcomes(o) : <<c, o, ok>> \in ready[w]
InHand(w, c, o) == \E ok \in Outcomes(o) : worker[w] = <<c, o, ok>>
Open(w, c, o) == Under(w, c, o) \/ InReady(w, c, o) \/ InHand(w, c, o)
InConnect(w, c) == worker[w] = <<c, "connect">>
InDisconnect(w, c) == worker[w] = <<c, "disconnect">>

Shape ==
    /\ worker = [w \in Worker |-> worker[w]] /\ under = [w \in Worker |-> under[w]]
    /\ ready = [w \in Worker |-> ready[w]] /\ shut = [w \in Worker |-> shut[w]]
    /\ link \in [Call -> {"none", "live", "gone"}] /\ on = [c \in Call |-> on[c]]
    /\ \A w \in Worker : ready[w] \subseteq Call \X Operation \X BOOLEAN

(* A call stays with its queue. *)
Placed ==
    \A w \in Worker, c \in Call, o \in Operation :
        Open(w, c, o) \/ InConnect(w, c) \/ InDisconnect(w, c) => on[c] = w /\ link[c] # "none"

(* A connection is a member of the hub from on_connect to on_disconnect,   *)
(* until close_all has closed all; done is set with on_disconnect.         *)
Early == {"none", "close_all", "closing"}

Membership ==
    /\ done = told /\ told \subseteq met /\ met \subseteq WsCall
    /\ members \subseteq met \ told
    /\ phase \in Early => met \subseteq members \cup told /\ late = {}
    /\ left \subseteq members /\ (phase # "closing" => left = {})
    /\ \A c \in met : on[c] \in Worker /\ worker[on[c]] # <<"none">> /\ link[c] # "none"

(* A queue whose thread has ended is empty and shut, which happens after   *)
(* close_all.                                                              *)
After == {"queues", "join", "reset", "done", "threw"}

EndedIsEmpty ==
    /\ \A w \in Worker : worker[w] = <<"ended">> =>
                            shut[w] /\ under[w] = {} /\ ready[w] = {}
    /\ \A w \in Worker : shut[w] => phase \in After

(* close_all has CLOSE written to every member, at once or behind the      *)
(* messages before; while any are queued, one is being written.            *)
Waits(c) == \E i \in DOMAIN pending[c] : pending[c][i] = "close"

CloseComes(c) ==
    \/ Open(on[c], c, "close") \/ InDisconnect(on[c], c)
    \/ Waits(c) /\ Open(on[c], c, "write")

Closing ==
    ~aborted =>
        /\ \A c \in met \ done :
              pending[c] # <<>> => Open(on[c], c, "write") \/ Open(on[c], c, "close")
        /\ phase \notin {"none", "close_all"} =>
              \A c \in met \ (told \cup late \cup left) : CloseComes(c)

PhaseDone == phase = "done" => ~hub /\ met \subseteq told \cup late

ToldInv == Shape /\ Placed /\ Membership /\ EndedIsEmpty /\ Closing /\ PhaseDone

(* A call begins once. *)
BeginsOnce ==
    \A c \in Call, w \in Worker :
        /\ ~Under(w, c, "call") /\ ~InReady(w, c, "finish") /\ ~InHand(w, c, "finish")
        /\ InReady(w, c, "call") => ~InHand(w, c, "call")
        /\ Open(w, c, "call") => \A o \in Operation \ {"call"} : ~Open(w, c, o)

(* An HTTP request is read, then answered. *)
HttpInOrder ==
    \A c \in HttpCall, w \in Worker :
        /\ Under(w, c, "read") => ~InReady(w, c, "read") /\ ~InHand(w, c, "read")
        /\ InReady(w, c, "read") => ~InHand(w, c, "read")
        /\ Open(w, c, "finish") => ~Open(w, c, "read")

(* A WebSocket is met, then written to, then finished. *)
Outbox ==
    /\ pending \in [WsCall -> Seq({"write", "close"})]
    /\ closing \in [WsCall -> {"none", "called", "over", "never"}]
    /\ \A c \in WsCall : pending[c] # <<>> \/ closing[c] = "called" => c \in met

WsInOrder ==
    /\ \A c \in WsCall, w \in Worker :
        /\ c \in met => ~Open(w, c, "call")
        /\ Open(w, c, "write") \/ Open(w, c, "close") => c \in met
        /\ Open(w, c, "finish") => c \in done
    /\ \A c \in Call, w \in Worker : /\ InConnect(w, c) => c \in met \ done
                                     /\ InDisconnect(w, c) => c \in met
    /\ Outbox

(* If nothing cuts the shutdown short, calls end by being finished, and    *)
(* have ended before the first queue is shut.                              *)
FinishedIfGone ==
    ~cut => \A c \in Call : link[c] = "gone" =>
        /\ c \in WsCall => c \in done
        /\ c \in HttpCall => \A w \in Worker, o \in {"call", "read", "finish"} : ~Open(w, c, o)

OverBeforeShut ==
    /\ mserver = "none" => \A c \in Call : link[c] = "none"
    /\ exit \/ phase = "none"
    /\ phase \in After => mserver \in {"none", "stopped"}
    /\ ~cut /\ phase \in After => CallsOver

Undisturbed ==
    ~cut /\ exit => /\ \A w \in Worker : worker[w] # <<"start">>
                    /\ \A c \in WsCall : closing[c] # "called"

CleanInv ==
    /\ BeginsOnce /\ HttpInOrder /\ WsInOrder /\ FinishedIfGone
    /\ OverBeforeShut /\ Undisturbed /\ (~cut => ~aborted)

-----------------------------------------------------------------------------
(* What the steps do to what is open.                                      *)

Quiet(w, c, o) ==
    /\ Under(w, c, o)' <=> Under(w, c, o)
    /\ InReady(w, c, o)' <=> InReady(w, c, o)
    /\ InHand(w, c, o)' <=> InHand(w, c, o)

StaysOn(w, c) ==
    (InConnect(w, c)' <=> InConnect(w, c)) /\ (InDisconnect(w, c)' <=> InDisconnect(w, c))

AllQuiet == \A w \in Worker, c \in Call : StaysOn(w, c) /\ \A o \in Operation : Quiet(w, c, o)

LEMMA SameQueues ==
    ASSUME UNCHANGED <<worker, under, ready>>
    PROVE  AllQuiet
BY DEF AllQuiet, Quiet, StaysOn, Under, InReady, InHand, InConnect, InDisconnect

(* A tuple is what its parts make it. *)
LEMMA Tuples ==
    /\ \A a, b, c, d, e, f : <<a, b, c>> = <<d, e, f>> => a = d /\ b = e /\ c = f
    /\ \A a, b, d, e : <<a, b>> = <<d, e>> => a = d /\ b = e
    /\ \A a, b, c, d, e : <<a, b, c>> # <<d, e>>
    /\ \A a, b, c, d : <<a, b, c>> # <<d>>
    /\ \A a, b, d : <<a, b>> # <<d>>
<1>1. \A a, b, c, d, e, f : <<a, b, c>> = <<d, e, f>> => a = d /\ b = e /\ c = f
  BY SMT
<1>2. \A a, b, d, e : <<a, b>> = <<d, e>> => a = d /\ b = e
  BY SMT
<1>3. \A a, b, c, d, e : <<a, b, c>> # <<d, e>>
  <2>1. \A a, b, c : DOMAIN <<a, b, c>> = 1 .. 3 BY SMT
  <2>2. \A d, e : DOMAIN <<d, e>> = 1 .. 2 BY SMT
  <2>3. 3 \in 1 .. 3 /\ 3 \notin 1 .. 2 BY SMT
  <2> QED BY <2>1, <2>2, <2>3
<1>4. \A a, b, c, d : <<a, b, c>> # <<d>>
  <2>1. \A a, b, c : DOMAIN <<a, b, c>> = 1 .. 3 BY SMT
  <2>2. \A d : DOMAIN <<d>> = 1 .. 1 BY SMT
  <2>3. 3 \in 1 .. 3 /\ 3 \notin 1 .. 1 BY SMT
  <2> QED BY <2>1, <2>2, <2>3
<1>5. \A a, b, d : <<a, b>> # <<d>>
  <2>1. \A a, b : DOMAIN <<a, b>> = 1 .. 2 BY SMT
  <2>2. \A d : DOMAIN <<d>> = 1 .. 1 BY SMT
  <2>3. 2 \in 1 .. 2 /\ 2 \notin 1 .. 1 BY SMT
  <2> QED BY <2>1, <2>2, <2>3
<1> QED BY <1>1, <1>2, <1>3, <1>4, <1>5

(* An operation completes: what is not inert is ready. *)
LEMMA Completes ==
    ASSUME Shape, NEW w \in Worker, NEW c \in Call, NEW k \in Operation, NEW ok \in BOOLEAN,
           Complete(w, <<c, k>>, ok), UNCHANGED worker,
           NEW v \in Worker, NEW d \in Call, NEW o \in Operation
    PROVE  /\ Under(w, c, k)
           /\ ~(v = w /\ d = c /\ o = k) => Quiet(v, d, o)
           /\ ~Under(w, c, k)'
           /\ InReady(w, c, k)' => InReady(w, c, k) \/ k # "finish"
           /\ k \in {"write", "close"} => InReady(w, c, k)'
           /\ k = "read" /\ ~ok => ~InReady(w, c, k)' \/ InReady(w, c, k)
           /\ InHand(v, d, o)' <=> InHand(v, d, o)
           /\ StaysOn(v, d)
<1>1. /\ <<c, k>> \in under[w] /\ under' = [under EXCEPT ![w] = @ \ {<<c, k>>}]
      /\ \/ /\ k = "finish" \/ (k \in {"call", "read"} /\ ~ok)
            /\ ready' = ready
         \/ /\ ~(k = "finish" \/ (k \in {"call", "read"} /\ ~ok))
            /\ ready' = [ready EXCEPT ![w] = @ \cup {<<c, k, ok>>}]
  BY DEF Complete, Inert
<1>2. /\ Under(v, d, o)' <=> Under(v, d, o) /\ ~(v = w /\ d = c /\ o = k)
      /\ Under(w, c, k) /\ ~Under(w, c, k)'
  BY <1>1, Tuples DEF Shape, Under
<1>3. ASSUME ~(v = w /\ d = c /\ o = k) PROVE InReady(v, d, o)' <=> InReady(v, d, o)
  <2>1. ASSUME NEW b PROVE <<d, o, b>> \in ready'[v] <=> <<d, o, b>> \in ready[v]
    <3>1. CASE ready' = ready
      BY <3>1
    <3>2. CASE ready' = [ready EXCEPT ![w] = @ \cup {<<c, k, ok>>}]
      <4>1. v = w => <<d, o, b>> # <<c, k, ok>>
        BY <1>3, Tuples
      <4> QED BY <3>2, <4>1 DEF Shape
    <3> QED BY <1>1, <3>1, <3>2
  <2> QED BY <2>1 DEF InReady
<1>4. InHand(v, d, o)' <=> InHand(v, d, o)
  BY DEF InHand
<1>5. StaysOn(v, d)
  BY DEF StaysOn, InConnect, InDisconnect
<1>6. k \in {"write", "close"} => InReady(w, c, k)'
  BY <1>1 DEF Shape, InReady, Outcomes
<1>7. ASSUME InReady(w, c, k)' PROVE InReady(w, c, k) \/ k # "finish"
  <2>1. CASE ready' = ready
    BY <1>7, <2>1 DEF InReady
  <2> QED BY <1>1, <2>1 DEF Operation
<1>8. ASSUME k = "read", ~ok, InReady(w, c, k)' PROVE InReady(w, c, k)
  <2>1. ready' = ready
    BY <1>1, <1>8
  <2> QED BY <1>8, <2>1 DEF InReady
<1>9. ~(v = w /\ d = c /\ o = k) => Quiet(v, d, o)
  BY <1>2, <1>3, <1>4 DEF Quiet
<1> QED BY <1>2, <1>4, <1>5, <1>6, <1>7, <1>8, <1>9

(* A completion is taken. *)
LEMMA Takes ==
    ASSUME Shape, NEW w \in Worker, NEW c \in Call, NEW k \in Operation, NEW ok \in BOOLEAN,
           Take(w, <<c, k, ok>>),
           NEW v \in Worker, NEW d \in Call, NEW o \in Operation
    PROVE  /\ Open(v, d, o)' <=> Open(v, d, o)
           /\ Under(v, d, o)' <=> Under(v, d, o)
           /\ InReady(v, d, o)' => InReady(v, d, o)
           /\ InHand(v, d, o)' => InReady(v, d, o) \/ InHand(v, d, o)
           /\ InHand(v, d, o)' /\ InReady(v, d, o)' =>
                 o \in {"write", "close"} \/ InHand(v, d, o)
           /\ InConnect(v, d)' => InConnect(v, d)
           /\ InDisconnect(v, d)' <=> InDisconnect(v, d)
<1>1. /\ worker[w] = <<"next">> /\ <<c, k, ok>> \in ready[w] /\ under' = under
      /\ worker' = [worker EXCEPT ![w] = <<c, k, ok>>]
      /\ ready' = [ready EXCEPT ![w] = @ \ {<<c, k, ok>>}]
  BY DEF Take
<1>2. Under(v, d, o)' <=> Under(v, d, o)
  BY <1>1 DEF Under
<1>3. CASE v # w
  <2>1. worker'[v] = worker[v] /\ ready'[v] = ready[v]
    BY <1>1, <1>3 DEF Shape
  <2> QED BY <1>2, <2>1 DEF Open, InReady, InHand, InConnect, InDisconnect
<1>4. CASE v = w
  <2>1. worker'[v] = <<c, k, ok>> /\ ready'[v] = ready[v] \ {<<c, k, ok>>}
    BY <1>1, <1>4 DEF Shape
  <2>2. ~InHand(v, d, o) /\ ~InConnect(v, d) /\ ~InDisconnect(v, d)
    BY <1>1, <1>4, Tuples DEF InHand, InConnect, InDisconnect
  <2>3. ~InConnect(v, d)' /\ ~InDisconnect(v, d)'
    BY <2>1, Tuples DEF InConnect, InDisconnect
  <2>4. InHand(v, d, o)' <=> d = c /\ o = k /\ ok \in Outcomes(k)
    BY <2>1, Tuples DEF InHand
  <2>5. CASE d = c /\ o = k
    <3>1. ok \in Outcomes(k) => InReady(v, d, o)
      BY <1>1, <1>4, <2>5 DEF InReady
    <3>2. InReady(v, d, o)' => InReady(v, d, o)
      BY <2>1 DEF InReady
    <3>3. ok \notin Outcomes(k) => (InReady(v, d, o)' <=> InReady(v, d, o))
      BY <2>1, <2>5, Tuples DEF InReady
    <3>4. ok \in Outcomes(k) /\ o \notin {"write", "close"} => ~InReady(v, d, o)'
      BY <2>1, <2>5 DEF InReady, Outcomes
    <3> QED BY <1>2, <2>2, <2>3, <2>4, <2>5, <3>1, <3>2, <3>3, <3>4 DEF Open
  <2>6. CASE ~(d = c /\ o = k)
    <3>1. InReady(v, d, o)' <=> InReady(v, d, o)
      BY <2>1, <2>6, Tuples DEF InReady
    <3> QED BY <1>2, <2>2, <2>3, <2>4, <2>6, <3>1 DEF Open
  <2> QED BY <2>5, <2>6
<1> QED BY <1>3, <1>4

NoCompletion(x) == \A a, b, e : x # <<a, b, e>>

MovesOn(w, os, x) ==
    /\ Start(w, os) /\ ready' = ready /\ NoCompletion(x)
    /\ worker' = [worker EXCEPT ![w] = x]

(* A thread has handled what it took, and started os.                      *)
LEMMA Starts ==
    ASSUME Shape, NEW w \in Worker, NEW os, NEW x, MovesOn(w, os, x),
           NEW v \in Worker, NEW d \in Call, NEW o \in Operation
    PROVE  /\ Under(v, d, o)' => Under(v, d, o) \/ (v = w /\ <<d, o>> \in os)
           /\ Under(v, d, o) => Under(v, d, o)'
           /\ ~aborted' /\ <<d, o>> \in os => Under(w, d, o)'
           /\ InReady(v, d, o)' <=> InReady(v, d, o)
           /\ InHand(v, d, o)' <=> v # w /\ InHand(v, d, o)
           /\ InConnect(v, d)' <=> IF v = w THEN x = <<d, "connect">> ELSE InConnect(v, d)
           /\ InDisconnect(v, d)' <=> IF v = w THEN x = <<d, "disconnect">> ELSE InDisconnect(v, d)
           /\ aborted' => aborted \/ (shut[w] /\ os # {})
<1>1. \/ aborted' = TRUE /\ shut[w] /\ os # {} /\ under' = under
      \/ aborted' = aborted /\ under' = [under EXCEPT ![w] = @ \cup os]
  BY DEF Start, MovesOn
<1>2. /\ Under(v, d, o)' => Under(v, d, o) \/ (v = w /\ <<d, o>> \in os)
      /\ Under(v, d, o) => Under(v, d, o)'
  BY <1>1 DEF Shape, Under
<1>3. ~aborted' /\ <<d, o>> \in os => Under(w, d, o)'
  BY <1>1 DEF Shape, Under
<1>4. InReady(v, d, o)' <=> InReady(v, d, o)
  BY DEF InReady, MovesOn
<1>5. InHand(v, d, o)' <=> v # w /\ InHand(v, d, o)
  <2>1. CASE v = w
    <3>1. worker'[v] = x
      BY <2>1 DEF Shape, MovesOn
    <3> QED BY <2>1, <3>1 DEF InHand, NoCompletion, MovesOn
  <2>2. CASE v # w
    BY <2>2 DEF InHand, Shape, MovesOn
  <2> QED BY <2>1, <2>2
<1>6. /\ InConnect(v, d)' <=> IF v = w THEN x = <<d, "connect">> ELSE InConnect(v, d)
      /\ InDisconnect(v, d)' <=> IF v = w THEN x = <<d, "disconnect">> ELSE InDisconnect(v, d)
  BY DEF InConnect, InDisconnect, Shape, MovesOn
<1> QED BY <1>1, <1>2, <1>3, <1>4, <1>5, <1>6

-----------------------------------------------------------------------------
(* The steps that leave what is open alone.                                *)

LEMMA ClosingKept ==
    ASSUME ToldInv, ~aborted' => ~aborted,
           phase' \notin {"none", "close_all"} => phase \notin {"none", "close_all"},
           UNCHANGED <<left, pending, done, met, told, late>>,
           \A c \in met : on'[c] = on[c],
           \A w \in Worker, c \in Call : InDisconnect(w, c) => InDisconnect(w, c)',
           \A w \in Worker, c \in Call, o \in {"write", "close"} : Open(w, c, o) => Open(w, c, o)'
    PROVE  Closing'
<1>1. ASSUME NEW c \in met
      PROVE  /\ InDisconnect(on[c], c) => InDisconnect(on[c], c)'
             /\ \A o \in {"write", "close"} : Open(on[c], c, o) => Open(on[c], c, o)'
  <2>1. c \in Call /\ on[c] \in Worker /\ on'[c] = on[c]
    BY DEF ToldInv, Membership, Call
  <2>2. PICK w \in Worker : w = on[c] /\ w = on'[c]
    BY <2>1
  <2>3. InDisconnect(w, c) => InDisconnect(w, c)'
    BY <2>1
  <2>4. \A o \in {"write", "close"} : Open(w, c, o) => Open(w, c, o)'
    BY <2>1
  <2> QED BY <2>2, <2>3, <2>4 DEF InDisconnect, Open, Under, InReady, InHand
<1>2. ASSUME ~aborted', NEW c \in met' \ done', pending'[c] # <<>>
      PROVE  Open(on[c], c, "write")' \/ Open(on[c], c, "close")'
  BY <1>1, <1>2 DEF ToldInv, Closing
<1>3. ASSUME ~aborted', phase' \notin {"none", "close_all"}, NEW c \in met' \ (told' \cup late' \cup left')
      PROVE  CloseComes(c)'
  <2>1. c \in met /\ CloseComes(c)
    BY <1>3 DEF ToldInv, Closing
  <2>2. Waits(c) => Waits(c)'
    BY DEF Waits
  <2> QED BY <1>1, <2>1, <2>2 DEF CloseComes
<1> QED BY <1>2, <1>3 DEF Closing

QuietParts == Placed /\ Membership /\ Closing /\ BeginsOnce /\ HttpInOrder /\ WsInOrder

LEMMA QuietStep ==
    ASSUME ToldInv, CleanInv, AllQuiet, ~aborted' => ~aborted,
           UNCHANGED <<members, left, pending, done, met, told, late, on>>,
           closing' = closing \/ Outbox',
           \A c \in Call : link'[c] = "none" <=> link[c] = "none",
           phase' \in {"none", "close_all"} <=> phase \in {"none", "close_all"},
           phase' = "closing" <=> phase = "closing",
           \A w \in Worker : worker'[w] = <<"none">> => worker[w] = <<"none">>
    PROVE  QuietParts'
<1>1. Placed'
  BY DEF ToldInv, Placed, AllQuiet, Quiet, StaysOn, Open
<1>2. Membership'
  BY DEF ToldInv, Membership, Call, Early
<1>3. Closing'
  <2>1. \A w \in Worker, c \in Call, o \in {"write", "close"} : Open(w, c, o) => Open(w, c, o)'
    BY DEF AllQuiet, Quiet, Open, Operation
  <2>2. \A w \in Worker, c \in Call : InDisconnect(w, c) => InDisconnect(w, c)'
    BY DEF AllQuiet, StaysOn
  <2> QED BY <2>1, <2>2, ClosingKept
<1>4. BeginsOnce'
  BY DEF CleanInv, BeginsOnce, AllQuiet, Quiet, Open, Operation
<1>5. HttpInOrder'
  BY DEF CleanInv, HttpInOrder, AllQuiet, Quiet, Open, Operation, Call
<1>6. WsInOrder'
  <2>1. Outbox'
    BY DEF CleanInv, WsInOrder, Outbox
  <2> QED BY <2>1 DEF CleanInv, WsInOrder, AllQuiet, Quiet, StaysOn, Open, Operation, Call
<1> QED BY <1>1, <1>2, <1>3, <1>4, <1>5, <1>6 DEF QuietParts

RestParts ==
    Shape /\ EndedIsEmpty /\ PhaseDone /\ FinishedIfGone /\ OverBeforeShut
    /\ Undisturbed /\ (~cut => ~aborted)

LEMMA PartsMakeAll ==
    /\ QuietParts /\ RestParts => ToldInv /\ CleanInv
    /\ ToldInv /\ CleanInv => RestParts
BY DEF QuietParts, RestParts, ToldInv, CleanInv

LEMMA FinishedQuiet ==
    ASSUME CleanInv, AllQuiet, UNCHANGED <<link, done>>, ~cut' => ~cut
    PROVE  FinishedIfGone'
BY DEF CleanInv, FinishedIfGone, AllQuiet, Quiet, Open, Operation

Inv == IInv /\ ToldInv /\ CleanInv

(* When the shutdown is over, the threads have been joined. *)
LEMMA DoneJoined ==
    ASSUME IInv, PhaseDone, phase = "done", NEW w \in Worker
    PROVE  worker[w] \in {<<"none">>, <<"ended">>}
BY ServerConstants DEF IInv, TurnInRange, JoinedInOrder, DestroyedLast, PhaseDone, Worker

LEMMA StutterInv ==
    ASSUME Inv, UNCHANGED vars
    PROVE  ToldInv' /\ CleanInv'
<1>1. UNCHANGED <<exit, phase, by, turn, mserver, service, hub, aborted, worker, under, ready,
                  shut, link, on, members, left, pending, closing, done, met, told, late, cut>>
  BY DEF vars, server, queues, calls, socket
<1>2. QuietParts'
  BY <1>1, SameQueues, QuietStep DEF Inv
<1>3. FinishedIfGone'
  BY <1>1, SameQueues, FinishedQuiet DEF Inv
<1>4. RestParts'
  BY <1>1, <1>3, PartsMakeAll DEF Inv, RestParts, Shape, EndedIsEmpty, PhaseDone,
     OverBeforeShut, Undisturbed, CallsOver
<1> QED BY <1>2, <1>4, PartsMakeAll, PTL

LEMMA ClientBreaksInv ==
    ASSUME Inv, NEW b \in Call, ClientBreaks(b)
    PROVE  QuietParts' /\ RestParts'
<1>1. /\ link' = [link EXCEPT ![b] = "gone"] /\ link[b] = "live" /\ cut'
      /\ UNCHANGED <<exit, phase, turn, mserver, hub, aborted, worker, under, ready, shut, on,
                     members, left, pending, closing, done, met, told, late>>
  BY DEF ClientBreaks, queues, socket, server
<1>2. Shape' /\ \A c \in Call : link'[c] = "none" <=> link[c] = "none"
  BY <1>1 DEF Inv, ToldInv, Shape
<1>3. QuietParts'
  BY <1>1, <1>2, SameQueues, QuietStep DEF Inv
<1>4. RestParts'
  BY <1>1, <1>2 DEF Inv, ToldInv, CleanInv, RestParts, EndedIsEmpty, PhaseDone, FinishedIfGone,
     OverBeforeShut, Undisturbed
<1> QED BY <1>3, <1>4

LEMMA DeadlineInv ==
    ASSUME Inv, Deadline
    PROVE  QuietParts' /\ RestParts'
<1>1. /\ mserver = "stopping" /\ mserver' = "cut" /\ cut'
      /\ link' = [c \in Call |-> IF link[c] = "live" THEN "gone" ELSE link[c]]
      /\ UNCHANGED <<exit, phase, turn, hub, aborted, worker, under, ready, shut, on,
                     members, left, pending, closing, done, met, told, late>>
  BY DEF Deadline, queues, socket, server
<1>2. Shape' /\ \A c \in Call : link'[c] = "none" <=> link[c] = "none"
  BY <1>1 DEF Inv, ToldInv, Shape
<1>3. QuietParts'
  BY <1>1, <1>2, SameQueues, QuietStep DEF Inv
<1>4. RestParts'
  BY <1>1, <1>2 DEF Inv, ToldInv, CleanInv, RestParts, EndedIsEmpty, PhaseDone, FinishedIfGone,
     OverBeforeShut, Undisturbed
<1> QED BY <1>3, <1>4

(* The application closes a connection. *)
LEMMA AppClosesInv ==
    ASSUME Inv, ~aborted, NEW b \in WsCall, AppCloses(b)
    PROVE  QuietParts' /\ RestParts'
<1>1. /\ b \in met /\ closing' = [closing EXCEPT ![b] = IF b \in done THEN "over" ELSE "called"]
      /\ cut' = (cut \/ exit)
      /\ UNCHANGED <<exit, phase, turn, mserver, hub, aborted, worker, under, ready, shut, link, on,
                     members, left, pending, done, met, told, late>>
  BY DEF AppCloses, server, queues, calls
<1>2. Outbox'
  BY <1>1 DEF Inv, CleanInv, WsInOrder, Outbox
<1>3. QuietParts'
  BY <1>1, <1>2, SameQueues, QuietStep DEF Inv
<1>4. FinishedIfGone'
  BY <1>1, SameQueues, FinishedQuiet DEF Inv
<1>5. RestParts'
  BY <1>1, <1>4 DEF Inv, ToldInv, CleanInv, RestParts, Shape, EndedIsEmpty, PhaseDone,
     OverBeforeShut, Undisturbed, CallsOver
<1> QED BY <1>3, <1>5

(* shutdown_server, apart from close_all. *)
LEMMA BeginInv ==
    ASSUME Inv, NEW t, Begin(t)
    PROVE  QuietParts' /\ RestParts'
<1>1. /\ ~exit /\ exit' /\ phase' = "close_all"
      /\ cut' = (cut \/ t \in Worker \/ (\E w \in Worker : worker[w] = <<"start">>)
                     \/ \E c \in WsCall : closing[c] = "called")
      /\ UNCHANGED <<turn, mserver, hub, aborted, worker, under, ready, shut, link, on,
                     members, left, pending, closing, done, met, told, late>>
  BY DEF Begin, queues, socket, calls
<1>2. phase = "none"
  BY <1>1 DEF Inv, CleanInv, OverBeforeShut
<1>3. QuietParts'
  BY <1>1, <1>2, SameQueues, QuietStep DEF Inv
<1>4. FinishedIfGone'
  BY <1>1, SameQueues, FinishedQuiet DEF Inv
<1>5. RestParts'
  BY <1>1, <1>2, <1>4 DEF Inv, ToldInv, CleanInv, RestParts, Shape, EndedIsEmpty, PhaseDone,
     OverBeforeShut, Undisturbed, After
<1> QED BY <1>3, <1>5

(* Once the threads have been joined nothing is open, and what close_all   *)
(* owed has come.                                                          *)
LEMMA AllHeard ==
    ASSUME IInv, ToldInv, ~aborted, phase = "reset"
    PROVE  met \subseteq told \cup late
<1> SUFFICES ASSUME NEW c \in met \ (told \cup late) PROVE FALSE
    OBVIOUS
<1>1. CloseComes(c)
  BY DEF ToldInv, Closing, Membership
<1>2. on[c] \in Worker /\ worker[on[c]] # <<"none">>
  BY DEF ToldInv, Membership
<1>3. PICK w \in Worker : w = on[c]
  BY <1>2
<1>4. worker[w] = <<"ended">>
  BY <1>2, <1>3, ServerConstants DEF IInv, TurnInRange, JoinedInOrder, DestroyedLast, Worker
<1>5. under[w] = {} /\ ready[w] = {}
  BY <1>4 DEF ToldInv, EndedIsEmpty
<1>6. ~InDisconnect(w, c) /\ \A o \in {"write", "close"} : ~Open(w, c, o)
  BY <1>4, <1>5, Tuples DEF Open, Under, InReady, InHand, InDisconnect
<1> QED BY <1>1, <1>3, <1>6 DEF CloseComes

(* The steps after close_all. *)
LEMMA ShuttingInv ==
    ASSUME Inv, ~aborted, StopServer \/ Stopped \/ ShutQueue \/ Join \/ JoinThrows \/ ResetService \/ ResetHub
    PROVE  QuietParts' /\ RestParts'
<1>1. /\ phase' \notin Early /\ phase \notin Early
      /\ UNCHANGED <<exit, aborted, worker, under, ready, link, on, members, left, pending, closing, done,
                     met, told, late, cut>>
  BY DEF StopServer, Stopped, ShutQueue, Join, JoinThrows, ResetService, ResetHub, queues,
         socket, calls, Early
<1>2. QuietParts'
  BY <1>1, SameQueues, QuietStep DEF Inv, Early
<1>3. FinishedIfGone'
  BY <1>1, SameQueues, FinishedQuiet DEF Inv
<1>4. Undisturbed' /\ (~cut' => ~aborted')
  BY <1>1 DEF Inv, CleanInv, Undisturbed
<1>5. Shape' /\ EndedIsEmpty'
  <2>1. CASE ShutQueue
    <3>1. shut' = [shut EXCEPT ![turn] = TRUE] /\ phase' = "join"
      BY <2>1 DEF ShutQueue
    <3> QED BY <1>1, <3>1 DEF Inv, ToldInv, Shape, EndedIsEmpty, After
  <2>2. CASE ~ShutQueue
    <3>1. shut' = shut /\ (phase \in After => phase' \in After)
      BY <2>2 DEF StopServer, Stopped, Join, JoinThrows, ResetService, ResetHub, queues, After
    <3> QED BY <1>1, <3>1 DEF Inv, ToldInv, Shape, EndedIsEmpty
  <2> QED BY <2>1, <2>2
<1>6. PhaseDone'
  <2>1. CASE ResetHub
    <3>1. phase = "reset" /\ ~hub'
      BY <2>1 DEF ResetHub
    <3>2. met \subseteq told \cup late
      BY <3>1, AllHeard DEF Inv
    <3> QED BY <1>1, <3>1, <3>2 DEF PhaseDone
  <2>2. CASE ~ResetHub
    BY <1>1, <2>2 DEF StopServer, Stopped, ShutQueue, Join, JoinThrows, ResetService, PhaseDone
  <2> QED BY <2>1, <2>2
<1>7. OverBeforeShut'
  <2>1. CASE Stopped
    BY <1>1, <2>1 DEF Stopped, Inv, CleanInv, OverBeforeShut, CallsOver, After
  <2>2. CASE StopServer
    BY <1>1, <2>2 DEF StopServer, Inv, CleanInv, OverBeforeShut, CallsOver, After
  <2>3. CASE ~Stopped /\ ~StopServer
    <3>1. mserver' = mserver /\ (phase' \in After => phase \in After)
      BY <2>3 DEF ShutQueue, Join, JoinThrows, ResetService, ResetHub, After
    <3> QED BY <1>1, <3>1 DEF Inv, CleanInv, OverBeforeShut, CallsOver, Early
  <2> QED BY <2>1, <2>2, <2>3
<1> QED BY <1>2, <1>3, <1>4, <1>5, <1>6, <1>7 DEF RestParts

(* start_server, and a thread that begins or ends. *)
LEMMA StartServerInv ==
    ASSUME Inv, ~aborted, StartServer
    PROVE  QuietParts' /\ RestParts'
<1>1. /\ ~exit /\ mserver = "none" /\ mserver' = "serving"
      /\ worker' = [w \in Worker |-> <<"start">>]
      /\ UNCHANGED <<exit, phase, hub, aborted, under, ready, shut, link, on, members, left, pending, closing,
                     done, met, told, late, cut>>
  BY DEF StartServer, queues, socket, calls
<1>2. phase = "none" /\ \A c \in Call : link[c] = "none"
  BY <1>1 DEF Inv, CleanInv, OverBeforeShut
<1>3. ASSUME NEW w \in Worker, NEW c \in Call
      PROVE  StaysOn(w, c) /\ \A o \in Operation : Quiet(w, c, o)
  <2>1. \A o \in Operation : ~Open(w, c, o) /\ ~InConnect(w, c) /\ ~InDisconnect(w, c)
    BY <1>2 DEF Inv, ToldInv, Placed
  <2>2. ~InConnect(w, c)' /\ ~InDisconnect(w, c)' /\ \A o \in Operation : ~InHand(w, c, o)'
    BY <1>1, Tuples DEF InConnect, InDisconnect, InHand
  <2>3. \A o \in Operation : (Under(w, c, o)' <=> Under(w, c, o))
                            /\ (InReady(w, c, o)' <=> InReady(w, c, o))
    BY <1>1 DEF Under, InReady
  <2>4. "call" \in Operation
    BY DEF Operation
  <2> QED BY <2>1, <2>2, <2>3, <2>4 DEF StaysOn, Quiet, Open
<1>4. AllQuiet
  BY <1>3 DEF AllQuiet
<1>5. \A w \in Worker : worker'[w] = <<"start">> /\ <<"start">> # <<"none">> /\ <<"start">> # <<"ended">>
  BY <1>1, Places
<1>6. QuietParts'
  BY <1>1, <1>4, <1>5, QuietStep DEF Inv
<1>7. FinishedIfGone'
  BY <1>1, <1>4, FinishedQuiet DEF Inv
<1>8. Shape' /\ EndedIsEmpty' /\ PhaseDone' /\ Undisturbed' /\ (~cut' => ~aborted')
  BY <1>1, <1>2, <1>5 DEF Inv, ToldInv, CleanInv, Shape, EndedIsEmpty, PhaseDone, Undisturbed
<1>9. OverBeforeShut'
  BY <1>1, <1>2 DEF Inv, CleanInv, OverBeforeShut, After
<1> QED BY <1>6, <1>7, <1>8, <1>9 DEF RestParts

LEMMA EndsInv ==
    ASSUME Inv, ~aborted, NEW w \in Worker, Ends(w)
    PROVE  QuietParts' /\ RestParts'
<1>1. /\ worker[w] = <<"next">> /\ shut[w] /\ ready[w] = {} /\ under[w] = {}
      /\ worker' = [worker EXCEPT ![w] = <<"ended">>]
      /\ UNCHANGED <<exit, phase, mserver, hub, aborted, under, ready, shut, link, on, members, left,
                     pending, closing, done, met, told, late, cut>>
  BY DEF Ends, Drained, server, queues, socket, calls
<1>2. \A v \in Worker : worker'[v] = IF v = w THEN <<"ended">> ELSE worker[v]
  BY <1>1 DEF Inv, ToldInv, Shape
<1>3. AllQuiet
  <2>1. \A v \in Worker, c \in Call, o \in Operation :
           /\ InHand(v, c, o)' <=> InHand(v, c, o)
           /\ InConnect(v, c)' <=> InConnect(v, c)
           /\ InDisconnect(v, c)' <=> InDisconnect(v, c)
    BY <1>1, <1>2, Tuples DEF InHand, InConnect, InDisconnect
  <2>2. \A v \in Worker, c \in Call, o \in Operation :
           (Under(v, c, o)' <=> Under(v, c, o)) /\ (InReady(v, c, o)' <=> InReady(v, c, o))
    BY <1>1 DEF Under, InReady
  <2>3. "call" \in Operation
    BY DEF Operation
  <2> QED BY <2>1, <2>2, <2>3 DEF AllQuiet, Quiet, StaysOn
<1>4. <<"ended">> # <<"none">> /\ <<"ended">> # <<"start">>
  BY SMT
<1>5. QuietParts'
  BY <1>1, <1>2, <1>3, <1>4, QuietStep DEF Inv
<1>6. FinishedIfGone'
  BY <1>1, <1>3, FinishedQuiet DEF Inv
<1>7. Shape' /\ EndedIsEmpty' /\ PhaseDone' /\ Undisturbed' /\ (~cut' => ~aborted')
  BY <1>1, <1>2, <1>4 DEF Inv, ToldInv, CleanInv, Shape, EndedIsEmpty, PhaseDone, Undisturbed
<1>8. OverBeforeShut'
  BY <1>1 DEF Inv, CleanInv, OverBeforeShut, CallsOver
<1> QED BY <1>5, <1>6, <1>7, <1>8 DEF RestParts

(* The first calls are requested: nothing of a call that has come. *)
LEMMA RegisterInv ==
    ASSUME Inv, ~aborted, NEW w \in Worker, Register(w)
    PROVE  QuietParts' /\ RestParts'
<1>1. /\ worker[w] = <<"start">> /\ worker' = [worker EXCEPT ![w] = <<"next">>]
      /\ Start(w, Acceptor \X {"call"})
      /\ UNCHANGED <<exit, phase, mserver, hub, ready, shut, link, on, members, left,
                     pending, closing, done, met, told, late, cut>>
  BY DEF Register, server, socket, calls
<1>2. \A v \in Worker : worker'[v] = IF v = w THEN <<"next">> ELSE worker[v]
  BY <1>1 DEF Inv, ToldInv, Shape
<1>3. ASSUME NEW v \in Worker, NEW c \in Call
      PROVE  StaysOn(v, c) /\ \A o \in Operation : Quiet(v, c, o)
  <2>1. \A o \in Operation : <<c, o>> \notin Acceptor \X {"call"}
    BY ServerConstants DEF Call, Acceptor
  <2>2. ~InConnect(w, c) /\ ~InDisconnect(w, c) /\ \A o \in Operation : ~InHand(w, c, o)
    BY <1>1, Tuples DEF InConnect, InDisconnect, InHand
  <2>3. \A o \in Operation :
           /\ Under(v, c, o)' <=> Under(v, c, o)
           /\ InReady(v, c, o)' <=> InReady(v, c, o)
           /\ InHand(v, c, o)' <=> v # w /\ InHand(v, c, o)
           /\ InConnect(v, c)' <=> IF v = w THEN <<"next">> = <<c, "connect">> ELSE InConnect(v, c)
           /\ InDisconnect(v, c)' <=>
                 IF v = w THEN <<"next">> = <<c, "disconnect">> ELSE InDisconnect(v, c)
    <3> SUFFICES ASSUME NEW o \in Operation
                 PROVE  /\ Under(v, c, o)' <=> Under(v, c, o)
                        /\ InReady(v, c, o)' <=> InReady(v, c, o)
                        /\ InHand(v, c, o)' <=> v # w /\ InHand(v, c, o)
                        /\ InConnect(v, c)' <=>
                              IF v = w THEN <<"next">> = <<c, "connect">> ELSE InConnect(v, c)
                        /\ InDisconnect(v, c)' <=>
                              IF v = w THEN <<"next">> = <<c, "disconnect">> ELSE InDisconnect(v, c)
        OBVIOUS
    <3>1. PICK os : os = Acceptor \X {"call"}
      OBVIOUS
    <3>2. PICK x : x = <<"next">>
      OBVIOUS
    <3>3. Shape /\ Start(w, os) /\ ready' = ready /\ worker' = [worker EXCEPT ![w] = x]
      BY <1>1, <3>1, <3>2 DEF Inv, ToldInv
    <3>4. Shape /\ MovesOn(w, os, x)
      BY <3>2, <3>3, Tuples DEF NoCompletion, MovesOn
    <3>5. /\ Under(v, c, o)' => Under(v, c, o) \/ (v = w /\ <<c, o>> \in os)
          /\ Under(v, c, o) => Under(v, c, o)'
          /\ InReady(v, c, o)' <=> InReady(v, c, o)
          /\ InHand(v, c, o)' <=> v # w /\ InHand(v, c, o)
          /\ InConnect(v, c)' <=> IF v = w THEN x = <<c, "connect">> ELSE InConnect(v, c)
          /\ InDisconnect(v, c)' <=> IF v = w THEN x = <<c, "disconnect">> ELSE InDisconnect(v, c)
      BY <3>4, Starts
    <3> QED BY <2>1, <3>1, <3>2, <3>5
  <2>4. "call" \in Operation /\ <<"next">> # <<c, "connect">> /\ <<"next">> # <<c, "disconnect">>
    BY Tuples DEF Operation
  <2> QED BY <2>2, <2>3, <2>4 DEF StaysOn, Quiet
<1>4. AllQuiet
  BY <1>3 DEF AllQuiet
<1>5. <<"next">> # <<"none">> /\ <<"next">> # <<"start">> /\ <<"next">> # <<"ended">>
      /\ <<"start">> # <<"ended">> /\ <<"start">> # <<"none">>
  BY SMT
<1>6. shut[w] => cut /\ phase # "done"
  <2>1. phase # "done"
    BY <1>1, <1>5, DoneJoined DEF Inv, ToldInv
  <2>2. ASSUME shut[w], ~cut PROVE FALSE
    <3>1. exit
      BY <2>2 DEF Inv, ToldInv, EndedIsEmpty, CleanInv, OverBeforeShut, After
    <3> QED BY <1>1, <2>2, <3>1 DEF Inv, CleanInv, Undisturbed
  <2> QED BY <2>1, <2>2
<1>7. aborted' => cut /\ phase # "done"
  BY <1>1, <1>6 DEF Start
<1>8. QuietParts'
  BY <1>1, <1>2, <1>4, <1>5, QuietStep DEF Inv
<1>9. FinishedIfGone'
  BY <1>1, <1>4, FinishedQuiet DEF Inv
<1>10. PhaseDone' /\ (~cut' => ~aborted')
  BY <1>1, <1>7 DEF Inv, ToldInv, PhaseDone
<1>11. Undisturbed'
  BY <1>1, <1>2, <1>5 DEF Inv, CleanInv, Undisturbed
<1>12. under' = [v \in Worker |-> under'[v]] /\ \A v \in Worker : v # w => under'[v] = under[v]
  BY <1>1 DEF Start, Inv, ToldInv, Shape
<1>13. Shape'
  BY <1>1, <1>12 DEF Inv, ToldInv, Shape
<1>14. EndedIsEmpty'
  BY <1>1, <1>2, <1>5, <1>12 DEF Inv, ToldInv, EndedIsEmpty
<1>15. OverBeforeShut'
  BY <1>1 DEF Inv, CleanInv, OverBeforeShut, CallsOver
<1> QED BY <1>8, <1>9, <1>10, <1>11, <1>13, <1>14, <1>15 DEF RestParts

-----------------------------------------------------------------------------
(* Completions.                                                            *)

LEMMA CompleteInv ==
    ASSUME Inv, ~aborted, NEW w \in Worker, NEW c \in Call,
           NEW k \in {"read", "write", "close", "finish"}, NEW ok \in BOOLEAN,
           Complete(w, <<c, k>>, ok),
           UNCHANGED <<exit, phase, mserver, hub, aborted, worker, on, members, left, pending, closing, done,
                       met, told, late, cut>>,
           link' = [d \in Call |-> link'[d]],
           \A d \in Call : link'[d] = IF d = c /\ k = "finish" THEN "gone" ELSE link[d],
           link[c] = "live" \/ (link[c] = "gone" /\ ~ok)
    PROVE  QuietParts' /\ RestParts'
<1>1. /\ <<c, k>> \in under[w] /\ under' = [under EXCEPT ![w] = @ \ {<<c, k>>}] /\ shut' = shut
      /\ ready' = [v \in Worker |-> ready'[v]] /\ \A v \in Worker : v # w => ready'[v] = ready[v]
      /\ ready'[w] \subseteq ready[w] \cup {<<c, k, ok>>}
  BY DEF Complete, Inv, ToldInv, Shape
<1>2. k \in Operation /\ k # "call"
  BY DEF Operation
<1>3. ASSUME NEW v \in Worker, NEW d \in Call, NEW o \in Operation
      PROVE  /\ Under(w, c, k)
             /\ ~(v = w /\ d = c /\ o = k) => Quiet(v, d, o)
             /\ ~Under(w, c, k)'
             /\ InReady(w, c, k)' => InReady(w, c, k) \/ k # "finish"
             /\ k \in {"write", "close"} => InReady(w, c, k)'
             /\ k = "read" /\ ~ok => ~InReady(w, c, k)' \/ InReady(w, c, k)
             /\ InHand(v, d, o)' <=> InHand(v, d, o)
             /\ StaysOn(v, d)
  BY <1>2, Completes DEF Inv, ToldInv
<1>4. ASSUME NEW v \in Worker, NEW d \in Call, NEW o \in Operation, Open(v, d, o)'
      PROVE  Open(v, d, o)
  BY <1>2, <1>3, <1>4 DEF Open, Quiet
<1>5. ASSUME NEW v \in Worker, NEW d \in Call, NEW o \in {"write", "close"}, Open(v, d, o)
      PROVE  Open(v, d, o)'
  <2>1. o \in Operation
    BY DEF Operation
  <2> QED BY <1>2, <1>3, <1>5, <2>1 DEF Open, Quiet
<1>6. Shape'
  <2>1. <<c, k, ok>> \in Call \X Operation \X BOOLEAN
    BY <1>2
  <2>2. \A v \in Worker : ready'[v] \subseteq Call \X Operation \X BOOLEAN
    BY <1>1, <2>1 DEF Inv, ToldInv, Shape
  <2>3. under' = [v \in Worker |-> under'[v]]
    BY <1>1 DEF Inv, ToldInv, Shape
  <2> QED BY <1>1, <2>2, <2>3 DEF Inv, ToldInv, Shape
<1>7. EndedIsEmpty'
  BY <1>1 DEF Inv, ToldInv, EndedIsEmpty, Shape
<1>8. Placed'
  <2>1. \A v \in Worker, d \in Call : /\ InConnect(v, d)' => InConnect(v, d)
                                      /\ InDisconnect(v, d)' => InDisconnect(v, d)
    BY <1>2, <1>3 DEF StaysOn
  <2>2. \A d \in Call : link[d] # "none" => link'[d] # "none"
    BY <1>2
  <2> QED BY <1>4, <2>1, <2>2 DEF Inv, ToldInv, Placed
<1>9. Membership'
  BY DEF Inv, ToldInv, Membership, Call
<1>10. Closing'
  <2>1. \A v \in Worker, d \in Call : InDisconnect(v, d) => InDisconnect(v, d)'
    BY <1>2, <1>3 DEF StaysOn
  <2> QED BY <1>5, <2>1, ClosingKept DEF Inv
<1>11. PhaseDone' /\ Undisturbed' /\ (~cut' => ~aborted')
  BY DEF Inv, ToldInv, CleanInv, PhaseDone, Undisturbed
<1>12. BeginsOnce'
  <2> SUFFICES ASSUME NEW d \in Call, NEW v \in Worker
               PROVE  /\ ~Under(v, d, "call")' /\ ~InReady(v, d, "finish")' /\ ~InHand(v, d, "finish")'
                      /\ InReady(v, d, "call")' => ~InHand(v, d, "call")'
                      /\ Open(v, d, "call")' => \A o \in Operation \ {"call"} : ~Open(v, d, o)'
      BY DEF BeginsOnce
  <2>1. "call" \in Operation /\ "finish" \in Operation
    BY DEF Operation
  <2>2. Quiet(v, d, "call")
    BY <1>2, <1>3, <2>1
  <2>3. /\ ~Under(v, d, "call") /\ ~InReady(v, d, "finish") /\ ~InHand(v, d, "finish")
        /\ InReady(v, d, "call") => ~InHand(v, d, "call")
        /\ Open(v, d, "call") => \A o \in Operation \ {"call"} : ~Open(v, d, o)
    BY DEF Inv, CleanInv, BeginsOnce
  <2>4. ~InReady(v, d, "finish")' /\ ~InHand(v, d, "finish")'
    BY <1>3, <2>1, <2>3 DEF Quiet
  <2> QED BY <1>4, <2>1, <2>2, <2>3, <2>4 DEF Quiet
<1>13. HttpInOrder'
  <2> SUFFICES ASSUME NEW d \in HttpCall, NEW v \in Worker
               PROVE  /\ Under(v, d, "read")' => ~InReady(v, d, "read")' /\ ~InHand(v, d, "read")'
                      /\ InReady(v, d, "read")' => ~InHand(v, d, "read")'
                      /\ Open(v, d, "finish")' => ~Open(v, d, "read")'
      BY DEF HttpInOrder
  <2>1. d \in Call /\ "read" \in Operation /\ "finish" \in Operation
    BY DEF Operation, Call
  <2>2. /\ Under(v, d, "read") => ~InReady(v, d, "read") /\ ~InHand(v, d, "read")
        /\ InReady(v, d, "read") => ~InHand(v, d, "read")
        /\ Open(v, d, "finish") => ~Open(v, d, "read")
    BY DEF Inv, CleanInv, HttpInOrder
  <2>3. CASE v = w /\ d = c /\ k = "read"
    BY <1>3, <1>4, <2>1, <2>2, <2>3
  <2>4. CASE ~(v = w /\ d = c /\ k = "read")
    <3>1. Quiet(v, d, "read")
      BY <1>3, <2>1, <2>4
    <3> QED BY <1>4, <2>1, <2>2, <3>1 DEF Quiet
  <2> QED BY <2>3, <2>4
<1>14. WsInOrder'
  <2>1. \A d \in WsCall : d \in Call
    BY DEF Call
  <2>2. \A v \in Worker, d \in Call : /\ InConnect(v, d)' => InConnect(v, d)
                                      /\ InDisconnect(v, d)' => InDisconnect(v, d)
    BY <1>2, <1>3 DEF StaysOn
  <2>3. Outbox'
    BY DEF Inv, CleanInv, WsInOrder, Outbox
  <2> QED BY <1>4, <2>1, <2>2, <2>3 DEF Inv, CleanInv, WsInOrder, Operation
<1>15. FinishedIfGone'
  <2> SUFFICES ASSUME ~cut, NEW d \in Call, link'[d] = "gone"
               PROVE  /\ d \in WsCall => d \in done
                      /\ d \in HttpCall => \A v \in Worker, o \in {"call", "read", "finish"} :
                                              ~Open(v, d, o)'
      BY DEF FinishedIfGone
  <2>1. CASE link[d] = "gone"
    BY <1>4, <2>1 DEF Inv, CleanInv, FinishedIfGone, Operation
  <2>2. CASE link[d] # "gone"
    <3>1. d = c /\ k = "finish"
      BY <2>2
    <3>2. Under(w, c, "finish") /\ Open(w, c, "finish")
      BY <1>2, <1>3, <3>1 DEF Open
    <3>3. d \in WsCall => d \in done
      BY <3>1, <3>2 DEF Inv, CleanInv, WsInOrder
    <3>4. ASSUME d \in HttpCall, NEW v \in Worker, NEW o \in {"call", "read", "finish"}, Open(v, d, o)'
          PROVE  FALSE
      <4>1. o \in Operation /\ Open(v, d, o)
        BY <1>4, <3>4 DEF Operation
      <4>2. v = w
        BY <3>1, <3>2, <4>1 DEF Inv, ToldInv, Placed, Operation
      <4>3. o = "finish"
        BY <3>1, <3>2, <3>4, <4>1, <4>2 DEF Inv, CleanInv, BeginsOnce, HttpInOrder, Operation
      <4>4. ~InReady(w, c, "finish") /\ ~InHand(w, c, "finish")
        BY DEF Inv, CleanInv, BeginsOnce
      <4> QED BY <1>3, <3>1, <3>4, <4>1, <4>2, <4>3, <4>4 DEF Open
    <3> QED BY <3>3, <3>4
  <2> QED BY <2>1, <2>2
<1>16. OverBeforeShut'
  <2>1. \A d \in Call : link'[d] = "live" => link[d] = "live"
    OBVIOUS
  <2>2. mserver # "none"
    BY DEF Inv, CleanInv, OverBeforeShut
  <2> QED BY <2>1, <2>2 DEF Inv, CleanInv, OverBeforeShut, CallsOver
<1> QED BY <1>6, <1>7, <1>8, <1>9, <1>10, <1>11, <1>12, <1>13, <1>14, <1>15, <1>16
     DEF QuietParts, RestParts

LEMMA EnvironmentInv ==
    ASSUME Inv, ~aborted, NEW w \in Worker,
           Environment(w) \/ \E c \in Call : ClientSends(w, c)
    PROVE  QuietParts' /\ RestParts'
<1> USE DEF server, calls, socket
<1>0. link = [d \in Call |-> link[d]]
  BY DEF Inv, ToldInv, Shape
<1>1. ASSUME NEW c \in Call, ClientSends(w, c) PROVE QuietParts' /\ RestParts'
  BY <1>0, <1>1, CompleteInv DEF ClientSends
<1>2. ASSUME NEW c \in Call, NEW o \in {"write", "close", "finish"}, Sent(w, c, o)
      PROVE QuietParts' /\ RestParts'
  <2>1. /\ link' = [d \in Call |-> link'[d]]
        /\ \A d \in Call : link'[d] = IF d = c /\ o = "finish" THEN "gone" ELSE link[d]
    BY <1>0, <1>2 DEF Sent
  <2> QED BY <1>2, <2>1, CompleteInv DEF Sent
<1>3. ASSUME NEW c \in Call, NEW o \in {"read", "write", "close", "finish"}, Fails(w, c, o)
      PROVE QuietParts' /\ RestParts'
  BY <1>0, <1>3, CompleteInv DEF Fails
<1>4. ASSUME NEW k \in Acceptor, CallRefused(w, k) PROVE QuietParts' /\ RestParts'
  <2>1. /\ under' = [under EXCEPT ![w] = @ \ {<<k, "call">>}]
        /\ UNCHANGED <<exit, phase, mserver, hub, aborted, worker, ready, shut, on, link, members, left,
                       pending, closing, done, met, told, late, cut>>
    BY <1>4 DEF CallRefused, Complete, Inert
  <2>2. ASSUME NEW v \in Worker, NEW c \in Call, NEW o \in Operation
        PROVE  Under(v, c, o)' <=> Under(v, c, o)
    <3>1. c # k
      BY ServerConstants
    <3>2. <<c, o>> # <<k, "call">>
      BY <3>1, Tuples
    <3> QED BY <2>1, <3>2 DEF Under, Inv, ToldInv, Shape
  <2>3. AllQuiet
    BY <2>1, <2>2 DEF AllQuiet, Quiet, StaysOn, InReady, InHand, InConnect, InDisconnect
  <2>4. QuietParts'
    BY <2>1, <2>3, QuietStep DEF Inv
  <2>5. FinishedIfGone'
    BY <2>1, <2>3, FinishedQuiet DEF Inv
  <2>6. Shape' /\ EndedIsEmpty' /\ PhaseDone' /\ Undisturbed' /\ (~cut' => ~aborted')
    BY <2>1 DEF Inv, ToldInv, CleanInv, Shape, EndedIsEmpty, PhaseDone, Undisturbed
  <2>7. OverBeforeShut'
    BY <2>1 DEF Inv, CleanInv, OverBeforeShut, CallsOver
  <2> QED BY <2>4, <2>5, <2>6, <2>7 DEF RestParts
<1> QED BY <1>1, <1>2, <1>3, <1>4 DEF Environment

(* A call comes: nothing of it was open. *)
LEMMA ClientCallsInv ==
    ASSUME Inv, ~aborted, NEW w \in Worker, NEW c \in Call, ClientCalls(w, c)
    PROVE  QuietParts' /\ RestParts'
<1>1. /\ mserver = "serving" /\ link[c] = "none" /\ <<Kind(c), "call">> \in under[w]
      /\ under' = [under EXCEPT ![w] = @ \ {<<Kind(c), "call">>}]
      /\ ready' = [ready EXCEPT ![w] = @ \cup {<<c, "call", TRUE>>}]
      /\ link' = [link EXCEPT ![c] = "live"] /\ on' = [on EXCEPT ![c] = w]
      /\ UNCHANGED <<exit, phase, mserver, hub, aborted, worker, shut, members, left, pending, closing, done,
                     met, told, late, cut>>
  BY DEF ClientCalls, server, socket
<1>2. \A v \in Worker : /\ ready'[v] = IF v = w THEN ready[v] \cup {<<c, "call", TRUE>>} ELSE ready[v]
                        /\ under'[v] = IF v = w THEN under[v] \ {<<Kind(c), "call">>} ELSE under[v]
  BY <1>1 DEF Inv, ToldInv, Shape
<1>3. \A d \in Call : /\ link'[d] = IF d = c THEN "live" ELSE link[d]
                      /\ on'[d] = IF d = c THEN w ELSE on[d]
  BY <1>1 DEF Inv, ToldInv, Shape
<1>4. ASSUME NEW v \in Worker, NEW o \in Operation
      PROVE  ~Open(v, c, o) /\ ~InConnect(v, c) /\ ~InDisconnect(v, c)
  BY <1>1 DEF Inv, ToldInv, Placed
<1>5. c \notin met
  BY <1>1 DEF Inv, ToldInv, Membership
<1>6. ASSUME NEW v \in Worker, NEW d \in Call, NEW o \in Operation
      PROVE  /\ Under(v, d, o)' <=> Under(v, d, o)
             /\ ~(d = c /\ o = "call") => (InReady(v, d, o)' <=> InReady(v, d, o))
             /\ InReady(v, c, "call")' => v = w
             /\ InHand(v, d, o)' <=> InHand(v, d, o)
             /\ InConnect(v, d)' <=> InConnect(v, d)
             /\ InDisconnect(v, d)' <=> InDisconnect(v, d)
  <2>1. <<d, o>> # <<Kind(c), "call">>
    <3>1. Kind(c) \in Acceptor
      BY DEF Kind, Acceptor
    <3> QED BY <3>1, ServerConstants, Tuples
  <2>2. Under(v, d, o)' <=> Under(v, d, o)
    BY <1>2, <2>1 DEF Under
  <2>3. ASSUME ~(d = c /\ o = "call") PROVE InReady(v, d, o)' <=> InReady(v, d, o)
    <3>1. \A b : <<d, o, b>> # <<c, "call", TRUE>>
      BY <2>3, Tuples
    <3> QED BY <1>2, <3>1 DEF InReady
  <2>4. ASSUME v # w PROVE ~InReady(v, c, "call")'
    <3>1. ~InReady(v, c, "call")
      BY <1>4 DEF Open, Operation
    <3> QED BY <1>2, <2>4, <3>1 DEF InReady
  <2>5. /\ InHand(v, d, o)' <=> InHand(v, d, o)
        /\ InConnect(v, d)' <=> InConnect(v, d)
        /\ InDisconnect(v, d)' <=> InDisconnect(v, d)
    BY <1>1 DEF InHand, InConnect, InDisconnect
  <2> QED BY <2>2, <2>3, <2>4, <2>5
<1>7. ASSUME NEW v \in Worker, NEW d \in Call, NEW o \in Operation
      PROVE  /\ ~(d = c /\ o = "call") => (Open(v, d, o)' <=> Open(v, d, o))
             /\ Open(v, c, "call")' => v = w
  <2>1. ~Open(v, c, "call")
    BY <1>4 DEF Operation
  <2>2. "call" \in Operation
    BY DEF Operation
  <2> QED BY <1>6, <2>1, <2>2 DEF Open
<1>8. Shape'
  <2>1. <<c, "call", TRUE>> \in Call \X Operation \X BOOLEAN
    BY DEF Operation
  <2>2. \A v \in Worker : ready'[v] \subseteq Call \X Operation \X BOOLEAN
    BY <1>2, <2>1 DEF Inv, ToldInv, Shape
  <2>3. /\ under' = [v \in Worker |-> under'[v]] /\ ready' = [v \in Worker |-> ready'[v]]
        /\ link' = [d \in Call |-> link'[d]] /\ on' = [d \in Call |-> on'[d]]
    BY <1>1 DEF Inv, ToldInv, Shape
  <2> QED BY <1>1, <2>2, <2>3 DEF Inv, ToldInv, Shape
<1>9. EndedIsEmpty'
  BY <1>1, <1>2 DEF Inv, ToldInv, EndedIsEmpty
<1>10. Placed'
  <2> SUFFICES ASSUME NEW v \in Worker, NEW d \in Call, NEW o \in Operation,
                      Open(v, d, o)' \/ InConnect(v, d)' \/ InDisconnect(v, d)'
               PROVE  on'[d] = v /\ link'[d] # "none"
      BY DEF Placed
  <2>1. CASE d = c
    <3>1. ~InConnect(v, d)' /\ ~InDisconnect(v, d)' /\ Open(v, d, o)' /\ o = "call"
      BY <1>4, <1>6, <1>7, <2>1
    <3>2. v = w
      BY <1>7, <2>1, <3>1
    <3> QED BY <1>3, <2>1, <3>2
  <2>2. CASE d # c
    BY <1>3, <1>6, <1>7, <2>2 DEF Inv, ToldInv, Placed
  <2> QED BY <2>1, <2>2
<1>11. Membership'
  BY <1>1, <1>3, <1>5 DEF Inv, ToldInv, Membership, Call
<1>12. Closing'
  <2>1. \A v \in Worker, d \in Call, o \in {"write", "close"} : Open(v, d, o) => Open(v, d, o)'
    BY <1>7 DEF Operation
  <2>2. \A d \in met : on'[d] = on[d]
    BY <1>3, <1>5 DEF Inv, ToldInv, Membership, Call
  <2>3. \A v \in Worker, d \in Call : InDisconnect(v, d) => InDisconnect(v, d)'
    BY <1>6 DEF Operation
  <2> QED BY <1>1, <2>1, <2>2, <2>3, ClosingKept DEF Inv
<1>13. PhaseDone' /\ Undisturbed' /\ (~cut' => ~aborted')
  BY <1>1 DEF Inv, ToldInv, CleanInv, PhaseDone, Undisturbed
<1>14. BeginsOnce'
  <2> SUFFICES ASSUME NEW d \in Call, NEW v \in Worker
               PROVE  /\ ~Under(v, d, "call")' /\ ~InReady(v, d, "finish")' /\ ~InHand(v, d, "finish")'
                      /\ InReady(v, d, "call")' => ~InHand(v, d, "call")'
                      /\ Open(v, d, "call")' => \A o \in Operation \ {"call"} : ~Open(v, d, o)'
      BY DEF BeginsOnce
  <2>1. "call" \in Operation /\ "finish" \in Operation
    BY DEF Operation
  <2>2. /\ ~Under(v, d, "call") /\ ~InReady(v, d, "finish") /\ ~InHand(v, d, "finish")
        /\ InReady(v, d, "call") => ~InHand(v, d, "call")
        /\ Open(v, d, "call") => \A o \in Operation \ {"call"} : ~Open(v, d, o)
    BY DEF Inv, CleanInv, BeginsOnce
  <2>3. ~Under(v, d, "call")' /\ ~InReady(v, d, "finish")' /\ ~InHand(v, d, "finish")'
    BY <1>6, <2>1, <2>2
  <2>4. CASE d = c
    <3>1. ~InHand(v, d, "call")
      BY <1>4, <2>1, <2>4 DEF Open
    <3>2. \A o \in Operation \ {"call"} : ~Open(v, d, o)'
      BY <1>4, <1>7, <2>4
    <3> QED BY <1>6, <2>1, <2>3, <3>1, <3>2
  <2>5. CASE d # c
    BY <1>6, <1>7, <2>1, <2>2, <2>3, <2>5
  <2> QED BY <2>4, <2>5
<1>15. HttpInOrder'
  BY <1>6, <1>7 DEF Inv, CleanInv, HttpInOrder, Operation, Call
<1>16. WsInOrder'
  <2>1. \A d \in WsCall : d \in Call
    BY DEF Call
  <2>2. Outbox'
    BY <1>1 DEF Inv, CleanInv, WsInOrder, Outbox
  <2> QED BY <1>1, <1>5, <1>6, <1>7, <2>1, <2>2 DEF Inv, CleanInv, WsInOrder, Operation
<1>17. FinishedIfGone'
  BY <1>1, <1>3, <1>7 DEF Inv, CleanInv, FinishedIfGone, Operation
<1>18. OverBeforeShut'
  BY <1>1 DEF Inv, CleanInv, OverBeforeShut
<1> QED BY <1>8, <1>9, <1>10, <1>11, <1>12, <1>13, <1>14, <1>15, <1>16, <1>17, <1>18
     DEF QuietParts, RestParts

(* A completion is taken. *)
LEMMA TakeInv ==
    ASSUME Inv, ~aborted, NEW w \in Worker, NEW e \in ready[w], Take(w, e)
    PROVE  QuietParts' /\ RestParts'
<1>1. PICK c \in Call, k \in Operation, ok \in BOOLEAN : e = <<c, k, ok>>
  BY DEF Inv, ToldInv, Shape
<1>2. /\ worker[w] = <<"next">> /\ worker' = [worker EXCEPT ![w] = e]
      /\ ready' = [ready EXCEPT ![w] = @ \ {e}]
      /\ UNCHANGED <<exit, phase, mserver, hub, aborted, under, shut, link, on, members, left, pending, closing,
                     done, met, told, late, cut>>
  BY DEF Take, server, calls, socket
<1>3. \A v \in Worker : /\ ready'[v] = IF v = w THEN ready[v] \ {e} ELSE ready[v]
                        /\ worker'[v] = IF v = w THEN e ELSE worker[v]
  BY <1>2 DEF Inv, ToldInv, Shape
<1>4. ASSUME NEW v \in Worker, NEW d \in Call, NEW o \in Operation
      PROVE  /\ Open(v, d, o)' <=> Open(v, d, o)
             /\ Under(v, d, o)' <=> Under(v, d, o)
             /\ InReady(v, d, o)' => InReady(v, d, o)
             /\ InHand(v, d, o)' => InReady(v, d, o) \/ InHand(v, d, o)
             /\ InHand(v, d, o)' /\ InReady(v, d, o)' =>
                   o \in {"write", "close"} \/ InHand(v, d, o)
             /\ InConnect(v, d)' => InConnect(v, d)
             /\ InDisconnect(v, d)' <=> InDisconnect(v, d)
  BY <1>1, Takes DEF Inv, ToldInv
<1>5. e # <<"none">> /\ e # <<"ended">> /\ e # <<"start">>
  BY <1>1, Tuples
<1>6. Shape' /\ EndedIsEmpty'
  BY <1>2, <1>3, <1>5 DEF Inv, ToldInv, Shape, EndedIsEmpty
<1>7. Placed'
  BY <1>2, <1>4 DEF Inv, ToldInv, Placed
<1>8. Membership'
  BY <1>2, <1>3, <1>5 DEF Inv, ToldInv, Membership
<1>9. Closing'
  <2>1. \A v \in Worker, d \in Call, o \in {"write", "close"} : Open(v, d, o) => Open(v, d, o)'
    BY <1>4 DEF Operation
  <2>2. \A v \in Worker, d \in Call : InDisconnect(v, d) => InDisconnect(v, d)'
    BY <1>4 DEF Operation
  <2> QED BY <1>2, <2>1, <2>2, ClosingKept DEF Inv
<1>10. PhaseDone' /\ Undisturbed' /\ (~cut' => ~aborted')
  BY <1>2, <1>3, <1>5 DEF Inv, ToldInv, CleanInv, PhaseDone, Undisturbed
<1>11. BeginsOnce'
  BY <1>4 DEF Inv, CleanInv, BeginsOnce, Operation
<1>12. HttpInOrder'
  BY <1>4 DEF Inv, CleanInv, HttpInOrder, Operation, Call
<1>13. WsInOrder'
  <2>1. Outbox'
    BY <1>2 DEF Inv, CleanInv, WsInOrder, Outbox
  <2> QED BY <1>2, <1>4, <2>1 DEF Inv, CleanInv, WsInOrder, Operation, Call
<1>14. FinishedIfGone'
  BY <1>2, <1>4 DEF Inv, CleanInv, FinishedIfGone, Operation
<1>15. OverBeforeShut'
  BY <1>2 DEF Inv, CleanInv, OverBeforeShut, CallsOver
<1> QED BY <1>6, <1>7, <1>8, <1>9, <1>10, <1>11, <1>12, <1>13, <1>14, <1>15
     DEF QuietParts, RestParts

-----------------------------------------------------------------------------
(* The queue of a connection.                                              *)

NoNewCall ==
    /\ closing' \in [WsCall -> {"none", "called", "over", "never"}]
    /\ \A c \in WsCall : closing'[c] = "called" => closing[c] = "called"

(* An operation for c is started, or its message waits behind others. *)
LEMMA Queued ==
    ASSUME Inv, NEW c \in met, NEW o \in {"write", "close"}, Queue(c, o), NoNewCall, met' = met
    PROVE  \E os :
              /\ Start(on[c], os) /\ (os = {} \/ os = {<<c, o>>})
              /\ Outbox' /\ \A d \in WsCall \ {c} : pending'[d] = pending[d]
              /\ Waits(c) => Waits(c)'
              /\ os = {} => /\ pending[c] # <<>> \/ Open(on[c], c, "write") \/ Open(on[c], c, "close")
                            /\ o = "close" => Waits(c)'
              /\ os # {} => pending' = pending /\ pending[c] = <<>>
<1>1. c \in WsCall /\ on[c] \in Worker /\ Outbox
  BY DEF Inv, ToldInv, Membership, CleanInv, WsInOrder
<1>2. CASE Writing(c) \/ pending[c] # <<>>
  <2>1. pending' = [pending EXCEPT ![c] = Append(@, o)] /\ under' = under /\ aborted' = aborted
    BY <1>2 DEF Queue
  <2>2. Start(on[c], {})
    BY <2>1 DEF Start, Inv, ToldInv, Shape
  <2>3. pending[c] \in Seq({"write", "close"}) /\ pending'[c] = Append(pending[c], o)
    BY <1>1, <2>1 DEF Outbox
  <2>4. Waits(c) => Waits(c)'
    BY <2>3 DEF Waits
  <2>5. o = "close" => Waits(c)'
    <3>1. Len(pending[c]) + 1 \in DOMAIN pending'[c] /\ pending'[c][Len(pending[c]) + 1] = o
      BY <2>3
    <3> QED BY <3>1 DEF Waits
  <2>6. Outbox'
    <3>1. pending' \in [WsCall -> Seq({"write", "close"})]
      BY <1>1, <2>1, <2>3 DEF Outbox
    <3>2. \A d \in WsCall : pending'[d] # <<>> => d = c \/ pending[d] # <<>>
      BY <1>1, <2>1 DEF Outbox
    <3> QED BY <1>1, <3>1, <3>2 DEF Outbox, NoNewCall
  <2>7. pending[c] # <<>> \/ Open(on[c], c, "write") \/ Open(on[c], c, "close")
    BY <1>2 DEF Writing, Open, Under, InReady, InHand, Outcomes
  <2>8. \A d \in WsCall \ {c} : pending'[d] = pending[d]
    BY <1>1, <2>1 DEF Outbox
  <2> QED BY <2>2, <2>4, <2>5, <2>6, <2>7, <2>8
<1>3. CASE ~Writing(c) /\ pending[c] = <<>>
  <2>1. Start(on[c], {<<c, o>>}) /\ pending' = pending
    BY <1>3 DEF Queue
  <2>2. Outbox'
    BY <1>1, <2>1 DEF Outbox, NoNewCall
  <2>3. Waits(c) => Waits(c)'
    BY <2>1 DEF Waits
  <2>4. {<<c, o>>} # {}
    OBVIOUS
  <2> QED BY <1>3, <2>1, <2>2, <2>3, <2>4
<1> QED BY <1>2, <1>3

(* What was queued behind a message follows it. *)
LEMMA Follows ==
    ASSUME Inv, NEW w \in Worker, NEW c \in met, WritesNext(w, c), UNCHANGED <<closing, met>>
    PROVE  \E os :
              /\ Start(w, os) /\ os \subseteq {<<c, "write">>, <<c, "close">>}
              /\ Outbox' /\ \A d \in WsCall \ {c} : pending'[d] = pending[d]
              /\ c \in done => os = {}
              /\ c \notin done /\ pending'[c] # <<>> => <<c, "write">> \in os \/ <<c, "close">> \in os
              /\ c \notin done /\ Waits(c) =>
                    <<c, "close">> \in os \/ (<<c, "write">> \in os /\ Waits(c)')
<1>1. c \in WsCall /\ Outbox
  BY DEF Inv, ToldInv, Membership, CleanInv, WsInOrder
<1>2. CASE c \in done \/ pending[c] = <<>>
  <2>1. under' = under /\ aborted' = aborted /\ pending' = pending
    BY <1>2 DEF WritesNext
  <2>2. Start(w, {})
    BY <2>1 DEF Start, Inv, ToldInv, Shape
  <2>3. Outbox'
    BY <1>1, <2>1 DEF Outbox
  <2>4. pending[c] = <<>> => ~Waits(c)
    BY DEF Waits
  <2> QED BY <1>2, <2>1, <2>2, <2>3, <2>4
<1>3. CASE c \notin done /\ pending[c] # <<>>
  <2>1. /\ Start(w, {<<c, Head(pending[c])>>})
        /\ pending' = [pending EXCEPT ![c] = Tail(@)]
    BY <1>3 DEF WritesNext
  <2>2. pending[c] \in Seq({"write", "close"}) /\ pending'[c] = Tail(pending[c])
    BY <1>1, <2>1 DEF Outbox
  <2>3. PICK s \in Seq({"write", "close"}) : s = pending[c] /\ s # <<>>
    BY <1>3, <2>2
  <2>4. Head(s) \in {"write", "close"} /\ Tail(s) \in Seq({"write", "close"})
    BY <2>3
  <2>5. Outbox'
    <3>1. pending' \in [WsCall -> Seq({"write", "close"})]
      BY <1>1, <2>1, <2>3, <2>4 DEF Outbox
    <3>2. \A d \in WsCall : pending'[d] # <<>> => d = c \/ pending[d] # <<>>
      BY <1>1, <2>1 DEF Outbox
    <3> QED BY <1>1, <3>1, <3>2 DEF Outbox
  <2>6. ASSUME Waits(c), Head(s) # "close" PROVE Waits(c)'
    <3>1. PICK i \in 1 .. Len(s) : s[i] = "close"
      BY <2>3, <2>6 DEF Waits
    <3>2. i # 1
      BY <2>3, <2>6, <3>1
    <3>3. i - 1 \in DOMAIN Tail(s) /\ Tail(s)[i - 1] = s[i]
      BY <2>3, <3>1, <3>2
    <3> QED BY <2>2, <2>3, <3>1, <3>3 DEF Waits
  <2>7. \A d \in WsCall \ {c} : pending'[d] = pending[d]
    BY <1>1, <2>1 DEF Outbox
  <2>8. PICK os : os = {<<c, Head(s)>>}
    OBVIOUS
  <2>9. /\ Start(w, os) /\ os \subseteq {<<c, "write">>, <<c, "close">>}
        /\ <<c, "write">> \in os \/ <<c, "close">> \in os
        /\ Head(s) = "close" => <<c, "close">> \in os
        /\ Head(s) # "close" => <<c, "write">> \in os
    BY <2>1, <2>3, <2>4, <2>8
  <2> QED BY <1>3, <2>5, <2>6, <2>7, <2>9
<1> QED BY <1>2, <1>3

-----------------------------------------------------------------------------
(* Continuations.                                                          *)

(* Thread w handles what it took of call c, and starts os. *)
HandMoves(w, c, os) ==
    \A v \in Worker, d \in Call, o \in Operation :
        /\ Under(v, d, o)' => Under(v, d, o) \/ (v = w /\ d = c /\ <<c, o>> \in os)
        /\ Under(v, d, o) => Under(v, d, o)'
        /\ ~aborted' /\ <<c, o>> \in os => Under(w, c, o)'
        /\ InReady(v, d, o)' <=> InReady(v, d, o)
        /\ InHand(v, d, o)' <=> v # w /\ InHand(v, d, o)
        /\ InConnect(v, d)' => (v # w /\ InConnect(v, d)) \/ (v = w /\ d = c)
        /\ InDisconnect(v, d)' => (v # w /\ InDisconnect(v, d)) \/ (v = w /\ d = c)
        /\ InDisconnect(v, d) => InDisconnect(v, d)' \/ (v = w /\ d = c)
        /\ Open(v, d, o)' => Open(v, d, o) \/ (v = w /\ d = c /\ <<c, o>> \in os)
        /\ Open(v, d, o) => Open(v, d, o)' \/ (v = w /\ d = c /\ InHand(w, c, o))

InUse(w, c) == InConnect(w, c) \/ InDisconnect(w, c) \/ \E o \in Operation : InHand(w, c, o)

Continues(w, c, os) ==
    /\ InUse(w, c) /\ Start(w, os)
    /\ \/ worker' = [worker EXCEPT ![w] = <<"next">>]
       \/ worker' = [worker EXCEPT ![w] = <<c, "connect">>]
       \/ worker' = [worker EXCEPT ![w] = <<c, "disconnect">>]
    /\ \A d \in Call, o \in Operation : <<d, o>> \in os => d = c /\ o # "call"
    /\ UNCHANGED <<exit, phase, mserver, hub, ready, shut, link, on, left, closing, cut>>

LEMMA ContinuesMoves ==
    ASSUME Inv, ~aborted, NEW w \in Worker, NEW c \in Call, NEW os, Continues(w, c, os)
    PROVE  HandMoves(w, c, os)
<1> SUFFICES ASSUME NEW v \in Worker, NEW d \in Call, NEW o \in Operation
             PROVE
        /\ Under(v, d, o)' => Under(v, d, o) \/ (v = w /\ d = c /\ <<c, o>> \in os)
        /\ Under(v, d, o) => Under(v, d, o)'
        /\ ~aborted' /\ <<c, o>> \in os => Under(w, c, o)'
        /\ InReady(v, d, o)' <=> InReady(v, d, o)
        /\ InHand(v, d, o)' <=> v # w /\ InHand(v, d, o)
        /\ InConnect(v, d)' => (v # w /\ InConnect(v, d)) \/ (v = w /\ d = c)
        /\ InDisconnect(v, d)' => (v # w /\ InDisconnect(v, d)) \/ (v = w /\ d = c)
        /\ InDisconnect(v, d) => InDisconnect(v, d)' \/ (v = w /\ d = c)
        /\ Open(v, d, o)' => Open(v, d, o) \/ (v = w /\ d = c /\ <<c, o>> \in os)
        /\ Open(v, d, o) => Open(v, d, o)' \/ (v = w /\ d = c /\ InHand(w, c, o))
    BY DEF HandMoves
<1>1. PICK x : /\ worker' = [worker EXCEPT ![w] = x]
               /\ x = <<"next">> \/ x = <<c, "connect">> \/ x = <<c, "disconnect">>
  BY DEF Continues
<1>2. Shape /\ Start(w, os) /\ ready' = ready /\ \E b \in Call : b = c
  BY DEF Inv, ToldInv, Continues
<1>3. worker' = [worker EXCEPT ![w] = x]
  BY <1>1
<1>4. NoCompletion(x)
  BY <1>1, Tuples DEF NoCompletion
<1>5. Shape /\ Start(w, os) /\ ready' = ready
  BY <1>2
<1>6. Shape /\ MovesOn(w, os, x)
  BY <1>3, <1>4, <1>5 DEF MovesOn
<1>7. /\ Under(v, d, o)' => Under(v, d, o) \/ (v = w /\ <<d, o>> \in os)
      /\ Under(v, d, o) => Under(v, d, o)'
      /\ InReady(v, d, o)' <=> InReady(v, d, o)
      /\ InHand(v, d, o)' <=> v # w /\ InHand(v, d, o)
      /\ InConnect(v, d)' <=> IF v = w THEN x = <<d, "connect">> ELSE InConnect(v, d)
      /\ InDisconnect(v, d)' <=> IF v = w THEN x = <<d, "disconnect">> ELSE InDisconnect(v, d)
  BY <1>6, Starts
<1>8. ~aborted' /\ <<c, o>> \in os => Under(w, c, o)'
  BY <1>6, Starts
<1>9. <<d, o>> \in os => d = c
  BY DEF Continues
<1>10. x = <<d, "connect">> \/ x = <<d, "disconnect">> => d = c
  BY <1>1, Tuples
<1>11. InHand(w, d, o) \/ InDisconnect(w, d) => d = c
  BY Tuples DEF Continues, InUse, InHand, InConnect, InDisconnect
<1> QED BY <1>7, <1>8, <1>9, <1>10, <1>11 DEF Open

LEMMA ContinuesInv ==
    ASSUME Inv, ~aborted, NEW w \in Worker, NEW c \in Call, NEW os, Continues(w, c, os),
           c \in HttpCall => InHand(w, c, "call") \/ InHand(w, c, "read"),
           shut[w] /\ ~cut /\ link[c] = "gone" => os = {},
           done \subseteq done'
    PROVE  /\ Shape' /\ EndedIsEmpty' /\ PhaseDone' /\ FinishedIfGone' /\ OverBeforeShut'
           /\ Undisturbed' /\ (~cut' => ~aborted') /\ Placed' /\ BeginsOnce'
<1>1. HandMoves(w, c, os)
  BY ContinuesMoves
<1>2. UNCHANGED <<exit, phase, mserver, hub, ready, shut, link, on, closing, cut>>
  BY DEF Continues
<1>3. PICK x : /\ worker' = [worker EXCEPT ![w] = x]
               /\ x = <<"next">> \/ x = <<c, "connect">> \/ x = <<c, "disconnect">>
  BY DEF Continues
<1>4. \A v \in Worker : worker'[v] = IF v = w THEN x ELSE worker[v]
  BY <1>3 DEF Inv, ToldInv, Shape
<1>5. x # <<"none">> /\ x # <<"ended">> /\ x # <<"start">>
  <2>1. <<"next">> # <<"none">> /\ <<"next">> # <<"ended">> /\ <<"next">> # <<"start">>
    BY SMT
  <2> QED BY <1>3, <2>1, Tuples
<1>6. worker[w] # <<"none">> /\ worker[w] # <<"ended">> /\ worker[w] # <<"start">>
  BY Tuples DEF Continues, InUse, InHand, InConnect, InDisconnect
<1>7. PICK k \in Operation : InHand(w, c, k) \/ InConnect(w, c) \/ InDisconnect(w, c)
  BY DEF Continues, InUse, Operation
<1>8. on[c] = w /\ link[c] # "none"
  BY <1>7 DEF Inv, ToldInv, Placed, Open
<1>9. phase # "done"
  BY <1>6, DoneJoined DEF Inv, ToldInv
<1>10. under' = [v \in Worker |-> under'[v]] /\ \A v \in Worker : v # w => under'[v] = under[v]
  BY DEF Continues, Start, Inv, ToldInv, Shape
<1>11. Shape'
  BY <1>2, <1>3, <1>10 DEF Inv, ToldInv, Shape
<1>12. EndedIsEmpty'
  BY <1>2, <1>4, <1>5, <1>10 DEF Inv, ToldInv, EndedIsEmpty
<1>13. PhaseDone' /\ Undisturbed'
  BY <1>2, <1>4, <1>5, <1>9 DEF Inv, CleanInv, PhaseDone, Undisturbed
<1>14. OverBeforeShut'
  BY <1>2 DEF Inv, CleanInv, OverBeforeShut, CallsOver
<1>15. ~cut' => ~aborted'
  <2> SUFFICES ASSUME ~cut, aborted' PROVE FALSE
      BY <1>2
  <2>1. shut[w] /\ os # {}
    BY DEF Continues, Start
  <2>2. phase \in After
    BY <2>1 DEF Inv, ToldInv, EndedIsEmpty
  <2>3. link[c] # "live"
    BY <2>2 DEF Inv, CleanInv, OverBeforeShut, CallsOver
  <2>4. link[c] = "gone"
    BY <1>8, <2>3 DEF Inv, ToldInv, Shape
  <2> QED BY <2>1, <2>4
<1>16. Placed'
  BY <1>1, <1>2, <1>8 DEF HandMoves, Inv, ToldInv, Placed
<1>17. BeginsOnce'
  <2> SUFFICES ASSUME NEW d \in Call, NEW v \in Worker
               PROVE  /\ ~Under(v, d, "call")' /\ ~InReady(v, d, "finish")' /\ ~InHand(v, d, "finish")'
                      /\ InReady(v, d, "call")' => ~InHand(v, d, "call")'
                      /\ Open(v, d, "call")' => \A o \in Operation \ {"call"} : ~Open(v, d, o)'
      BY DEF BeginsOnce
  <2>1. "call" \in Operation /\ "finish" \in Operation
    BY DEF Operation
  <2>2. /\ ~Under(v, d, "call") /\ ~InReady(v, d, "finish") /\ ~InHand(v, d, "finish")
        /\ InReady(v, d, "call") => ~InHand(v, d, "call")
        /\ Open(v, d, "call") => \A o \in Operation \ {"call"} : ~Open(v, d, o)
    BY DEF Inv, CleanInv, BeginsOnce
  <2>3. <<c, "call">> \notin os
    BY <2>1 DEF Continues
  <2>4. ~Under(v, d, "call")' /\ ~InReady(v, d, "finish")' /\ ~InHand(v, d, "finish")'
    BY <1>1, <2>1, <2>2, <2>3 DEF HandMoves
  <2>5. CASE v = w /\ d = c
    <3>1. ~InHand(w, c, "call")'
      BY <1>1, <2>1 DEF HandMoves
    <3>2. ~InReady(w, c, "call")
      <4>1. CASE InConnect(w, c) \/ InDisconnect(w, c)
        BY <4>1 DEF Inv, CleanInv, WsInOrder, ToldInv, Membership, Open, Call
      <4>2. CASE InHand(w, c, k)
        BY <2>2, <2>5, <4>2 DEF Open
      <4> QED BY <1>7, <4>1, <4>2
    <3>3. ~Open(w, c, "call")'
      BY <1>1, <2>1, <2>4, <2>5, <3>1, <3>2 DEF HandMoves, Open
    <3> QED BY <2>4, <2>5, <3>1, <3>3
  <2>6. CASE ~(v = w /\ d = c)
    BY <1>1, <2>1, <2>2, <2>4, <2>6 DEF HandMoves
  <2> QED BY <2>5, <2>6
<1>18. FinishedIfGone'
  <2> SUFFICES ASSUME ~cut, NEW d \in Call, link[d] = "gone"
               PROVE  /\ d \in WsCall => d \in done'
                      /\ d \in HttpCall => \A v \in Worker, o \in {"call", "read", "finish"} :
                                              ~Open(v, d, o)'
      BY <1>2 DEF FinishedIfGone
  <2>1. /\ d \in WsCall => d \in done
        /\ d \in HttpCall => \A v \in Worker, o \in {"call", "read", "finish"} : ~Open(v, d, o)
    BY DEF Inv, CleanInv, FinishedIfGone
  <2>2. d = c => d \notin HttpCall
    BY <2>1 DEF Open
  <2>3. \A o \in {"call", "read", "finish"} : o \in Operation
    BY DEF Operation
  <2> QED BY <1>1, <2>1, <2>2, <2>3 DEF HandMoves
<1> QED BY <1>11, <1>12, <1>13, <1>14, <1>15, <1>16, <1>17, <1>18

-----------------------------------------------------------------------------
(* What a continuation keeps of the rest.                                  *)

LEMMA HttpKept ==
    ASSUME Inv, ~aborted, NEW w \in Worker, NEW c \in WsCall, NEW os, Continues(w, c, os)
    PROVE  HttpInOrder'
<1>1. HandMoves(w, c, os)
  BY ContinuesMoves DEF Call
<1> SUFFICES ASSUME NEW d \in HttpCall, NEW v \in Worker
             PROVE  /\ Under(v, d, "read")' => ~InReady(v, d, "read")' /\ ~InHand(v, d, "read")'
                    /\ InReady(v, d, "read")' => ~InHand(v, d, "read")'
                    /\ Open(v, d, "finish")' => ~Open(v, d, "read")'
    BY DEF HttpInOrder
<1>2. d # c /\ d \in Call /\ "read" \in Operation /\ "finish" \in Operation
  BY ServerConstants DEF Call, Operation
<1>3. /\ Under(v, d, "read")' => Under(v, d, "read")
      /\ InReady(v, d, "read")' <=> InReady(v, d, "read")
      /\ InHand(v, d, "read")' => InHand(v, d, "read")
      /\ Open(v, d, "read")' => Open(v, d, "read")
      /\ Open(v, d, "finish")' => Open(v, d, "finish")
  BY <1>1, <1>2 DEF HandMoves
<1> QED BY <1>3 DEF Inv, CleanInv, HttpInOrder

LEMMA WsKept ==
    ASSUME Inv, ~aborted, NEW w \in Worker, NEW c \in Call, NEW os, Continues(w, c, os),
           met \subseteq met', met' \subseteq met \cup {c},
           done \subseteq done', done' \subseteq done \cup {c},
           c \in met' \ met => InHand(w, c, "read"),
           \A o \in {"write", "close"} : <<c, o>> \in os => c \in met',
           <<c, "finish">> \in os => c \in HttpCall \/ c \in done',
           InConnect(w, c)' => c \in met' \ done', InDisconnect(w, c)' => c \in met',
           Outbox'
    PROVE  WsInOrder'
<1>1. HandMoves(w, c, os)
  BY ContinuesMoves
<1>2. ASSUME NEW d \in WsCall, NEW v \in Worker
      PROVE  /\ d \in met' => ~Open(v, d, "call")'
             /\ Open(v, d, "write")' \/ Open(v, d, "close")' => d \in met'
             /\ Open(v, d, "finish")' => d \in done'
  <2>1. d \in Call /\ d \notin HttpCall
    BY ServerConstants DEF Call
  <2>2. \A o \in Operation : Open(v, d, o)' => Open(v, d, o) \/ (v = w /\ d = c /\ <<c, o>> \in os)
    BY <1>1, <2>1 DEF HandMoves
  <2>3. /\ d \in met => ~Open(v, d, "call")
        /\ Open(v, d, "write") \/ Open(v, d, "close") => d \in met
        /\ Open(v, d, "finish") => d \in done
    BY DEF Inv, CleanInv, WsInOrder
  <2>4. <<c, "call">> \notin os
    BY DEF Continues, Operation
  <2>5. d \in met' => ~Open(v, d, "call")'
    <3> SUFFICES ASSUME d \in met', Open(v, d, "call") PROVE FALSE
        BY <2>2, <2>4 DEF Operation
    <3>1. d = c /\ InHand(w, c, "read")
      BY <2>3
    <3>2. Open(w, c, "read") /\ "read" \in Operation /\ "call" \in Operation
      BY <3>1 DEF Open, Operation
    <3>3. v = w
      BY <3>1, <3>2 DEF Inv, ToldInv, Placed
    <3> QED BY <3>1, <3>2, <3>3 DEF Inv, CleanInv, BeginsOnce
  <2>6. Open(v, d, "write")' \/ Open(v, d, "close")' => d \in met'
    BY <2>2, <2>3 DEF Operation
  <2>7. Open(v, d, "finish")' => d \in done'
    BY <2>1, <2>2, <2>3 DEF Operation
  <2> QED BY <2>5, <2>6, <2>7
<1>4. ASSUME NEW d \in Call, NEW v \in Worker, InDisconnect(v, d)'
      PROVE  d \in met'
  <2>1. InDisconnect(v, d) \/ (v = w /\ d = c)
    BY <1>1, <1>4 DEF HandMoves, Operation
  <2> QED BY <1>4, <2>1 DEF Inv, CleanInv, WsInOrder
<1>3. ASSUME NEW d \in Call, NEW v \in Worker, InConnect(v, d)'
      PROVE  d \in met' \ done'
  <2>1. (v # w /\ InConnect(v, d)) \/ (v = w /\ d = c)
    BY <1>1, <1>3 DEF HandMoves, Operation
  <2>2. CASE v = w /\ d = c
    BY <1>3, <2>2
  <2>3. CASE v # w /\ InConnect(v, d)
    <3>1. d \in met \ done /\ on[d] = v
      BY <2>3 DEF Inv, CleanInv, WsInOrder, ToldInv, Placed, Operation
    <3>2. PICK k \in Operation : InHand(w, c, k) \/ InConnect(w, c) \/ InDisconnect(w, c)
      BY DEF Continues, InUse, Operation
    <3>3. on[c] = w
      BY <3>2 DEF Inv, ToldInv, Placed, Open
    <3> QED BY <2>3, <3>1, <3>3
  <2> QED BY <2>1, <2>2, <2>3
<1> QED BY <1>2, <1>3, <1>4 DEF WsInOrder

LEMMA ClosingOn ==
    ASSUME Inv, ~aborted, NEW w \in Worker, NEW c \in Call, NEW os, Continues(w, c, os),
           met \subseteq met', met' \subseteq met \cup {c}, c \in met' \ met => pending'[c] = <<>>,
           phase \notin {"none", "close_all"} => met' \subseteq met \cup late',
           told \subseteq told', done \subseteq done', late \subseteq late', done' = told',
           \A d \in met \ {c} : pending'[d] = pending[d],
           \/ c \in told'
           \/ /\ ~InHand(w, c, "close") /\ ~InHand(w, c, "write") /\ ~InDisconnect(w, c)
              /\ Waits(c) => Waits(c)'
              /\ pending'[c] # <<>> /\ pending[c] = <<>> => Open(w, c, "write") \/ Open(w, c, "close")
           \/ /\ InDisconnect(w, c)' \/ (~InHand(w, c, "close") /\ ~InDisconnect(w, c))
              /\ pending'[c] # <<>> => <<c, "write">> \in os \/ <<c, "close">> \in os
              /\ Waits(c) => <<c, "close">> \in os \/ (<<c, "write">> \in os /\ Waits(c)')
    PROVE  Closing'
<1> SUFFICES ASSUME ~aborted' PROVE Closing'
    BY DEF Closing
<1>1. HandMoves(w, c, os) /\ phase' = phase /\ on' = on /\ left' = left
  BY ContinuesMoves DEF Continues
<1>2. on[c] = w
  <2>1. PICK k \in Operation : InHand(w, c, k) \/ InConnect(w, c) \/ InDisconnect(w, c)
    BY DEF Continues, InUse, Operation
  <2> QED BY <2>1 DEF Inv, ToldInv, Placed, Open
<1>3. ASSUME NEW d \in met
      PROVE  /\ d \in Call /\ on[d] \in Worker
             /\ \A o \in {"write", "close"} :
                   Open(on[d], d, o) => Open(on[d], d, o)' \/ (d = c /\ InHand(w, c, o))
             /\ InDisconnect(on[d], d) => InDisconnect(on[d], d)' \/ (d = c /\ InDisconnect(w, c))
  <2>1. d \in Call /\ on[d] \in Worker
    BY DEF Inv, ToldInv, Membership, Call
  <2>2. PICK v \in Worker : v = on[d] /\ v = on'[d]
    BY <1>1, <2>1
  <2>3. \A o \in {"write", "close"} : Open(v, d, o) => Open(v, d, o)' \/ (d = c /\ InHand(w, c, o))
    BY <1>1, <2>1 DEF HandMoves, Operation
  <2>4. InDisconnect(v, d) => InDisconnect(v, d)' \/ (d = c /\ v = w)
    BY <1>1, <2>1 DEF HandMoves, Operation
  <2> QED BY <2>1, <2>2, <2>3, <2>4 DEF InDisconnect, Open, Under, InReady, InHand
<1>4. \A o \in {"write", "close"} : <<c, o>> \in os => Open(on[c], c, o)'
  <2>1. \A o \in {"write", "close"} : <<c, o>> \in os => Under(w, c, o)'
    BY <1>1 DEF HandMoves, Operation
  <2> QED BY <1>1, <1>2, <2>1 DEF Open, Under
<1>5. InDisconnect(w, c)' => InDisconnect(on[c], c)'
  BY <1>1, <1>2 DEF InDisconnect
<1>6. ASSUME NEW d \in met' \ done', pending'[d] # <<>>
      PROVE  Open(on[d], d, "write")' \/ Open(on[d], d, "close")'
  <2>1. d \in met /\ d \notin done /\ d \notin told'
    BY <1>6
  <2>2. pending[d] # <<>> => Open(on[d], d, "write") \/ Open(on[d], d, "close")
    BY <2>1 DEF Inv, ToldInv, Closing
  <2>3. CASE d # c
    BY <1>3, <1>6, <2>1, <2>2, <2>3
  <2>4. CASE d = c
    BY <1>2, <1>3, <1>4, <1>6, <2>1, <2>2, <2>4
  <2> QED BY <2>3, <2>4
<1>7. ASSUME phase \notin {"none", "close_all"}, NEW d \in met' \ (told' \cup late' \cup left)
      PROVE  CloseComes(d)'
  <2>1. d \in met /\ d \notin told'
    BY <1>7
  <2>2. CloseComes(d)
    BY <1>7, <2>1 DEF Inv, ToldInv, Closing
  <2>3. d # c => (Waits(d) => Waits(d)')
    BY <2>1 DEF Waits
  <2>4. CASE d # c
    BY <1>3, <2>1, <2>2, <2>3, <2>4 DEF CloseComes
  <2>5. CASE d = c
    BY <1>2, <1>3, <1>4, <1>5, <2>1, <2>2, <2>5 DEF CloseComes
  <2> QED BY <2>4, <2>5
<1> QED BY <1>1, <1>6, <1>7 DEF Closing

(* The connections stay what they are. *)
LEMMA MembersKept ==
    ASSUME Inv, NEW w \in Worker, NEW c \in Call, NEW os, Continues(w, c, os),
           UNCHANGED <<members, done, met, told, late>>
    PROVE  Membership'
<1>1. UNCHANGED <<phase, link, on>> /\ \A v \in Worker : worker'[v] = <<"none">> => worker[v] = <<"none">>
  <2>1. <<"next">> # <<"none">> /\ <<c, "connect">> # <<"none">> /\ <<c, "disconnect">> # <<"none">>
    BY Tuples, SMT
  <2> QED BY <2>1 DEF Continues, Inv, ToldInv, Shape
<1>2. UNCHANGED left
  BY DEF Continues
<1> QED BY <1>1, <1>2 DEF Inv, ToldInv, Membership

(* c has its on_disconnect. *)
LEMMA OneLeaves ==
    ASSUME Inv, NEW w \in Worker, NEW c \in met, NEW os, Continues(w, c, os), Disconnect(c),
           HubLets(c), UNCHANGED <<met, late>>
    PROVE  Membership'
<1>1. UNCHANGED <<phase, link, on>> /\ \A v \in Worker : worker'[v] = <<"none">> => worker[v] = <<"none">>
  <2>1. <<"next">> # <<"none">> /\ <<c, "connect">> # <<"none">> /\ <<c, "disconnect">> # <<"none">>
    BY Tuples, SMT
  <2> QED BY <2>1 DEF Continues, Inv, ToldInv, Shape
<1>2. UNCHANGED left /\ left \subseteq members \ {c}
  <2>1. UNCHANGED left
    BY DEF Continues
  <2> QED BY <2>1 DEF HubLets, HubFree, Inv, ToldInv, Membership
<1> QED BY <1>1, <1>2 DEF Inv, ToldInv, Membership, Disconnect

(* A thread that handles a completion goes on with the next. *)
LEMMA HandlesIt ==
    ASSUME Inv, NEW w \in Worker, NEW c \in Call, NEW k \in Operation, NEW ok \in Outcomes(k),
           Handling(w, <<c, k, ok>>), NEW os, Start(w, os), UNCHANGED <<left, closing>>,
           \A d \in Call, o \in Operation : <<d, o>> \in os => d = c /\ o # "call"
    PROVE  /\ Continues(w, c, os) /\ InHand(w, c, k)
           /\ \A o \in Operation \ {k} : ~InHand(w, c, o)
           /\ ~InConnect(w, c)' /\ ~InDisconnect(w, c)' /\ ~InDisconnect(w, c)
<1>1. InHand(w, c, k)
  BY DEF Handling, InHand
<1>2. \A o \in Operation \ {k} : ~InHand(w, c, o)
  BY Tuples DEF Handling, InHand
<1>3. ~InConnect(w, c)' /\ ~InDisconnect(w, c)'
  <2>1. worker'[w] = <<"next">>
    BY DEF Handling, Inv, ToldInv, Shape
  <2> QED BY <2>1, Tuples DEF InConnect, InDisconnect
<1>5. ~InDisconnect(w, c)
  BY Tuples DEF Handling, InDisconnect
<1>4. Continues(w, c, os)
  BY <1>1 DEF Continues, Handling, InUse, server, calls
<1> QED BY <1>1, <1>2, <1>3, <1>4, <1>5

(* A continuation that leaves the connections as they are. *)
LEMMA SocketKept ==
    ASSUME Inv, ~aborted, NEW w \in Worker, NEW c \in Call, NEW os, Continues(w, c, os),
           UNCHANGED <<members, left, pending, closing, done, met, told, late>>,
           ~InHand(w, c, "close"), ~InHand(w, c, "write"), ~InDisconnect(w, c)
    PROVE  Membership' /\ Closing' /\ Outbox'
<1>1. Membership'
  BY MembersKept
<1>2. Outbox'
  BY DEF Inv, CleanInv, WsInOrder, Outbox
<1>3. done' = told' /\ (Waits(c) => Waits(c)')
  BY DEF Inv, ToldInv, Membership, Waits
<1>4. Closing'
  BY <1>3, ClosingOn
<1> QED BY <1>1, <1>2, <1>4

LEMMA CallArrivesInv ==
    ASSUME Inv, ~aborted, NEW w \in Worker, NEW c \in Call, CallArrives(w, c)
    PROVE  QuietParts' /\ RestParts'
<1>1. PICK os : os = {<<Kind(c), "call">>, <<c, "read">>}
  OBVIOUS
<1>2. Handling(w, <<c, "call", TRUE>>) /\ Start(w, os)
      /\ UNCHANGED <<members, left, pending, closing, done, met, told, late>>
  BY <1>1 DEF CallArrives, socket
<1>3. \A d \in Call, o \in Operation : <<d, o>> \in os => d = c /\ o = "read"
  <2>1. Kind(c) \in Acceptor
    BY DEF Kind, Acceptor
  <2>2. \A d \in Call : d # Kind(c)
    BY <2>1, ServerConstants
  <2> QED BY <1>1, <2>2, Tuples
<1>4. /\ Continues(w, c, os) /\ InHand(w, c, "call") /\ ~InConnect(w, c)'
      /\ ~InDisconnect(w, c)' /\ ~InDisconnect(w, c)
      /\ \A o \in Operation \ {"call"} : ~InHand(w, c, o)
  <2>1. "call" \in Operation /\ TRUE \in Outcomes("call")
    BY DEF Operation, Outcomes
  <2> QED BY <1>2, <1>3, <2>1, HandlesIt
<1>5. Open(w, c, "call") /\ on[c] = w
  <2>1. "call" \in Operation
    BY DEF Operation
  <2> QED BY <1>4, <2>1 DEF Open, Inv, ToldInv, Placed
<1>6. ~cut => link[c] # "gone"
  <2> SUFFICES ASSUME ~cut, link[c] = "gone" PROVE FALSE
      OBVIOUS
  <2>1. CASE c \in WsCall
    <3>1. c \in met
      BY <2>1 DEF Inv, CleanInv, FinishedIfGone, ToldInv, Membership
    <3> QED BY <1>5, <2>1, <3>1 DEF Inv, CleanInv, WsInOrder
  <2>2. CASE c \in HttpCall
    BY <1>5, <2>2 DEF Inv, CleanInv, FinishedIfGone
  <2> QED BY <2>1, <2>2 DEF Call
<1>7. RestParts' /\ Placed' /\ BeginsOnce'
  BY <1>2, <1>4, <1>6, ContinuesInv DEF RestParts
<1>8. Membership' /\ Closing' /\ Outbox'
  BY <1>2, <1>4, SocketKept DEF Operation
<1>10. HttpInOrder'
  <2>1. CASE c \in WsCall
    BY <1>4, <2>1, HttpKept
  <2>2. CASE c \in HttpCall
    <3>1. HandMoves(w, c, os)
      BY <1>4, ContinuesMoves
    <3> SUFFICES ASSUME NEW d \in HttpCall, NEW v \in Worker
                 PROVE  /\ Under(v, d, "read")' => ~InReady(v, d, "read")' /\ ~InHand(v, d, "read")'
                        /\ InReady(v, d, "read")' => ~InHand(v, d, "read")'
                        /\ Open(v, d, "finish")' => ~Open(v, d, "read")'
        BY DEF HttpInOrder
    <3>2. d \in Call /\ "read" \in Operation /\ "finish" \in Operation /\ "call" \in Operation
      BY DEF Call, Operation
    <3>3. CASE v = w /\ d = c
      <4>1. ~Open(w, c, "read") /\ ~Open(w, c, "finish")
        BY <1>5, <3>2 DEF Inv, CleanInv, BeginsOnce
      <4>2. <<c, "finish">> \notin os
        BY <1>3, <3>2
      <4>3. ~InReady(w, c, "read")' /\ ~InHand(w, c, "read")' /\ ~Open(w, c, "finish")'
        BY <3>1, <3>2, <4>1, <4>2 DEF HandMoves, Open
      <4> QED BY <3>3, <4>3
    <3>4. CASE ~(v = w /\ d = c)
      <4>1. /\ Under(v, d, "read")' => Under(v, d, "read")
            /\ InReady(v, d, "read")' <=> InReady(v, d, "read")
            /\ InHand(v, d, "read")' => InHand(v, d, "read")
            /\ Open(v, d, "read")' => Open(v, d, "read")
            /\ Open(v, d, "finish")' => Open(v, d, "finish")
        BY <3>1, <3>2, <3>4 DEF HandMoves
      <4> QED BY <4>1 DEF Inv, CleanInv, HttpInOrder
    <3> QED BY <3>3, <3>4
  <2> QED BY <2>1, <2>2 DEF Call
<1>11. WsInOrder'
  <2>1. \A o \in {"write", "close", "finish"} : <<c, o>> \notin os
    BY <1>3 DEF Operation
  <2> QED BY <1>2, <1>4, <1>8, <2>1, WsKept
<1> QED BY <1>7, <1>8, <1>10, <1>11 DEF QuietParts

LEMMA AnswerInv ==
    ASSUME Inv, ~aborted, NEW w \in Worker, NEW c \in Call, Answer(w, c)
    PROVE  QuietParts' /\ RestParts'
<1>1. PICK os : os = {<<c, "finish">>}
  OBVIOUS
<1>2. c \in HttpCall /\ Handling(w, <<c, "read", TRUE>>) /\ Start(w, os)
      /\ UNCHANGED <<members, left, pending, closing, done, met, told, late>>
  BY <1>1 DEF Answer, socket
<1>3. \A d \in Call, o \in Operation : <<d, o>> \in os => d = c /\ o = "finish"
  BY <1>1, Tuples
<1>4. /\ Continues(w, c, os) /\ InHand(w, c, "read") /\ ~InConnect(w, c)'
      /\ ~InDisconnect(w, c)' /\ ~InDisconnect(w, c)
      /\ \A o \in Operation \ {"read"} : ~InHand(w, c, o)
  <2>1. "read" \in Operation /\ TRUE \in Outcomes("read")
    BY DEF Operation, Outcomes
  <2> QED BY <1>2, <1>3, <2>1, HandlesIt
<1>5. Open(w, c, "read") /\ on[c] = w
  <2>1. "read" \in Operation
    BY DEF Operation
  <2> QED BY <1>4, <2>1 DEF Open, Inv, ToldInv, Placed
<1>6. ~cut => link[c] # "gone"
  BY <1>2, <1>5 DEF Inv, CleanInv, FinishedIfGone
<1>7. RestParts' /\ Placed' /\ BeginsOnce'
  BY <1>2, <1>4, <1>6, ContinuesInv DEF RestParts
<1>8. Membership' /\ Closing' /\ Outbox'
  BY <1>2, <1>4, SocketKept DEF Operation
<1>10. HttpInOrder'
  <2>1. HandMoves(w, c, os)
    BY <1>4, ContinuesMoves
  <2> SUFFICES ASSUME NEW d \in HttpCall, NEW v \in Worker
               PROVE  /\ Under(v, d, "read")' => ~InReady(v, d, "read")' /\ ~InHand(v, d, "read")'
                      /\ InReady(v, d, "read")' => ~InHand(v, d, "read")'
                      /\ Open(v, d, "finish")' => ~Open(v, d, "read")'
      BY DEF HttpInOrder
  <2>2. d \in Call /\ "read" \in Operation /\ "finish" \in Operation
    BY DEF Call, Operation
  <2>3. CASE v = w /\ d = c
    <3>1. ~Under(w, c, "read") /\ ~InReady(w, c, "read")
      BY <1>2, <1>4 DEF Inv, CleanInv, HttpInOrder
    <3>2. <<c, "read">> \notin os
      BY <1>3, <2>2
    <3>3. ~Under(w, c, "read")' /\ ~InReady(w, c, "read")' /\ ~InHand(w, c, "read")'
      BY <2>1, <2>2, <3>1, <3>2 DEF HandMoves
    <3> QED BY <2>3, <3>3 DEF Open
  <2>4. CASE ~(v = w /\ d = c)
    <3>1. /\ Under(v, d, "read")' => Under(v, d, "read")
          /\ InReady(v, d, "read")' <=> InReady(v, d, "read")
          /\ InHand(v, d, "read")' => InHand(v, d, "read")
          /\ Open(v, d, "read")' => Open(v, d, "read")
          /\ Open(v, d, "finish")' => Open(v, d, "finish")
      BY <2>1, <2>2, <2>4 DEF HandMoves
    <3> QED BY <3>1 DEF Inv, CleanInv, HttpInOrder
  <2> QED BY <2>3, <2>4
<1>11. WsInOrder'
  <2>1. \A o \in {"write", "close"} : <<c, o>> \notin os
    BY <1>3 DEF Operation
  <2> QED BY <1>2, <1>4, <1>8, <2>1, WsKept
<1> QED BY <1>7, <1>8, <1>10, <1>11 DEF QuietParts

LEMMA ConnectInv ==
    ASSUME Inv, ~aborted, NEW w \in Worker, NEW c \in WsCall, Connect(w, c)
    PROVE  QuietParts' /\ RestParts'
<1>1. PICK os : os = {<<c, "read">>}
  OBVIOUS
<1>2. /\ c \notin met /\ phase # "closing" /\ worker[w] = <<c, "read", TRUE>> /\ Start(w, os)
      /\ worker' = [worker EXCEPT ![w] = <<c, "connect">>]
      /\ members' = members \cup {c} /\ met' = met \cup {c}
      /\ late' = IF phase \in {"none", "close_all"} THEN late ELSE late \cup {c}
      /\ UNCHANGED <<exit, phase, mserver, hub, ready, shut, link, on, left, pending, closing,
                     done, told, cut>>
  BY <1>1 DEF Connect, HubFree, server, calls
<1>3. c \in Call /\ \A d \in Call, o \in Operation : <<d, o>> \in os => d = c /\ o = "read"
  BY <1>1, Tuples DEF Call
<1>4. InHand(w, c, "read") /\ \A o \in Operation \ {"read"} : ~InHand(w, c, o)
  <2>1. TRUE \in Outcomes("read")
    BY DEF Outcomes
  <2>2. InHand(w, c, "read")
    BY <1>2, <2>1 DEF InHand
  <2>3. ASSUME NEW o \in Operation \ {"read"}, InHand(w, c, o) PROVE FALSE
    <3>1. PICK ok : worker[w] = <<c, o, ok>>
      BY <2>3 DEF InHand
    <3>2. <<c, "read", TRUE>> = <<c, o, ok>>
      BY <1>2, <3>1
    <3>3. "read" = o
      BY <3>2
    <3> QED BY <3>3
  <2> QED BY <2>2, <2>3
<1>5. Continues(w, c, os)
  BY <1>2, <1>3, <1>4 DEF Continues, InUse, Operation
<1>6. on[c] = w /\ link[c] # "none" /\ c \notin done
  <2>1. "read" \in Operation
    BY DEF Operation
  <2> QED BY <1>2, <1>3, <1>4, <2>1 DEF Open, Inv, ToldInv, Placed, Membership
<1>7. ~cut => link[c] # "gone"
  BY <1>3, <1>6 DEF Inv, CleanInv, FinishedIfGone
<1>8. c \notin HttpCall
  BY ServerConstants
<1>9. RestParts' /\ Placed' /\ BeginsOnce'
  BY <1>2, <1>3, <1>5, <1>7, <1>8, ContinuesInv DEF RestParts
<1>10. Membership'
  <2>1. <<c, "connect">> # <<"none">>
    BY Tuples
  <2>2. \A v \in Worker : worker'[v] = <<"none">> => worker[v] = <<"none">>
    BY <1>2, <2>1 DEF Inv, ToldInv, Shape
  <2>3. worker'[w] # <<"none">>
    BY <1>2, <2>1 DEF Inv, ToldInv, Shape
  <2>4. c \notin told /\ c \in WsCall
    BY <1>2 DEF Inv, ToldInv, Membership
  <2> QED BY <1>2, <1>6, <2>2, <2>3, <2>4 DEF Inv, ToldInv, Membership, Early
<1>14. Outbox' /\ pending[c] = <<>>
  BY <1>2 DEF Inv, CleanInv, WsInOrder, Outbox
<1>11. Closing'
  <2>1. done' = told' /\ (Waits(c) => Waits(c)')
    BY <1>2 DEF Inv, ToldInv, Membership, Waits
  <2>2. ~InDisconnect(w, c) /\ ~InHand(w, c, "close") /\ ~InHand(w, c, "write")
    BY <1>2, <1>4, Tuples DEF InDisconnect, Operation
  <2>3. phase \notin {"none", "close_all"} => met' \subseteq met \cup late'
    BY <1>2
  <2>4. pending' = pending
    BY <1>2
  <2> QED BY <1>2, <1>3, <1>5, <1>14, <2>1, <2>2, <2>3, <2>4, ClosingOn
<1>12. HttpInOrder'
  BY <1>5, HttpKept
<1>13. WsInOrder'
  <2>1. \A o \in {"write", "close", "finish"} : <<c, o>> \notin os
    BY <1>3 DEF Operation
  <2>2. c \in met' \ done'
    BY <1>2, <1>6
  <2> QED BY <1>2, <1>3, <1>4, <1>5, <1>14, <2>1, <2>2, WsKept
<1> QED BY <1>9, <1>10, <1>11, <1>12, <1>13 DEF QuietParts

LEMMA ConnectReturnsInv ==
    ASSUME Inv, ~aborted, NEW w \in Worker, NEW c \in WsCall, ConnectReturns(w, c)
    PROVE  QuietParts' /\ RestParts'
<1>1. /\ w = on[c] /\ worker[w] = <<c, "connect">> /\ worker' = [worker EXCEPT ![w] = <<"next">>]
      /\ Queue(c, "write")
      /\ UNCHANGED <<exit, phase, mserver, hub, ready, shut, link, on, members, left, closing, done,
                     met, told, late, cut>>
  BY DEF ConnectReturns, Handling, server, calls
<1>2. InConnect(w, c) /\ ~InDisconnect(w, c) /\ \A o \in Operation : ~InHand(w, c, o)
  BY <1>1, Tuples DEF InHand, InConnect, InDisconnect
<1>3. c \in Call /\ c \in met \ done
  <2>1. c \in Call
    BY DEF Call
  <2> QED BY <1>2, <2>1 DEF Inv, CleanInv, WsInOrder
<1>4. PICK os :
         /\ Start(on[c], os) /\ (os = {} \/ os = {<<c, "write">>})
         /\ Outbox' /\ \A d \in WsCall \ {c} : pending'[d] = pending[d]
         /\ Waits(c) => Waits(c)'
         /\ os = {} => pending[c] # <<>> \/ Open(on[c], c, "write") \/ Open(on[c], c, "close")
         /\ os # {} => pending' = pending /\ pending[c] = <<>>
  <2>1. NoNewCall
    BY <1>1 DEF NoNewCall, Inv, CleanInv, WsInOrder, Outbox
  <2> QED BY <1>1, <1>3, <2>1, Queued
<1>5. \A d \in Call, o \in Operation : <<d, o>> \in os => d = c /\ o = "write"
  BY <1>4, Tuples
<1>6. Continues(w, c, os)
  BY <1>1, <1>2, <1>4, <1>5 DEF Continues, InUse, Operation
<1>7. ~cut => link[c] # "gone"
  BY <1>3 DEF Inv, CleanInv, FinishedIfGone
<1>8. c \notin HttpCall
  BY ServerConstants
<1>9. RestParts' /\ Placed' /\ BeginsOnce'
  BY <1>1, <1>3, <1>6, <1>7, <1>8, ContinuesInv DEF RestParts
<1>10. Membership'
  BY <1>1, <1>3, <1>6, MembersKept
<1>11. Closing'
  <2>1. done' = told' /\ ~InHand(w, c, "close") /\ ~InHand(w, c, "write")
    BY <1>1, <1>2 DEF Inv, ToldInv, Membership, Operation
  <2>2. \A d \in met \ {c} : pending'[d] = pending[d]
    BY <1>4 DEF Inv, ToldInv, Membership
  <2>3. pending'[c] # <<>> /\ pending[c] = <<>> => Open(w, c, "write") \/ Open(w, c, "close")
    BY <1>1, <1>4
  <2> QED BY <1>1, <1>2, <1>3, <1>4, <1>6, <2>1, <2>2, <2>3, ClosingOn
<1>12. HttpInOrder'
  BY <1>6, HttpKept
<1>13. WsInOrder'
  <2>1. <<c, "finish">> \notin os
    BY <1>3, <1>5 DEF Operation
  <2>2. ~InConnect(w, c)' /\ ~InDisconnect(w, c)'
    <3>1. worker'[w] = <<"next">>
      BY <1>1 DEF Inv, ToldInv, Shape
    <3> QED BY <3>1, Tuples DEF InConnect, InDisconnect
  <2> QED BY <1>1, <1>3, <1>4, <1>6, <2>1, <2>2, WsKept
<1> QED BY <1>9, <1>10, <1>11, <1>12, <1>13 DEF QuietParts

(* A connection has its on_disconnect, for either CLOSE. *)
LEMMA LeavesInv ==
    ASSUME Inv, ~aborted, NEW w \in Worker, NEW c \in met, NEW os, os = FinishOnce(c),
           Continues(w, c, os), ~InConnect(w, c)', ~InDisconnect(w, c)',
           HubLets(c), Disconnect(c), UNCHANGED <<pending, met, late>>
    PROVE  QuietParts' /\ RestParts'
<1>1. c \in WsCall /\ c \in Call /\ c \notin HttpCall
  BY ServerConstants DEF Inv, ToldInv, Membership, Call
<1>2. told' = told \cup {c} /\ done' = done \cup {c} /\ closing' = closing
  BY DEF Disconnect, Continues
<1>3. ~cut /\ link[c] = "gone" => os = {}
  BY <1>1 DEF FinishOnce, Inv, CleanInv, FinishedIfGone
<1>4. RestParts' /\ Placed' /\ BeginsOnce'
  BY <1>1, <1>2, <1>3, ContinuesInv DEF RestParts
<1>5. Membership'
  BY OneLeaves
<1>6. Outbox'
  BY <1>2 DEF Inv, CleanInv, WsInOrder, Outbox
<1>7. Closing'
  <2>1. done' = told'
    BY <1>2 DEF Inv, ToldInv, Membership
  <2> QED BY <1>1, <1>2, <2>1, ClosingOn
<1>8. HttpInOrder'
  BY <1>1, HttpKept
<1>9. WsInOrder'
  <2>1. \A o \in {"write", "close"} : <<c, o>> \notin os
    BY Tuples DEF FinishOnce
  <2> QED BY <1>1, <1>2, <1>6, <2>1, WsKept
<1> QED BY <1>4, <1>5, <1>7, <1>8, <1>9 DEF QuietParts

LEMMA ClosesInv ==
    ASSUME Inv, ~aborted, NEW w \in Worker, NEW c \in WsCall, ClientCloses(w, c) \/ ServerCloses(w, c)
    PROVE  QuietParts' /\ RestParts'
<1>1. PICK os : os = FinishOnce(c)
  OBVIOUS
<1>2. /\ HubLets(c) /\ Start(w, os) /\ Disconnect(c)
      /\ UNCHANGED <<left, pending, closing, met, late>>
  BY <1>1 DEF ClientCloses, ServerCloses
<1>3. c \in Call /\ \A d \in Call, o \in Operation : <<d, o>> \in os => d = c /\ o # "call"
  BY <1>1, Tuples DEF Call, FinishOnce
<1>4. CASE ClientCloses(w, c)
  <2>1. c \in met /\ Handling(w, <<c, "read", TRUE>>)
    BY <1>4 DEF ClientCloses
  <2>2. "read" \in Operation /\ TRUE \in Outcomes("read")
    BY DEF Operation, Outcomes
  <2>3. Continues(w, c, os) /\ ~InConnect(w, c)' /\ ~InDisconnect(w, c)'
    BY <1>2, <1>3, <2>1, <2>2, HandlesIt
  <2> QED BY <1>1, <1>2, <2>1, <2>3, LeavesInv
<1>5. CASE ServerCloses(w, c)
  <2>1. /\ worker[w] = <<c, "disconnect">> /\ worker' = [worker EXCEPT ![w] = <<"next">>]
        /\ UNCHANGED <<exit, phase, mserver, hub, ready, shut, link, on, cut>>
    BY <1>5 DEF ServerCloses, Handling, server, calls
  <2>2. InDisconnect(w, c)
    BY <2>1 DEF InDisconnect
  <2>3. c \in met
    BY <1>3, <2>2 DEF Inv, CleanInv, WsInOrder
  <2>4. ~InConnect(w, c)' /\ ~InDisconnect(w, c)'
    <3>1. worker'[w] = <<"next">>
      BY <2>1 DEF Inv, ToldInv, Shape
    <3> QED BY <3>1, Tuples DEF InConnect, InDisconnect
  <2>5. Continues(w, c, os)
    BY <1>2, <1>3, <2>1, <2>2 DEF Continues, InUse
  <2> QED BY <1>1, <1>2, <2>3, <2>4, <2>5, LeavesInv
<1> QED BY <1>4, <1>5

(* A message has been written, and what was queued behind it follows;      *)
(* after CLOSE the connection ends.                                        *)
LEMMA WrittenInv ==
    ASSUME Inv, ~aborted, NEW w \in Worker, NEW c \in WsCall, NEW ok \in BOOLEAN,
           HeadersWritten(w, c, ok) \/ CloseWritten(w, c, ok)
    PROVE  QuietParts' /\ RestParts'
<1>1. PICK k, x :
         /\ k \in {"write", "close"} /\ ok \in Outcomes(k) /\ k \in Operation
         /\ (k = "write" /\ x = <<"next">>) \/ (k = "close" /\ x = <<c, "disconnect">>)
         /\ worker[w] = <<c, k, ok>> /\ worker' = [worker EXCEPT ![w] = x]
  BY DEF HeadersWritten, CloseWritten, Handling, Outcomes, Operation
<1>2. /\ WritesNext(w, c)
      /\ UNCHANGED <<exit, phase, mserver, hub, ready, shut, link, on, members, left, closing, done,
                     met, told, late, cut>>
  BY DEF HeadersWritten, CloseWritten, Handling, server, calls
<1>3. /\ InHand(w, c, k) /\ ~InDisconnect(w, c)
      /\ \A o \in Operation \ {k} : ~InHand(w, c, o)
  <2>1. InHand(w, c, k)
    BY <1>1 DEF InHand, Outcomes
  <2>2. ~InDisconnect(w, c) /\ \A o \in Operation \ {k} : ~InHand(w, c, o)
    BY <1>1, Tuples DEF InHand, InDisconnect
  <2> QED BY <2>1, <2>2
<1>4. c \in met /\ c \in Call /\ c \notin HttpCall
  <2>1. Open(w, c, "write") \/ Open(w, c, "close")
    BY <1>1, <1>3 DEF Open
  <2> QED BY <2>1, ServerConstants DEF Inv, CleanInv, WsInOrder, Call
<1>5. PICK os :
         /\ Start(w, os) /\ os \subseteq {<<c, "write">>, <<c, "close">>}
         /\ Outbox' /\ \A d \in WsCall \ {c} : pending'[d] = pending[d]
         /\ c \in done => os = {}
         /\ c \notin done /\ pending'[c] # <<>> => <<c, "write">> \in os \/ <<c, "close">> \in os
         /\ c \notin done /\ Waits(c) =>
               <<c, "close">> \in os \/ (<<c, "write">> \in os /\ Waits(c)')
  BY <1>2, <1>4, Follows
<1>6. \A d, o : <<d, o>> \in os => d = c /\ o \in {"write", "close"}
  BY <1>5, Tuples
<1>7. Continues(w, c, os)
  <2>1. \/ worker' = [worker EXCEPT ![w] = <<"next">>]
        \/ worker' = [worker EXCEPT ![w] = <<c, "disconnect">>]
    BY <1>1
  <2>2. InUse(w, c)
    BY <1>1, <1>3 DEF InUse
  <2>3. \A d \in Call, o \in Operation : <<d, o>> \in os => d = c /\ o # "call"
    BY <1>6
  <2> QED BY <1>2, <1>5, <2>1, <2>2, <2>3 DEF Continues
<1>8. ~cut /\ link[c] = "gone" => os = {}
  BY <1>4, <1>5 DEF Inv, CleanInv, FinishedIfGone
<1>9. RestParts' /\ Placed' /\ BeginsOnce'
  BY <1>2, <1>4, <1>7, <1>8, ContinuesInv DEF RestParts
<1>10. Membership'
  BY <1>2, <1>4, <1>7, MembersKept
<1>11. worker'[w] = x
  BY <1>1 DEF Inv, ToldInv, Shape
<1>12. Closing'
  <2>1. done' = told' /\ (c \in done <=> c \in told')
    BY <1>2 DEF Inv, ToldInv, Membership
  <2>2. \A d \in met \ {c} : pending'[d] = pending[d]
    BY <1>5 DEF Inv, ToldInv, Membership
  <2>3. InDisconnect(w, c)' \/ (~InHand(w, c, "close") /\ ~InDisconnect(w, c))
    BY <1>1, <1>3, <1>11 DEF InDisconnect, Operation
  <2> QED BY <1>2, <1>4, <1>5, <1>7, <2>1, <2>2, <2>3, ClosingOn
<1>13. HttpInOrder'
  BY <1>7, HttpKept
<1>14. WsInOrder'
  <2>1. <<c, "finish">> \notin os
    BY <1>6
  <2>2. ~InConnect(w, c)'
    BY <1>1, <1>11, Tuples DEF InConnect
  <2> QED BY <1>2, <1>4, <1>5, <1>7, <2>1, <2>2, WsKept
<1> QED BY <1>9, <1>10, <1>12, <1>13, <1>14 DEF QuietParts

-----------------------------------------------------------------------------
(* close_all: CLOSE is owed to every connection it has gone through.       *)

LEMMA CloseAllInv ==
    ASSUME Inv, ~aborted, CloseAll \/ AllClosed
    PROVE  QuietParts' /\ RestParts'
<1>1. /\ UNCHANGED <<exit, mserver, hub, aborted, worker, under, ready, shut, link, on, pending,
                     closing, done, met, told, late, cut>>
      /\ \/ phase = "close_all" /\ phase' = "closing" /\ left' = members /\ members' = members
         \/ /\ phase = "closing" /\ phase' = IF mserver = "none" THEN "queues" ELSE "stop"
            /\ left = {} /\ left' = left /\ members' = {}
  BY DEF CloseAll, AllClosed, queues, calls
<1>2. AllQuiet
  BY <1>1, SameQueues
<1>3. Placed'
  BY <1>1, <1>2 DEF Inv, ToldInv, Placed, AllQuiet, Quiet, StaysOn, Open
<1>4. Membership'
  BY <1>1 DEF Inv, ToldInv, Membership, Early
<1>5. Closing'
  <2>1. ASSUME NEW c \in met
        PROVE  /\ CloseComes(c)' <=> CloseComes(c)
               /\ Open(on[c], c, "write")' <=> Open(on[c], c, "write")
               /\ Open(on[c], c, "close")' <=> Open(on[c], c, "close")
    BY <1>1 DEF CloseComes, Waits, Open, Under, InReady, InHand, InDisconnect
  <2>2. \A c \in met \ done : pending[c] # <<>> => Open(on[c], c, "write") \/ Open(on[c], c, "close")
    BY DEF Inv, ToldInv, Closing
  <2>3. CASE phase = "close_all"
    <3>1. met' \ (told' \cup late' \cup left') = {}
      BY <1>1, <2>3 DEF Inv, ToldInv, Membership, Early
    <3> QED BY <1>1, <2>1, <2>2, <3>1 DEF Closing
  <2>4. CASE phase = "closing"
    <3>1. \A c \in met \ (told \cup late \cup left) : CloseComes(c)
      BY <2>4 DEF Inv, ToldInv, Closing
    <3>2. left' = left
      BY <1>1, <2>4
    <3> QED BY <1>1, <2>1, <2>2, <3>1, <3>2 DEF Closing
  <2> QED BY <1>1, <2>3, <2>4
<1>6. BeginsOnce' /\ HttpInOrder'
  BY <1>2 DEF Inv, CleanInv, BeginsOnce, HttpInOrder, AllQuiet, Quiet, Open, Operation, Call
<1>7. WsInOrder'
  <2>1. Outbox'
    BY <1>1 DEF Inv, CleanInv, WsInOrder, Outbox
  <2> QED BY <1>1, <1>2, <2>1 DEF Inv, CleanInv, WsInOrder, AllQuiet, Quiet, StaysOn, Open,
             Operation, Call
<1>8. FinishedIfGone'
  BY <1>1, <1>2, FinishedQuiet DEF Inv
<1>9. RestParts'
  BY <1>1, <1>8 DEF Inv, ToldInv, CleanInv, RestParts, Shape, EndedIsEmpty, PhaseDone,
     OverBeforeShut, Undisturbed, CallsOver, After
<1> QED BY <1>3, <1>4, <1>5, <1>6, <1>7, <1>9 DEF QuietParts

(* CLOSE is written or queued by another thread than that of its queue. *)
LEMMA CloseQueued ==
    ASSUME Inv, ~aborted, NEW c \in met, Queue(c, "close"), shut[on[c]] => cut, NoNewCall,
           UNCHANGED <<exit, phase, mserver, hub, worker, ready, shut, link, on, members, done,
                       met, told, late, cut>>,
           left' \subseteq left, left \ left' \subseteq {c}
    PROVE  QuietParts' /\ RestParts'
<1>1. PICK w \in Worker : w = on[c]
  BY DEF Inv, ToldInv, Membership
<1>2. PICK os :
         /\ Start(on[c], os) /\ (os = {} \/ os = {<<c, "close">>})
         /\ Outbox' /\ \A d \in WsCall \ {c} : pending'[d] = pending[d]
         /\ os = {} => /\ pending[c] # <<>> \/ Open(on[c], c, "write") \/ Open(on[c], c, "close")
                       /\ Waits(c)'
         /\ os # {} => pending' = pending /\ pending[c] = <<>>
  BY Queued
<1>3. c \in WsCall /\ c \in Call /\ c \notin HttpCall /\ link[c] # "none" /\ done = told
  BY ServerConstants DEF Inv, ToldInv, Membership, Call
<1>4. \/ aborted' = TRUE /\ shut[w] /\ os # {} /\ under' = under
      \/ aborted' = aborted /\ under' = [under EXCEPT ![w] = @ \cup os]
  BY <1>1, <1>2 DEF Start
<1>5. ASSUME NEW v \in Worker, NEW d \in Call, NEW o \in Operation
      PROVE  /\ Under(v, d, o)' => Under(v, d, o) \/ (v = w /\ d = c /\ o = "close")
             /\ Under(v, d, o) => Under(v, d, o)'
             /\ InReady(v, d, o)' <=> InReady(v, d, o)
             /\ InHand(v, d, o)' <=> InHand(v, d, o)
             /\ InConnect(v, d)' <=> InConnect(v, d)
             /\ InDisconnect(v, d)' <=> InDisconnect(v, d)
  <2>1. <<d, o>> \in os => d = c /\ o = "close"
    BY <1>2, Tuples
  <2>2. /\ Under(v, d, o)' => Under(v, d, o) \/ (v = w /\ <<d, o>> \in os)
        /\ Under(v, d, o) => Under(v, d, o)'
    BY <1>4 DEF Under, Inv, ToldInv, Shape
  <2>3. /\ InReady(v, d, o)' <=> InReady(v, d, o)
        /\ InHand(v, d, o)' <=> InHand(v, d, o)
        /\ InConnect(v, d)' <=> InConnect(v, d)
        /\ InDisconnect(v, d)' <=> InDisconnect(v, d)
    BY DEF InReady, InHand, InConnect, InDisconnect
  <2> QED BY <2>1, <2>2, <2>3
<1>6. ~aborted' /\ os # {} => Open(on[c], c, "close")'
  <2>1. ~aborted' /\ os # {} => <<c, "close">> \in under'[w]
    BY <1>2, <1>4 DEF Inv, ToldInv, Shape
  <2> QED BY <1>1, <2>1 DEF Open, Under
<1>7. ASSUME NEW v \in Worker, NEW d \in Call, NEW o \in Operation
      PROVE  /\ Open(v, d, o)' => Open(v, d, o) \/ (v = w /\ d = c /\ o = "close")
             /\ Open(v, d, o) => Open(v, d, o)'
  BY <1>5 DEF Open
<1>8. ASSUME NEW d \in met
      PROVE  /\ InDisconnect(on[d], d) => InDisconnect(on[d], d)'
             /\ \A o \in {"write", "close"} : Open(on[d], d, o) => Open(on[d], d, o)'
  <2>1. d \in Call /\ on[d] \in Worker /\ "write" \in Operation /\ "close" \in Operation
    BY DEF Inv, ToldInv, Membership, Call, Operation
  <2>2. PICK v \in Worker : v = on[d] /\ v = on'[d]
    BY <2>1
  <2>3. InDisconnect(v, d) => InDisconnect(v, d)'
    BY <1>5, <2>1
  <2>4. \A o \in {"write", "close"} : Open(v, d, o) => Open(v, d, o)'
    BY <1>7, <2>1
  <2> QED BY <2>2, <2>3, <2>4 DEF InDisconnect, Open, Under, InReady, InHand
<1>9. /\ under' = [v \in Worker |-> under'[v]]
      /\ \A v \in Worker : v # w \/ shut[w] => under'[v] = under[v] \/ aborted' = aborted
  BY <1>4 DEF Inv, ToldInv, Shape
<1>10. Shape'
  BY <1>9 DEF Inv, ToldInv, Shape
<1>11. EndedIsEmpty'
  <2>1. ASSUME NEW v \in Worker, worker[v] = <<"ended">> PROVE under'[v] = {}
    <3>1. shut[v] /\ under[v] = {}
      BY <2>1 DEF Inv, ToldInv, EndedIsEmpty
    <3>2. v = w => os = {} \/ under' = under
      <4>1. ASSUME v = w, os # {} PROVE under' = under
        BY <1>1, <1>2, <3>1, <4>1 DEF Start
      <4> QED BY <4>1
    <3>3. v # w => under'[v] = under[v]
      BY <1>4 DEF Inv, ToldInv, Shape
    <3>4. os = {} => under'[v] = under[v]
      BY <1>4 DEF Inv, ToldInv, Shape
    <3> QED BY <3>1, <3>2, <3>3, <3>4
  <2> QED BY <2>1 DEF Inv, ToldInv, EndedIsEmpty
<1>12. PhaseDone' /\ OverBeforeShut' /\ Undisturbed' /\ (~cut' => ~aborted')
  <2>1. ~cut => ~aborted'
    BY <1>1, <1>4
  <2> QED BY <2>1 DEF Inv, ToldInv, CleanInv, PhaseDone, OverBeforeShut, Undisturbed, CallsOver,
             NoNewCall
<1>13. FinishedIfGone'
  <2>1. \A d \in Call, v \in Worker, o \in {"call", "read", "finish"} : Open(v, d, o)' => Open(v, d, o)
    BY <1>7 DEF Operation
  <2> QED BY <2>1 DEF Inv, CleanInv, FinishedIfGone
<1>14. Placed'
  BY <1>1, <1>3, <1>5, <1>7 DEF Inv, ToldInv, Placed
<1>15. Membership'
  BY DEF Inv, ToldInv, Membership
<1>16. Closing'
  <2> SUFFICES ASSUME ~aborted' PROVE Closing'
      BY DEF Closing
  <2>1. ASSUME NEW d \in met \ done
        PROVE  pending[d] # <<>> => Open(on[d], d, "write") \/ Open(on[d], d, "close")
    BY DEF Inv, ToldInv, Closing
  <2>2. ASSUME NEW d \in met \ done, pending'[d] # <<>>
        PROVE  Open(on[d], d, "write")' \/ Open(on[d], d, "close")'
    <3>1. CASE d = c
      BY <1>2, <1>6, <1>8, <2>1, <2>2, <3>1
    <3>2. CASE d # c
      <4>1. pending'[d] = pending[d]
        BY <1>2, <3>2 DEF Inv, ToldInv, Membership
      <4> QED BY <1>8, <2>1, <2>2, <4>1
    <3> QED BY <3>1, <3>2
  <2>3. ASSUME phase \notin {"none", "close_all"}, NEW d \in met \ (told \cup late \cup left')
        PROVE  CloseComes(d)'
    <3>1. CASE d = c
      <4>1. CASE os # {}
        BY <1>6, <3>1, <4>1 DEF CloseComes
      <4>2. CASE os = {}
        <5>1. Waits(c)' /\ (Open(on[c], c, "write") \/ Open(on[c], c, "close"))
          BY <1>2, <1>3, <2>1, <2>3, <3>1, <4>2
        <5> QED BY <1>8, <3>1, <5>1 DEF CloseComes
      <4> QED BY <4>1, <4>2
    <3>2. CASE d # c
      <4>1. CloseComes(d)
        BY <2>3, <3>2 DEF Inv, ToldInv, Closing
      <4>2. Waits(d) => Waits(d)'
        BY <1>2, <3>2 DEF Waits, Inv, ToldInv, Membership
      <4> QED BY <1>8, <4>1, <4>2 DEF CloseComes
    <3> QED BY <3>1, <3>2
  <2> QED BY <2>2, <2>3 DEF Closing
<1>17. BeginsOnce'
  <2>1. \A v \in Worker : ~Open(v, c, "call")
    BY <1>3 DEF Inv, CleanInv, WsInOrder
  <2>2. \A d \in Call, v \in Worker : (Open(v, d, "call")' => Open(v, d, "call")) /\ (Under(v, d, "call")' => Under(v, d, "call"))
    BY <1>5, <1>7 DEF Operation
  <2> QED BY <1>5, <1>7, <2>1, <2>2 DEF Inv, CleanInv, BeginsOnce, Operation
<1>18. HttpInOrder'
  BY <1>3, <1>5, <1>7 DEF Inv, CleanInv, HttpInOrder, Operation, Call
<1>19. WsInOrder'
  <2>1. \A d \in WsCall : d \in Call
    BY DEF Call
  <2> QED BY <1>2, <1>5, <1>7, <2>1 DEF Inv, CleanInv, WsInOrder, Operation
<1> QED BY <1>10, <1>11, <1>12, <1>13, <1>14, <1>15, <1>16, <1>17, <1>18, <1>19
     DEF QuietParts, RestParts

LEMMA AppQueuesInv ==
    ASSUME Inv, ~aborted, NEW c \in WsCall, AppQueues(c)
    PROVE  QuietParts' /\ RestParts'
<1>1. /\ closing[c] = "called" /\ closing' = [closing EXCEPT ![c] = "over"] /\ Queue(c, "close")
      /\ UNCHANGED <<exit, phase, mserver, hub, worker, ready, shut, link, on, members, left, done,
                     met, told, late, cut>>
  BY DEF AppQueues, server, calls
<1>2. c \in met /\ NoNewCall
  BY <1>1 DEF Inv, CleanInv, WsInOrder, Outbox, NoNewCall
<1>3. ~cut => ~exit
  BY <1>1 DEF Inv, CleanInv, Undisturbed
<1>4. shut[on[c]] => cut
  BY <1>2, <1>3 DEF Inv, ToldInv, Membership, EndedIsEmpty, After, CleanInv, OverBeforeShut
<1> QED BY <1>1, <1>2, <1>4, CloseQueued

LEMMA CloseEachInv ==
    ASSUME Inv, ~aborted, CloseEach
    PROVE  QuietParts' /\ RestParts'
<1>1. PICK c \in left :
         /\ left' = left \ {c}
         /\ IF c \in done THEN UNCHANGED <<under, aborted, pending>>
            ELSE QueueFree(c) /\ Queue(c, "close")
  BY DEF CloseEach
<1>2. /\ phase = "closing"
      /\ UNCHANGED <<exit, phase, mserver, hub, worker, ready, shut, link, on, members, closing, done,
                     met, told, late, cut>>
  BY DEF CloseEach, server, calls
<1>3. c \in met \ done
  BY <1>1 DEF Inv, ToldInv, Membership
<1>4. NoNewCall
  BY <1>2 DEF NoNewCall, Inv, CleanInv, WsInOrder, Outbox
<1>5. ~shut[on[c]]
  BY <1>2, <1>3 DEF Inv, ToldInv, Membership, EndedIsEmpty, After
<1> QED BY <1>1, <1>2, <1>3, <1>4, <1>5, CloseQueued

LEMMA HandleInv ==
    ASSUME Inv, ~aborted, NEW w \in Worker, Handle(w)
    PROVE  QuietParts' /\ RestParts'
BY CallArrivesInv, AnswerInv, ConnectInv, ConnectReturnsInv, ClosesInv, WrittenInv DEF Handle

LEMMA NextInv == Inv /\ [Next]_vars => Inv'
<1> SUFFICES ASSUME Inv, [Next]_vars PROVE Inv'
    OBVIOUS
<1>1. IInv'
  BY NextIInv DEF Inv
<1>2. CASE UNCHANGED vars
  BY <1>1, <1>2, StutterInv DEF Inv
<1>3. ASSUME ~aborted, Next PROVE QuietParts' /\ RestParts'
  <2>1. CASE StartServer \/ Deadline
    BY <1>3, <2>1, StartServerInv, DeadlineInv
  <2>2. CASE Shutting
    BY <1>3, <2>2, CloseAllInv, CloseEachInv, ShuttingInv DEF Shutting
  <2>3. ASSUME NEW t, Begin(t) PROVE QuietParts' /\ RestParts'
    BY <2>3, BeginInv
  <2>4. ASSUME NEW c \in Call, ClientBreaks(c) PROVE QuietParts' /\ RestParts'
    BY <2>4, ClientBreaksInv
  <2>5. ASSUME NEW w \in Worker, Thread(w) PROVE QuietParts' /\ RestParts'
    BY <1>3, <2>5, RegisterInv, EndsInv, HandleInv, TakeInv DEF Thread
  <2>6. ASSUME NEW w \in Worker, Environment(w) PROVE QuietParts' /\ RestParts'
    BY <1>3, <2>6, EnvironmentInv
  <2>7. ASSUME NEW w \in Worker, NEW c \in Call, ClientCalls(w, c) PROVE QuietParts' /\ RestParts'
    BY <1>3, <2>7, ClientCallsInv
  <2>8. ASSUME NEW w \in Worker, NEW c \in Call, ClientSends(w, c) PROVE QuietParts' /\ RestParts'
    BY <1>3, <2>8, EnvironmentInv
  <2>9. ASSUME NEW c \in WsCall, AppCloses(c) \/ AppQueues(c) PROVE QuietParts' /\ RestParts'
    BY <1>3, <2>9, AppClosesInv, AppQueuesInv
  <2> QED BY <1>3, <2>1, <2>2, <2>3, <2>4, <2>5, <2>6, <2>7, <2>8, <2>9 DEF Next, ShutdownInHandler
<1>4. QuietParts' /\ RestParts' => Inv'
  BY <1>1 DEF QuietParts, RestParts, Inv, ToldInv, CleanInv
<1> QED BY <1>2, <1>3, <1>4 DEF Next

LEMMA InitInv == Init => Inv
<1> SUFFICES ASSUME Init PROVE Inv
    OBVIOUS
<1>1. IInv
  BY InitIInv
<1>2. \A w \in Worker : under[w] = {} /\ ready[w] = {} /\ worker[w] = <<"none">> /\ shut[w] = FALSE
  BY DEF Init
<1>3. <<"none">> # <<"ended">> /\ <<"none">> # <<"start">>
  BY SMT
<1>4. ASSUME NEW w \in Worker, NEW c \in Call, NEW o \in Operation
      PROVE  ~Open(w, c, o) /\ ~InConnect(w, c) /\ ~InDisconnect(w, c)
  <2>1. ~Under(w, c, o) /\ ~InReady(w, c, o)
    BY <1>2 DEF Under, InReady
  <2>2. worker[w] = <<"none">>
    BY <1>2
  <2>3. ~InHand(w, c, o) /\ ~InConnect(w, c) /\ ~InDisconnect(w, c)
    BY <2>2, Tuples DEF InHand, InConnect, InDisconnect
  <2> QED BY <2>1, <2>3 DEF Open
<1>5. \A w \in Worker, c \in Call, o \in Operation :
         ~Under(w, c, o) /\ ~InReady(w, c, o) /\ ~InHand(w, c, o) /\ ~InConnect(w, c)
  BY <1>4 DEF Open
<1>6. Shape
  BY DEF Init, Shape
<1>7. Placed /\ Membership /\ EndedIsEmpty /\ Closing /\ PhaseDone
  BY <1>2, <1>3, <1>4 DEF Init, Placed, Membership, EndedIsEmpty, Closing, PhaseDone
<1>8. BeginsOnce /\ HttpInOrder
  BY <1>4, <1>5 DEF BeginsOnce, HttpInOrder, Operation, Call
<1>9. WsInOrder
  BY <1>4 DEF Init, WsInOrder, Outbox, Operation, Call
<1>10. FinishedIfGone /\ OverBeforeShut /\ Undisturbed /\ (~cut => ~aborted)
  BY DEF Init, FinishedIfGone, OverBeforeShut, Undisturbed, After
<1> QED BY <1>1, <1>6, <1>7, <1>8, <1>9, <1>10 DEF Inv, ToldInv, CleanInv

(* The inductive invariant. *)
THEOREM Invariance == Spec => []Inv
BY InitInv, NextInv, PTL DEF Spec

(* When the shutdown is over, every connection that was in the hub when    *)
(* close_all ran has had its on_disconnect, whatever clients do and even   *)
(* if the deadline cuts the calls: the CLOSE that close_all has written or *)
(* queued is owed on a queue, and a thread ends with its queue empty.      *)
THEOREM AllTold == Spec => []MembersTold
<1>1. Inv => MembersTold
  BY DEF Inv, ToldInv, PhaseDone, MembersTold
<1> QED BY <1>1, Invariance, PTL

(* A shutdown that nothing cuts short starts no operation on a queue that  *)
(* has been shut, and leaves no connection in the hub and none untold: all *)
(* calls are over before the first queue is shut, and such a call ends by  *)
(* being finished.                                                         *)
THEOREM CleanShutdown == Spec => []CleanWhenUncut
<1>1. Inv => CleanWhenUncut
  <2> SUFFICES ASSUME Inv, ~cut, phase = "done"
               PROVE  members = {} /\ met \subseteq told
      BY DEF CleanWhenUncut, Inv, CleanInv
  <2>1. \A c \in Call : link[c] # "live"
    BY DEF Inv, CleanInv, OverBeforeShut, After, CallsOver
  <2>2. \A c \in met : c \in WsCall /\ c \in Call /\ link[c] = "gone"
    BY <2>1 DEF Inv, ToldInv, Membership, Shape, Call
  <2>3. met \subseteq told
    BY <2>2 DEF Inv, CleanInv, FinishedIfGone, ToldInv, Membership
  <2> QED BY <2>3 DEF Inv, ToldInv, Membership
<1> QED BY <1>1, Invariance, PTL

====
