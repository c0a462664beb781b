--------------------------- MODULE HttpConnection ---------------------------
(***************************************************************************)
(* One HTTP request and its response (class http_connection of             *)
(* grpcbackend_cpp/src/handler.cpp).                                       *)
(*                                                                         *)
(* read_body, send_body and end take a mutex when they are called and give *)
(* it back in the completion of the stream operation they start, so a      *)
(* second call waits for the completion of the first.  Completions run on  *)
(* the WORKER, the one thread of the completion queue, and so do the       *)
(* user's handler and callbacks, which may call again; APP threads may     *)
(* hold the connection as well.  Where the state is wrong for the call     *)
(* (the body already read, or not yet) the code gives the mutex back,      *)
(* calls the callback with false and, having no return there, goes on to   *)
(* start the stream operation without the mutex.                           *)
(*                                                                         *)
(* What a thread does is a stack: user code, and the calls it is inside.   *)
(***************************************************************************)
EXTENDS Naturals, Sequences, FiniteSets

CONSTANTS
    App,        \* threads other than the worker that user code starts
    Worker,     \* the thread that runs the completion queue
    Programs,   \* the applications considered
    MaxBody,    \* bound: messages of the request's body
    MaxChunks   \* bound: messages of the response

ReadOp == {"read", "full"}            \* read_body; read_body_full, skip_body
SendOp == {"send", "stream"}          \* send_body of a string, of a stream
EndOp == {"end", "end_body"}          \* end without and with a body
Op == ReadOp \cup SendOp \cup EndOp      \* the calls of user code
WriteOp == SendOp \cup EndOp \cup {"abort"} \* and the end of handle_exception

Thread == App \cup {Worker}

(* An application: which thread makes which calls, whether the worker's    *)
(* user code keeps to the rules of MayCall, whether user code may throw,   *)
(* and a bound: how many calls it makes.                                   *)
Program == [calls : SUBSET (Thread \X Op), careful : BOOLEAN,
            throws : BOOLEAN, limit : Nat]

ASSUME ConstantsOK ==
    /\ Worker \notin App
    /\ Programs \subseteq Program
    /\ MaxBody \in Nat
    /\ MaxChunks \in Nat

VARIABLES
    program,    \* the application; no step changes it
    m_read_lck, m_write_lck,                \* the mutexes: taken or not
    m_read_done, m_headers_sent, m_finished,
    head,       \* m_resp carries a status or headers
    reads,      \* operations that have a Read under way
    writes,     \* operations that have a Write or Finish under way
    wire,       \* history: per message sent, whether it carried a head
    finishes,   \* calls of Finish and WriteAndFinish
    body,       \* messages of the request the client has still to send
    stack,      \* per thread, what it is doing, outermost first
    started,    \* the handler has been given the request
    calls,      \* calls made by user code
    callbacks   \* callbacks made to user code

locks == <<m_read_lck, m_write_lck>>
resp == <<head, wire, writes, m_finished, finishes>>
request == <<program, started>>
vars == <<request, locks, m_read_done, m_headers_sent, resp, reads, body, stack,
          calls, callbacks>>

User == [do |-> "user", at |-> "run"]
Callback(o) == IF o = "abort" THEN <<>> ELSE <<User>>  \* end's default does nothing
Locking(o) == [do |-> o, at |-> "lock"]    \* waits for the mutex
GoingOn(o) == [do |-> o, at |-> "go"]      \* fell through without it

Init ==
    /\ program \in Programs
    /\ m_read_lck = FALSE /\ m_write_lck = FALSE
    /\ m_read_done = FALSE /\ m_headers_sent = FALSE /\ m_finished = FALSE
    /\ head = FALSE
    /\ reads = <<>> /\ writes = <<>>
    /\ wire = <<>>
    /\ finishes = 0
    /\ body \in 0 .. MaxBody
    /\ stack = [t \in Thread |-> <<>>]
    /\ started = FALSE
    /\ calls = 0
    /\ callbacks = 0

-----------------------------------------------------------------------------
(* Mistaken forms of the helpers below, to see that the properties notice. *)

BugLockIgnored == TRUE
BugUnlocksLate == m_write_lck
BugNotAsked == FALSE
BugNeverClears(o) == head
BugDoneAtOnce(ok) == TRUE
BugForgetsCallback(o, ok) ==
    IF o = "full" /\ ok THEN <<Locking(o)>> ELSE <<>>

-----------------------------------------------------------------------------
(* The stack of a thread.                                                  *)

Busy(t) == stack[t] # <<>>
Top(t) == stack[t][Len(stack[t])]
Below(t) == SubSeq(stack[t], 1, Len(stack[t]) - 1)
At(t, f) == Busy(t) /\ Top(t) = f

Replace(t, frames) == stack' = [stack EXCEPT ![t] = Below(t) \o frames]

UserCode(t) == At(t, User)

(* Calls that have been made and have not got their callback: a thread     *)
(* waits for a mutex in the innermost call it is inside.                   *)
IsWaiting(t) == Busy(t) /\ Top(t).at = "lock"
Waiting == Cardinality({t \in Thread : IsWaiting(t)})
Outstanding == Len(reads) + Len(writes) + Waiting

-----------------------------------------------------------------------------
(* User code.                                                              *)

(* start: on_request gets the connection. *)
Request ==
    /\ ~started
    /\ started' = TRUE /\ UNCHANGED program
    /\ stack' = [stack EXCEPT ![Worker] = <<User>>]
    /\ UNCHANGED <<locks, m_read_done, m_headers_sent, resp, reads, body, calls, callbacks>>

(* The rules: read until the body is read, answer after that, make one     *)
(* call at a time and none after end, throw no exception while a call is   *)
(* under way, unless it is end.                                            *)
MayCall(t, o) ==
    /\ (o \in ReadOp) = ~m_read_done
    /\ t = Worker => Outstanding = 0 /\ ~m_finished

Allowed(t, o) ==
    /\ calls < program.limit
    /\ <<t, o>> \in program.calls
    /\ program.careful => MayCall(t, o)

Call(t, o) ==
    /\ UserCode(t)
    /\ Allowed(t, o)
    /\ calls' = calls + 1
    /\ stack' = [stack EXCEPT ![t] = Append(@, Locking(o))]
    /\ UNCHANGED <<locks, m_read_done, m_headers_sent, resp, reads, body, request, callbacks>>

(* set_status and set_header, at any time. *)
SetStatus(t) ==
    /\ UserCode(t) /\ ~head
    /\ head' = TRUE
    /\ UNCHANGED <<locks, m_read_done, m_headers_sent, wire, writes, m_finished,
                   finishes, reads, body, stack, request, calls, callbacks>>

Return(t) ==
    /\ UserCode(t)
    /\ Replace(t, <<>>)
    /\ UNCHANGED <<locks, m_read_done, m_headers_sent, resp, reads, body,
                   request, calls, callbacks>>

(* A stream that has nothing to give: the callback runs inside the call. *)
EmptyStream(t) ==
    /\ UserCode(t)
    /\ Allowed(t, "stream")
    /\ calls' = calls + 1
    /\ callbacks' = callbacks + 1
    /\ stack' = [stack EXCEPT ![t] = Append(@, User)]
    /\ UNCHANGED <<locks, m_read_done, m_headers_sent, resp, reads, body, request>>

is_finished == m_finished

(* handle_exception turns an exception of a handler or a callback into a   *)
(* status and an end, unless the connection is finished.  Nothing catches  *)
(* one that leaves a thread of the application.                            *)
Throw(t) ==
    /\ program.throws /\ UserCode(t)
    /\ t = Worker \/ Len(stack[t]) > 1
    /\ program.careful => Outstanding = 0 \/ m_finished
    /\ head' = TRUE
    /\ IF is_finished
       THEN Replace(t, <<>>) /\ UNCHANGED calls
       ELSE Replace(t, <<Locking("abort")>>) /\ calls' = calls + 1
    /\ UNCHANGED <<locks, m_read_done, m_headers_sent, wire, writes, m_finished,
                   finishes, reads, body, request, callbacks>>

(* User code hands the connection to another thread. *)
Spawn(t) ==
    /\ UserCode(Worker) /\ ~Busy(t)
    /\ \E o \in Op : <<t, o>> \in program.calls
    /\ stack' = [stack EXCEPT ![t] = <<User>>]
    /\ UNCHANGED <<locks, m_read_done, m_headers_sent, resp, reads, body,
                   request, calls, callbacks>>

-----------------------------------------------------------------------------
(* The operations.                                                         *)

StartRead(o) == reads' = Append(reads, o)

(* send_body clears m_resp once the headers are sent; end does not, and    *)
(* sends a message unless it has nothing to say.                           *)
Carries(o) == head /\ ~(o \in SendOp /\ m_headers_sent)

StartWrite(o) ==
    LET carries == Carries(o)
        silent == o \in {"end", "abort"} /\ m_headers_sent
    IN  /\ writes' = Append(writes, o)
        /\ head' = carries
        /\ wire' = IF silent THEN wire ELSE Append(wire, carries)
        /\ IF o \notin SendOp
           THEN finishes' = finishes + 1 /\ m_finished' = TRUE
           ELSE UNCHANGED <<finishes, m_finished>>

CanLockRead == ~m_read_lck
CanLockWrite == ~m_write_lck

(* The branch without a return: the callback now, the operation after it. *)
FallThrough(t, o) ==
    /\ Replace(t, <<GoingOn(o)>> \o Callback(o))
    /\ callbacks' = callbacks + 1

EnterRead(t, o) ==
    /\ At(t, Locking(o)) /\ CanLockRead
    /\ \/ /\ m_read_done
          /\ FallThrough(t, o)
          /\ UNCHANGED <<m_read_lck, reads>>
       \/ /\ ~m_read_done
          /\ m_read_lck' = TRUE
          /\ StartRead(o)
          /\ Replace(t, <<>>)
          /\ UNCHANGED callbacks
    /\ UNCHANGED <<m_write_lck, m_read_done, m_headers_sent, resp, body, request, calls>>

EnterWrite(t, o) ==
    /\ At(t, Locking(o)) /\ CanLockWrite
    /\ \/ /\ ~m_read_done
          /\ FallThrough(t, o)
          /\ UNCHANGED <<m_write_lck, resp>>
       \/ /\ m_read_done
          /\ m_write_lck' = TRUE
          /\ StartWrite(o)
          /\ Replace(t, <<>>)
          /\ UNCHANGED callbacks
    /\ UNCHANGED <<m_read_lck, m_read_done, m_headers_sent, reads, body, request, calls>>

GoOn(t, o) ==
    /\ At(t, GoingOn(o))
    /\ Replace(t, <<>>)
    /\ IF o \in ReadOp
       THEN StartRead(o) /\ UNCHANGED resp
       ELSE StartWrite(o) /\ UNCHANGED reads
    /\ UNCHANGED <<locks, m_read_done, m_headers_sent, body, request, calls, callbacks>>

-----------------------------------------------------------------------------
(* Completions, on the worker.                                             *)

BodyLeft == IF body > 0 THEN body - 1 ELSE 0

ReadDone(ok) == ~ok

(* read_body_full and skip_body read on while there is a message. *)
AfterRead(o, ok) == IF o = "full" /\ ok THEN <<Locking(o)>> ELSE <<User>>

ReadCompletes ==
    LET o == Head(reads)
        ok == body > 0
        next == AfterRead(o, ok)
    IN  /\ ~Busy(Worker) /\ reads # <<>>
        /\ reads' = Tail(reads)
        /\ body' = BodyLeft
        /\ m_read_done' = ReadDone(ok)
        /\ m_read_lck' = FALSE
        /\ stack' = [stack EXCEPT ![Worker] = next]
        /\ callbacks' = IF next = <<User>> THEN callbacks + 1 ELSE callbacks
        /\ UNCHANGED <<m_write_lck, m_headers_sent, resp, request, calls>>

Unlocked == FALSE

(* A stream is sent chunk by chunk until it ends or a write fails. *)
WriteCompletes ==
    LET o == Head(writes) IN
    /\ ~Busy(Worker) /\ writes # <<>>
    /\ writes' = Tail(writes)
    /\ m_headers_sent' = TRUE
    /\ m_write_lck' = Unlocked
    /\ \/ /\ o = "stream" /\ Len(wire) < MaxChunks
          /\ stack' = [stack EXCEPT ![Worker] = <<Locking(o)>>]
          /\ UNCHANGED callbacks
       \/ /\ stack' = [stack EXCEPT ![Worker] = Callback(o)]
          /\ callbacks' = callbacks + 1
    /\ UNCHANGED <<m_read_lck, m_read_done, head, wire, m_finished, finishes,
                   reads, body, request, calls>>

(* The client closes its side or breaks the connection. *)
ClientLeaves ==
    /\ body > 0
    /\ body' = 0
    /\ UNCHANGED <<locks, m_read_done, m_headers_sent, resp, reads, stack,
                   request, calls, callbacks>>

-----------------------------------------------------------------------------
Operation(t) ==
    \/ \E o \in ReadOp : EnterRead(t, o)
    \/ \E o \in WriteOp : EnterWrite(t, o)
    \/ \E o \in ReadOp \cup WriteOp : GoOn(t, o)

Completion == ReadCompletes \/ WriteCompletes

Next ==
    \/ Request
    \/ Completion
    \/ ClientLeaves
    \/ \E t \in Thread :
          \/ \E o \in Op : Call(t, o)
          \/ EmptyStream(t) \/ SetStatus(t) \/ Return(t) \/ Throw(t)
          \/ Operation(t)
    \/ \E t \in App : Spawn(t)

Spec == Init /\ [][Next]_vars

(***************************************************************************)
(* User code returns, a thread inside a call goes on, and the completion   *)
(* queue delivers.                                                         *)
(***************************************************************************)
Fairness ==
    /\ WF_vars(Completion)
    /\ \A t \in Thread : WF_vars(Return(t)) /\ SF_vars(Operation(t))

FairSpec == Spec /\ Fairness

-----------------------------------------------------------------------------
(* gRPC allows one outstanding Read and one outstanding Write: the mutexes *)
(* see to it, when the body is read before the answer.                     *)
OneReadOneWrite == program.careful => Len(reads) <= 1 /\ Len(writes) <= 1

(* However the connection is used, no call is forgotten: it is under way,  *)
(* or there has been a callback for it.                                    *)
NoCallForgotten == calls <= callbacks + Outstanding

(* Used with care and without exceptions, no call gets two callbacks       *)
(* either, whatever threads send: every call has had its one callback, or  *)
(* is under way.                                                           *)
Orderly == program.careful /\ ~program.throws
CallbacksMatchCalls == Orderly => calls = callbacks + Outstanding

(* The worker never waits for a mutex that only its own next completion    *)
(* would give back.                                                        *)
NoSelfDeadlock == program.careful =>
    /\ \A o \in ReadOp : At(Worker, Locking(o)) => ~m_read_lck
    /\ \A o \in WriteOp : At(Worker, Locking(o)) => ~m_write_lck

(* The response is finished once, and nothing is sent after that, whatever *)
(* the mixture of handlers and exceptions: handle_exception ends only what *)
(* user code has not.                                                      *)
NothingAfterFinish == [][program.careful /\ finishes > 0 => UNCHANGED <<wire, finishes>>]_vars

(* Every call gets its callback in the end. *)
CallsSettle == Orderly /\ calls > callbacks ~> calls = callbacks

(* Status and headers go out with the first message of the response and    *)
(* with no other that send_body sends, however many there are and whenever *)
(* they are set; only the message of end may carry them once more.         *)
HeadFirstOrLast ==
    program.careful => \A i \in 1 .. Len(wire) : wire[i] => i = 1 \/ (i = Len(wire) /\ finishes > 0)

=============================================================================
