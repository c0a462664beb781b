------------------------------ MODULE JsonRpc ------------------------------
(***************************************************************************)
(* One message to the JSON-RPC dispatcher                                  *)
(* (grpcbackend_cpp/src/util/json_rpc.cpp).                                *)
(*                                                                         *)
(* handle_message calls the registered function of each request in turn.   *)
(* A function answers before it returns, or keeps the call's context and   *)
(* answers later from any thread.  A batch has one response, sent by the   *)
(* answer that completes result_map, of the answers to all requests that   *)
(* have an id.                                                             *)
(*                                                                         *)
(* The application answers a call once, and its answers do not overlap:    *)
(* handle_result changes result_map without a lock.                        *)
(***************************************************************************)
EXTENDS Naturals, Sequences, FiniteSets

CONSTANTS
    Method,     \* names of methods
    NoMethod,   \* a request without a method
    Value,      \* what functions answer: results and errors
    NotFound,   \* the error of a method that is not registered
    Null,       \* what the callback of a notification is given
    MaxBatch    \* bound: requests in a batch

Answer == Value \cup {NotFound}

ASSUME ConstantsOK ==
    /\ Null \notin Answer
    /\ NoMethod \notin Method
    /\ MaxBatch \in Nat

(* A member of a batch may be no object; one without an id is a            *)
(* notification.                                                           *)
Request == [object : BOOLEAN, method : Method \cup {NoMethod}, id : BOOLEAN]
Batch == UNION {[1 .. n -> Request] : n \in 0 .. MaxBatch}
Message ==
         {[kind |-> k, reqs |-> <<>>] : k \in {"unparsable", "other"}}
    \cup {[kind |-> "call", reqs |-> <<r>>] : r \in {q \in Request : q.object}}
    \cup {[kind |-> "batch", reqs |-> b] : b \in Batch}

VARIABLES
    m_handlers, \* registered methods
    msg,        \* the message
    pc,         \* where handle_message is
    next,       \* the request handle_message calls next
    held,       \* calls whose context the application keeps, to answer later
    result_map, \* answers of a batch
    sent,       \* responses
    given       \* history: the calls answered, and what with

vars == <<m_handlers, msg, pc, next, held, result_map, sent, given>>

n == Len(msg.reqs)
Ids == {i \in 1 .. n : msg.reqs[i].id}

Init ==
    /\ m_handlers = {}
    /\ msg \in Message
    /\ pc = "start"
    /\ next = 1
    /\ held = {}
    /\ result_map = <<>>
    /\ sent = <<>>
    /\ given = <<>>

-----------------------------------------------------------------------------
(* Mistaken forms of the helpers below, to see that the properties notice. *)

BugIndexAfterPush(i) == i + 1
BugCountsIds(rm) == Cardinality(DOMAIN rm) >= Cardinality(Ids)
BugCountsCalled(rm) == Cardinality(DOMAIN rm) >= next
BugCountsBeyond(rm) == Cardinality(DOMAIN rm) > n

-----------------------------------------------------------------------------
(* Answers.                                                                *)

With(f, i, v) == [j \in DOMAIN f \cup {i} |-> IF j = i THEN v ELSE f[j]]

(* The position the callback of request i was given. *)
Index(i) == i

(* The batch has all its answers. *)
Complete(rm) == Cardinality(DOMAIN rm) >= n

(* The array of a batch's response: the answers by position, notifications *)
(* left out.                                                               *)
Results(rm) ==
    LET results[i \in 0 .. n] ==
            IF i = 0 THEN <<>>
            ELSE IF i \in Ids /\ i \in DOMAIN rm
                 THEN Append(results[i - 1], [id |-> i, answer |-> rm[i]])
                 ELSE results[i - 1]
    IN  results[n]

(* respond and error, down to responsefn: v answers request i. *)
Respond(i, v) ==
    LET value == IF i \in Ids THEN v ELSE Null
        rm == With(result_map, Index(i), value)
    IN  /\ given' = With(given, i, v)
        /\ \/ /\ msg.kind = "call"
              /\ sent' = IF value = Null THEN sent
                         ELSE Append(sent, <<[id |-> i, answer |-> value]>>)
              /\ UNCHANGED result_map
           \/ /\ msg.kind = "batch"
              /\ result_map' = rm
              /\ sent' = IF Complete(rm) THEN Append(sent, Results(rm)) ELSE sent

NoAnswer == UNCHANGED <<given, result_map, sent>>

-----------------------------------------------------------------------------
(* handle_message.                                                         *)

(* register_method, before the first message. *)
Register(m) ==
    /\ pc = "start"
    /\ m \notin m_handlers
    /\ m_handlers' = m_handlers \cup {m}
    /\ UNCHANGED <<msg, pc, next, held>> /\ NoAnswer

(* What is neither an object nor an array is answered with an error. *)
Reject ==
    /\ pc = "start"
    /\ msg.kind \in {"unparsable", "other"}
    /\ sent' = Append(sent, <<>>)
    /\ pc' = "returned"
    /\ UNCHANGED <<m_handlers, msg, next, held, result_map, given>>

(* All contexts are made before the first call; a member that is no object *)
(* ends in an exception.                                                   *)
Contexts ==
    /\ pc = "start"
    /\ msg.kind \in {"call", "batch"}
    /\ pc' = IF \E i \in 1 .. n : ~msg.reqs[i].object THEN "thrown" ELSE "calling"
    /\ UNCHANGED <<m_handlers, msg, next, held>> /\ NoAnswer

(* get_method has no method to return, and noexcept: the program ends. *)
Terminates ==
    /\ pc = "calling" /\ next <= n
    /\ msg.reqs[next].method = NoMethod
    /\ pc' = "terminated"
    /\ UNCHANGED <<m_handlers, msg, next, held>> /\ NoAnswer

(* handle_call of a method nobody registered. *)
CallUnknown ==
    /\ pc = "calling" /\ next <= n
    /\ msg.reqs[next].method \in Method \ m_handlers
    /\ Respond(next, NotFound)
    /\ next' = next + 1
    /\ UNCHANGED <<m_handlers, msg, pc, held>>

(* handle_call: the function answers, keeps the context, or does neither   *)
(* before it throws; an exception goes through handle_message.             *)
CallFunction ==
    /\ pc = "calling" /\ next <= n
    /\ msg.reqs[next].method \in m_handlers
    /\ \/ /\ \E v \in Value : Respond(next, v)
          /\ pc' \in {"calling", "thrown"}
          /\ UNCHANGED held
       \/ /\ held' = held \cup {next}
          /\ pc' \in {"calling", "thrown"}
          /\ NoAnswer
       \/ /\ pc' = "thrown"
          /\ UNCHANGED held /\ NoAnswer
    /\ next' = next + 1
    /\ UNCHANGED <<m_handlers, msg>>

Returns ==
    /\ pc = "calling" /\ next > n
    /\ pc' = "returned"
    /\ UNCHANGED <<m_handlers, msg, next, held>> /\ NoAnswer

(* A kept call is answered; the context is not used after that. *)
AnswerLater(i) ==
    /\ pc # "terminated"
    /\ i \in held
    /\ held' = held \ {i}
    /\ \E v \in Value : Respond(i, v)
    /\ UNCHANGED <<m_handlers, msg, pc, next>>

HandleMessage == Reject \/ Contexts \/ Terminates \/ CallUnknown \/ CallFunction \/ Returns

Next ==
    \/ \E m \in Method : Register(m)
    \/ HandleMessage
    \/ \E i \in held : AnswerLater(i)

Spec == Init /\ [][Next]_vars

(* handle_message goes on, and the application answers what it keeps. *)
FairSpec ==
    /\ Spec
    /\ WF_vars(HandleMessage)
    /\ \A i \in 1 .. MaxBatch + 1 : WF_vars(AnswerLater(i))

-----------------------------------------------------------------------------
(* Properties.                                                             *)

Failed == pc \in {"thrown", "terminated"}

(* Every variable is of its type; a batch has at most one answer for each  *)
(* of its requests, and those still to be answered are called and open.    *)
TypeOK ==
    /\ m_handlers \subseteq Method
    /\ msg \in Message
    /\ pc \in {"start", "calling", "returned", "thrown", "terminated"}
    /\ next \in 1 .. n + 1
    /\ held \subseteq 1 .. next - 1
    /\ DOMAIN given \subseteq (1 .. next - 1) \ held
    /\ \A i \in DOMAIN given : given[i] \in Answer
    /\ DOMAIN result_map \subseteq 1 .. n
    /\ \A i \in DOMAIN result_map : result_map[i] \in Answer \cup {Null}

(* A message has one response at most, whichever calls are answered at     *)
(* once or later, while others of the batch have yet to be called.         *)
OneResponse == Len(sent) <= 1

(* No call of a message is open once its response is sent, so nothing      *)
(* answers late into a batch that has gone out.                            *)
NothingOpenAfterResponse ==
    sent # <<>> /\ msg.kind \in {"call", "batch"} =>
        DOMAIN given = 1 .. n /\ held = {}

(* A response has the answers to exactly the requests with an id, each the *)
(* one its function gave, in the order of the batch and not of the answers.*)
ResponseMatches ==
    \A k \in 1 .. Len(sent) :
        LET r == sent[k] IN
        msg.kind \in {"call", "batch"} =>
            /\ {r[j].id : j \in 1 .. Len(r)} = Ids
            /\ \A j \in 1 .. Len(r) : r[j].id \in DOMAIN given
                                      /\ r[j].answer = given[r[j].id]
            /\ \A j \in 1 .. Len(r) - 1 : r[j].id < r[j + 1].id

(* Unless an exception or the end of the program comes in between, every   *)
(* message that asks for an answer gets it: what is no request, a call     *)
(* with an id, a batch that is not empty.                                  *)
Owed ==
    \/ msg.kind \in {"unparsable", "other"}
    \/ msg.kind = "call" /\ Ids # {}
    \/ msg.kind = "batch" /\ n > 0

EveryMessageAnswered == Owed ~> (sent # <<>> \/ Failed)

=============================================================================
