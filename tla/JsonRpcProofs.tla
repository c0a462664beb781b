--------------------------- MODULE JsonRpcProofs ---------------------------
(***************************************************************************)
(* Theorems about JsonRpc, for any methods, values and length of batches.  *)
(***************************************************************************)
EXTENDS JsonRpc, Induction, FiniteSetTheorems, TLAPS

(* The entries of result_map are the calls answered, and a response has    *)
(* only been sent once all of them are.                                    *)
MapInv ==
    /\ msg.kind = "batch" => DOMAIN result_map = DOMAIN given
    /\ msg.kind # "batch" => result_map = <<>>

SentInv ==
    /\ sent = <<>> \/ sent = <<sent[1]>>
    /\ pc = "start" => sent = <<>> /\ next = 1
    /\ msg.kind \in {"call", "batch"} /\ sent # <<>> => DOMAIN given = 1 .. n

Inv == TypeOK /\ MapInv /\ SentInv

LEMMA MessageFacts ==
    ASSUME msg \in Message
    PROVE  /\ n \in Nat
           /\ msg.kind = "call" => n = 1
           /\ \A i \in 1 .. n : msg.reqs[i] \in Request
           /\ msg.kind \notin {"call", "batch"} => n = 0
  <1>1. CASE msg \in {[kind |-> k, reqs |-> <<>>] : k \in {"unparsable", "other"}}
    BY <1>1 DEF n
  <1>2. CASE msg \in {[kind |-> "call", reqs |-> <<r>>] : r \in {q \in Request : q.object}}
    BY <1>2 DEF n
  <1>3. CASE msg \in {[kind |-> "batch", reqs |-> b] : b \in Batch}
    <2>1. PICK b \in Batch : msg = [kind |-> "batch", reqs |-> b]
      BY <1>3
    <2>2. PICK k \in 0 .. MaxBatch : b \in [1 .. k -> Request]
      BY DEF Batch
    <2>3. b \in Seq(Request) /\ Len(b) = k
      BY <2>2, ConstantsOK DEF ConstantsOK
    <2> QED
      BY <2>1, <2>2, <2>3 DEF n
  <1> QED
    BY <1>1, <1>2, <1>3 DEF Message

(* A set of positions with as many members as there are positions has all. *)
LEMMA FullMap ==
    ASSUME NEW k \in Nat, NEW D \in SUBSET (1 .. k), Cardinality(D) >= k
    PROVE  D = 1 .. k
  <1>1. IsFiniteSet(1 .. k) /\ Cardinality(1 .. k) = k
    BY FS_Interval
  <1>2. Cardinality(D) \in Nat /\ Cardinality(D) <= k
    BY <1>1, FS_Subset, FS_CardinalityType
  <1>3. Cardinality(1 .. k) = Cardinality(D)
    BY <1>1, <1>2
  <1> QED
    BY <1>1, <1>3, FS_Subset

(* What an answer to request i leaves. *)
RespondPost(i) ==
    /\ DOMAIN given' = DOMAIN given \cup {i}
    /\ \A j \in DOMAIN given' : given'[j] \in Answer
    /\ DOMAIN result_map' \subseteq 1 .. n
    /\ \A j \in DOMAIN result_map' : result_map'[j] \in Answer \cup {Null}
    /\ MapInv'
    /\ sent' = <<>> \/ sent' = <<sent'[1]>>
    /\ sent' # <<>> => DOMAIN given' = 1 .. n

(* An answer to a call that is open keeps the map, and sends at most the   *)
(* one response.                                                           *)
LEMMA RespondKeeps ==
    ASSUME Inv, NEW i \in 1 .. n, i \notin DOMAIN given,
           NEW v \in Answer, Respond(i, v), msg' = msg
    PROVE  RespondPost(i)
  <1> USE DEF RespondPost
  <1> DEFINE value == IF i \in Ids THEN v ELSE Null
             rm == With(result_map, i, value)
  <1>1. n \in Nat /\ (msg.kind = "call" => n = 1)
    BY MessageFacts DEF Inv, TypeOK
  <1>2. /\ given' = With(given, i, v)
        /\ DOMAIN given' = DOMAIN given \cup {i}
        /\ \A j \in DOMAIN given' : given'[j] \in Answer
    BY DEF Respond, With, Inv, TypeOK
  <1>3. sent = <<>>
    BY DEF Respond, Inv, SentInv
  <1>4. /\ DOMAIN rm = DOMAIN result_map \cup {i}
        /\ \A j \in DOMAIN rm : rm[j] \in Answer \cup {Null}
    BY DEF With, Inv, TypeOK
  <1>5. DOMAIN given' \subseteq 1 .. n
    BY <1>2, <1>1 DEF Inv, TypeOK
  <1>6. CASE msg.kind = "call"
    <2>1. result_map' = result_map /\ DOMAIN given' = 1 .. n
      BY <1>1, <1>2, <1>5, <1>6 DEF Respond
    <2>2. sent' = <<>> \/ \E r : sent' = <<r>>
      BY <1>3, <1>6 DEF Respond
    <2> QED
      BY <1>2, <1>6, <2>1, <2>2 DEF Inv, TypeOK, MapInv
  <1>7. CASE msg.kind = "batch"
    <2>1. /\ result_map' = rm
          /\ sent' = IF Complete(rm) THEN Append(sent, Results(rm)) ELSE sent
      BY <1>7 DEF Respond, Index
    <2>2. DOMAIN rm = DOMAIN given'
      BY <1>2, <1>4, <1>7 DEF Inv, MapInv
    <2>3. Complete(rm) => DOMAIN given' = 1 .. n
      BY <1>1, <1>5, <2>2, FullMap DEF Complete
    <2>4. sent' = <<>> \/ \E r : sent' = <<r>>
      BY <1>3, <2>1
    <2>5. sent' # <<>> => Complete(rm)
      BY <1>3, <2>1
    <2> HIDE DEF rm
    <2>6. MapInv'
      BY <1>7, <2>1, <2>2 DEF MapInv
    <2>7. /\ DOMAIN result_map' \subseteq 1 .. n
          /\ \A j \in DOMAIN result_map' : result_map'[j] \in Answer \cup {Null}
      BY <1>4, <1>5, <2>1, <2>2
    <2>8. sent' = <<>> \/ sent' = <<sent'[1]>>
      BY <2>4
    <2> QED
      BY <1>2, <2>3, <2>5, <2>6, <2>7, <2>8
  <1> QED
    BY <1>6, <1>7 DEF Respond

LEMMA InitInv == ASSUME Init PROVE Inv
  <1>1. n \in Nat
    BY MessageFacts DEF Init
  <1>2. given = <<>> /\ DOMAIN given = {} /\ DOMAIN result_map = {}
    BY DEF Init
  <1>3. TypeOK
    BY <1>1, <1>2 DEF Init, TypeOK
  <1> QED
    BY <1>2, <1>3 DEF Init, Inv, MapInv, SentInv

LEMMA NextInv == ASSUME Inv, [Next]_vars PROVE Inv'
  <1> USE DEF Inv
  <1>0. /\ n \in Nat
        /\ \A i \in 1 .. n : msg.reqs[i] \in Request
        /\ msg.kind \notin {"call", "batch"} => n = 0
        /\ msg \in Message
    BY MessageFacts DEF TypeOK
  <1>m. msg' = msg /\ n' = n
    BY DEF vars, Next, Register, HandleMessage, Reject, Contexts, Terminates,
           CallUnknown, CallFunction, Returns, AnswerLater, n
  <1>1. ASSUME NEW m \in Method, Register(m) PROVE Inv'
    BY <1>1, <1>m DEF Register, NoAnswer, TypeOK, MapInv, SentInv
  <1>2. CASE Reject
    <2>1. sent' = <<(<<>>)>>
      BY <1>2 DEF Reject, SentInv
    <2>2. sent' = <<sent'[1]>>
      BY <2>1
    <2> QED
      BY <1>2, <1>m, <2>2 DEF Reject, TypeOK, MapInv, SentInv
  <1>3. CASE Contexts
    BY <1>3, <1>m DEF Contexts, NoAnswer, TypeOK, MapInv, SentInv
  <1>4. CASE Terminates
    BY <1>4, <1>m DEF Terminates, NoAnswer, TypeOK, MapInv, SentInv
  <1>5. CASE CallUnknown
    <2>1. next \in 1 .. n /\ next \notin DOMAIN given /\ NotFound \in Answer
      BY <1>0, <1>5 DEF CallUnknown, TypeOK, Answer
    <2>2. Respond(next, NotFound)
      BY <1>5 DEF CallUnknown
    <2>3. pc' = "calling" /\ next' = next + 1 /\ held' = held /\ m_handlers' = m_handlers
      BY <1>5 DEF CallUnknown
    <2>4. RespondPost(next)
      BY <1>m, <2>1, <2>2, RespondKeeps DEF RespondPost
    <2> QED
      BY <1>0, <1>m, <2>1, <2>3, <2>4 DEF RespondPost, TypeOK, SentInv
  <1>6. CASE CallFunction
    <2>1. next \in 1 .. n /\ next \notin DOMAIN given /\ next \notin held
      BY <1>0, <1>6 DEF CallFunction, TypeOK
    <2>2. next' = next + 1 /\ m_handlers' = m_handlers /\ pc' \in {"calling", "thrown"}
      BY <1>6 DEF CallFunction
    <2>3. CASE held' = held /\ \E v \in Value : Respond(next, v)
      <3>1. RespondPost(next)
        BY <1>m, <2>1, <2>3, RespondKeeps DEF RespondPost, Answer
      <3> QED
        BY <1>0, <1>m, <2>1, <2>2, <2>3, <3>1 DEF RespondPost, TypeOK, SentInv
    <2>4. CASE held' \in {held, held \cup {next}} /\ NoAnswer
      BY <1>0, <1>m, <2>1, <2>2, <2>4 DEF NoAnswer, TypeOK, MapInv, SentInv
    <2> QED
      BY <1>6, <2>3, <2>4 DEF CallFunction
  <1>7. CASE Returns
    BY <1>7, <1>m DEF Returns, NoAnswer, TypeOK, MapInv, SentInv
  <1>8. ASSUME NEW i \in held, AnswerLater(i) PROVE Inv'
    <2>1. i \in 1 .. n /\ i \in 1 .. next - 1 /\ i \notin DOMAIN given
      BY <1>0 DEF TypeOK
    <2>2. PICK v \in Value : Respond(i, v)
      BY <1>8 DEF AnswerLater
    <2>3. /\ pc' = pc /\ next' = next /\ m_handlers' = m_handlers
          /\ held' = held \ {i}
      BY <1>8 DEF AnswerLater
    <2>4. pc # "start"
      BY <1>0, <2>1 DEF SentInv
    <2>5. RespondPost(i)
      BY <1>m, <2>1, <2>2, RespondKeeps DEF RespondPost, Answer
    <2> QED
      BY <1>0, <1>m, <2>1, <2>3, <2>4, <2>5 DEF RespondPost, TypeOK, SentInv
  <1>9. CASE UNCHANGED vars
    BY <1>9, <1>m DEF vars, TypeOK, MapInv, SentInv
  <1> QED
    BY <1>1, <1>2, <1>3, <1>4, <1>5, <1>6, <1>7, <1>8, <1>9 DEF Next, HandleMessage

LEMMA Invariance == Spec => []Inv
  <1>1. Init => Inv
    BY InitInv
  <1>2. Inv /\ [Next]_vars => Inv'
    BY NextInv
  <1> QED
    BY <1>1, <1>2, PTL DEF Spec

(* Every reachable state is of its type: no call is answered twice, and    *)
(* handle_result is only given positions of the batch.                     *)
THEOREM TypeCorrect == Spec => []TypeOK
  <1>1. Inv => TypeOK
    BY DEF Inv
  <1> QED
    BY <1>1, Invariance, PTL

(* handle_message and the answers send one response at most.               *)
THEOREM RespondsOnce == Spec => []OneResponse
  <1>1. ASSUME Inv PROVE OneResponse
    <2>1. Len(<<>>) = 0 /\ Len(<<sent[1]>>) = 1
      OBVIOUS
    <2>2. sent = <<>> \/ sent = <<sent[1]>>
      BY <1>1 DEF Inv, SentInv
    <2>3. Len(sent) \in {0, 1}
      BY <2>1, <2>2, Zenon
    <2>4. \A k \in {0, 1} : k <= 1
      OBVIOUS
    <2> QED
      BY <2>3, <2>4, Zenon DEF OneResponse
  <1> QED
    BY <1>1, Invariance, PTL

(* When a response is sent, no call of the message is open.                *)
THEOREM RespondsLast == Spec => []NothingOpenAfterResponse
  <1>1. ASSUME Inv PROVE NothingOpenAfterResponse
    <2>1. n \in Nat
      BY <1>1, MessageFacts DEF Inv, TypeOK
    <2>2. sent # <<>> /\ msg.kind \in {"call", "batch"} => DOMAIN given = 1 .. n
      BY <1>1 DEF Inv, SentInv
    <2>3. ASSUME DOMAIN given = 1 .. n, NEW i \in held PROVE FALSE
      <3>0. held \subseteq 1 .. next - 1 /\ next \in 1 .. n + 1
            /\ DOMAIN given \subseteq (1 .. next - 1) \ held
        BY <1>1 DEF Inv, TypeOK
      <3>1. i \in 1 .. n /\ i \notin DOMAIN given
        BY <2>1, <2>3, <3>0
      <3> QED
        BY <3>1, <2>3
    <2> QED
      BY <2>2, <2>3 DEF NothingOpenAfterResponse
  <1> QED
    BY <1>1, Invariance, PTL

-----------------------------------------------------------------------------
(* The response to a batch.                                                *)

(* g is the array after each turn of the loop of handle_result, up to k. *)
Pushes(g, rm, k) ==
    g = [i \in 0 .. k |->
            IF i = 0 THEN <<>>
            ELSE IF i \in Ids /\ i \in DOMAIN rm
                 THEN Append(g[i - 1], [id |-> i, answer |-> rm[i]])
                 ELSE g[i - 1]]

LEMMA PushesEach ==
    ASSUME NEW rm, NEW k \in Nat
    PROVE  \E g : Pushes(g, rm, k)
<1> DEFINE S == {i \in Nat : \E g : Pushes(g, rm, i)}
<1>1. 0 \in S
  <2> DEFINE g == [i \in 0 .. 0 |-> <<>>]
  <2>1. Pushes(g, rm, 0)
    BY DEF Pushes
  <2> QED BY <2>1
<1>2. ASSUME NEW i \in S PROVE i + 1 \in S
  <2>1. PICK g : Pushes(g, rm, i)
    OBVIOUS
  <2> DEFINE last == IF i + 1 \in Ids /\ i + 1 \in DOMAIN rm
                     THEN Append(g[i], [id |-> i + 1, answer |-> rm[i + 1]]) ELSE g[i]
             h == [j \in 0 .. i + 1 |-> IF j = i + 1 THEN last ELSE g[j]]
  <2>2. i \in Nat
    OBVIOUS
  <2>3. ASSUME NEW j \in 0 .. i
        PROVE  h[j] = IF j = 0 THEN <<>>
                      ELSE IF j \in Ids /\ j \in DOMAIN rm
                           THEN Append(h[j - 1], [id |-> j, answer |-> rm[j]])
                           ELSE h[j - 1]
    <3> HIDE DEF last
    <3>1. h[j] = g[j] /\ (j # 0 => h[j - 1] = g[j - 1])
      BY <2>2
    <3> HIDE DEF h
    <3>2. g[j] = IF j = 0 THEN <<>>
                 ELSE IF j \in Ids /\ j \in DOMAIN rm
                      THEN Append(g[j - 1], [id |-> j, answer |-> rm[j]])
                      ELSE g[j - 1]
      BY <2>1 DEF Pushes
    <3> QED BY <3>1, <3>2
  <2>4. h[i + 1] = last /\ h[i] = g[i] /\ (i + 1) - 1 = i /\ i + 1 # 0
    <3> HIDE DEF last
    <3> QED BY <2>2
  <2>5. h = [j \in 0 .. i + 1 |-> h[j]]
    OBVIOUS
  <2> HIDE DEF h
  <2>6. ASSUME NEW j \in 0 .. i + 1
        PROVE  h[j] = IF j = 0 THEN <<>>
                      ELSE IF j \in Ids /\ j \in DOMAIN rm
                           THEN Append(h[j - 1], [id |-> j, answer |-> rm[j]])
                           ELSE h[j - 1]
    <3>1. CASE j \in 0 .. i
      BY <2>3, <3>1
    <3>2. CASE j = i + 1
      BY <2>4, <3>2
    <3> QED BY <2>2, <3>1, <3>2
  <2>7. Pushes(h, rm, i + 1)
    BY <2>5, <2>6 DEF Pushes
  <2> QED BY <2>2, <2>7
<1> HIDE DEF S
<1>3. S = Nat
  <2>1. S \in SUBSET Nat
    BY DEF S
  <2> QED BY <1>1, <1>2, <2>1, SetInduction
<1> QED BY <1>3 DEF S

LEMMA ResultsIs ==
    ASSUME NEW rm, n \in Nat
    PROVE  \E g : Pushes(g, rm, n) /\ Results(rm) = g[n]
<1>1. \E g : Pushes(g, rm, n)
  BY PushesEach
<1>2. Results(rm) = (CHOOSE g : Pushes(g, rm, n))[n]
  BY DEF Results, Pushes
<1> QED BY <1>1, <1>2

(* r has the answers in rm to the requests up to i that have an id, in     *)
(* their order.                                                            *)
Lists(r, rm, i) ==
    /\ r \in Seq({[id |-> j, answer |-> rm[j]] : j \in 1 .. n})
    /\ \A k \in 1 .. Len(r) : r[k].id \in Ids \cap DOMAIN rm /\ r[k].id <= i
                              /\ r[k].answer = rm[r[k].id]
    /\ \A j \in Ids \cap DOMAIN rm : j <= i => \E k \in 1 .. Len(r) : r[k].id = j
    /\ \A k \in 1 .. Len(r) - 1 : r[k].id < r[k + 1].id

LEMMA ResultsList ==
    ASSUME NEW rm, n \in Nat
    PROVE  Lists(Results(rm), rm, n)
<1>1. PICK g : Pushes(g, rm, n) /\ Results(rm) = g[n]
  BY ResultsIs
<1> DEFINE S == {i \in Nat : i <= n => Lists(g[i], rm, i)}
<1>2. 0 \in S
  <2>1. g[0] = <<>>
    BY <1>1 DEF Pushes
  <2>2. \A j \in Ids : ~(j <= 0)
    BY DEF Ids
  <2>3. Lists(<<>>, rm, 0)
    BY <2>2 DEF Lists
  <2> QED BY <2>1, <2>3
<1>3. ASSUME NEW i \in S PROVE i + 1 \in S
  <2> SUFFICES ASSUME i + 1 <= n PROVE Lists(g[i + 1], rm, i + 1)
      OBVIOUS
  <2>1. i \in Nat /\ i + 1 \in 1 .. n /\ i + 1 \in 0 .. n /\ i + 1 # 0 /\ (i + 1) - 1 = i
        /\ Lists(g[i], rm, i)
    OBVIOUS
  <2>2. g[i + 1] = IF i + 1 \in Ids /\ i + 1 \in DOMAIN rm
                   THEN Append(g[i], [id |-> i + 1, answer |-> rm[i + 1]])
                   ELSE g[i]
    BY <1>1, <2>1 DEF Pushes
  <2>3. PICK r : r = g[i]
    OBVIOUS
  <2>4. Lists(r, rm, i)
    BY <2>1, <2>3
  <2>5. \A j \in Ids : j \in Nat
    BY DEF Ids
  <2>6. CASE i + 1 \in Ids /\ i + 1 \in DOMAIN rm
    <3>1. PICK e : e = [id |-> i + 1, answer |-> rm[i + 1]]
      OBVIOUS
    <3>2. e \in {[id |-> j, answer |-> rm[j]] : j \in 1 .. n} /\ e.id = i + 1 /\ e.answer = rm[i + 1]
      BY <2>1, <3>1
    <3>3. PICK E : E = {[id |-> j, answer |-> rm[j]] : j \in 1 .. n}
      OBVIOUS
    <3>4. r \in Seq(E) /\ e \in E
      BY <2>4, <3>2, <3>3 DEF Lists
    <3>5. PICK q : q = Append(r, e)
      OBVIOUS
    <3>6. /\ q \in Seq(E) /\ Len(q) = Len(r) + 1 /\ Len(r) \in Nat
          /\ \A k \in 1 .. Len(r) : q[k] = r[k]
          /\ q[Len(r) + 1] = e
      BY <3>4, <3>5
    <3>7. ASSUME NEW k \in 1 .. Len(q)
          PROVE  q[k].id \in Ids \cap DOMAIN rm /\ q[k].id <= i + 1 /\ q[k].answer = rm[q[k].id]
      <4>1. CASE k \in 1 .. Len(r)
        <5>1. q[k] = r[k] /\ r[k].id \in Ids \cap DOMAIN rm /\ r[k].id <= i
              /\ r[k].answer = rm[r[k].id]
          BY <2>4, <3>6, <4>1 DEF Lists
        <5>2. r[k].id \in Nat
          BY <2>5, <5>1
        <5> QED BY <2>1, <5>1, <5>2
      <4>2. CASE k = Len(r) + 1
        <5>1. q[k] = e
          BY <3>6, <4>2
        <5> QED BY <2>6, <3>2, <5>1
      <4> QED BY <3>6, <4>1, <4>2
    <3>8. ASSUME NEW j \in Ids \cap DOMAIN rm, j <= i + 1
          PROVE  \E k \in 1 .. Len(q) : q[k].id = j
      <4>1. CASE j <= i
        <5>1. PICK k \in 1 .. Len(r) : r[k].id = j
          BY <2>4, <4>1 DEF Lists
        <5> QED BY <3>6, <5>1
      <4>2. CASE j = i + 1
        <5>1. Len(r) + 1 \in 1 .. Len(q) /\ q[Len(r) + 1].id = j
          BY <3>2, <3>6, <4>2
        <5> QED BY <5>1
      <4>3. j \in Nat
        BY <2>5
      <4> QED BY <2>1, <3>8, <4>1, <4>2, <4>3
    <3>9. ASSUME NEW k \in 1 .. Len(q) - 1
          PROVE  q[k].id < q[k + 1].id
      <4>1. k \in 1 .. Len(r) /\ q[k] = r[k] /\ r[k].id <= i /\ r[k].id \in Ids
        BY <2>4, <3>6 DEF Lists
      <4>2. CASE k = Len(r)
        <5>1. q[k + 1].id = i + 1
          BY <3>2, <3>6, <4>2
        <5>2. r[k].id \in Nat
          BY <2>5, <4>1
        <5> QED BY <2>1, <4>1, <5>1, <5>2
      <4>3. CASE k # Len(r)
        <5>1. k \in 1 .. Len(r) - 1 /\ k + 1 \in 1 .. Len(r)
          BY <3>6, <4>1, <4>3
        <5>2. r[k].id < r[k + 1].id /\ q[k + 1] = r[k + 1]
          BY <2>4, <3>6, <5>1 DEF Lists
        <5> QED BY <4>1, <5>2
      <4> QED BY <4>2, <4>3
    <3>10. Lists(q, rm, i + 1)
      BY <3>3, <3>6, <3>7, <3>8, <3>9 DEF Lists
    <3> QED BY <2>2, <2>3, <2>6, <3>1, <3>5, <3>10
  <2>7. CASE ~(i + 1 \in Ids /\ i + 1 \in DOMAIN rm)
    <3>1. \A j \in Ids \cap DOMAIN rm : j <= i + 1 => j <= i
      BY <2>1, <2>5, <2>7
    <3>2. \A k \in 1 .. Len(r) : r[k].id \in Ids \cap DOMAIN rm /\ r[k].id <= i + 1
                                 /\ r[k].answer = rm[r[k].id]
      <4> SUFFICES ASSUME NEW k \in 1 .. Len(r)
                   PROVE  r[k].id \in Ids \cap DOMAIN rm /\ r[k].id <= i + 1
                          /\ r[k].answer = rm[r[k].id]
          OBVIOUS
      <4>1. r[k].id \in Ids \cap DOMAIN rm /\ r[k].id <= i /\ r[k].answer = rm[r[k].id]
        BY <2>4 DEF Lists
      <4>2. r[k].id \in Nat
        BY <2>5, <4>1
      <4> QED BY <2>1, <4>1, <4>2
    <3>3. Lists(r, rm, i + 1)
      BY <2>4, <3>1, <3>2 DEF Lists
    <3> QED BY <2>2, <2>3, <2>7, <3>3
  <2> QED BY <2>6, <2>7
<1> HIDE DEF S
<1>4. S = Nat
  <2>1. S \in SUBSET Nat
    BY DEF S
  <2> QED BY <1>2, <1>3, <2>1, SetInduction
<1>5. Lists(g[n], rm, n)
  BY <1>4 DEF S
<1> QED BY <1>1, <1>5

(* result_map has what the functions gave, and the response is made of it. *)
Values ==
    msg.kind = "batch" =>
        \A i \in DOMAIN result_map : result_map[i] = IF i \in Ids THEN given[i] ELSE Null

Matches(r) ==
    /\ {r[j].id : j \in 1 .. Len(r)} = Ids
    /\ \A j \in 1 .. Len(r) : r[j].id \in DOMAIN given /\ r[j].answer = given[r[j].id]
    /\ \A j \in 1 .. Len(r) - 1 : r[j].id < r[j + 1].id

SentMatches == msg.kind \in {"call", "batch"} /\ sent # <<>> => Matches(sent[1])

LEMMA RespondMatches ==
    ASSUME Inv, Values, NEW i \in 1 .. n, i \notin DOMAIN given,
           NEW v \in Answer, Respond(i, v), UNCHANGED msg
    PROVE  Values' /\ SentMatches'
<1>1. n \in Nat /\ (msg.kind = "call" => n = 1) /\ n' = n /\ Ids' = Ids /\ Ids \subseteq 1 .. n
  BY MessageFacts DEF Inv, TypeOK, n, Ids
<1>2. sent = <<>>
  BY DEF Respond, Inv, SentInv
<1>3. /\ DOMAIN given' = DOMAIN given \cup {i}
      /\ \A j \in DOMAIN given' : given'[j] = IF j = i THEN v ELSE given[j]
  BY DEF Respond, With
<1>4. Null \notin Answer
  BY ConstantsOK DEF ConstantsOK
<1>5. CASE msg.kind = "call"
  <2>1. Values'
    BY <1>5 DEF Values
  <2>2. n = 1 /\ i = 1
    BY <1>1, <1>5
  <2>3. sent' = IF 1 \in Ids THEN <<<<[id |-> 1, answer |-> v]>>>> ELSE <<>>
    BY <1>2, <1>4, <1>5, <2>2 DEF Respond
  <2> SUFFICES ASSUME 1 \in Ids PROVE Matches(sent[1])'
      BY <2>1, <2>3 DEF SentMatches
  <2>4. PICK e : e = [id |-> 1, answer |-> v]
    OBVIOUS
  <2>5. PICK r : r = <<e>>
    OBVIOUS
  <2>6. sent'[1] = r
    BY <2>3, <2>4, <2>5
  <2>7. e.id = 1 /\ e.answer = v /\ Len(r) = 1 /\ r[1] = e
    BY <2>4, <2>5
  <2>8. Ids = {1} /\ 1 \in DOMAIN given' /\ given'[1] = v
    <3>1. \A j \in Ids : j \in 1 .. n
      BY <1>1
    <3>2. \A j \in 1 .. n : j = 1
      BY <2>2
    <3>3. 1 \in DOMAIN given' /\ given'[1] = v
      BY <1>3, <2>2
    <3> QED BY <3>1, <3>2, <3>3
  <2>9. \A j \in 1 .. Len(r) : j = 1
    BY <2>7
  <2>10. {r[j].id : j \in 1 .. Len(r)} = {1}
    BY <2>7, <2>9
  <2>11. \A j \in 1 .. Len(r) : r[j].id \in DOMAIN given' /\ r[j].answer = given'[r[j].id]
    BY <2>7, <2>8, <2>9
  <2>12. \A j \in 1 .. Len(r) - 1 : r[j].id < r[j + 1].id
    BY <2>7
  <2>13. Matches(r)'
    BY <1>1, <2>8, <2>10, <2>11, <2>12 DEF Matches
  <2> QED BY <2>6, <2>13 DEF Matches
<1>6. CASE msg.kind = "batch"
  <2> DEFINE value == IF i \in Ids THEN v ELSE Null
  <2>1. PICK rm : rm = With(result_map, i, value)
    OBVIOUS
  <2>2. result_map' = rm /\ sent' = IF Complete(rm) THEN Append(sent, Results(rm)) ELSE sent
    BY <1>6, <2>1 DEF Respond, Index
  <2>3. /\ DOMAIN rm = DOMAIN result_map \cup {i}
        /\ \A j \in DOMAIN rm : rm[j] = IF j = i THEN value ELSE result_map[j]
    BY <2>1 DEF With
  <2>4. DOMAIN result_map = DOMAIN given
    BY <1>6 DEF Inv, MapInv
  <2>5. ASSUME NEW j \in DOMAIN rm PROVE rm[j] = IF j \in Ids THEN given'[j] ELSE Null
    BY <1>3, <1>6, <2>3, <2>4, <2>5 DEF Values
  <2>6. Values'
    BY <1>1, <2>2, <2>5 DEF Values
  <2>7. ASSUME Complete(rm) PROVE Matches(sent[1])'
    <3>1. DOMAIN rm = 1 .. n
      <4>1. DOMAIN rm \subseteq 1 .. n
        BY <2>3 DEF Inv, TypeOK
      <4> QED BY <1>1, <2>7, <4>1, FullMap DEF Complete
    <3>2. PICK r : r = Results(rm)
      OBVIOUS
    <3>3. sent'[1] = r
      BY <1>2, <2>2, <2>7, <3>2
    <3>4. Lists(r, rm, n)
      BY <1>1, <3>2, ResultsList
    <3>5. Ids \cap DOMAIN rm = Ids /\ \A j \in Ids : j <= n
      <4>1. \A j \in Ids : j \in 1 .. n
        BY <1>1
      <4>2. \A j \in Ids : j \in DOMAIN rm
        BY <3>1, <4>1
      <4>3. \A j \in 1 .. n : j <= n
        BY <1>1
      <4> QED BY <4>1, <4>2, <4>3
    <3>6. {r[j].id : j \in 1 .. Len(r)} = Ids
      BY <3>4, <3>5 DEF Lists
    <3>7. DOMAIN given' = DOMAIN rm
      BY <1>3, <2>3, <2>4
    <3>8. \A j \in 1 .. Len(r) : r[j].id \in DOMAIN given' /\ r[j].answer = given'[r[j].id]
      BY <2>5, <3>4, <3>5, <3>7 DEF Lists
    <3>9. Matches(r)'
      BY <1>1, <3>4, <3>6, <3>8 DEF Lists, Matches
    <3> QED BY <3>3, <3>9 DEF Matches
  <2>8. SentMatches'
    BY <1>2, <2>2, <2>7 DEF SentMatches
  <2> QED BY <2>6, <2>8
<1> QED BY <1>5, <1>6 DEF Respond

LEMMA NextMatches ==
    ASSUME Inv, Values, SentMatches, [Next]_vars
    PROVE  Values' /\ SentMatches'
<1>1. /\ n \in Nat /\ (msg.kind \notin {"call", "batch"} => n = 0)
  BY MessageFacts DEF Inv, TypeOK
<1>2. msg' = msg
  BY DEF vars, Next, Register, HandleMessage, Reject, Contexts, Terminates,
         CallUnknown, CallFunction, Returns, AnswerLater
<1>3. CASE UNCHANGED <<given, result_map, sent>>
  <2>1. Ids' = Ids
    BY <1>2 DEF Ids, n
  <2>2. Values'
    BY <1>2, <1>3, <2>1 DEF Values
  <2>3. SentMatches'
    BY <1>2, <1>3, <2>1 DEF SentMatches, Matches
  <2> QED BY <2>2, <2>3
<1>4. CASE Reject
  BY <1>2, <1>4 DEF Reject, Values, SentMatches, Ids, n
<1>5. ASSUME NEW i \in 1 .. n, i \notin DOMAIN given, NEW v \in Answer, Respond(i, v)
      PROVE  Values' /\ SentMatches'
  BY <1>2, <1>5, RespondMatches
<1>6. CASE CallUnknown
  <2>1. next \in 1 .. n /\ next \notin DOMAIN given /\ NotFound \in Answer /\ Respond(next, NotFound)
    BY <1>1, <1>6 DEF CallUnknown, Inv, TypeOK, Answer
  <2> QED BY <1>5, <2>1
<1>7. CASE CallFunction
  <2>1. next \in 1 .. n /\ next \notin DOMAIN given
    BY <1>1, <1>7 DEF CallFunction, Inv, TypeOK
  <2>2. (\E v \in Answer : Respond(next, v)) \/ UNCHANGED <<given, result_map, sent>>
    BY <1>7 DEF CallFunction, NoAnswer, Answer
  <2> QED BY <1>3, <1>5, <2>1, <2>2
<1>8. ASSUME NEW i \in held, AnswerLater(i) PROVE Values' /\ SentMatches'
  <2>1. i \in 1 .. n /\ i \notin DOMAIN given
    BY <1>1 DEF Inv, TypeOK
  <2>2. \E v \in Answer : Respond(i, v)
    BY <1>8 DEF AnswerLater, Answer
  <2> QED BY <1>5, <2>1, <2>2
<1> QED BY <1>3, <1>4, <1>6, <1>7, <1>8 DEF Next, HandleMessage, Register, Contexts, Terminates,
           Returns, NoAnswer, vars

(* A response has the answers to exactly the requests with an id, each the *)
(* one its function gave, in the order of the batch: handle_result keeps   *)
(* the answers by position, and puts the array together when it has all.   *)
THEOREM RespondsInOrder == Spec => []ResponseMatches
  <1>1. Init => Values /\ SentMatches
    BY DEF Init, Values, SentMatches
  <1>2. Inv /\ Values /\ SentMatches /\ [Next]_vars => Values' /\ SentMatches'
    BY NextMatches
  <1>3. ASSUME Inv, SentMatches PROVE ResponseMatches
    <2>1. SUFFICES ASSUME NEW k \in 1 .. Len(sent), msg.kind \in {"call", "batch"}
                   PROVE  Matches(sent[k])
      BY DEF ResponseMatches, Matches
    <2>2. sent # <<>> /\ k = 1
      <3>1. Len(<<>>) = 0 /\ Len(<<sent[1]>>) = 1
        OBVIOUS
      <3>2. sent = <<>> \/ sent = <<sent[1]>>
        BY <1>3 DEF Inv, SentInv
      <3>3. CASE sent = <<>>
        BY <3>3
      <3>4. CASE sent = <<sent[1]>>
        <4>1. Len(sent) = 1
          BY <3>1, <3>4, Zenon
        <4>2. k = 1
          BY <4>1
        <4>3. Len(sent) # Len(<<>>)
          BY <3>1, <4>1
        <4> QED BY <4>2, <4>3
      <3> QED BY <3>2, <3>3, <3>4
    <2> QED BY <1>3, <2>1, <2>2 DEF SentMatches
  <1> QED BY <1>1, <1>2, <1>3, Invariance, PTL DEF Spec

=============================================================================
