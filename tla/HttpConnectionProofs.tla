------------------------ MODULE HttpConnectionProofs ------------------------
(***************************************************************************)
(* Theorems about HttpConnection, for any application, any threads and any *)
(* length of the request and of the response.                              *)
(***************************************************************************)
EXTENDS HttpConnection, Integers, FiniteSetTheorems, TLAPS

AnyOp == ReadOp \cup WriteOp

Frame == {User} \cup {Locking(o) : o \in AnyOp} \cup {GoingOn(o) : o \in AnyOp}

ValuesOK ==
    /\ program \in Programs
    /\ m_read_lck \in BOOLEAN /\ m_write_lck \in BOOLEAN
    /\ m_read_done \in BOOLEAN /\ m_headers_sent \in BOOLEAN /\ m_finished \in BOOLEAN
    /\ head \in BOOLEAN
    /\ reads \in Seq(ReadOp) /\ writes \in Seq(WriteOp)
    /\ wire \in Seq(BOOLEAN)
    /\ finishes \in Nat /\ calls \in Nat /\ callbacks \in Nat
    /\ started \in BOOLEAN

TypeOK == ValuesOK /\ stack \in [Thread -> Seq(Frame)]

-----------------------------------------------------------------------------
(* Stacks: a thread waits for a mutex in its innermost call only.          *)

NoneWaits(s) == \A i \in 1 .. Len(s) : s[i].at # "lock"
LastWaits(s) == s # <<>> /\ s[Len(s)].at = "lock"
OnlyLastWaits(s) == \A i \in 1 .. Len(s) - 1 : s[i].at # "lock"

StackInv == \A t \in Thread : OnlyLastWaits(stack[t])

(* Nothing happens before the handler has been given the request. *)
FreshInv ==
    ~started => reads = <<>> /\ writes = <<>> /\ \A t \in Thread : stack[t] = <<>>

WaitingThreads == {t \in Thread : IsWaiting(t)}
CountInv == IsFiniteSet(WaitingThreads) /\ NoCallForgotten

Inv == TypeOK /\ StackInv /\ FreshInv /\ CountInv

LEMMA Popped ==
    ASSUME NEW s \in Seq(Frame), s # <<>>, OnlyLastWaits(s)
    PROVE  /\ SubSeq(s, 1, Len(s) - 1) \in Seq(Frame)
           /\ NoneWaits(SubSeq(s, 1, Len(s) - 1))
BY DEF NoneWaits, OnlyLastWaits

LEMMA Pushed ==
    ASSUME NEW s \in Seq(Frame), NoneWaits(s), NEW f \in Frame
    PROVE  /\ Append(s, f) \in Seq(Frame)
           /\ OnlyLastWaits(Append(s, f))
           /\ Append(s, f) # <<>>
           /\ Append(s, f)[Len(Append(s, f))] = f
           /\ f.at # "lock" => NoneWaits(Append(s, f))
BY DEF NoneWaits, OnlyLastWaits

LEMMA Concats ==
    ASSUME NEW s \in Seq(Frame), NEW f \in Frame, NEW g \in Frame
    PROVE  /\ s \o <<>> = s
           /\ s \o <<f>> = Append(s, f)
           /\ s \o <<f, g>> = Append(Append(s, f), g)
           /\ s \o (<<f>> \o <<>>) = Append(s, f)
           /\ s \o (<<f>> \o <<g>>) = Append(Append(s, f), g)
OBVIOUS

(* The count follows the change of one stack. *)
LEMMA OneStackChanges ==
    ASSUME TypeOK, StackInv, IsFiniteSet(WaitingThreads),
           NEW t \in Thread, NEW s \in Seq(Frame), OnlyLastWaits(s),
           stack' = [stack EXCEPT ![t] = s],
           NEW m \in {0, 1}, NEW n \in {0, 1},
           m = 1 <=> LastWaits(stack[t]), n = 1 <=> LastWaits(s)
    PROVE  /\ stack' \in [Thread -> Seq(Frame)]
           /\ StackInv'
           /\ IsFiniteSet(WaitingThreads')
           /\ Waiting \in Nat /\ Waiting' \in Nat
           /\ Waiting' = Waiting + (n - m)
<1>1. /\ stack' \in [Thread -> Seq(Frame)]
      /\ stack'[t] = s /\ \A u \in Thread \ {t} : stack'[u] = stack[u]
  BY DEF TypeOK
<1>2. StackInv'
  BY <1>1 DEF StackInv
<1>3. \A u \in Thread : IsWaiting(u) <=> LastWaits(stack[u])
  BY DEF IsWaiting, LastWaits, Busy, Top
<1>4. \A u \in Thread : IsWaiting(u)' <=> LastWaits(stack'[u])
  BY DEF IsWaiting, LastWaits, Busy, Top
<1>5. /\ Waiting = Cardinality(WaitingThreads) /\ Waiting' = Cardinality(WaitingThreads')
      /\ Waiting \in Nat
  BY FS_CardinalityType DEF Waiting, WaitingThreads
<1>6. t \in WaitingThreads <=> LastWaits(stack[t])
  BY <1>3 DEF WaitingThreads
<1>7. CASE LastWaits(s)
  <2>1. WaitingThreads' = WaitingThreads \cup {t}
    BY <1>1, <1>3, <1>4, <1>7 DEF WaitingThreads
  <2>2. /\ IsFiniteSet(WaitingThreads')
        /\ Cardinality(WaitingThreads') =
              IF t \in WaitingThreads THEN Cardinality(WaitingThreads)
              ELSE Cardinality(WaitingThreads) + 1
    BY <2>1, FS_AddElement
  <2> QED BY <1>1, <1>2, <1>5, <1>6, <1>7, <2>2
<1>8. CASE ~LastWaits(s)
  <2>1. WaitingThreads' = WaitingThreads \ {t}
    BY <1>1, <1>3, <1>4, <1>8 DEF WaitingThreads
  <2>2. /\ IsFiniteSet(WaitingThreads')
        /\ Cardinality(WaitingThreads') =
              IF t \in WaitingThreads THEN Cardinality(WaitingThreads) - 1
              ELSE Cardinality(WaitingThreads)
    BY <2>1, FS_RemoveElement
  <2>3. Cardinality(WaitingThreads') \in Nat
    BY <2>2, FS_CardinalityType
  <2> QED BY <1>1, <1>2, <1>5, <1>6, <1>8, <2>2, <2>3
<1> QED BY <1>7, <1>8

LEMMA InitInv == Init => Inv
<1> SUFFICES ASSUME Init PROVE Inv
    OBVIOUS
<1>1. TypeOK
  <2>1. /\ m_read_lck \in BOOLEAN /\ m_write_lck \in BOOLEAN
        /\ m_read_done \in BOOLEAN /\ m_headers_sent \in BOOLEAN /\ m_finished \in BOOLEAN
        /\ head \in BOOLEAN /\ started \in BOOLEAN
    BY DEF Init
  <2>2. ValuesOK
    BY <2>1 DEF Init, ValuesOK
  <2> QED BY <2>2 DEF Init, TypeOK
<1>2. StackInv /\ FreshInv
  BY DEF Init, StackInv, FreshInv, OnlyLastWaits
<1>3. WaitingThreads = {}
  BY DEF Init, WaitingThreads, IsWaiting, Busy
<1>4. IsFiniteSet(WaitingThreads) /\ Waiting = 0
  BY <1>3, FS_EmptySet DEF Waiting, WaitingThreads
<1>5. NoCallForgotten
  BY <1>4 DEF Init, NoCallForgotten, Outstanding
<1> QED BY <1>1, <1>2, <1>4, <1>5 DEF Inv, CountInv

(* Each call is counted once. *)
Matched == calls = callbacks + Outstanding

(* Thread t is left with s; c calls are made, b callbacks, r reads and w   *)
(* writes are started, and x things are counted that nobody called.        *)
Tally(t, s, c, b, r, w, x) ==
    /\ {c, b, x} \subseteq Nat /\ {r, w} \subseteq Int
    /\ calls' = calls + c /\ callbacks' = callbacks + b
    /\ Len(reads') = Len(reads) + r /\ Len(writes') = Len(writes) + w
    /\ \E m, n \in {0, 1} :
          /\ m = 1 <=> LastWaits(stack[t])
          /\ n = 1 <=> LastWaits(s)
          /\ c + m + x = b + r + w + n

LEMMA StackStep ==
    ASSUME Inv, ValuesOK', started',
           NEW t \in Thread, NEW s \in Seq(Frame), OnlyLastWaits(s),
           stack' = [stack EXCEPT ![t] = s],
           NEW c, NEW b, NEW r, NEW w, NEW x, Tally(t, s, c, b, r, w, x)
    PROVE  Inv' /\ (Matched /\ x = 0 => Matched')
<1>0. PICK m \in {0, 1}, n \in {0, 1} :
         /\ m = 1 <=> LastWaits(stack[t])
         /\ n = 1 <=> LastWaits(s)
         /\ c + m + x = b + r + w + n
  BY DEF Tally
<1>10. c \in Nat /\ b \in Nat /\ x \in Nat /\ r \in Int /\ w \in Int
  BY DEF Tally
<1>9. /\ calls' = calls + c /\ callbacks' = callbacks + b
      /\ Len(reads') = Len(reads) + r /\ Len(writes') = Len(writes) + w
  BY DEF Tally
<1>1. TypeOK /\ StackInv /\ IsFiniteSet(WaitingThreads) /\ NoCallForgotten
  BY DEF Inv, CountInv
<1>2. /\ stack' \in [Thread -> Seq(Frame)]
      /\ StackInv'
      /\ IsFiniteSet(WaitingThreads')
      /\ Waiting \in Nat
      /\ Waiting' = Waiting + (n - m)
  BY <1>0, <1>1, OneStackChanges
<1>3. calls \in Nat /\ callbacks \in Nat /\ Len(reads) \in Nat /\ Len(writes) \in Nat
  BY <1>1 DEF TypeOK, ValuesOK
<1>4. calls <= callbacks + (Len(reads) + Len(writes) + Waiting)
  BY <1>1 DEF NoCallForgotten, Outstanding
<1>5. calls + c <= (callbacks + b)
                     + ((Len(reads) + r) + (Len(writes) + w) + (Waiting + (n - m)))
  BY <1>0, <1>10, <1>2, <1>3, <1>4
<1>6. NoCallForgotten'
  BY <1>2, <1>5, <1>9 DEF NoCallForgotten, Outstanding
<1>7. Inv'
  BY <1>2, <1>6 DEF Inv, TypeOK, FreshInv, CountInv
<1>8. ASSUME Matched, x = 0 PROVE Matched'
  <2>1. calls = callbacks + (Len(reads) + Len(writes) + Waiting)
    BY <1>8 DEF Matched, Outstanding
  <2>2. calls + c = (callbacks + b)
                      + ((Len(reads) + r) + (Len(writes) + w) + (Waiting + (n - m)))
    BY <1>0, <1>10, <1>2, <1>3, <1>8, <2>1
  <2> QED BY <1>2, <1>9, <2>2 DEF Matched, Outstanding
<1> QED BY <1>7, <1>8

(* A step that changes no stack. *)
LEMMA PlainStep ==
    ASSUME Inv, ValuesOK', UNCHANGED <<started, stack, reads, writes, calls, callbacks>>
    PROVE  Inv' /\ (Matched => Matched')
<1>1. IsFiniteSet(WaitingThreads)' /\ Waiting' = Waiting
  BY DEF Inv, CountInv, WaitingThreads, Waiting, IsWaiting, Busy, Top
<1> QED BY <1>1 DEF Inv, TypeOK, StackInv, FreshInv, CountInv, NoCallForgotten, Outstanding, Matched

(* What a thread that is inside something knows. *)
LEMMA BusyThread ==
    ASSUME Inv, NEW t \in Thread, NEW f \in Frame, At(t, f)
    PROVE  /\ started
           /\ stack[t] \in Seq(Frame) /\ stack[t] # <<>>
           /\ LastWaits(stack[t]) <=> f.at = "lock"
           /\ Below(t) \in Seq(Frame) /\ NoneWaits(Below(t))
           /\ f.at # "lock" => NoneWaits(stack[t])
<1>1. stack[t] \in Seq(Frame) /\ stack[t] # <<>> /\ OnlyLastWaits(stack[t])
  BY DEF Inv, TypeOK, StackInv, At, Busy
<1>2. started
  BY <1>1 DEF Inv, FreshInv, TypeOK, ValuesOK
<1>3. LastWaits(stack[t]) <=> f.at = "lock"
  BY <1>1 DEF LastWaits, At, Top
<1>4. f.at # "lock" => NoneWaits(stack[t])
  BY <1>1, <1>3 DEF NoneWaits, OnlyLastWaits, LastWaits
<1> QED BY <1>1, <1>2, <1>3, <1>4, Popped DEF Below
LEMMA Frames ==
    /\ User \in Frame /\ User.at # "lock"
    /\ \A o \in AnyOp : /\ Locking(o) \in Frame /\ Locking(o).at = "lock"
                        /\ GoingOn(o) \in Frame /\ GoingOn(o).at # "lock"
BY DEF Frame, User, Locking, GoingOn

LEMMA Operations ==
    /\ ReadOp \subseteq AnyOp /\ WriteOp \subseteq AnyOp /\ Op \subseteq AnyOp
    /\ SendOp \subseteq WriteOp /\ "abort" \in WriteOp /\ ReadOp \cap WriteOp = {}
BY DEF AnyOp, ReadOp, WriteOp, Op, SendOp, EndOp

(* One thing on a stack that was empty. *)
LEMMA Alone ==
    ASSUME NEW f \in Frame
    PROVE  /\ <<f>> \in Seq(Frame) /\ OnlyLastWaits(<<f>>)
           /\ LastWaits(<<f>>) <=> f.at = "lock"
           /\ <<>> \in Seq(Frame) /\ OnlyLastWaits(<<>>) /\ ~LastWaits(<<>>)
BY DEF OnlyLastWaits, LastWaits

LEMMA Quiet ==
    ASSUME NEW s \in Seq(Frame), NoneWaits(s)
    PROVE  OnlyLastWaits(s) /\ ~LastWaits(s)
BY DEF NoneWaits, OnlyLastWaits, LastWaits

(* The completions run on the worker's empty stack. *)
LEMMA IdleWorker ==
    ASSUME Inv, ~Busy(Worker)
    PROVE  Worker \in Thread /\ stack[Worker] = <<>> /\ ~LastWaits(stack[Worker])
BY DEF Busy, LastWaits, Thread

(* User code that calls, returns, throws or is started. *)
Counts(s, c, b) ==
    /\ {c, b} \subseteq {0, 1}
    /\ calls' = calls + c /\ callbacks' = callbacks + b
    /\ IF c = 0 THEN b = 0 /\ ~LastWaits(s) ELSE b = 0 <=> LastWaits(s)

LEMMA UserStep ==
    ASSUME Inv, NEW t \in Thread, UserCode(t), ValuesOK', UNCHANGED <<started, reads, writes>>,
           NEW s \in Seq(Frame), OnlyLastWaits(s), stack' = [stack EXCEPT ![t] = s],
           NEW c, NEW b, Counts(s, c, b)
    PROVE  Inv' /\ (Matched => Matched')
<1>1. started' /\ ~LastWaits(stack[t])
  BY BusyThread, Frames DEF UserCode
<1>2. /\ Len(reads) \in Nat /\ Len(writes) \in Nat
      /\ Len(reads') = Len(reads) + 0 /\ Len(writes') = Len(writes) + 0
  BY DEF Inv, TypeOK, ValuesOK
<1>3. PICK m \in {0, 1}, n \in {0, 1} :
         m = 0 /\ (m = 1 <=> LastWaits(stack[t])) /\ (n = 1 <=> LastWaits(s))
  BY <1>1
<1>4. Tally(t, s, c, b, 0, 0, 0)
  BY <1>2, <1>3 DEF Tally, Counts
<1> QED BY <1>1, <1>4, StackStep

LEMMA UserInv ==
    ASSUME Inv, NEW t \in Thread,
           (\E o \in Op : Call(t, o)) \/ EmptyStream(t) \/ SetStatus(t) \/ Return(t) \/ Throw(t)
    PROVE  Inv' /\ (Matched => Matched')
<1>1. UserCode(t) /\ TypeOK /\ ValuesOK
  BY DEF Call, EmptyStream, SetStatus, Return, Throw, Inv, TypeOK
<1>2. /\ stack[t] \in Seq(Frame) /\ NoneWaits(stack[t])
      /\ Below(t) \in Seq(Frame) /\ NoneWaits(Below(t))
  BY <1>1, BusyThread, Frames DEF UserCode
<1>3. calls \in Nat /\ callbacks \in Nat
  BY <1>1 DEF ValuesOK
<1>4. ASSUME NEW o \in Op, Call(t, o) PROVE Inv' /\ (Matched => Matched')
  <2>1. ValuesOK'
    BY <1>1, <1>4 DEF ValuesOK, Call, locks, resp, request
  <2>2. o \in AnyOp
    BY Operations
  <2>3. /\ Append(stack[t], Locking(o)) \in Seq(Frame)
        /\ OnlyLastWaits(Append(stack[t], Locking(o)))
        /\ LastWaits(Append(stack[t], Locking(o)))
    BY <1>2, <2>2, Pushed, Frames DEF LastWaits
  <2>4. calls' = calls + 1 /\ callbacks' = callbacks + 0 /\ UNCHANGED <<started, reads, writes>>
        /\ stack' = [stack EXCEPT ![t] = Append(stack[t], Locking(o))]
    BY <1>3, <1>4 DEF Call, resp, request
  <2>5. Counts(Append(stack[t], Locking(o)), 1, 0)
    BY <2>3, <2>4 DEF Counts
  <2> QED BY <1>1, <2>1, <2>3, <2>4, <2>5, UserStep
<1>5. CASE EmptyStream(t)
  <2>1. ValuesOK'
    BY <1>1, <1>5 DEF ValuesOK, EmptyStream, locks, resp, request
  <2>2. /\ Append(stack[t], User) \in Seq(Frame)
        /\ OnlyLastWaits(Append(stack[t], User))
        /\ ~LastWaits(Append(stack[t], User))
    BY <1>2, Pushed, Frames DEF LastWaits
  <2>3. calls' = calls + 1 /\ callbacks' = callbacks + 1 /\ UNCHANGED <<started, reads, writes>>
        /\ stack' = [stack EXCEPT ![t] = Append(stack[t], User)]
    BY <1>5 DEF EmptyStream, resp, request
  <2>4. Counts(Append(stack[t], User), 1, 1)
    BY <2>2, <2>3 DEF Counts
  <2> QED BY <1>1, <2>1, <2>2, <2>3, <2>4, UserStep
<1>6. CASE SetStatus(t)
  <2>1. ValuesOK'
    BY <1>1, <1>6 DEF ValuesOK, SetStatus, locks, request
  <2> QED BY <1>6, <2>1, PlainStep DEF SetStatus, request
<1>7. CASE Replace(t, <<>>) /\ UNCHANGED <<started, reads, writes, calls, callbacks>> /\ ValuesOK'
  <2>1. stack' = [stack EXCEPT ![t] = Below(t)]
    BY <1>2, <1>7, Concats, Frames DEF Replace
  <2>2. OnlyLastWaits(Below(t)) /\ ~LastWaits(Below(t))
    BY <1>2, Quiet
  <2>3. calls' = calls + 0 /\ callbacks' = callbacks + 0
    BY <1>3, <1>7
  <2>4. Counts(Below(t), 0, 0)
    BY <2>2, <2>3 DEF Counts
  <2> QED BY <1>1, <1>2, <1>7, <2>1, <2>2, <2>4, UserStep
<1>8. CASE Return(t)
  <2>1. ValuesOK'
    BY <1>1, <1>8 DEF ValuesOK, Return, locks, resp, request
  <2> QED BY <1>7, <1>8, <2>1 DEF Return, resp, request
<1>9. CASE Throw(t)
  <2>1. ValuesOK'
    BY <1>1, <1>9 DEF ValuesOK, Throw, locks, request
  <2>2. CASE is_finished
    BY <1>7, <1>9, <2>1, <2>2 DEF Throw, request
  <2>3. CASE ~is_finished
    <3>1. /\ calls' = calls + 1 /\ callbacks' = callbacks + 0
          /\ UNCHANGED <<started, reads, writes>>
          /\ Replace(t, <<Locking("abort")>>)
      BY <1>3, <1>9, <2>3 DEF Throw, request
    <3>2. "abort" \in AnyOp /\ Locking("abort") \in Frame
      BY Operations, Frames
    <3>3. stack' = [stack EXCEPT ![t] = Append(Below(t), Locking("abort"))]
      BY <1>2, <3>1, <3>2, Concats DEF Replace
    <3>4. /\ Append(Below(t), Locking("abort")) \in Seq(Frame)
          /\ OnlyLastWaits(Append(Below(t), Locking("abort")))
          /\ LastWaits(Append(Below(t), Locking("abort")))
      BY <1>2, <3>2, Pushed, Frames DEF LastWaits
    <3>5. Counts(Append(Below(t), Locking("abort")), 1, 0)
      BY <3>1, <3>4 DEF Counts
    <3> QED BY <1>1, <2>1, <3>1, <3>3, <3>4, <3>5, UserStep
  <2> QED BY <2>2, <2>3
<1> QED BY <1>4, <1>5, <1>6, <1>8, <1>9

(* A thread inside an operation goes on: what it waits with is answered or *)
(* becomes an operation under way.                                         *)
HandsOn(b, r, w) ==
    /\ {b, r, w} \subseteq {0, 1} /\ b + r + w = 1
    /\ callbacks' = callbacks + b
    /\ Len(reads') = Len(reads) + r /\ Len(writes') = Len(writes) + w

LEMMA InsideStep ==
    ASSUME Inv, NEW t \in Thread, NEW f \in Frame, At(t, f), ValuesOK',
           UNCHANGED <<started, calls>>,
           NEW s \in Seq(Frame), OnlyLastWaits(s), stack' = [stack EXCEPT ![t] = s],
           ~LastWaits(s), NEW b, NEW r, NEW w, HandsOn(b, r, w)
    PROVE  Inv' /\ (Matched /\ f.at = "lock" => Matched')
<1>1. started'
  BY BusyThread
<1>2. calls' = calls + 0
  BY DEF Inv, TypeOK, ValuesOK
<1>3. PICK m \in {0, 1}, n \in {0, 1} :
         n = 0 /\ (m = 1 <=> LastWaits(stack[t])) /\ (n = 1 <=> LastWaits(s))
  <2>1. PICK m \in {0, 1} : m = 1 <=> LastWaits(stack[t])
    OBVIOUS
  <2>2. PICK n \in {0, 1} : n = 1 <=> LastWaits(s)
    OBVIOUS
  <2> QED BY <2>1, <2>2
<1>4. PICK x \in {0, 1} : 0 + m + x = b + r + w + n /\ (f.at = "lock" => x = 0)
  BY <1>3, BusyThread DEF HandsOn
<1>5. /\ {0, b, x} \subseteq Nat /\ {r, w} \subseteq Int /\ callbacks' = callbacks + b
      /\ Len(reads') = Len(reads) + r /\ Len(writes') = Len(writes) + w
  BY DEF HandsOn
<1>6. Tally(t, s, 0, b, r, w, x)
  BY <1>2, <1>3, <1>4, <1>5 DEF Tally
<1> QED BY <1>1, <1>4, <1>6, StackStep

LEMMA StartReadOK ==
    ASSUME ValuesOK, NEW o \in ReadOp, StartRead(o)
    PROVE  reads' \in Seq(ReadOp) /\ Len(reads') = Len(reads) + 1
BY DEF ValuesOK, StartRead

LEMMA StartWriteOK ==
    ASSUME ValuesOK, NEW o \in WriteOp, StartWrite(o)
    PROVE  /\ writes' \in Seq(WriteOp) /\ Len(writes') = Len(writes) + 1
           /\ head' \in BOOLEAN /\ wire' \in Seq(BOOLEAN)
           /\ finishes' \in Nat /\ m_finished' \in BOOLEAN
<1>1. writes \in Seq(WriteOp) /\ wire \in Seq(BOOLEAN) /\ finishes \in Nat
  BY DEF ValuesOK
<1>2. writes' \in Seq(WriteOp) /\ Len(writes') = Len(writes) + 1
  BY <1>1 DEF StartWrite
<1>3. Carries(o) \in BOOLEAN
  BY DEF Carries
<1>4. head' \in BOOLEAN /\ wire' \in Seq(BOOLEAN)
  <2>1. head' = Carries(o) /\ wire' \in {wire, Append(wire, Carries(o))}
    BY DEF StartWrite
  <2> QED BY <1>1, <1>3, <2>1
<1>5. finishes' \in Nat /\ m_finished' \in BOOLEAN
  <2>1. CASE UNCHANGED <<finishes, m_finished>>
    BY <1>1, <2>1 DEF ValuesOK
  <2>2. CASE finishes' = finishes + 1 /\ m_finished' = TRUE
    BY <1>1, <2>2
  <2> QED BY <2>1, <2>2 DEF StartWrite
<1> QED BY <1>2, <1>4, <1>5

(* What FallThrough leaves on a stack. *)
LEMMA FallThroughOK ==
    ASSUME Inv, NEW t \in Thread, NEW o \in AnyOp, At(t, Locking(o)), FallThrough(t, o)
    PROVE  \E s \in Seq(Frame) :
              OnlyLastWaits(s) /\ ~LastWaits(s) /\ stack' = [stack EXCEPT ![t] = s]
<1>1. Below(t) \in Seq(Frame) /\ NoneWaits(Below(t))
  BY BusyThread, Frames
<1>2. /\ Append(Below(t), GoingOn(o)) \in Seq(Frame)
      /\ NoneWaits(Append(Below(t), GoingOn(o))) /\ OnlyLastWaits(Append(Below(t), GoingOn(o)))
  BY <1>1, Pushed, Frames
<1>3. CASE o = "abort"
  <2>1. stack' = [stack EXCEPT ![t] = Append(Below(t), GoingOn(o))]
    BY <1>1, <1>3, Concats, Frames DEF FallThrough, Replace, Callback
  <2> QED BY <1>2, <2>1, Quiet
<1>4. CASE o # "abort"
  <2>1. stack' = [stack EXCEPT ![t] = Append(Append(Below(t), GoingOn(o)), User)]
    BY <1>1, <1>4, Concats, Frames DEF FallThrough, Replace, Callback
  <2>2. /\ Append(Append(Below(t), GoingOn(o)), User) \in Seq(Frame)
        /\ OnlyLastWaits(Append(Append(Below(t), GoingOn(o)), User))
        /\ ~LastWaits(Append(Append(Below(t), GoingOn(o)), User))
    BY <1>2, Pushed, Frames, Quiet
  <2> QED BY <2>1, <2>2
<1> QED BY <1>3, <1>4

LEMMA PoppedOff ==
    ASSUME Inv, NEW t \in Thread, NEW f \in Frame, At(t, f), Replace(t, <<>>)
    PROVE  \E s \in Seq(Frame) :
              OnlyLastWaits(s) /\ ~LastWaits(s) /\ stack' = [stack EXCEPT ![t] = s]
<1>1. Below(t) \in Seq(Frame) /\ OnlyLastWaits(Below(t)) /\ ~LastWaits(Below(t))
  BY BusyThread, Quiet
<1> QED BY <1>1, Concats, Frames DEF Replace

LEMMA OperationInv ==
    ASSUME Inv, NEW t \in Thread, Operation(t)
    PROVE  Inv' /\ (Matched => Matched' \/ \E o \in AnyOp : At(t, GoingOn(o)))
<1>1. TypeOK /\ ValuesOK
  BY DEF Inv, TypeOK
<1>2. calls \in Nat /\ callbacks \in Nat /\ Len(reads) \in Nat /\ Len(writes) \in Nat
  BY <1>1 DEF ValuesOK
<1>3. ASSUME NEW o \in ReadOp, EnterRead(t, o) PROVE Inv' /\ (Matched => Matched')
  <2>1. o \in AnyOp /\ At(t, Locking(o)) /\ Locking(o) \in Frame /\ Locking(o).at = "lock"
    BY <1>3, Operations, Frames DEF EnterRead
  <2>2. UNCHANGED <<started, calls, writes>> /\ Len(writes') = Len(writes) + 0
    BY <1>2, <1>3 DEF EnterRead, request, resp
  <2>3. CASE FallThrough(t, o) /\ UNCHANGED <<m_read_lck, reads>>
    <3>1. callbacks' = callbacks + 1 /\ callbacks' \in Nat /\ Len(reads') = Len(reads) + 0
      BY <1>2, <2>3 DEF FallThrough
    <3>2. ValuesOK'
      BY <1>1, <1>3, <2>3, <3>1 DEF EnterRead, ValuesOK, request, resp
    <3>3. PICK s \in Seq(Frame) :
             OnlyLastWaits(s) /\ ~LastWaits(s) /\ stack' = [stack EXCEPT ![t] = s]
      BY <2>1, <2>3, FallThroughOK
    <3>4. HandsOn(1, 0, 0)
      BY <2>2, <3>1 DEF HandsOn
    <3> QED BY <2>1, <2>2, <3>1, <3>2, <3>3, <3>4, InsideStep
  <2>4. CASE m_read_lck' = TRUE /\ StartRead(o) /\ Replace(t, <<>>) /\ UNCHANGED callbacks
    <3>1. reads' \in Seq(ReadOp) /\ Len(reads') = Len(reads) + 1 /\ callbacks' = callbacks + 0
      BY <1>1, <1>2, <2>4, StartReadOK
    <3>2. ValuesOK'
      BY <1>1, <1>3, <2>4, <3>1 DEF EnterRead, ValuesOK, request, resp
    <3>3. PICK s \in Seq(Frame) :
             OnlyLastWaits(s) /\ ~LastWaits(s) /\ stack' = [stack EXCEPT ![t] = s]
      BY <2>1, <2>4, PoppedOff
    <3>4. HandsOn(0, 1, 0)
      BY <2>2, <3>1 DEF HandsOn
    <3> QED BY <2>1, <2>2, <3>1, <3>2, <3>3, <3>4, InsideStep
  <2> QED BY <1>3, <2>3, <2>4 DEF EnterRead
<1>4. ASSUME NEW o \in WriteOp, EnterWrite(t, o) PROVE Inv' /\ (Matched => Matched')
  <2>1. o \in AnyOp /\ At(t, Locking(o)) /\ Locking(o) \in Frame /\ Locking(o).at = "lock"
    BY <1>4, Operations, Frames DEF EnterWrite
  <2>2. UNCHANGED <<started, calls, reads>> /\ Len(reads') = Len(reads) + 0
    BY <1>2, <1>4 DEF EnterWrite, request
  <2>3. CASE FallThrough(t, o) /\ UNCHANGED <<m_write_lck, resp>>
    <3>1. callbacks' = callbacks + 1 /\ callbacks' \in Nat /\ Len(writes') = Len(writes) + 0
      BY <1>2, <2>3 DEF FallThrough, resp
    <3>2. ValuesOK'
      BY <1>1, <1>4, <2>3, <3>1 DEF EnterWrite, ValuesOK, request, resp
    <3>3. PICK s \in Seq(Frame) :
             OnlyLastWaits(s) /\ ~LastWaits(s) /\ stack' = [stack EXCEPT ![t] = s]
      BY <2>1, <2>3, FallThroughOK
    <3>4. HandsOn(1, 0, 0)
      BY <2>2, <3>1 DEF HandsOn
    <3> QED BY <2>1, <2>2, <3>1, <3>2, <3>3, <3>4, InsideStep
  <2>4. CASE m_write_lck' = TRUE /\ StartWrite(o) /\ Replace(t, <<>>) /\ UNCHANGED callbacks
    <3>1. /\ writes' \in Seq(WriteOp) /\ Len(writes') = Len(writes) + 1
          /\ callbacks' = callbacks + 0
      BY <1>1, <1>2, <2>4, StartWriteOK
    <3>2. ValuesOK'
      BY <1>1, <1>4, <2>4, <3>1, StartWriteOK DEF EnterWrite, ValuesOK, request
    <3>3. PICK s \in Seq(Frame) :
             OnlyLastWaits(s) /\ ~LastWaits(s) /\ stack' = [stack EXCEPT ![t] = s]
      BY <2>1, <2>4, PoppedOff
    <3>4. HandsOn(0, 0, 1)
      BY <2>2, <3>1 DEF HandsOn
    <3> QED BY <2>1, <2>2, <3>1, <3>2, <3>3, <3>4, InsideStep
  <2> QED BY <1>4, <2>3, <2>4 DEF EnterWrite
<1>5. ASSUME NEW o \in ReadOp \cup WriteOp, GoOn(t, o) PROVE Inv' /\ At(t, GoingOn(o)) /\ o \in AnyOp
  <2>1. o \in AnyOp /\ At(t, GoingOn(o)) /\ GoingOn(o) \in Frame
    BY <1>5, Operations, Frames DEF GoOn
  <2>2. /\ UNCHANGED <<started, calls>> /\ callbacks' = callbacks + 0
    BY <1>2, <1>5 DEF GoOn, request
  <2>3. PICK s \in Seq(Frame) :
             OnlyLastWaits(s) /\ ~LastWaits(s) /\ stack' = [stack EXCEPT ![t] = s]
    BY <1>5, <2>1, PoppedOff DEF GoOn
  <2>4. CASE o \in ReadOp
    <3>1. /\ reads' \in Seq(ReadOp) /\ Len(reads') = Len(reads) + 1
          /\ UNCHANGED resp /\ Len(writes') = Len(writes) + 0
      BY <1>1, <1>2, <1>5, <2>4, StartReadOK DEF GoOn, resp
    <3>2. ValuesOK'
      BY <1>1, <1>5, <3>1 DEF GoOn, ValuesOK, request, resp, locks
    <3>4. HandsOn(0, 1, 0)
      BY <2>2, <3>1 DEF HandsOn
    <3> QED BY <2>1, <2>2, <2>3, <3>1, <3>2, <3>4, InsideStep
  <2>5. CASE o \notin ReadOp
    <3>0. o \in WriteOp /\ StartWrite(o) /\ UNCHANGED reads
      BY <1>5, <2>5 DEF GoOn
    <3>1. /\ writes' \in Seq(WriteOp) /\ Len(writes') = Len(writes) + 1
          /\ Len(reads') = Len(reads) + 0
      BY <1>1, <1>2, <3>0, StartWriteOK
    <3>2. ValuesOK'
      BY <1>1, <1>5, <3>0, <3>1, StartWriteOK DEF GoOn, ValuesOK, request, locks
    <3>4. HandsOn(0, 0, 1)
      BY <2>2, <3>1 DEF HandsOn
    <3> QED BY <2>1, <2>2, <2>3, <3>1, <3>2, <3>4, InsideStep
  <2> QED BY <2>1, <2>4, <2>5
<1> QED BY <1>3, <1>4, <1>5 DEF Operation

(* A completion hands what it took on: to the callback, or to the next     *)
(* operation of the same call.                                             *)
LEMMA CompletionStep ==
    ASSUME Inv, ~Busy(Worker), ValuesOK', UNCHANGED calls, started',
           NEW s \in Seq(Frame), OnlyLastWaits(s), stack' = [stack EXCEPT ![Worker] = s],
           \/ Len(reads') = Len(reads) - 1 /\ UNCHANGED writes
           \/ Len(writes') = Len(writes) - 1 /\ UNCHANGED reads,
           \/ callbacks' = callbacks + 1 /\ ~LastWaits(s)
           \/ UNCHANGED callbacks /\ LastWaits(s)
    PROVE  Inv' /\ (Matched => Matched')
<1>1. Worker \in Thread /\ ~LastWaits(stack[Worker])
  BY IdleWorker
<1>2. /\ calls \in Nat /\ callbacks \in Nat /\ Len(reads) \in Nat /\ Len(writes) \in Nat
      /\ calls' = calls + 0
  BY DEF Inv, TypeOK, ValuesOK
<1>3. PICK m \in {0, 1}, n \in {0, 1} :
         m = 0 /\ (m = 1 <=> LastWaits(stack[Worker])) /\ (n = 1 <=> LastWaits(s))
  BY <1>1
<1>4. PICK b \in {0, 1} : callbacks' = callbacks + b /\ (b = 1 <=> ~LastWaits(s))
  BY <1>2
<1>5. PICK r \in {0, -1}, w \in {0, -1} :
         /\ r + w = -1
         /\ Len(reads') = Len(reads) + r /\ Len(writes') = Len(writes) + w
  <2>1. Len(reads') = Len(reads) - 1 /\ UNCHANGED writes
           => Len(reads') = Len(reads) + (-1) /\ Len(writes') = Len(writes) + 0
    BY <1>2
  <2>2. Len(writes') = Len(writes) - 1 /\ UNCHANGED reads
           => Len(reads') = Len(reads) + 0 /\ Len(writes') = Len(writes) + (-1)
    BY <1>2
  <2> QED BY <2>1, <2>2
<1>6. 0 + m + 0 = b + r + w + n
  BY <1>3, <1>4, <1>5
<1>7. Tally(Worker, s, 0, b, r, w, 0)
  BY <1>2, <1>3, <1>4, <1>5, <1>6 DEF Tally
<1> QED BY <1>1, <1>7, StackStep

LEMMA CompletionInv ==
    ASSUME Inv, Completion
    PROVE  Inv' /\ (Matched => Matched')
<1>1. TypeOK /\ ValuesOK /\ calls \in Nat /\ callbacks \in Nat
  BY DEF Inv, TypeOK, ValuesOK
<1>2. started /\ ~Busy(Worker)
  BY <1>1 DEF Completion, ReadCompletes, WriteCompletes, Inv, FreshInv
<1>3. ASSUME NEW o \in AnyOp PROVE /\ <<Locking(o)>> \in Seq(Frame)
                                   /\ OnlyLastWaits(<<Locking(o)>>)
                                   /\ LastWaits(<<Locking(o)>>)
  BY <1>3, Alone, Frames
<1>4. /\ <<User>> \in Seq(Frame) /\ OnlyLastWaits(<<User>>) /\ ~LastWaits(<<User>>)
      /\ <<>> \in Seq(Frame) /\ OnlyLastWaits(<<>>) /\ ~LastWaits(<<>>)
  BY Alone, Frames
<1>5. CASE ReadCompletes
  <2>1. reads \in Seq(ReadOp) /\ reads # <<>> /\ writes \in Seq(WriteOp)
    BY <1>1, <1>5 DEF ReadCompletes, ValuesOK
  <2>2. /\ reads' \in Seq(ReadOp) /\ Len(reads') = Len(reads) - 1 /\ Head(reads) \in ReadOp
        /\ UNCHANGED resp /\ UNCHANGED writes
    BY <1>5, <2>1 DEF ReadCompletes, resp
  <2>3. PICK next : /\ next = AfterRead(Head(reads), body > 0)
                    /\ stack' = [stack EXCEPT ![Worker] = next]
                    /\ callbacks' = IF next = <<User>> THEN callbacks + 1 ELSE callbacks
    BY <1>5 DEF ReadCompletes
  <2>4. ValuesOK'
    <3>1. callbacks' \in Nat
      BY <1>1, <2>3
    <3>2. m_read_done' \in BOOLEAN
      BY <1>5 DEF ReadCompletes, ReadDone
    <3> QED BY <1>1, <1>5, <2>2, <3>1, <3>2 DEF ReadCompletes, ValuesOK, resp, request
  <2>5. UNCHANGED calls /\ started'
    BY <1>2, <1>5 DEF ReadCompletes, request
  <2>6. CASE next = <<User>>
    BY <1>2, <1>4, <2>2, <2>3, <2>4, <2>5, <2>6, CompletionStep
  <2>7. CASE next = <<Locking(Head(reads))>> /\ next # <<User>>
    <3>1. UNCHANGED callbacks
      BY <2>3, <2>7
    <3>2. Head(reads) \in AnyOp
      BY <2>2, Operations
    <3> QED BY <1>2, <1>3, <2>2, <2>3, <2>4, <2>5, <2>7, <3>1, <3>2, CompletionStep
  <2> QED BY <2>3, <2>6, <2>7 DEF AfterRead
<1>6. CASE WriteCompletes
  <2>1. writes \in Seq(WriteOp) /\ writes # <<>> /\ reads \in Seq(ReadOp)
    BY <1>1, <1>6 DEF WriteCompletes, ValuesOK
  <2>2. /\ writes' \in Seq(WriteOp) /\ Len(writes') = Len(writes) - 1 /\ Head(writes) \in WriteOp
        /\ UNCHANGED reads
    BY <1>6, <2>1 DEF WriteCompletes
  <2>3. UNCHANGED calls /\ started'
    BY <1>2, <1>6 DEF WriteCompletes, request
  <2>4. callbacks' \in Nat => ValuesOK'
    BY <1>1, <1>6, <2>2 DEF WriteCompletes, ValuesOK, Unlocked, request
  <2>5. CASE stack' = [stack EXCEPT ![Worker] = <<Locking(Head(writes))>>] /\ UNCHANGED callbacks
    <3>1. Head(writes) \in AnyOp
      BY <2>2, Operations
    <3> QED BY <1>1, <1>2, <1>3, <2>2, <2>3, <2>4, <2>5, <3>1, CompletionStep
  <2>6. CASE stack' = [stack EXCEPT ![Worker] = Callback(Head(writes))] /\ callbacks' = callbacks + 1
    <3>1. Callback(Head(writes)) \in Seq(Frame) /\ OnlyLastWaits(Callback(Head(writes)))
          /\ ~LastWaits(Callback(Head(writes)))
      BY <1>4 DEF Callback
    <3>2. ValuesOK'
      BY <1>1, <2>4, <2>6
    <3> QED BY <1>2, <2>2, <2>3, <2>6, <3>1, <3>2, CompletionStep
  <2> QED BY <1>6, <2>5, <2>6 DEF WriteCompletes
<1> QED BY <1>5, <1>6 DEF Completion

(* The handler is given the request; user code starts another thread. *)
LEMMA BeginInv ==
    ASSUME Inv, NEW t \in Thread, stack[t] = <<>>, started',
           stack' = [stack EXCEPT ![t] = <<User>>],
           UNCHANGED <<program, locks, m_read_done, m_headers_sent, resp, reads, calls, callbacks>>
    PROVE  Inv' /\ (Matched => Matched')
<1>1. TypeOK /\ ValuesOK
  BY DEF Inv, TypeOK
<1>2. ValuesOK'
  <2>1. started' \in BOOLEAN /\ UNCHANGED <<m_read_lck, m_write_lck>>
    BY DEF ValuesOK, locks
  <2> QED BY <1>1, <2>1 DEF ValuesOK, resp
<1>3. <<User>> \in Seq(Frame) /\ OnlyLastWaits(<<User>>) /\ ~LastWaits(<<User>>)
      /\ ~LastWaits(stack[t])
  BY Alone, Frames DEF LastWaits
<1>4. /\ calls' = calls + 0 /\ callbacks' = callbacks + 0
      /\ Len(reads') = Len(reads) + 0 /\ Len(writes') = Len(writes) + 0
  BY <1>1 DEF ValuesOK, resp
<1>5. PICK m \in {0, 1}, n \in {0, 1} :
         /\ m = 0 /\ n = 0
         /\ (m = 1 <=> LastWaits(stack[t])) /\ (n = 1 <=> LastWaits(<<User>>))
  BY <1>3
<1>6. 0 + m + 0 = 0 + 0 + 0 + n
  BY <1>5
<1>7. Tally(t, <<User>>, 0, 0, 0, 0, 0)
  BY <1>4, <1>5, <1>6 DEF Tally
<1> QED BY <1>2, <1>3, <1>7, StackStep

(* Only a call that fell through is counted twice. *)
GoesOn == \E t \in Thread, o \in AnyOp : At(t, GoingOn(o))

LEMMA NextInv == Inv /\ [Next]_vars => Inv' /\ (Matched => Matched' \/ GoesOn)
<1> SUFFICES ASSUME Inv, [Next]_vars PROVE Inv' /\ (Matched => Matched' \/ GoesOn)
    OBVIOUS
<1>1. TypeOK /\ ValuesOK /\ Worker \in Thread
  BY DEF Inv, TypeOK, Thread
<1>2. CASE UNCHANGED vars
  <2>1. ValuesOK'
    BY <1>1, <1>2 DEF vars, request, locks, resp, ValuesOK
  <2> QED BY <1>2, <2>1, PlainStep DEF vars, request, resp
<1>3. CASE Request
  <2>1. stack[Worker] = <<>>
    BY <1>1, <1>3 DEF Request, Inv, FreshInv
  <2> QED BY <1>1, <1>3, <2>1, BeginInv DEF Request
<1>4. CASE ClientLeaves
  <2>1. ValuesOK'
    BY <1>1, <1>4 DEF ClientLeaves, request, locks, resp, ValuesOK
  <2> QED BY <1>4, <2>1, PlainStep DEF ClientLeaves, request, resp
<1>5. ASSUME NEW t \in App, Spawn(t) PROVE Inv' /\ (Matched => Matched')
  <2>1. t \in Thread /\ stack[t] = <<>>
    BY <1>5 DEF Spawn, Busy, Thread
  <2>2. started
    BY <1>1, <1>5, BusyThread, Frames DEF Spawn, UserCode
  <2> QED BY <1>5, <2>1, <2>2, BeginInv DEF Spawn, request
<1> QED BY <1>2, <1>3, <1>4, <1>5, CompletionInv, UserInv, OperationInv DEF Next, GoesOn

THEOREM Invariance == Spec => []Inv
BY InitInv, NextInv, PTL DEF Spec

(* However many threads call, in whatever order, with or without care:     *)
(* each call is under way until there has been a callback for it.          *)
THEOREM NothingForgotten == Spec => []NoCallForgotten
<1>1. Inv => NoCallForgotten
  BY DEF Inv, CountInv
<1> QED BY <1>1, Invariance, PTL

-----------------------------------------------------------------------------
(* Applications that use a connection with care: either only the worker    *)
(* calls, or it reads the body and other threads send, and nobody throws.  *)

WorkerAlone(p) == p.calls \subseteq {Worker} \X Op

SendersBeside(p) ==
    /\ ~p.throws
    /\ p.calls \subseteq ({Worker} \X ReadOp) \cup (App \X {"send"})

Ruled == \A p \in Programs : p.careful => WorkerAlone(p) \/ SendersBeside(p)

Inside(t, o) == At(t, Locking(o)) \/ At(t, GoingOn(o))

(* Only user code is interrupted by anything. *)
BelowInv ==
    \A t \in Thread : \A i \in 1 .. Len(stack[t]) - 1 : stack[t][i] = User

(* Who reads, or waits to, is the worker, while the body has an end still  *)
(* to come.                                                                *)
ReadInv ==
    /\ Len(reads) <= 1
    /\ m_read_lck => reads # <<>>
    /\ reads # <<>> => ~m_read_done
    /\ \A t \in Thread, o \in ReadOp : Inside(t, o) =>
          t = Worker /\ At(t, Locking(o)) /\ ~m_read_done /\ reads = <<>>

(* Who writes, or waits to, does it before the end and after the body; an  *)
(* exception may answer before.                                            *)
WriteInv ==
    /\ Len(writes) <= 1
    /\ m_write_lck => writes # <<>>
    /\ \A t \in Thread, o \in WriteOp : Inside(t, o) =>
          /\ ~m_finished
          /\ o # "abort" => m_read_done /\ At(t, Locking(o))
          /\ o = "abort" => program.throws
    /\ m_finished <=> finishes > 0
    /\ writes # <<>> /\ Head(writes) \in SendOp => ~m_finished /\ m_read_done

HeadInv ==
    /\ wire # <<>> => m_headers_sent \/ writes # <<>>
    /\ \A i \in 1 .. Len(wire) : wire[i] => i = 1 \/ (i = Len(wire) /\ finishes > 0)

(* The worker alone: it is inside one operation, or one is under way. *)
AloneInv ==
    /\ \A t \in App : stack[t] = <<>>
    /\ \A o \in AnyOp : Inside(Worker, o) => reads = <<>> /\ writes = <<>>
    /\ reads # <<>> => writes = <<>>

(* Senders beside it: the mutex lets one of them write. *)
BesideInv ==
    /\ \A t \in Thread, o \in WriteOp : Inside(t, o) => t \in App /\ o = "send"
    /\ writes # <<>> => m_write_lck /\ Head(writes) = "send"
    /\ ~m_finished

CarefulInv ==
    program.careful =>
        /\ BelowInv /\ ReadInv /\ WriteInv /\ HeadInv
        /\ \/ WorkerAlone(program) /\ AloneInv
           \/ ~WorkerAlone(program) /\ SendersBeside(program) /\ BesideInv

(* The calls that stand beside the state, whichever thread a step is of. *)
Aside(t) ==
    \A u \in Thread \ {t} :
        /\ stack'[u] = stack[u]
        /\ \A o \in AnyOp : /\ Inside(u, o)' <=> Inside(u, o)
                            /\ At(u, Locking(o))' <=> At(u, Locking(o))

Users(s) == \A i \in 1 .. Len(s) : s[i] = User

LEMMA Distinct ==
    /\ \A o \in AnyOp : Locking(o) # User /\ GoingOn(o) # User
    /\ \A o, p \in AnyOp : Locking(o) # GoingOn(p)
    /\ \A o, p \in AnyOp : Locking(o) = Locking(p) => o = p
    /\ \A o, p \in AnyOp : GoingOn(o) = GoingOn(p) => o = p
BY DEF Locking, GoingOn, User, AnyOp, ReadOp, WriteOp, SendOp, EndOp

LEMMA StandAside ==
    ASSUME TypeOK, NEW t \in Thread, NEW s, stack' = [stack EXCEPT ![t] = s]
    PROVE  Aside(t) /\ stack'[t] = s
<1>1. stack'[t] = s /\ \A u \in Thread \ {t} : stack'[u] = stack[u]
  BY DEF TypeOK
<1> QED BY <1>1 DEF Aside, Inside, At, Busy, Top

(* The thread is left with user code, or with nothing. *)
LEMMA UsersLeft ==
    ASSUME TypeOK, BelowInv, NEW t \in Thread, NEW s \in Seq(Frame), Users(s),
           stack' = [stack EXCEPT ![t] = s]
    PROVE  Aside(t) /\ BelowInv' /\ \A o \in AnyOp : ~Inside(t, o)'
<1>1. Aside(t) /\ stack'[t] = s
  BY StandAside
<1>2. BelowInv'
  BY <1>1 DEF BelowInv, Users, Aside
<1>3. ASSUME NEW o \in AnyOp PROVE ~Inside(t, o)'
  <2>1. s # <<>> => s[Len(s)] = User
    BY DEF Users
  <2> QED BY <1>1, <2>1, Distinct DEF Inside, At, Busy, Top
<1> QED BY <1>1, <1>2, <1>3

(* The thread is left inside one operation. *)
LEMMA OneLeft ==
    ASSUME TypeOK, BelowInv, NEW t \in Thread, NEW b \in Seq(Frame), Users(b),
           NEW o \in AnyOp, NEW f \in {Locking(o), GoingOn(o)},
           stack' = [stack EXCEPT ![t] = Append(b, f)]
    PROVE  /\ Aside(t) /\ BelowInv'
           /\ At(t, f)'
           /\ \A p \in AnyOp : Inside(t, p)' => p = o
<1>1. Aside(t) /\ stack'[t] = Append(b, f)
  BY StandAside
<1>2. /\ Len(Append(b, f)) = Len(b) + 1 /\ Append(b, f)[Len(b) + 1] = f /\ Append(b, f) # <<>>
      /\ \A i \in 1 .. Len(b) : Append(b, f)[i] = b[i]
  BY Frames
<1>3. BelowInv'
  <2>1. \A i \in 1 .. Len(stack'[t]) - 1 : stack'[t][i] = User
    BY <1>1, <1>2 DEF Users
  <2> QED BY <1>1, <2>1 DEF BelowInv, Aside
<1>4. Busy(t)' /\ Top(t)' = f
  BY <1>1, <1>2 DEF Busy, Top
<1>5. ASSUME NEW p \in AnyOp, Inside(t, p)' PROVE p = o
  BY <1>4, <1>5, Distinct DEF Inside, At
<1> QED BY <1>1, <1>3, <1>4, <1>5 DEF At

LEMMA UsersBelow ==
    ASSUME TypeOK, BelowInv, NEW t \in Thread, Busy(t)
    PROVE  /\ Below(t) \in Seq(Frame) /\ Users(Below(t))
           /\ UserCode(t) => Users(stack[t]) /\ \A o \in AnyOp : ~Inside(t, o)
<1>1. stack[t] \in Seq(Frame) /\ stack[t] # <<>>
  BY DEF TypeOK, Busy
<1>2. Below(t) \in Seq(Frame) /\ Users(Below(t))
  BY <1>1 DEF Below, BelowInv, Users
<1>3. ASSUME UserCode(t) PROVE Users(stack[t])
  BY <1>1, <1>3 DEF UserCode, At, Top, BelowInv, Users
<1>4. ASSUME UserCode(t), NEW o \in AnyOp PROVE ~Inside(t, o)
  BY <1>4, Distinct DEF UserCode, Inside, At
<1> QED BY <1>2, <1>3, <1>4

(* Nothing outstanding is nothing under way. *)
LEMMA NothingOut ==
    ASSUME Inv, Outstanding = 0
    PROVE  reads = <<>> /\ writes = <<>>
<1>1. IsFiniteSet(WaitingThreads) /\ reads \in Seq(ReadOp) /\ writes \in Seq(WriteOp)
  BY DEF Inv, CountInv, TypeOK, ValuesOK
<1>2. Waiting \in Nat
  BY <1>1, FS_CardinalityType DEF Waiting, WaitingThreads
<1>3. Len(reads) = 0 /\ Len(writes) = 0
  BY <1>1, <1>2 DEF Outstanding
<1> QED BY <1>1, <1>3

LEMMA InitCareful ==
    ASSUME Ruled, Init
    PROVE  CarefulInv
<1> SUFFICES ASSUME program.careful PROVE CarefulInv
    BY DEF CarefulInv
<1>1. WorkerAlone(program) \/ SendersBeside(program)
  BY DEF Ruled, Init
<1>2. \A t \in Thread, o \in AnyOp : ~Inside(t, o)
  BY DEF Init, Inside, At, Busy
<1>3. BelowInv /\ HeadInv
  BY DEF Init, BelowInv, HeadInv
<1>4. ReadInv /\ WriteInv
  BY <1>2 DEF Init, ReadInv, WriteInv, AnyOp
<1>5. AloneInv /\ BesideInv
  BY <1>2 DEF Init, AloneInv, BesideInv, AnyOp, Thread
<1> QED BY <1>1, <1>3, <1>4, <1>5 DEF CarefulInv

(* What neither user code nor a call that waits changes. *)
streams == <<program, m_read_lck, m_write_lck, m_read_done, m_headers_sent, wire, writes,
             m_finished, finishes, reads>>

LEMMA StillStep ==
    ASSUME CarefulInv, UNCHANGED streams, UNCHANGED stack
    PROVE  CarefulInv'
<1>1. \A t \in Thread, o \in AnyOp : /\ Inside(t, o)' <=> Inside(t, o)
                                     /\ At(t, Locking(o))' <=> At(t, Locking(o))
  BY DEF Inside, At, Busy, Top
<1>2. program.careful => BelowInv' /\ ReadInv' /\ WriteInv' /\ HeadInv'
  BY <1>1 DEF CarefulInv, streams, BelowInv, ReadInv, WriteInv, HeadInv, AnyOp
<1>3. AloneInv => AloneInv'
  BY <1>1 DEF streams, AloneInv, Thread
<1>4. BesideInv => BesideInv'
  BY <1>1 DEF streams, BesideInv, AnyOp
<1> QED BY <1>2, <1>3, <1>4 DEF CarefulInv, streams

LEMMA QuietStep ==
    ASSUME Inv, CarefulInv, UNCHANGED streams,
           NEW t \in Thread, program.careful => t = Worker \/ ~WorkerAlone(program),
           NEW s \in Seq(Frame), Users(s), stack' = [stack EXCEPT ![t] = s]
    PROVE  CarefulInv'
<1> SUFFICES ASSUME program.careful PROVE CarefulInv'
    BY DEF CarefulInv, streams
<1>1. Aside(t) /\ BelowInv' /\ \A o \in AnyOp : ~Inside(t, o)'
  BY UsersLeft DEF Inv, CarefulInv
<1>2. \A u \in Thread, o \in AnyOp : Inside(u, o)' => Inside(u, o) /\ u # t
  BY <1>1 DEF Aside
<1>3. \A u \in Thread, o \in AnyOp : u # t => (At(u, Locking(o))' <=> At(u, Locking(o)))
  BY <1>1 DEF Aside
<1>4. ReadInv' /\ WriteInv' /\ HeadInv'
  BY <1>2, <1>3 DEF CarefulInv, streams, ReadInv, WriteInv, HeadInv, AnyOp
<1>5. WorkerAlone(program) /\ AloneInv => AloneInv'
  BY <1>1, <1>2, ConstantsOK DEF streams, AloneInv, Thread, Aside
<1>6. BesideInv => BesideInv'
  BY <1>2 DEF streams, BesideInv, AnyOp
<1> QED BY <1>1, <1>4, <1>5, <1>6 DEF CarefulInv, streams

(* Thread t begins call o, or handle_exception its end. *)
MayBegin(t, o) ==
    /\ o \in ReadOp => t = Worker /\ ~m_read_done /\ reads = <<>>
    /\ o \in WriteOp =>
          /\ ~m_finished
          /\ o # "abort" => m_read_done
          /\ o = "abort" => program.throws
    /\ WorkerAlone(program) => t = Worker /\ reads = <<>> /\ writes = <<>>
    /\ ~WorkerAlone(program) /\ o \in WriteOp => t \in App /\ o = "send"

LEMMA BeginStep ==
    ASSUME Inv, CarefulInv, UNCHANGED streams,
           NEW t \in Thread, NEW o \in AnyOp, program.careful => MayBegin(t, o),
           NEW f \in {Locking(o), GoingOn(o)}, o # "abort" => f = Locking(o),
           NEW b \in Seq(Frame), Users(b), stack' = [stack EXCEPT ![t] = Append(b, f)]
    PROVE  CarefulInv'
<1> SUFFICES ASSUME program.careful PROVE CarefulInv'
    BY DEF CarefulInv, streams
<1>1. /\ Aside(t) /\ BelowInv' /\ At(t, f)'
      /\ \A p \in AnyOp : Inside(t, p)' => p = o
  BY OneLeft DEF Inv, CarefulInv
<1>2. \A u \in Thread, p \in AnyOp :
         Inside(u, p)' => \/ u = t /\ p = o /\ (p # "abort" => At(u, Locking(p))')
                          \/ Inside(u, p) /\ (At(u, Locking(p))' <=> At(u, Locking(p)))
  BY <1>1 DEF Aside
<1>3. MayBegin(t, o)
  OBVIOUS
<1>4. ReadInv'
  BY <1>2, <1>3 DEF CarefulInv, streams, ReadInv, AnyOp, ReadOp, MayBegin
<1>5. WriteInv' /\ HeadInv'
  BY <1>2, <1>3 DEF CarefulInv, streams, WriteInv, HeadInv, AnyOp, MayBegin
<1>6. WorkerAlone(program) /\ AloneInv => AloneInv'
  BY <1>1, <1>2, <1>3, ConstantsOK DEF streams, AloneInv, Thread, Aside, MayBegin
<1>7. ~WorkerAlone(program) /\ BesideInv => BesideInv'
  BY <1>2, <1>3 DEF streams, BesideInv, AnyOp, MayBegin
<1> QED BY <1>1, <1>4, <1>5, <1>6, <1>7 DEF CarefulInv, streams

(* Used by the worker alone, the connection is in no other thread. *)
LEMMA WhoActs ==
    ASSUME CarefulInv, program.careful, NEW t \in Thread, Busy(t)
    PROVE  WorkerAlone(program) => t = Worker
BY DEF CarefulInv, AloneInv, Thread, Busy

LEMMA UserCareful ==
    ASSUME Inv, CarefulInv, NEW t \in Thread,
           (\E o \in Op : Call(t, o)) \/ EmptyStream(t) \/ SetStatus(t) \/ Return(t) \/ Throw(t)
    PROVE  CarefulInv'
<1> SUFFICES ASSUME program.careful PROVE CarefulInv'
  BY DEF CarefulInv, Call, EmptyStream, SetStatus, Return, Throw, request
<1>1. UserCode(t) /\ Busy(t)
  BY DEF Call, EmptyStream, SetStatus, Return, Throw, UserCode, At
<1>2. TypeOK /\ BelowInv /\ stack[t] \in Seq(Frame)
  BY DEF Inv, CarefulInv, TypeOK
<1>3. /\ Below(t) \in Seq(Frame) /\ Users(Below(t)) /\ Users(stack[t])
      /\ \A o \in AnyOp : ~Inside(t, o)
  BY <1>1, <1>2, UsersBelow
<1>4. WorkerAlone(program) => t = Worker
  BY <1>1, WhoActs
<1>5. ASSUME NEW o \in Op, Call(t, o) PROVE CarefulInv'
  <2>1. UNCHANGED streams /\ stack' = [stack EXCEPT ![t] = Append(stack[t], Locking(o))]
    BY <1>5 DEF Call, streams, locks, resp, request
  <2>2. /\ <<t, o>> \in program.calls /\ (o \in ReadOp) = ~m_read_done
        /\ t = Worker => Outstanding = 0 /\ ~m_finished
    BY <1>5 DEF Call, Allowed, MayCall
  <2>3. o \in AnyOp /\ o # "abort" /\ (o \in WriteOp <=> o \notin ReadOp)
    BY Operations DEF AnyOp, Op, ReadOp, SendOp, EndOp
  <2>4. t = Worker => reads = <<>> /\ writes = <<>>
    BY <2>2, NothingOut
  <2>5. ~WorkerAlone(program) =>
           SendersBeside(program) /\ ~m_finished /\ ((t = Worker /\ o \in ReadOp) \/ (t \in App /\ o = "send"))
    BY <2>2 DEF CarefulInv, BesideInv, SendersBeside
  <2>6. MayBegin(t, o)
    BY <1>4, <2>2, <2>3, <2>4, <2>5, ConstantsOK DEF MayBegin, ReadOp
  <2> QED BY <1>2, <1>3, <2>1, <2>3, <2>6, BeginStep
<1>6. CASE EmptyStream(t)
  <2>1. UNCHANGED streams /\ stack' = [stack EXCEPT ![t] = Append(stack[t], User)]
    BY <1>6 DEF EmptyStream, streams, locks, resp, request
  <2>2. Append(stack[t], User) \in Seq(Frame) /\ Users(Append(stack[t], User))
    BY <1>2, <1>3, Frames DEF Users
  <2> QED BY <1>4, <2>1, <2>2, QuietStep
<1>7. CASE SetStatus(t)
  BY <1>7, StillStep DEF SetStatus, streams, locks, request
<1>8. CASE UNCHANGED streams /\ Replace(t, <<>>)
  <2>1. stack' = [stack EXCEPT ![t] = Below(t)]
    BY <1>3, <1>8, Concats, Frames DEF Replace
  <2> QED BY <1>3, <1>4, <1>8, <2>1, QuietStep
<1>9. CASE Return(t)
  BY <1>8, <1>9 DEF Return, streams, locks, resp, request
<1>10. CASE Throw(t)
  <2>1. UNCHANGED streams /\ program.throws /\ (Outstanding = 0 \/ m_finished)
    BY <1>10 DEF Throw, streams, locks, request
  <2>2. CASE is_finished
    BY <1>8, <1>10, <2>1, <2>2 DEF Throw
  <2>3. CASE ~is_finished
    <3>1. "abort" \in AnyOp /\ "abort" \notin ReadOp /\ Locking("abort") \in Frame
      BY Operations, Frames DEF ReadOp
    <3>2. stack' = [stack EXCEPT ![t] = Append(Below(t), Locking("abort"))]
      BY <1>3, <1>10, <2>3, <3>1, Concats DEF Throw, Replace
    <3>3. ~m_finished /\ reads = <<>> /\ writes = <<>>
      BY <2>1, <2>3, NothingOut DEF is_finished
    <3>4. WorkerAlone(program)
      BY <2>1 DEF CarefulInv, SendersBeside
    <3>5. MayBegin(t, "abort")
      BY <1>4, <2>1, <3>1, <3>3, <3>4 DEF MayBegin
    <3> QED BY <1>3, <2>1, <3>1, <3>2, <3>5, BeginStep
  <2> QED BY <2>2, <2>3
<1> QED BY <1>5, <1>6, <1>7, <1>9, <1>10

(* A read or a write begins, on the thread that was inside the call. *)
LEMMA OperationCareful ==
    ASSUME Inv, CarefulInv, NEW t \in Thread, Operation(t)
    PROVE  CarefulInv'
<1> SUFFICES ASSUME program.careful PROVE CarefulInv'
  BY DEF CarefulInv, Operation, EnterRead, EnterWrite, GoOn, request
<1>0. /\ TypeOK /\ BelowInv /\ ReadInv /\ WriteInv /\ HeadInv
      /\ reads \in Seq(ReadOp) /\ writes \in Seq(WriteOp) /\ wire \in Seq(BOOLEAN)
      /\ finishes \in Nat
  BY DEF Inv, CarefulInv, TypeOK, ValuesOK
<1>1. ASSUME NEW o \in AnyOp, Inside(t, o)
      PROVE  /\ Below(t) \in Seq(Frame) /\ Users(Below(t))
             /\ WorkerAlone(program) => t = Worker /\ AloneInv
             /\ ~WorkerAlone(program) => SendersBeside(program) /\ BesideInv
             /\ Replace(t, <<>>) => /\ Aside(t) /\ BelowInv' /\ \A p \in AnyOp : ~Inside(t, p)'
                                    /\ stack' = [stack EXCEPT ![t] = Below(t)]
  <2>1. Busy(t)
    BY <1>1 DEF Inside, At
  <2>2. Below(t) \in Seq(Frame) /\ Users(Below(t))
    BY <1>0, <2>1, UsersBelow
  <2>3. WorkerAlone(program) => t = Worker
    BY <2>1, WhoActs
  <2>4. ASSUME Replace(t, <<>>) PROVE stack' = [stack EXCEPT ![t] = Below(t)]
    BY <2>2, <2>4, Concats, Frames DEF Replace
  <2> QED BY <1>0, <2>2, <2>3, <2>4, UsersLeft DEF CarefulInv
<1>2. ASSUME NEW o \in ReadOp, EnterRead(t, o) PROVE CarefulInv'
  <2>1. At(t, Locking(o)) /\ Inside(t, o) /\ o \in AnyOp
    BY <1>2, Operations DEF EnterRead, Inside
  <2>2. t = Worker /\ ~m_read_done /\ reads = <<>>
    BY <1>0, <2>1 DEF ReadInv
  <2>3. /\ m_read_lck' = TRUE /\ reads' = <<o>> /\ Replace(t, <<>>)
        /\ UNCHANGED <<program, m_write_lck, m_read_done, m_headers_sent, wire, writes,
                       m_finished, finishes>>
    BY <1>2, <2>2 DEF EnterRead, StartRead, resp, request
  <2>4. \A u \in Thread, p \in AnyOp : Inside(u, p)' =>
           u # t /\ Inside(u, p) /\ (At(u, Locking(p))' <=> At(u, Locking(p)))
    BY <1>1, <2>1, <2>3 DEF Aside
  <2>5. \A p \in ReadOp, u \in Thread : ~Inside(u, p)'
    BY <1>0, <2>2, <2>4, Operations DEF ReadInv
  <2>6. ReadInv'
    BY <2>2, <2>3, <2>5 DEF ReadInv
  <2>7. WriteInv' /\ HeadInv'
    BY <1>0, <2>3, <2>4, Operations DEF WriteInv, HeadInv
  <2>8. AloneInv /\ WorkerAlone(program) => AloneInv'
    BY <2>1, <2>2, <2>3, <2>4, <1>1, ConstantsOK DEF AloneInv, Aside, Thread
  <2>9. BesideInv => BesideInv'
    BY <2>3, <2>4, Operations DEF BesideInv
  <2> QED BY <1>1, <2>1, <2>3, <2>6, <2>7, <2>8, <2>9 DEF CarefulInv
<1>3. ASSUME NEW o \in WriteOp, Inside(t, o), StartWrite(o), Replace(t, <<>>),
             UNCHANGED <<program, m_read_lck, m_read_done, m_headers_sent, reads>>,
             writes = <<>>, m_write_lck' = m_write_lck \/ m_write_lck' = TRUE,
             o # "abort" => m_write_lck' = TRUE
      PROVE CarefulInv'
  <2>1. /\ o \in AnyOp /\ ~m_finished /\ finishes = 0
        /\ o # "abort" => m_read_done
        /\ o = "abort" => program.throws
    BY <1>0, <1>3, Operations DEF WriteInv
  <2>2. writes' = <<o>>
    BY <1>3 DEF StartWrite
  <2>3. /\ o \in SendOp => UNCHANGED <<finishes, m_finished>>
        /\ o \notin SendOp => finishes' = 1 /\ m_finished' = TRUE
    BY <1>3, <2>1 DEF StartWrite
  <2>4. \A u \in Thread, p \in AnyOp : Inside(u, p)' =>
           u # t /\ Inside(u, p) /\ (At(u, Locking(p))' <=> At(u, Locking(p)))
    BY <1>1, <1>3, <2>1 DEF Aside
  <2>5. ReadInv'
    BY <1>0, <1>3, <2>4, Operations DEF ReadInv
  <2>6. HeadInv'
    <3>1. \A i \in 1 .. Len(wire) : wire[i] => i = 1
      BY <1>0, <2>1 DEF HeadInv
    <3>2. CASE wire' = wire
      BY <2>2, <3>1, <3>2 DEF HeadInv
    <3>3. CASE wire' = Append(wire, Carries(o))
      <4>1. /\ Len(wire') = Len(wire) + 1 /\ wire'[Len(wire) + 1] = Carries(o)
            /\ \A i \in 1 .. Len(wire) : wire'[i] = wire[i]
        BY <1>0, <3>3 DEF Carries
      <4>2. Carries(o) => Len(wire) = 0 \/ finishes' > 0
        BY <1>0, <1>3, <2>3 DEF Carries, HeadInv
      <4>3. \A i \in 1 .. Len(wire') : wire'[i] => i = 1 \/ (i = Len(wire') /\ finishes' > 0)
        BY <3>1, <4>1, <4>2, <1>0
      <4> QED BY <2>2, <4>3 DEF HeadInv
    <3> QED BY <1>3, <3>2, <3>3 DEF StartWrite
  <2>7. CASE WorkerAlone(program)
    <3>1. t = Worker /\ AloneInv /\ reads = <<>>
      BY <1>1, <1>3, <2>1, <2>7 DEF AloneInv
    <3>2. \A u \in Thread, p \in AnyOp : ~Inside(u, p)'
      BY <2>4, <3>1 DEF AloneInv, Thread, Inside, At, Busy
    <3>3. WriteInv'
      <4>1. Len(writes') = 1 /\ writes' # <<>> /\ Head(writes') = o
        BY <2>2
      <4>2. m_finished' <=> finishes' > 0
        BY <1>0, <2>1, <2>3
      <4>3. o \in SendOp => m_read_done' /\ ~m_finished'
        BY <1>3, <2>1, <2>3 DEF SendOp
      <4> QED BY <3>2, <4>1, <4>2, <4>3, Operations DEF WriteInv
    <3>4. AloneInv'
      BY <1>1, <1>3, <2>1, <3>1, <3>2, ConstantsOK DEF AloneInv, Aside, Thread
    <3> QED BY <1>1, <1>3, <2>1, <2>5, <2>6, <2>7, <3>3, <3>4 DEF CarefulInv
  <2>8. CASE ~WorkerAlone(program)
    <3>1. SendersBeside(program) /\ BesideInv
      BY <1>1, <1>3, <2>1, <2>8
    <3>2. o = "send" /\ o \in SendOp /\ o # "abort"
      BY <1>3, <3>1 DEF BesideInv, SendOp
    <3>3. WriteInv'
      <4>1. Len(writes') = 1 /\ writes' # <<>>
        BY <2>2
      <4>2. m_read_done' /\ ~m_finished' /\ finishes' = 0 /\ UNCHANGED program
        BY <1>3, <2>1, <2>3, <3>2
      <4>3. \A u \in Thread, p \in WriteOp : Inside(u, p)' => p # "abort" /\ At(u, Locking(p))'
        BY <1>0, <2>4, <3>1, Operations DEF WriteInv, BesideInv
      <4> QED BY <4>1, <4>2, <4>3 DEF WriteInv
    <3>4. BesideInv'
      BY <1>3, <2>2, <2>3, <2>4, <3>1, <3>2, Operations DEF BesideInv
    <3> QED BY <1>1, <1>3, <2>1, <2>5, <2>6, <2>8, <3>1, <3>3, <3>4 DEF CarefulInv
  <2> QED BY <2>7, <2>8
<1>4. ASSUME NEW o \in WriteOp, EnterWrite(t, o) PROVE CarefulInv'
  <2>1. At(t, Locking(o)) /\ Inside(t, o) /\ o \in AnyOp /\ ~m_write_lck
    BY <1>4, Operations DEF EnterWrite, Inside, CanLockWrite
  <2>2. CASE m_read_done
    <3>1. /\ m_write_lck' = TRUE /\ StartWrite(o) /\ Replace(t, <<>>)
          /\ UNCHANGED <<program, m_read_lck, m_read_done, m_headers_sent, reads>>
      BY <1>4, <2>2 DEF EnterWrite, request
    <3>2. writes = <<>>
      BY <1>1, <2>1 DEF AloneInv, BesideInv
    <3> QED BY <1>3, <2>1, <3>1, <3>2
  <2>3. CASE ~m_read_done
    <3>1. o = "abort" /\ program.throws /\ ~m_finished
      BY <1>0, <2>1, <2>3 DEF WriteInv
    <3>2. UNCHANGED streams /\ FallThrough(t, o)
      BY <1>4, <2>3 DEF EnterWrite, request, resp, streams
    <3>3. WorkerAlone(program)
      BY <3>1 DEF CarefulInv, SendersBeside
    <3>4. stack' = [stack EXCEPT ![t] = Append(Below(t), GoingOn(o))]
      BY <1>1, <2>1, <3>1, <3>2, Concats, Frames DEF FallThrough, Replace, Callback
    <3>5. MayBegin(t, o)
      BY <1>1, <2>1, <3>1, <3>3, Operations DEF MayBegin, AloneInv
    <3> QED BY <1>1, <2>1, <3>1, <3>2, <3>4, <3>5, BeginStep
  <2> QED BY <2>2, <2>3
<1>5. ASSUME NEW o \in ReadOp \cup WriteOp, GoOn(t, o) PROVE CarefulInv'
  <2>1. At(t, GoingOn(o)) /\ Inside(t, o) /\ o \in AnyOp /\ ~At(t, Locking(o))
    BY <1>5, Distinct DEF GoOn, Inside, At, AnyOp
  <2>2. o \notin ReadOp /\ o = "abort" /\ program.throws
    BY <1>0, <1>5, <2>1 DEF ReadInv, WriteInv
  <2>3. o \in WriteOp /\ StartWrite(o) /\ Replace(t, <<>>)
        /\ UNCHANGED <<program, m_read_lck, m_write_lck, m_read_done, m_headers_sent, reads>>
    BY <1>5, <2>2 DEF GoOn, request, locks
  <2>4. writes = <<>>
    BY <1>1, <2>1, <2>2 DEF AloneInv, SendersBeside
  <2> QED BY <1>3, <2>1, <2>2, <2>3, <2>4
<1> QED BY <1>2, <1>4, <1>5 DEF Operation

LEMMA CompletionCareful ==
    ASSUME Inv, CarefulInv, Completion
    PROVE  CarefulInv'
<1> SUFFICES ASSUME program.careful PROVE CarefulInv'
  BY DEF CarefulInv, Completion, ReadCompletes, WriteCompletes, request
<1>1. /\ TypeOK /\ BelowInv /\ ReadInv /\ WriteInv /\ HeadInv
      /\ reads \in Seq(ReadOp) /\ writes \in Seq(WriteOp)
  BY DEF Inv, CarefulInv, TypeOK, ValuesOK
<1>2. Worker \in Thread /\ ~Busy(Worker) /\ <<>> \in Seq(Frame) /\ Users(<<>>)
  BY DEF Completion, ReadCompletes, WriteCompletes, Thread, Users
<1>3. WorkerAlone(program) => \A u \in Thread, p \in AnyOp : ~Inside(u, p)
  BY <1>2 DEF CarefulInv, AloneInv, Inside, At, Busy, Thread
<1>4. ASSUME NEW s, stack' = [stack EXCEPT ![Worker] = s],
             s \in {<<>>, <<User>>} \/ \E o \in AnyOp : s = <<Locking(o)>>
      PROVE  /\ Aside(Worker) /\ BelowInv'
             /\ \A p \in AnyOp : Inside(Worker, p)' => s = <<Locking(p)>> /\ At(Worker, Locking(p))'
  <2>1. CASE s \in {<<>>, <<User>>}
    <3>1. <<User>> \in Seq(Frame) /\ Users(<<User>>)
      BY Alone, Frames DEF Users
    <3>2. s \in Seq(Frame) /\ Users(s)
      BY <1>2, <2>1, <3>1
    <3> QED BY <1>1, <1>2, <1>4, <3>2, UsersLeft
  <2>2. ASSUME NEW o \in AnyOp, s = <<Locking(o)>>
        PROVE  /\ Aside(Worker) /\ BelowInv' /\ At(Worker, Locking(o))'
               /\ \A p \in AnyOp : Inside(Worker, p)' => p = o
    <3>1. s = Append(<<>>, Locking(o))
      BY <2>2, Frames
    <3> QED BY <1>1, <1>2, <1>4, <3>1, OneLeft
  <2> QED BY <1>4, <2>1, <2>2
<1>5. CASE ReadCompletes
  <2>1. /\ reads # <<>> /\ reads' = <<>> /\ Head(reads) \in ReadOp /\ ~m_read_done
        /\ m_read_lck' = FALSE /\ m_read_done' = ~(body > 0)
        /\ UNCHANGED <<program, m_write_lck, m_headers_sent, wire, writes, m_finished, finishes>>
    BY <1>1, <1>5 DEF ReadCompletes, ReadInv, ReadDone, resp, request
  <2>2. PICK next : /\ stack' = [stack EXCEPT ![Worker] = next]
                    /\ next = AfterRead(Head(reads), body > 0)
    BY <1>5 DEF ReadCompletes
  <2>3. next = <<User>> \/ (next = <<Locking("full")>> /\ ~m_read_done')
    BY <2>1, <2>2 DEF AfterRead
  <2>4. writes = <<>> /\ \A u \in Thread, p \in WriteOp : ~Inside(u, p)
    <3>1. CASE WorkerAlone(program)
      BY <1>3, <2>1, <3>1, Operations DEF CarefulInv, AloneInv, AnyOp
    <3>2. CASE ~WorkerAlone(program)
      BY <1>1, <2>1, <3>2 DEF CarefulInv, BesideInv, WriteInv, SendOp
    <3> QED BY <3>1, <3>2
  <2>5. "full" \in ReadOp /\ "full" \in AnyOp
    BY Operations DEF ReadOp
  <2>6. /\ Aside(Worker) /\ BelowInv'
        /\ \A p \in AnyOp : Inside(Worker, p)' =>
              next = <<Locking(p)>> /\ At(Worker, Locking(p))'
    BY <1>4, <2>2, <2>3, <2>5
  <2>7. ASSUME NEW u \in Thread, NEW p \in AnyOp, Inside(u, p)'
        PROVE  u = Worker /\ p = "full" /\ At(u, Locking(p))' /\ ~m_read_done'
    <3>1. u = Worker
      BY <1>1, <2>4, <2>6, <2>7 DEF Aside, AnyOp, ReadInv, Inside, At, Busy
    <3>2. next = <<Locking(p)>> /\ next # <<User>>
      BY <2>6, <2>7, <3>1, Distinct
    <3> QED BY <2>3, <2>5, <2>6, <2>7, <3>1, <3>2, Distinct
  <2>8. ReadInv' /\ HeadInv'
    BY <1>1, <2>1, <2>7, Operations DEF ReadInv, HeadInv
  <2>9. WriteInv'
    BY <1>1, <2>1, <2>4, <2>5, <2>7, Operations DEF WriteInv
  <2>10. AloneInv => AloneInv'
    BY <2>1, <2>4, <2>6, ConstantsOK DEF AloneInv, Aside, Thread
  <2>11. BesideInv => BesideInv'
    BY <2>1, <2>4, <2>5, <2>7, Operations DEF BesideInv
  <2> QED BY <2>1, <2>6, <2>8, <2>9, <2>10, <2>11 DEF CarefulInv
<1>6. CASE WriteCompletes
  <2>1. /\ writes # <<>> /\ writes' = <<>> /\ Head(writes) \in WriteOp
        /\ m_write_lck' = FALSE /\ m_headers_sent' = TRUE
        /\ UNCHANGED <<program, m_read_lck, m_read_done, wire, reads, m_finished, finishes>>
    BY <1>1, <1>6 DEF WriteCompletes, WriteInv, Unlocked, request
  <2>2. PICK next : /\ stack' = [stack EXCEPT ![Worker] = next]
                    /\ \/ Head(writes) = "stream" /\ next = <<Locking("stream")>>
                       \/ next \in {<<>>, <<User>>}
    <3>1. Callback(Head(writes)) \in {<<>>, <<User>>}
      BY DEF Callback
    <3> QED BY <1>6, <3>1 DEF WriteCompletes
  <2>3. "stream" \in SendOp /\ "stream" \in WriteOp /\ "stream" \in AnyOp
    BY Operations DEF SendOp
  <2>4. /\ Aside(Worker) /\ BelowInv'
        /\ \A p \in AnyOp : Inside(Worker, p)' =>
              next = <<Locking(p)>> /\ At(Worker, Locking(p))'
    BY <1>4, <2>2, <2>3
  <2>5. ASSUME NEW u \in Thread, NEW p \in AnyOp, Inside(u, p)'
        PROVE  \/ /\ u = Worker /\ p = "stream" /\ At(u, Locking(p))'
                  /\ Head(writes) = "stream"
               \/ /\ u # Worker /\ Inside(u, p)
                  /\ At(u, Locking(p))' <=> At(u, Locking(p))
    <3>1. CASE u = Worker
      <4>1. next = <<Locking(p)>> /\ At(u, Locking(p))' /\ next # <<>> /\ next # <<User>>
        BY <2>4, <2>5, <3>1, Distinct
      <4> QED BY <2>2, <2>3, <3>1, <4>1, Distinct
    <3> QED BY <2>4, <2>5, <3>1 DEF Aside
  <2>6. ReadInv'
    BY <1>1, <2>1, <2>3, <2>5, Operations DEF ReadInv
  <2>7. WriteInv' /\ HeadInv'
    <3>1. Head(writes) = "stream" => ~m_finished /\ m_read_done
      BY <1>1, <2>1, <2>3 DEF WriteInv
    <3> QED BY <1>1, <2>1, <2>3, <2>5, <3>1, Operations DEF WriteInv, HeadInv
  <2>8. AloneInv => AloneInv'
    BY <2>1, <2>4, ConstantsOK DEF AloneInv, Aside, Thread
  <2>9. BesideInv => BesideInv'
    BY <2>1, <2>3, <2>5, Operations DEF BesideInv
  <2> QED BY <2>1, <2>4, <2>6, <2>7, <2>8, <2>9 DEF CarefulInv
<1> QED BY <1>5, <1>6 DEF Completion

LEMMA NextCareful ==
    ASSUME Inv, CarefulInv, [Next]_vars
    PROVE  CarefulInv'
<1>1. TypeOK /\ Worker \in Thread /\ <<User>> \in Seq(Frame) /\ Users(<<User>>)
  BY Alone, Frames DEF Inv, Thread, Users
<1>2. CASE UNCHANGED vars
  BY <1>2, StillStep DEF vars, streams, request, locks, resp
<1>3. CASE Request
  BY <1>1, <1>3, QuietStep DEF Request, streams, locks, resp
<1>4. CASE ClientLeaves
  BY <1>4, StillStep DEF ClientLeaves, streams, request, locks, resp
<1>5. ASSUME NEW t \in App, Spawn(t) PROVE CarefulInv'
  <2>1. t \in Thread /\ ~WorkerAlone(program)
    BY <1>5, ConstantsOK DEF Spawn, WorkerAlone, Thread
  <2> QED BY <1>1, <1>5, <2>1, QuietStep DEF Spawn, streams, request, locks, resp
<1> QED BY <1>2, <1>3, <1>4, <1>5, CompletionCareful, UserCareful, OperationCareful DEF Next

LEMMA CarefulInvariance ==
    ASSUME Ruled
    PROVE  Spec => [](Inv /\ CarefulInv)
BY InitInv, InitCareful, NextInv, NextCareful, PTL DEF Spec

(* gRPC's rule: one Read and one Write under way at most. *)
THEOREM OneOfEach ==
    ASSUME Ruled
    PROVE  Spec => []OneReadOneWrite
<1>1. CarefulInv => OneReadOneWrite
  BY DEF CarefulInv, ReadInv, WriteInv, OneReadOneWrite
<1> QED BY <1>1, CarefulInvariance, PTL

(* The worker does not wait for what only it could give back. *)
THEOREM WorkerGoesOn ==
    ASSUME Ruled
    PROVE  Spec => []NoSelfDeadlock
<1>1. ASSUME CarefulInv, program.careful, NEW o \in ReadOp, At(Worker, Locking(o)) PROVE ~m_read_lck
  BY <1>1 DEF CarefulInv, ReadInv, Inside, Thread
<1>2. ASSUME CarefulInv, program.careful, NEW o \in WriteOp, At(Worker, Locking(o)) PROVE ~m_write_lck
  <2>1. Inside(Worker, o) /\ Worker \in Thread /\ o \in AnyOp
    BY <1>2, Operations DEF Inside, Thread
  <2> QED BY <1>2, <2>1, ConstantsOK DEF CarefulInv, AloneInv, BesideInv, WriteInv
<1>3. CarefulInv => NoSelfDeadlock
  BY <1>1, <1>2 DEF NoSelfDeadlock
<1> QED BY <1>3, CarefulInvariance, PTL

(* Status and headers lead the response, or go with its end. *)
THEOREM HeadLeads ==
    ASSUME Ruled
    PROVE  Spec => []HeadFirstOrLast
<1>1. CarefulInv => HeadFirstOrLast
  BY DEF CarefulInv, HeadInv, HeadFirstOrLast
<1> QED BY <1>1, CarefulInvariance, PTL

(* Without exceptions nothing goes on past a call that was refused: each   *)
(* call is answered once.                                                  *)
THEOREM AnsweredOnce ==
    ASSUME Ruled
    PROVE  Spec => []CallbacksMatchCalls
<1>1. Init => (Orderly => Matched)
  <2>1. Init => WaitingThreads = {}
    BY DEF Init, WaitingThreads, IsWaiting, Busy
  <2> QED BY <2>1, FS_EmptySet DEF Init, Matched, Outstanding, Waiting, WaitingThreads
<1>2. ASSUME CarefulInv, Orderly PROVE ~GoesOn
  <2>1. ASSUME NEW t \in Thread, NEW o \in AnyOp, At(t, GoingOn(o)) PROVE FALSE
    BY <1>2, <2>1, Distinct DEF CarefulInv, Orderly, ReadInv, WriteInv, Inside, At, AnyOp
  <2> QED BY <2>1 DEF GoesOn
<1>3. ASSUME Inv, CarefulInv, [Next]_vars, Orderly => Matched PROVE (Orderly => Matched)'
  <2>1. program' = program
    BY <1>3 DEF Next, vars, request, Request, ClientLeaves, Completion, ReadCompletes, WriteCompletes,
       Call, EmptyStream, SetStatus, Return, Throw, Operation, EnterRead, EnterWrite, GoOn, Spawn
  <2> QED BY <1>2, <1>3, <2>1, NextInv DEF Orderly
<1>4. (Orderly => Matched) => CallbacksMatchCalls
  BY DEF Matched, CallbacksMatchCalls
<1> QED BY <1>1, <1>3, <1>4, CarefulInvariance, PTL DEF Spec

(* The end ends it: what is finished is not begun again. *)
THEOREM EndsOnce ==
    ASSUME Ruled
    PROVE  Spec => NothingAfterFinish
<1>1. ASSUME Inv, CarefulInv, [Next]_vars, program.careful, finishes > 0
      PROVE UNCHANGED <<wire, finishes>>
  <2>1. m_finished /\ \A t \in Thread, o \in WriteOp : ~Inside(t, o)
    BY <1>1 DEF CarefulInv, WriteInv
  <2>2. ASSUME NEW t \in Thread, Operation(t) PROVE UNCHANGED <<wire, finishes>>
    <3>1. ASSUME NEW o \in WriteOp, EnterWrite(t, o) PROVE FALSE
      BY <2>1, <3>1 DEF EnterWrite, Inside
    <3>2. ASSUME NEW o \in ReadOp \cup WriteOp, GoOn(t, o) PROVE UNCHANGED <<wire, finishes>>
      BY <2>1, <3>2 DEF GoOn, Inside, resp
    <3> QED BY <2>2, <3>1, <3>2 DEF Operation, EnterRead, resp
  <2>3. Completion => UNCHANGED <<wire, finishes>>
    BY DEF Completion, ReadCompletes, WriteCompletes, resp
  <2> QED BY <1>1, <2>2, <2>3 DEF Next, vars, resp, Request, ClientLeaves, Call, EmptyStream,
             SetStatus, Return, Throw, Spawn
<1>2. Inv /\ CarefulInv /\ [Next]_vars => [program.careful /\ finishes > 0 => UNCHANGED <<wire, finishes>>]_vars
  BY <1>1
<1> QED BY <1>2, CarefulInvariance, PTL DEF Spec, NothingAfterFinish

=============================================================================
