-------------------------- MODULE HttpRouterProofs --------------------------
(***************************************************************************)
(* Theorems about HttpRouter, for any routes and middleware, any updates   *)
(* of them and any requests.                                               *)
(***************************************************************************)
EXTENDS HttpRouter, Induction, Integers, FiniteSetTheorems, TLAPS

-----------------------------------------------------------------------------
(* What the definition of RewrittenTimes defines.                          *)

Once(h) == [t \in Target |-> Rewritten[h[t]]]
UpTo(g, k) == g = [n \in 0 .. k |-> IF n = 0 THEN [t \in Target |-> t] ELSE Once(g[n - 1])]

LEMMA UpToEach ==
    ASSUME NEW k \in Nat
    PROVE  \E g : UpTo(g, k)
<1> DEFINE S == {n \in Nat : \E g : UpTo(g, n)}
<1>1. 0 \in S
  <2> DEFINE g == [n \in 0 .. 0 |-> [t \in Target |-> t]]
  <2>1. g = [n \in 0 .. 0 |-> IF n = 0 THEN [t \in Target |-> t] ELSE Once(g[n - 1])]
    OBVIOUS
  <2> QED BY <2>1 DEF UpTo
<1>2. ASSUME NEW n \in S PROVE n + 1 \in S
  <2>1. n \in Nat /\ n + 1 \in Nat
    OBVIOUS
  <2>2. PICK g : UpTo(g, n)
    OBVIOUS
  <2> DEFINE h == [i \in 0 .. n + 1 |-> IF i = n + 1 THEN Once(g[n]) ELSE g[i]]
  <2>3. ASSUME NEW i \in 0 .. n + 1
        PROVE  h[i] = IF i = 0 THEN [t \in Target |-> t] ELSE Once(h[i - 1])
    <3>1. CASE i = n + 1
      BY <2>1, <3>1
    <3>2. CASE i # n + 1 /\ i # 0
      <4>1. i \in 0 .. n /\ i - 1 \in 0 .. n + 1 /\ i - 1 # n + 1
        BY <2>1, <3>2
      <4>2. g[i] = Once(g[i - 1])
        BY <2>2, <3>2, <4>1 DEF UpTo
      <4> QED BY <3>2, <4>1, <4>2
    <3>3. CASE i # n + 1 /\ i = 0
      BY <2>1, <2>2, <3>3 DEF UpTo
    <3> QED BY <3>1, <3>2, <3>3
  <2>4. h = [i \in 0 .. n + 1 |-> h[i]]
    OBVIOUS
  <2> HIDE DEF h
  <2>5. UpTo(h, n + 1)
    BY <2>3, <2>4 DEF UpTo
  <2> QED BY <2>1, <2>5
<1> HIDE DEF S
<1>3. S = Nat
  <2>1. S \in SUBSET Nat
    BY DEF S
  <2> QED BY <1>1, <1>2, <2>1, SetInduction
<1> QED BY <1>3 DEF S

LEMMA UpToAgree ==
    ASSUME NEW n \in Nat, NEW k \in Nat, NEW m \in Nat, n <= k, n <= m,
           NEW g, NEW h, UpTo(g, k), UpTo(h, m)
    PROVE  g[n] = h[n]
<1> DEFINE S == {i \in Nat : i <= k /\ i <= m => g[i] = h[i]}
<1>1. 0 \in S
  BY DEF UpTo
<1>2. ASSUME NEW i \in S PROVE i + 1 \in S
  <2> SUFFICES ASSUME i + 1 <= k, i + 1 <= m PROVE g[i + 1] = h[i + 1]
      OBVIOUS
  <2>1. g[i] = h[i]
    OBVIOUS
  <2>2. i + 1 \in 0 .. k /\ i + 1 \in 0 .. m /\ i + 1 # 0 /\ (i + 1) - 1 = i
    OBVIOUS
  <2>3. g[i + 1] = Once(g[i]) /\ h[i + 1] = Once(h[i])
    BY <2>2 DEF UpTo
  <2> QED BY <2>1, <2>3
<1> HIDE DEF S
<1>3. S = Nat
  <2>1. S \in SUBSET Nat
    BY DEF S
  <2> QED BY <1>1, <1>2, <2>1, SetInduction
<1> QED BY <1>3 DEF S

LEMMA RewrittenTimesIs ==
    /\ \A t \in Target : RewrittenTimes[0][t] = t
    /\ \A n \in Nat, t \in Target : RewrittenTimes[n + 1][t] = Rewritten[RewrittenTimes[n][t]]
<1> DEFINE G(n) == CHOOSE g : UpTo(g, n)
           f == [n \in Nat |-> G(n)[n]]
           Is(r) == r = [n \in Nat |-> IF n = 0 THEN [t \in Target |-> t]
                                       ELSE [t \in Target |-> Rewritten[r[n - 1][t]]]]
<1>1. \A n \in Nat : UpTo(G(n), n)
  BY UpToEach
<1> HIDE DEF G
<1>2. ASSUME NEW n \in Nat
      PROVE  f[n] = IF n = 0 THEN [t \in Target |-> t]
                    ELSE [t \in Target |-> Rewritten[f[n - 1][t]]]
  <2>1. CASE n = 0
    BY <1>1, <2>1 DEF UpTo
  <2>2. CASE n # 0
    <3>1. n - 1 \in Nat /\ n \in 0 .. n /\ n - 1 <= n
      BY <2>2
    <3>2. G(n)[n] = Once(G(n)[n - 1])
      BY <1>1, <2>2, <3>1 DEF UpTo
    <3>3. G(n)[n - 1] = G(n - 1)[n - 1]
      BY <1>1, <3>1, UpToAgree
    <3> QED BY <2>2, <3>1, <3>2, <3>3 DEF Once
  <2> QED BY <2>1, <2>2
<1>3. Is(f)
  BY <1>2
<1>4. Is(RewrittenTimes)
  <2> HIDE DEF f
  <2>1. RewrittenTimes = CHOOSE r : Is(r)
    BY DEF RewrittenTimes
  <2> HIDE DEF Is
  <2> QED BY <1>3, <2>1
<1>5. RewrittenTimes[0] = [t \in Target |-> t]
  BY <1>4
<1>6. ASSUME NEW n \in Nat
      PROVE  RewrittenTimes[n + 1] = [t \in Target |-> Rewritten[RewrittenTimes[n][t]]]
  <2>1. n + 1 \in Nat /\ n + 1 # 0 /\ (n + 1) - 1 = n
    OBVIOUS
  <2> QED BY <1>4, <2>1
<1>7. ASSUME NEW t \in Target PROVE RewrittenTimes[0][t] = t
  BY <1>5
<1>8. ASSUME NEW n \in Nat, NEW t \in Target
      PROVE  RewrittenTimes[n + 1][t] = Rewritten[RewrittenTimes[n][t]]
  <2>1. RewrittenTimes[n + 1] = [s \in Target |-> Rewritten[RewrittenTimes[n][s]]]
    BY <1>6
  <2> QED BY <2>1
<1> QED BY <1>7, <1>8

-----------------------------------------------------------------------------
(* Updates.                                                                *)

(* Everything of s is in t as well. *)
Kept(s, t) == \A i \in 1 .. Len(s) : \E j \in 1 .. Len(t) : t[j] = s[i]

LEMMA Cut ==
    ASSUME NEW S, NEW s \in Seq(S), NEW n \in Nat, n <= Len(s)
    PROVE  /\ SubSeq(s, 1, n) \in Seq(S) /\ Len(SubSeq(s, 1, n)) = n
           /\ \A i \in 1 .. n : SubSeq(s, 1, n)[i] = s[i]
           /\ SubSeq(s, n + 1, Len(s)) \in Seq(S)
           /\ Len(SubSeq(s, n + 1, Len(s))) = Len(s) - n
           /\ \A i \in 1 .. Len(s) - n : SubSeq(s, n + 1, Len(s))[i] = s[n + i]
OBVIOUS

(* What is put into a sequence is there, and so is what was there.         *)
LEMMA SpliceIn ==
    ASSUME NEW S, NEW s \in Seq(S), NEW n \in Nat, n <= Len(s), NEW x \in S
    PROVE  LET new == SubSeq(s, 1, n) \o <<x>> \o SubSeq(s, n + 1, Len(s))
           IN  new \in Seq(S) /\ (\E j \in 1 .. Len(new) : new[j] = x) /\ Kept(s, new)
<1> DEFINE a == SubSeq(s, 1, n)
           c == SubSeq(s, n + 1, Len(s))
           new == a \o <<x>> \o c
<1>1. a \in Seq(S) /\ Len(a) = n /\ \A i \in 1 .. n : a[i] = s[i]
  BY Cut
<1>2. c \in Seq(S) /\ Len(c) = Len(s) - n /\ \A i \in 1 .. Len(s) - n : c[i] = s[n + i]
  BY Cut
<1> HIDE DEF a, c
<1>3. /\ new \in Seq(S) /\ Len(new) = Len(a) + 1 + Len(c)
      /\ \A i \in 1 .. Len(a) : new[i] = a[i]
      /\ new[Len(a) + 1] = x
      /\ \A i \in 1 .. Len(c) : new[Len(a) + 1 + i] = c[i]
  <2>1. a \in Seq(S) /\ c \in Seq(S)
    BY <1>1, <1>2
  <2> QED BY <2>1
<1> HIDE DEF new
<1>4. Len(new) = Len(s) + 1 /\ n + 1 \in 1 .. Len(new) /\ new[n + 1] = x
  BY <1>1, <1>2, <1>3
<1>5. ASSUME NEW i \in 1 .. Len(s) PROVE \E j \in 1 .. Len(new) : new[j] = s[i]
  <2>1. CASE i <= n
    BY <1>1, <1>3, <1>4, <2>1
  <2>2. CASE i > n
    <3>1. i - n \in 1 .. Len(s) - n /\ n + (i - n) = i /\ n + 1 + (i - n) = i + 1
          /\ i + 1 \in 1 .. Len(new)
      BY <1>4, <2>2
    <3>2. new[n + 1 + (i - n)] = c[i - n] /\ c[i - n] = s[n + (i - n)]
      BY <1>1, <1>2, <1>3, <3>1
    <3> QED BY <3>1, <3>2
  <2> QED BY <2>1, <2>2
<1>6. Kept(s, new)
  BY <1>5 DEF Kept
<1> QED BY <1>3, <1>4, <1>6 DEF new, a, c

LEMMA Inserted ==
    ASSUME NEW S, NEW steps \in Seq(S), NEW m, NEW p, [mw |-> m, pos |-> p] \in S
    PROVE  /\ Insert(steps, m, p) \in Seq(S)
           /\ Kept(steps, Insert(steps, m, p))
           /\ \E j \in 1 .. Len(Insert(steps, m, p)) :
                 Insert(steps, m, p)[j] = [mw |-> m, pos |-> p]
<1> DEFINE B == {i \in 1 .. Len(steps) : steps[i].pos <= p}
           x == [mw |-> m, pos |-> p]
<1>1. x \in S
  OBVIOUS
<1>2. Cardinality(B) \in Nat /\ Cardinality(B) <= Len(steps)
  <2>1. IsFiniteSet(1 .. Len(steps)) /\ Cardinality(1 .. Len(steps)) <= Len(steps)
    BY FS_Interval
  <2>2. IsFiniteSet(B) /\ Cardinality(B) <= Cardinality(1 .. Len(steps))
    BY <2>1, FS_Subset
  <2>3. Cardinality(B) \in Nat /\ Cardinality(1 .. Len(steps)) \in Nat
    BY <2>1, <2>2, FS_CardinalityType
  <2> HIDE DEF B
  <2> QED BY <2>1, <2>2, <2>3
<1>3. PICK n : n = Cardinality(B)
  OBVIOUS
<1>4. n \in Nat /\ n <= Len(steps)
  <2> HIDE DEF B
  <2> QED BY <1>2, <1>3
<1>5. Insert(steps, m, p) = SubSeq(steps, 1, n) \o <<x>> \o SubSeq(steps, n + 1, Len(steps))
  BY <1>3 DEF Insert
<1> HIDE DEF B, x
<1>6. LET new == SubSeq(steps, 1, n) \o <<x>> \o SubSeq(steps, n + 1, Len(steps))
      IN  new \in Seq(S) /\ (\E j \in 1 .. Len(new) : new[j] = x) /\ Kept(steps, new)
  BY <1>1, <1>4, SpliceIn
<1> QED BY <1>5, <1>6 DEF x

(* The middleware and the routes that there ever are. *)
UsedStep ==
    {Initial.middleware[i] : i \in 1 .. Len(Initial.middleware)}
    \cup {[mw |-> u.mw, pos |-> u.pos] : u \in {v \in Update : v.call = "use"}}
UsedEntry ==
    {Initial.routes[i] : i \in 1 .. Len(Initial.routes)}
    \cup {u.entry : u \in {v \in Update : v.call = "route"}}
Used == [middleware : Seq(UsedStep), routes : Seq(UsedEntry), notfound : BOOLEAN,
         error : BOOLEAN]

LEMMA UsedOK ==
    /\ UsedStep \subseteq Step /\ UsedEntry \subseteq Entry
    /\ Initial \in Used
<1>1. /\ Initial.middleware \in Seq(Step) /\ Initial.routes \in Seq(Entry)
      /\ Initial.notfound \in BOOLEAN /\ Initial.error \in BOOLEAN
      /\ Initial = [middleware |-> Initial.middleware, routes |-> Initial.routes,
                    notfound |-> Initial.notfound, error |-> Initial.error]
  BY ConstantsOK DEF Info
<1>2. \A i \in 1 .. Len(Initial.middleware) : Initial.middleware[i] \in Step
  BY <1>1
<1>3. \A i \in 1 .. Len(Initial.routes) : Initial.routes[i] \in Entry
  BY <1>1
<1>4. \A u \in Update : u \in Call
  BY ConstantsOK
<1>5. UsedStep \subseteq Step
  BY <1>2, <1>4 DEF UsedStep, Step, Call
<1>6. UsedEntry \subseteq Entry
  BY <1>3, <1>4 DEF UsedEntry, Call
<1>7. \A i \in 1 .. Len(Initial.middleware) : Initial.middleware[i] \in UsedStep
  BY DEF UsedStep
<1>8. \A i \in 1 .. Len(Initial.routes) : Initial.routes[i] \in UsedEntry
  BY DEF UsedEntry
<1>9. Initial.middleware \in Seq(UsedStep) /\ Initial.routes \in Seq(UsedEntry)
  BY <1>1, <1>7, <1>8
<1>10. Initial \in Used
  BY <1>1, <1>9 DEF Used
<1> QED BY <1>5, <1>6, <1>10

(* An update makes its change and undoes no other. *)
LEMMA ChangeKept ==
    ASSUME NEW info \in Used, NEW u \in Update
    PROVE  /\ Changed(info, u) \in Used
           /\ Has(Changed(info, u), u)
           /\ \A v \in Update : Has(info, v) => Has(Changed(info, u), v)
<1>1. u \in Call /\ \A v \in Update : v \in Call
  BY ConstantsOK
<1>2. PICK new : new = Changed(info, u)
  OBVIOUS
<1>3. CASE u.call = "use"
  <2>1. [mw |-> u.mw, pos |-> u.pos] \in UsedStep
    BY <1>3 DEF UsedStep
  <2>2. /\ new \in Used /\ new.middleware = Insert(info.middleware, u.mw, u.pos)
        /\ new.routes = info.routes /\ new.notfound = info.notfound /\ new.error = info.error
    BY <1>2, <1>3, <2>1, Inserted DEF Changed, Used
  <2>3. info.middleware \in Seq(UsedStep)
    BY DEF Used
  <2>4. /\ \E j \in 1 .. Len(new.middleware) :
              new.middleware[j] = [mw |-> u.mw, pos |-> u.pos]
        /\ Kept(info.middleware, new.middleware)
    <3>1. /\ \E j \in 1 .. Len(Insert(info.middleware, u.mw, u.pos)) :
                Insert(info.middleware, u.mw, u.pos)[j] = [mw |-> u.mw, pos |-> u.pos]
          /\ Kept(info.middleware, Insert(info.middleware, u.mw, u.pos))
      BY <2>1, <2>3, Inserted
    <3> QED BY <2>2, <3>1, Zenon
  <2>5. Has(new, u)
    BY <1>3, <2>4 DEF Has
  <2>6. ASSUME NEW v \in Update, Has(info, v) PROVE Has(new, v)
    <3>1. v.call = "use" => \E i \in 1 .. Len(new.middleware) :
                                new.middleware[i] = [mw |-> v.mw, pos |-> v.pos]
      BY <2>4, <2>6 DEF Has, Kept
    <3> QED BY <1>1, <2>2, <2>6, <3>1 DEF Has, Call
  <2> QED BY <1>2, <2>2, <2>5, <2>6
<1>4. CASE u.call = "route"
  <2>1. u.entry \in UsedEntry /\ info.routes \in Seq(UsedEntry)
    BY <1>4 DEF UsedEntry, Used
  <2>0. new = [info EXCEPT !.routes = Append(@, u.entry)]
    BY <1>2, <1>4 DEF Changed
  <2>2. /\ new \in Used /\ new.routes = Append(info.routes, u.entry)
        /\ new.middleware = info.middleware /\ new.notfound = info.notfound
        /\ new.error = info.error
    <3>1. Append(info.routes, u.entry) \in Seq(UsedEntry)
      BY <2>1
    <3> QED BY <2>0, <3>1 DEF Used
  <2>3. /\ \E i \in 1 .. Len(new.routes) : new.routes[i] = u.entry
        /\ \A i \in 1 .. Len(info.routes) :
              i \in 1 .. Len(new.routes) /\ new.routes[i] = info.routes[i]
    BY <2>1, <2>2
  <2> QED BY <1>1, <1>2, <1>4, <2>2, <2>3 DEF Has, Call
<1>5. CASE u.call = "notfound"
  <2>1. /\ new \in Used /\ new.notfound /\ new.routes = info.routes
        /\ new.middleware = info.middleware /\ new.error = info.error
    BY <1>2, <1>5 DEF Changed, Used
  <2> QED BY <1>1, <1>2, <1>5, <2>1 DEF Has, Call
<1>6. CASE u.call = "error"
  <2>1. /\ new \in Used /\ new.error /\ new.routes = info.routes
        /\ new.middleware = info.middleware /\ new.notfound = info.notfound
    BY <1>2, <1>6 DEF Changed, Used
  <2> QED BY <1>1, <1>2, <1>6, <2>1 DEF Has, Call
<1> QED BY <1>1, <1>3, <1>4, <1>5, <1>6 DEF Call

Copy == [by : Update, info : Used]

(* The mutex lets one update be made at a time, of what is published. *)
UpdateInv ==
    /\ routing \in Used
    /\ applied \in Seq(Update)
    /\ copy \in Seq(Copy)
    /\ Len(copy) <= 1
    /\ \A i \in 1 .. Len(copy) : copy[i].info = routing
    /\ UpdatesKept

LEMMA InitUpdate == Init => UpdateInv
BY UsedOK DEF Init, UpdateInv, UpdatesKept

LEMMA NextUpdate == UpdateInv /\ [Next]_vars => UpdateInv'
<1> SUFFICES ASSUME UpdateInv, [Next]_vars PROVE UpdateInv'
    OBVIOUS
<1>1. CASE UNCHANGED <<routing, copy, applied>>
  BY <1>1 DEF UpdateInv, UpdatesKept
<1>2. ASSUME NEW u \in Update, Load(u) PROVE UpdateInv'
  <2>1. copy' = <<[by |-> u, info |-> routing]>> /\ UNCHANGED <<routing, applied>>
    BY <1>2 DEF Load, MutexFree, UpdateInv
  <2>2. [by |-> u, info |-> routing] \in Copy
    BY DEF UpdateInv, Copy
  <2> QED BY <2>1, <2>2 DEF UpdateInv, UpdatesKept
<1>3. CASE Store
  <2>1. PICK i \in 1 .. Len(copy) :
           /\ routing' = Changed(copy[i].info, copy[i].by)
           /\ applied' = Append(applied, copy[i].by)
           /\ copy' = SubSeq(copy, 1, i - 1) \o SubSeq(copy, i + 1, Len(copy))
    BY <1>3 DEF Store
  <2>2. i = 1 /\ Len(copy) = 1 /\ copy[i].by \in Update /\ copy[i].info = routing
    <3>0. copy \in Seq(Copy)
      BY DEF UpdateInv
    <3>1. Len(copy) \in Nat /\ copy[i] \in Copy
      BY <3>0
    <3>2. copy[i].info = routing /\ Len(copy) <= 1
      BY DEF UpdateInv
    <3>3. i = 1 /\ Len(copy) = 1
      BY <3>1, <3>2
    <3> QED BY <3>1, <3>2, <3>3 DEF Copy
  <2>3. copy' = <<>>
    BY <2>1, <2>2 DEF UpdateInv
  <2>4. PICK u \in Update : u = copy[i].by
    BY <2>2
  <2>5. routing' = Changed(routing, u) /\ applied' = Append(applied, u)
    BY <2>1, <2>2, <2>4
  <2>6. /\ routing' \in Used /\ Has(routing', u)
        /\ \A v \in Update : Has(routing, v) => Has(routing', v)
    BY <2>5, ChangeKept DEF UpdateInv
  <2>7. UpdatesKept'
    BY <2>5, <2>6 DEF UpdatesKept, UpdateInv
  <2> QED BY <2>3, <2>5, <2>6, <2>7 DEF UpdateInv
<1>4. ASSUME NEW r \in Request, OnRequest(r) \/ RequestStep(r)
      PROVE UNCHANGED <<routing, copy, applied>>
  BY <1>4 DEF OnRequest, RequestStep, MiddlewareStep, Resume, DoRouting, Refuse, Handle,
              FileAnswer, HandleException, Becomes
<1> QED BY <1>1, <1>2, <1>3, <1>4 DEF Next, vars

(* No update is lost. *)
THEOREM NoUpdateLost == Spec => []UpdatesKept
<1>1. UpdateInv => UpdatesKept
  BY DEF UpdateInv
<1> QED BY <1>1, InitUpdate, NextUpdate, PTL DEF Spec

-----------------------------------------------------------------------------
(* Requests.                                                               *)

Front == {"new", "global", "global_later", "local", "local_later"}
Place == Front \cup {"raised", "skipping", "not_found", "over", "lost"}

RequestRecord ==
    [pc : Place, info : Used, entry : UsedEntry \cup {NoEntry}, next : Nat, asked : Target, target : Target,
     wraps : Seq({"mime", "rewrite"}), typed : Nat, types : Nat, routed : Nat,
     guarded : BOOLEAN, body_read : BOOLEAN, status : Nat, ends : Nat, again : Nat,
     ran : Seq(Middleware)]

(* What a call on the connection leaves alone. *)
SamePlace(p, q) ==
    /\ p.pc = q.pc /\ p.info = q.info /\ p.entry = q.entry /\ p.next = q.next
    /\ p.asked = q.asked /\ p.target = q.target /\ p.wraps = q.wraps
    /\ p.routed = q.routed /\ p.guarded = q.guarded /\ p.body_read = q.body_read
    /\ p.ran = q.ran

LEMMA SetTypeOK ==
    ASSUME NEW q \in RequestRecord, NEW level \in Nat
    PROVE  /\ SetType(q, level) \in RequestRecord /\ SamePlace(SetType(q, level), q)
           /\ SetType(q, level).types = q.types + 1
           /\ SetType(q, level).ends = q.ends /\ SetType(q, level).again = q.again
           /\ ~AddsType(SetType(q, level), level)
<1>1. PICK p : p = SetType(q, level)
  OBVIOUS
<1>2. PICK n \in Nat : n = IF level > q.typed THEN level ELSE q.typed
  BY DEF RequestRecord
<1>3. p = [q EXCEPT !.types = q.types + 1, !.typed = n]
  BY <1>1, <1>2 DEF SetType
<1>4. n >= level
  BY <1>2 DEF RequestRecord
<1>5. q.types + 1 \in Nat
  BY DEF RequestRecord
<1>6. /\ p \in RequestRecord /\ SamePlace(p, q) /\ p.types = q.types + 1
      /\ p.ends = q.ends /\ p.again = q.again /\ p.typed = n
  BY <1>3, <1>5 DEF RequestRecord, SamePlace
<1>7. ~AddsType(p, level)
  BY <1>4, <1>6 DEF AddsType
<1> QED BY <1>1, <1>6, <1>7

LEMMA EndedOK ==
    ASSUME NEW q \in RequestRecord, NEW level \in Nat
    PROVE  /\ Ended(q, level) \in RequestRecord /\ SamePlace(Ended(q, level), q)
           /\ Ended(q, level).ends = q.ends + 1 /\ Ended(q, level).again = q.again
           /\ Ended(q, level).types =
                 IF AddsType(q, level) THEN q.types + 1 ELSE q.types
           /\ ~AddsType(Ended(q, level), level)
<1>1. PICK p : p = IF AddsType(q, level) THEN SetType(q, level) ELSE q
  OBVIOUS
<1>2. /\ p \in RequestRecord /\ SamePlace(p, q) /\ p.ends = q.ends /\ p.again = q.again
      /\ p.types = IF AddsType(q, level) THEN q.types + 1 ELSE q.types
      /\ ~AddsType(p, level)
  BY <1>1, SetTypeOK DEF SamePlace
<1>3. PICK e : e = [p EXCEPT !.ends = p.ends + 1]
  OBVIOUS
<1>4. Ended(q, level) = e
  BY <1>1, <1>3 DEF Ended
<1>5. p.ends + 1 \in Nat
  BY <1>2 DEF RequestRecord
<1>6. /\ e \in RequestRecord /\ SamePlace(e, p) /\ e.ends = p.ends + 1
      /\ e.types = p.types /\ e.again = p.again /\ e.typed = p.typed
  BY <1>2, <1>3, <1>5 DEF RequestRecord, SamePlace
<1>7. ~AddsType(e, level)
  BY <1>2, <1>6 DEF AddsType, SamePlace
<1> QED BY <1>2, <1>4, <1>6, <1>7 DEF SamePlace

(* What adds no type at a level adds none below. *)
LEMMA NoTypeBelow ==
    ASSUME NEW q, NEW level \in Nat, NEW below \in Nat, below <= level, ~AddsType(q, level)
    PROVE  ~AddsType(q, below)
BY DEF AddsType

-----------------------------------------------------------------------------
(* The response: what is sent has one type, and what handle_exception may  *)
(* still send through wrappers brings no other.                            *)
Settled(q) ==
    /\ q.types <= 1
    /\ q.ends = 0 => q.types = 0
    /\ q.guarded => q.routed <= Len(q.wraps)
    /\ q.guarded /\ q.ends > 0 => ~AddsType(q, q.routed)

(* Nothing is sent before the handler. *)
AnswerInv(q) == Settled(q) /\ (q.pc \in Front => q.ends = 0)

(* A body that was read before the handler was read by a middleware. *)
GlobalLate == \E s \in UsedStep : s.mw = "later"
Late(e) == \E i \in 1 .. Len(e.mws) : e.mws[i] = "later"

BodyInv(q) ==
    /\ q.pc = "global_later" => GlobalLate
    /\ q.pc = "local_later" => Late(q.entry)
    /\ q.pc \in {"new", "global"} /\ q.body_read => GlobalLate
    /\ q.pc \in {"local", "skipping"} /\ q.body_read => GlobalLate \/ Late(q.entry)
    /\ q.pc \in {"local", "local_later", "skipping"} => q.entry \in UsedEntry
    /\ q.pc = "skipping" => q.entry.handler = "files"

(* Where a request is in the chains of the information it took. *)
RanFirst(ran, mws, k) == \A i \in 1 .. k : ran[i] = mws[i]

GlobalInv(q) ==
    LET g == GlobalOf(q.info) IN
    /\ q.pc = "new" => q.ran = <<>> /\ q.next = 1 /\ q.target = q.asked
    /\ q.pc \in {"global", "global_later"} =>
          /\ q.next \in 1 .. Len(g) + 1 /\ Len(q.ran) = q.next - 1
          /\ RanFirst(q.ran, g, q.next - 1)
          /\ q.target = RewrittenTimes[Rewrites(q.ran)][q.asked]
    /\ q.pc \in {"new", "global", "global_later"} => q.entry = NoEntry

LocalInv(q) ==
    LET g == GlobalOf(q.info)
        n == Len(q.ran) - Len(g)
        found == Matching(q.info, AfterRewrites(q.info, q.asked))
    IN  /\ q.pc \in {"local", "local_later"} => q.next = n + 1
        /\ q.entry # NoEntry \/ q.pc \in {"local", "local_later"} =>
              /\ n \in 0 .. Len(q.entry.mws)
              /\ RanFirst(q.ran, g, Len(g))
              /\ \A i \in 1 .. n : q.ran[Len(g) + i] = q.entry.mws[i]
              /\ found # {} /\ q.entry = q.info.routes[First(found)]

Good(q) == q \in RequestRecord /\ AnswerInv(q) /\ BodyInv(q) /\ GlobalInv(q) /\ LocalInv(q)

(* How often a step ends the response. *)
EndsMore(p, q) ==
    \/ p.ends = q.ends /\ p.again = q.again
    \/ /\ p.ends = q.ends + 1
       /\ \/ p.again = q.again /\ (q.ends = 0 \/ q.pc = "skipping")
          \/ p.again = q.again + 1

(* A request keeps what it took, and a file is served behind its handler.  *)
Grows(p, q) ==
    /\ p.pc # "new" /\ (q.pc # "new" => p.info = q.info)
    /\ EndsMore(p, q)
    /\ p.pc = "skipping" =>
          \/ q.pc = "local" /\ p.ends = q.ends
          \/ q.pc = "skipping" /\ q.body_read

(* Only these fields decide whether the response is settled. *)
LEMMA SettledBy ==
    ASSUME NEW p \in RequestRecord, NEW q \in RequestRecord, Settled(q),
           p.types = q.types, p.ends = q.ends, p.wraps = q.wraps, p.typed = q.typed,
           p.routed = q.routed, p.guarded => q.guarded
    PROVE  Settled(p)
BY DEF Settled, AddsType

LEMMA GlobalOK ==
    ASSUME NEW info \in Used
    PROVE  /\ GlobalOf(info) \in Seq(Middleware)
           /\ Len(GlobalOf(info)) = Len(info.middleware)
           /\ \A i \in 1 .. Len(info.middleware) :
                 /\ GlobalOf(info)[i] = info.middleware[i].mw
                 /\ info.middleware[i] \in UsedStep
<1>1. info.middleware \in Seq(UsedStep)
  BY DEF Used
<1>2. PICK s \in Seq(UsedStep) : s = info.middleware
  BY <1>1
<1>3. \A i \in 1 .. Len(s) : s[i] \in UsedStep
  OBVIOUS
<1>4. \A i \in 1 .. Len(s) : s[i].mw \in Middleware
  BY <1>3, UsedOK DEF Step
<1>5. PICK g : g = [i \in 1 .. Len(s) |-> s[i].mw]
  OBVIOUS
<1>6. g \in Seq(Middleware) /\ Len(g) = Len(s) /\ \A i \in 1 .. Len(s) : g[i] = s[i].mw
  BY <1>4, <1>5
<1> QED BY <1>2, <1>3, <1>5, <1>6 DEF GlobalOf

LEMMA RewritesOK ==
    ASSUME NEW s \in Seq(Middleware), NEW m \in Middleware
    PROVE  /\ Rewrites(s) \in Nat
           /\ Rewrites(Append(s, m)) =
                 IF m = "rewrite" THEN Rewrites(s) + 1 ELSE Rewrites(s)
<1> DEFINE B == {i \in 1 .. Len(s) : s[i] = "rewrite"}
           C == {i \in 1 .. Len(Append(s, m)) : Append(s, m)[i] = "rewrite"}
<1>1. IsFiniteSet(B)
  BY FS_Interval, FS_Subset
<1>2. /\ Len(Append(s, m)) = Len(s) + 1 /\ Append(s, m)[Len(s) + 1] = m
      /\ \A i \in 1 .. Len(s) : Append(s, m)[i] = s[i]
  OBVIOUS
<1>3. CASE m = "rewrite"
  <2>1. C = B \cup {Len(s) + 1} /\ Len(s) + 1 \notin B
    BY <1>2, <1>3
  <2> HIDE DEF B, C
  <2>2. Cardinality(C) = Cardinality(B) + 1
    BY <1>1, <2>1, FS_AddElement
  <2> QED BY <1>1, <1>3, <2>2, FS_CardinalityType DEF Rewrites, B, C
<1>4. CASE m # "rewrite"
  <2>1. C = B
    BY <1>2, <1>4
  <2> HIDE DEF B, C
  <2> QED BY <1>1, <1>4, <2>1, FS_CardinalityType DEF Rewrites, B, C
<1> QED BY <1>3, <1>4

LEMMA FirstFound ==
    ASSUME NEW info \in Used, NEW t, Matching(info, t) # {}
    PROVE  /\ First(Matching(info, t)) \in Matching(info, t)
           /\ info.routes[First(Matching(info, t))] \in UsedEntry
<1> DEFINE M == Matching(info, t)
           R == {ss \in Nat \X Nat : ss[1] < ss[2]}
<1>1. M \subseteq 1 .. Len(info.routes) /\ M \subseteq Nat /\ M # {}
  BY DEF Matching
<1>2. IsWellFoundedOn(R, Nat)
  BY NatLessThanWellFounded DEF OpToRel
<1> HIDE DEF M, R
<1>3. PICK x \in M : \A y \in M : ~(<<y, x>> \in R)
  BY <1>1, <1>2, WFMin
<1>4. ASSUME NEW y \in M PROVE x <= y
  <2>1. x \in Nat /\ y \in Nat /\ ~(<<y, x>> \in R)
    BY <1>1, <1>3
  <2>2. ~(y < x)
    BY <2>1 DEF R
  <2> QED BY <2>1, <2>2
<1>5. First(M) \in M
  BY <1>4 DEF First
<1>6. info.routes \in Seq(UsedEntry)
  BY DEF Used
<1>7. info.routes[First(M)] \in UsedEntry
  <2>1. PICK s : s = info.routes
    OBVIOUS
  <2>2. PICK k : k = First(M)
    OBVIOUS
  <2>3. s \in Seq(UsedEntry) /\ k \in 1 .. Len(s)
    BY <1>1, <1>5, <1>6, <2>1, <2>2
  <2>4. s[k] \in UsedEntry
    BY <2>3
  <2> QED BY <2>1, <2>2, <2>4
<1> QED BY <1>5, <1>7 DEF M

(* Going through the middleware. *)

LEMMA InitGood ==
    ASSUME NEW t \in Target
    PROVE  Good(NewRequest(t))
<1>1. NewRequest(t) \in RequestRecord
  BY UsedOK DEF NewRequest, RequestRecord, Place, Front
<1>2. Settled(NewRequest(t))
  BY DEF Settled, NewRequest
<1> QED BY <1>1, <1>2 DEF Good, AnswerInv, BodyInv, GlobalInv, LocalInv, NewRequest

LEMMA ArrivalGood ==
    ASSUME NEW q \in RequestRecord, Good(q), q.pc = "new", NEW info \in Used,
           NEW p, p = [q EXCEPT !.pc = "global", !.info = info]
    PROVE  Good(p) /\ Grows(p, q)
<1>1. p \in RequestRecord
  BY DEF RequestRecord, Place, Front
<1>2. /\ p.pc = "global" /\ p.info = info /\ p.entry = q.entry /\ p.next = q.next
      /\ p.asked = q.asked /\ p.target = q.target /\ p.types = q.types /\ p.ends = q.ends
      /\ p.body_read = q.body_read /\ p.ran = q.ran /\ p.again = q.again
      /\ p.wraps = q.wraps /\ p.typed = q.typed /\ p.routed = q.routed
      /\ p.guarded = q.guarded
  BY DEF RequestRecord
<1>3. AnswerInv(p) /\ BodyInv(p) /\ Grows(p, q)
  <2>1. Settled(p)
    BY <1>1, <1>2, SettledBy DEF Good, AnswerInv
  <2> QED BY <1>2, <2>1 DEF Good, AnswerInv, BodyInv, Grows, EndsMore, Front
<1>4. GlobalInv(p)
  <2>1. q.ran = <<>> /\ q.next = 1 /\ q.target = q.asked /\ q.entry = NoEntry
    BY DEF Good, GlobalInv
  <2>2. Len(GlobalOf(info)) \in Nat
    BY GlobalOK
  <2>3. Rewrites(<<>>) = 0
    BY FS_EmptySet DEF Rewrites
  <2>4. p.target = RewrittenTimes[Rewrites(p.ran)][p.asked]
    BY <1>2, <2>1, <2>3, RewrittenTimesIs DEF RequestRecord
  <2> QED BY <1>2, <2>1, <2>2, <2>4 DEF GlobalInv, RanFirst
<1>5. LocalInv(p)
  BY <1>2 DEF LocalInv, Good, GlobalInv
<1> QED BY <1>1, <1>3, <1>4, <1>5 DEF Good

(* What stays when the response is answered or the chains are left. *)
Leaves(p, q) ==
    /\ p.pc \notin Front /\ q.pc # "new"
    /\ p.info = q.info /\ p.entry = q.entry /\ p.asked = q.asked /\ p.ran = q.ran

LEMMA LeavesGood ==
    ASSUME NEW p, NEW q, Good(q), Leaves(p, q)
    PROVE  GlobalInv(p) /\ LocalInv(p)
BY DEF Good, Leaves, GlobalInv, LocalInv, Front

LEMMA ChainOK ==
    ASSUME NEW q \in RequestRecord, q.pc \in {"global", "local"}
    PROVE  Chain(q) \in Seq(Middleware)
<1>1. q.entry \in Entry
  <2>1. NoEntry \in Entry
    BY DEF NoEntry, Entry, Handler
  <2> QED BY <2>1, UsedOK DEF RequestRecord
<1>2. q.info \in Used
  BY DEF RequestRecord
<1> QED BY <1>1, <1>2, GlobalOK DEF Chain, InfoOf, Entry

LEMMA PassedGood ==
    ASSUME NEW q \in RequestRecord, Good(q), q.pc \in {"global", "local"},
           q.next <= Len(Chain(q)), NEW p, p = Passed(q, Chain(q)[q.next])
    PROVE  Good(p) /\ Grows(p, q)
<1>1. PICK m \in Middleware : m = Chain(q)[q.next]
  <2>1. q.next \in Nat /\ q.next >= 1
    BY DEF Good, GlobalInv, LocalInv, RequestRecord
  <2> QED BY <2>1, ChainOK
<1>2. /\ p \in RequestRecord
      /\ p.pc \in {q.pc, "raised", "global_later", "local_later"}
      /\ p.pc = "global_later" => m = "later" /\ q.pc = "global"
      /\ p.pc = "local_later" => m = "later" /\ q.pc = "local"
      /\ p.info = q.info /\ p.entry = q.entry /\ p.next = q.next + 1
      /\ p.asked = q.asked /\ p.types = q.types /\ p.ends = q.ends
      /\ p.body_read = q.body_read /\ p.ran = Append(q.ran, m)
      /\ p.target = IF m = "rewrite" THEN Rewritten[q.target] ELSE q.target
      /\ p.again = q.again /\ p.routed = q.routed /\ p.guarded = q.guarded
      /\ Len(p.wraps) >= Len(q.wraps)
  <2>1. PICK c : c = [q EXCEPT !.next = q.next + 1, !.ran = Append(q.ran, m)]
    OBVIOUS
  <2>2. /\ c \in RequestRecord /\ c.pc = q.pc /\ c.info = q.info /\ c.entry = q.entry
        /\ c.next = q.next + 1 /\ c.asked = q.asked /\ c.types = q.types /\ c.ends = q.ends
        /\ c.body_read = q.body_read /\ c.ran = Append(q.ran, m) /\ c.target = q.target
        /\ c.wraps = q.wraps /\ c.again = q.again /\ c.routed = q.routed
        /\ c.guarded = q.guarded
    <3>1. q.next + 1 \in Nat /\ Append(q.ran, m) \in Seq(Middleware)
      BY DEF RequestRecord
    <3> QED BY <2>1, <3>1 DEF RequestRecord
  <2>3. CASE m = "mime" /\ q.target \in Typed
    <3>1. p = [c EXCEPT !.wraps = Append(c.wraps, "mime")]
      BY <1>1, <2>1, <2>2, <2>3 DEF Passed
    <3>2. /\ Append(c.wraps, "mime") \in Seq({"mime", "rewrite"})
          /\ Len(Append(c.wraps, "mime")) >= Len(c.wraps)
      BY <2>2 DEF RequestRecord
    <3>3. /\ p \in RequestRecord /\ p.pc = c.pc /\ p.info = c.info /\ p.entry = c.entry
          /\ p.next = c.next /\ p.asked = c.asked /\ p.types = c.types /\ p.ends = c.ends
          /\ p.body_read = c.body_read /\ p.ran = c.ran /\ p.target = c.target
          /\ p.again = c.again /\ p.routed = c.routed /\ p.guarded = c.guarded
          /\ Len(p.wraps) >= Len(c.wraps)
      BY <2>2, <3>1, <3>2 DEF RequestRecord
    <3> QED BY <2>2, <2>3, <3>3
  <2>4. CASE m = "rewrite" /\ Rewritten[q.target] # q.target
    <3>1. p = [c EXCEPT !.wraps = Append(c.wraps, "rewrite"), !.target = Rewritten[c.target]]
      BY <1>1, <2>1, <2>2, <2>4 DEF Passed
    <3>2. /\ Append(c.wraps, "rewrite") \in Seq({"mime", "rewrite"})
          /\ Len(Append(c.wraps, "rewrite")) >= Len(c.wraps) /\ Rewritten[c.target] \in Target
      BY <2>2, ConstantsOK DEF RequestRecord
    <3>3. /\ p \in RequestRecord /\ p.pc = c.pc /\ p.info = c.info /\ p.entry = c.entry
          /\ p.next = c.next /\ p.asked = c.asked /\ p.types = c.types /\ p.ends = c.ends
          /\ p.body_read = c.body_read /\ p.ran = c.ran /\ p.target = Rewritten[c.target]
          /\ p.again = c.again /\ p.routed = c.routed /\ p.guarded = c.guarded
          /\ Len(p.wraps) >= Len(c.wraps)
      BY <2>2, <3>1, <3>2 DEF RequestRecord
    <3>4. p.pc = q.pc /\ p.target = Rewritten[q.target] /\ m = "rewrite"
      BY <2>2, <2>4, <3>3
    <3> QED BY <2>2, <3>3, <3>4
  <2>5. CASE m \in {"throws", "later"}
    <3>1. PICK w \in {"raised", "global_later", "local_later"} :
             /\ p = [c EXCEPT !.pc = w]
             /\ w = "global_later" => m = "later" /\ q.pc = "global"
             /\ w = "local_later" => m = "later" /\ q.pc = "local"
      BY <1>1, <2>1, <2>5 DEF Passed, At
    <3>2. w \in Place
      BY DEF Place, Front
    <3>3. /\ p \in RequestRecord /\ p.pc = w /\ p.info = c.info /\ p.entry = c.entry
          /\ p.next = c.next /\ p.asked = c.asked /\ p.types = c.types /\ p.ends = c.ends
          /\ p.body_read = c.body_read /\ p.ran = c.ran /\ p.target = c.target
          /\ p.again = c.again /\ p.routed = c.routed /\ p.guarded = c.guarded
          /\ p.wraps = c.wraps
      BY <2>2, <3>1, <3>2 DEF RequestRecord
    <3>4. /\ p.pc \in {q.pc, "raised", "global_later", "local_later"}
          /\ p.pc = "global_later" => m = "later" /\ q.pc = "global"
          /\ p.pc = "local_later" => m = "later" /\ q.pc = "local"
      BY <3>1, <3>3
    <3>5. p.target = IF m = "rewrite" THEN Rewritten[q.target] ELSE q.target
      BY <2>2, <2>5, <3>3
    <3>6. /\ p.info = q.info /\ p.entry = q.entry /\ p.next = q.next + 1
          /\ p.asked = q.asked /\ p.types = q.types /\ p.ends = q.ends
      BY <2>2, <3>3
    <3>7. p.body_read = q.body_read /\ p.ran = Append(q.ran, m)
      BY <2>2, <3>3
    <3>8. /\ p.again = q.again /\ p.routed = q.routed /\ p.guarded = q.guarded
          /\ p.wraps = q.wraps /\ Len(q.wraps) >= Len(q.wraps)
      BY <2>2, <3>3 DEF RequestRecord
    <3> QED BY <3>3, <3>4, <3>5, <3>6, <3>7, <3>8
  <2>6. CASE m \notin {"throws", "later"} /\ ~(m = "mime" /\ q.target \in Typed)
             /\ ~(m = "rewrite" /\ Rewritten[q.target] # q.target)
    <3>1. p = c
      BY <1>1, <2>1, <2>6 DEF Passed
    <3>2. Len(c.wraps) >= Len(q.wraps)
      BY <2>2 DEF RequestRecord
    <3> QED BY <2>2, <2>6, <3>1, <3>2
  <2> QED BY <2>3, <2>4, <2>5, <2>6
<1>3. AnswerInv(p) /\ Grows(p, q)
  <2>1. q.ends = 0 /\ q.types = 0 /\ (q.guarded => q.routed <= Len(q.wraps))
    BY DEF Good, AnswerInv, Settled, Front
  <2>2. PICK a, b, c : a = q.routed /\ b = Len(q.wraps) /\ c = Len(p.wraps)
                      /\ a \in Nat /\ b \in Nat /\ c \in Nat
    <3>1. q.wraps \in Seq({"mime", "rewrite"}) /\ p.wraps \in Seq({"mime", "rewrite"})
          /\ q.routed \in Nat
      BY <1>2 DEF RequestRecord
    <3>2. Len(q.wraps) \in Nat /\ Len(p.wraps) \in Nat
      BY <3>1
    <3> QED BY <3>1, <3>2
  <2>3. p.guarded => p.routed <= Len(p.wraps)
    BY <1>2, <2>1, <2>2
  <2>4. Settled(p)
    BY <1>2, <2>1, <2>3 DEF Settled
  <2> QED BY <1>2, <2>1, <2>4 DEF Good, AnswerInv, Grows, EndsMore, Front
<1>4. PICK g \in Seq(Middleware) :
         g = GlobalOf(q.info) /\ Len(g) = Len(q.info.middleware)
  BY GlobalOK DEF RequestRecord
<1>5. q.ran \in Seq(Middleware) /\ q.next \in Nat
  BY DEF RequestRecord
<1>6. /\ Len(p.ran) = Len(q.ran) + 1 /\ p.ran[Len(q.ran) + 1] = m
      /\ \A i \in 1 .. Len(q.ran) : p.ran[i] = q.ran[i]
  BY <1>2, <1>5
<1>7. CASE q.pc = "global"
  <2>1. /\ q.next \in 1 .. Len(g) /\ Len(q.ran) = q.next - 1 /\ m = g[q.next]
        /\ RanFirst(q.ran, g, q.next - 1) /\ q.entry = NoEntry
        /\ q.target = RewrittenTimes[Rewrites(q.ran)][q.asked]
    BY <1>1, <1>4, <1>7 DEF Good, GlobalInv, Chain, InfoOf
  <2>2. RanFirst(p.ran, g, q.next)
    <3> SUFFICES ASSUME NEW i \in 1 .. q.next PROVE p.ran[i] = g[i]
        BY DEF RanFirst
    <3>1. CASE i = q.next
      <4>1. i = Len(q.ran) + 1
        BY <1>5, <2>1, <3>1
      <4> QED BY <1>6, <2>1, <3>1, <4>1
    <3>2. CASE i # q.next
      <4>1. i \in 1 .. q.next - 1 /\ i \in 1 .. Len(q.ran)
        BY <1>5, <2>1, <3>2
      <4> QED BY <1>6, <2>1, <4>1 DEF RanFirst
    <3> QED BY <3>1, <3>2
  <2>3. p.target = RewrittenTimes[Rewrites(p.ran)][p.asked]
    <3>1. PICK n \in Nat : n = Rewrites(q.ran)
      BY <1>5, RewritesOK
    <3>2. Rewrites(p.ran) = IF m = "rewrite" THEN n + 1 ELSE n
      BY <1>2, <1>5, <3>1, RewritesOK
    <3>3. q.asked \in Target
      BY DEF RequestRecord
    <3>4. RewrittenTimes[n + 1][q.asked] = Rewritten[RewrittenTimes[n][q.asked]]
      BY <3>3, RewrittenTimesIs
    <3> QED BY <1>2, <2>1, <3>1, <3>2, <3>4
  <2>4. GlobalInv(p)
    <3>1. /\ p.pc # "new" /\ p.entry = NoEntry /\ GlobalOf(p.info) = g
          /\ RanFirst(p.ran, g, p.next - 1)
      BY <1>2, <1>4, <1>5, <1>7, <2>1, <2>2
    <3>2. p.next \in 1 .. Len(g) + 1 /\ Len(p.ran) = p.next - 1
      BY <1>2, <1>5, <1>6, <2>1
    <3> QED BY <2>3, <3>1, <3>2 DEF GlobalInv
  <2>5. LocalInv(p)
    BY <1>2, <1>7, <2>1 DEF LocalInv
  <2>6. m = "later" => GlobalLate
    <3>1. q.info \in Used
      BY DEF RequestRecord
    <3>2. q.next \in 1 .. Len(q.info.middleware)
      BY <1>4, <2>1
    <3>3. /\ GlobalOf(q.info)[q.next] = q.info.middleware[q.next].mw
          /\ q.info.middleware[q.next] \in UsedStep
      BY <3>1, <3>2, GlobalOK
    <3> QED BY <1>4, <2>1, <3>3 DEF GlobalLate
  <2>7. BodyInv(p)
    BY <1>2, <1>7, <2>6 DEF Good, BodyInv
  <2> QED BY <1>2, <1>3, <2>4, <2>5, <2>7 DEF Good
<1>8. CASE q.pc = "local"
  <2>1. m = q.entry.mws[q.next] /\ q.next <= Len(q.entry.mws)
    BY <1>1, <1>8 DEF Chain
  <2>2. PICK k \in Nat, y \in Nat : k = Len(g) /\ y = Len(q.entry.mws)
    <3>1. q.entry.mws \in Seq(Middleware)
      BY <1>8, ChainOK DEF Chain
    <3> QED BY <1>4, <3>1
  <2>3. /\ q.next = (Len(q.ran) - k) + 1 /\ Len(q.ran) - k \in 0 .. Len(q.entry.mws)
        /\ RanFirst(q.ran, g, k)
        /\ \A i \in 1 .. Len(q.ran) - k : q.ran[k + i] = q.entry.mws[i]
        /\ Matching(q.info, AfterRewrites(q.info, q.asked)) # {}
        /\ q.entry = q.info.routes[First(Matching(q.info, AfterRewrites(q.info, q.asked)))]
    BY <1>4, <1>8, <2>2 DEF Good, LocalInv
  <2>4. PICK l \in Nat : l = Len(q.ran) /\ k <= l
    BY <1>5, <2>3
  <2>5. RanFirst(p.ran, g, k)
    BY <1>6, <2>3, <2>4 DEF RanFirst
  <2>6. ASSUME NEW i \in 1 .. (l + 1) - k PROVE p.ran[k + i] = q.entry.mws[i]
    <3>1. CASE i = (l + 1) - k
      <4>1. k + i = l + 1 /\ i = q.next
        BY <2>3, <2>4, <3>1
      <4> QED BY <1>6, <2>1, <2>4, <4>1
    <3>2. CASE i # (l + 1) - k
      <4>1. i \in 1 .. l - k /\ k + i \in 1 .. l
        BY <2>4, <3>2
      <4> QED BY <1>6, <2>3, <2>4, <4>1
    <3> QED BY <3>1, <3>2
  <2>7. /\ Len(p.ran) = l + 1 /\ (l + 1) - k \in 0 .. Len(q.entry.mws)
        /\ p.next = ((l + 1) - k) + 1
    <3>1. q.next <= y /\ q.next = (l - k) + 1
      BY <2>1, <2>2, <2>3, <2>4
    <3>2. (l + 1) - k \in 0 .. y
      BY <2>4, <3>1
    <3>3. Len(p.ran) = l + 1
      BY <1>6, <2>4
    <3>4. p.next = ((l + 1) - k) + 1
      BY <1>2, <2>4, <3>1
    <3> QED BY <2>2, <3>2, <3>3, <3>4
  <2>8. LocalInv(p)
    <3>1. /\ GlobalOf(p.info) = g /\ p.entry = q.entry /\ p.info = q.info /\ p.asked = q.asked
      BY <1>2, <1>4
    <3> QED BY <2>2, <2>3, <2>5, <2>6, <2>7, <3>1 DEF LocalInv
  <2>9. GlobalInv(p)
    BY <1>2, <1>8 DEF GlobalInv
  <2>10. m = "later" => Late(q.entry)
    <3>1. q.next \in 1 .. Len(q.entry.mws)
      BY <2>1, <2>2, <2>3, <2>4
    <3> QED BY <2>1, <3>1 DEF Late
  <2>11. BodyInv(p)
    BY <1>2, <1>8, <2>10 DEF Good, BodyInv
  <2> QED BY <1>2, <1>3, <2>8, <2>9, <2>11 DEF Good
<1> QED BY <1>7, <1>8

(* A middleware goes on. *)
LEMMA ResumeGood ==
    ASSUME NEW q \in RequestRecord, Good(q), q.pc \in {"global_later", "local_later"}, NEW p,
           p = [q EXCEPT !.pc = IF @ = "global_later" THEN "global" ELSE "local",
                         !.guarded = FALSE, !.body_read = TRUE]
    PROVE  Good(p) /\ Grows(p, q)
<1>1. PICK w \in {"global", "local"} :
         w = IF q.pc = "global_later" THEN "global" ELSE "local"
  OBVIOUS
<1>2. p = [q EXCEPT !.pc = w, !.guarded = FALSE, !.body_read = TRUE]
  BY <1>1
<1>3. /\ p \in RequestRecord /\ p.pc = w /\ p.info = q.info /\ p.entry = q.entry
      /\ p.next = q.next /\ p.asked = q.asked /\ p.target = q.target /\ p.types = q.types
      /\ p.ends = q.ends /\ p.ran = q.ran /\ p.again = q.again /\ ~p.guarded
  BY <1>2 DEF RequestRecord, Place, Front
<1>4. AnswerInv(p) /\ Grows(p, q)
  BY <1>1, <1>3 DEF Good, AnswerInv, Settled, Grows, EndsMore, Front
<1>5. BodyInv(p)
  BY <1>1, <1>3 DEF Good, BodyInv
<1>6. GlobalInv(p)
  BY <1>1, <1>3 DEF Good, GlobalInv
<1>7. LocalInv(p)
  BY <1>1, <1>3 DEF Good, LocalInv
<1> QED BY <1>3, <1>4, <1>5, <1>6, <1>7 DEF Good

(* The route that is found is the one the definition gives. *)
LEMMA RoutedGood ==
    ASSUME NEW q \in RequestRecord, Good(q), q.pc = "global", q.next > Len(Chain(q)),
           Matching(q.info, q.target) # {}, NEW p,
           p = [q EXCEPT !.pc = "local", !.next = 1,
                         !.entry = q.info.routes[First(Matching(q.info, q.target))],
                         !.routed = Len(q.wraps), !.guarded = TRUE]
    PROVE  Good(p) /\ Grows(p, q)
<1>1. PICK e \in UsedEntry : e = q.info.routes[First(Matching(q.info, q.target))]
  BY FirstFound DEF RequestRecord
<1>2. PICK l \in Nat : l = Len(q.wraps)
  BY DEF RequestRecord
<1>3. /\ p \in RequestRecord /\ p.pc = "local" /\ p.next = 1 /\ p.entry = e
      /\ p.info = q.info /\ p.asked = q.asked /\ p.types = q.types /\ p.ends = q.ends
      /\ p.body_read = q.body_read /\ p.ran = q.ran /\ p.again = q.again
      /\ p.routed = l /\ Len(p.wraps) = l
  BY <1>1, <1>2 DEF RequestRecord, Place, Front
<1>4. AnswerInv(p) /\ Grows(p, q) /\ BodyInv(p) /\ GlobalInv(p)
  <2>1. Settled(p)
    BY <1>3 DEF Good, AnswerInv, Settled, Front
  <2> QED BY <1>3, <2>1 DEF Good, AnswerInv, Grows, EndsMore, BodyInv, GlobalInv, Front
<1>5. PICK g \in Seq(Middleware) : g = GlobalOf(q.info)
  BY GlobalOK DEF RequestRecord
<1>6. PICK k \in Nat : k = Len(g)
  OBVIOUS
<1>7. PICK ran \in Seq(Middleware) : ran = q.ran
  BY DEF RequestRecord
<1>8. ran = g
  <2>1. /\ q.next \in 1 .. k + 1 /\ Len(ran) = q.next - 1
        /\ RanFirst(ran, g, q.next - 1) /\ q.next > k
    BY <1>5, <1>6, <1>7 DEF Good, GlobalInv, Chain, InfoOf
  <2>2. q.next = k + 1 /\ q.next - 1 = k
    BY <2>1
  <2>3. Len(ran) = Len(g) /\ \A i \in 1 .. Len(g) : ran[i] = g[i]
    BY <1>6, <2>1, <2>2 DEF RanFirst
  <2> QED BY <2>3
<1>9. q.target = AfterRewrites(q.info, q.asked)
  BY <1>5, <1>7, <1>8 DEF Good, GlobalInv, AfterRewrites
<1>10. PICK y \in Nat : y = Len(e.mws)
  <2>1. e.mws \in Seq(Middleware)
    BY <1>1, UsedOK DEF Entry
  <2> QED BY <2>1
<1>11. LocalInv(p)
  <2>0. p.ran = g /\ g \in Seq(Middleware) /\ k \in Nat /\ k = Len(g)
    BY <1>3, <1>6, <1>7, <1>8
  <2>1. Len(p.ran) - Len(g) = 0
    BY <2>0
  <2>2. RanFirst(p.ran, g, Len(g))
    BY <1>3, <1>7, <1>8 DEF RanFirst
  <2>3. /\ Matching(p.info, AfterRewrites(p.info, p.asked)) # {}
        /\ p.entry = p.info.routes[First(Matching(p.info, AfterRewrites(p.info, p.asked)))]
    BY <1>1, <1>3, <1>9
  <2>4. 0 \in 0 .. Len(p.entry.mws)
    BY <1>3, <1>10
  <2>5. GlobalOf(p.info) = g
    BY <1>3, <1>5
  <2>6. PICK n \in Nat : n = 0
    OBVIOUS
  <2>7. /\ n \in 0 .. Len(p.entry.mws) /\ p.next = n + 1 /\ 1 .. n = {}
        /\ Len(p.ran) - Len(GlobalOf(p.info)) = n
    <3>1. n \in 0 .. Len(p.entry.mws)
      BY <2>4, <2>6
    <3>2. n + 1 = 1 /\ 1 .. n = {}
      BY <2>6
    <3>3. p.next = n + 1
      BY <1>3, <3>2, Zenon
    <3>4. Len(p.ran) - Len(GlobalOf(p.info)) = n
      BY <2>1, <2>5, <2>6, Zenon
    <3> QED BY <3>1, <3>2, <3>3, <3>4
  <2>8. RanFirst(p.ran, GlobalOf(p.info), Len(GlobalOf(p.info)))
    BY <2>2, <2>5
  <2> QED BY <2>3, <2>7, <2>8 DEF LocalInv
<1> QED BY <1>3, <1>4, <1>11 DEF Good

(* Answering: what is left of the invariant once the chains are left. *)
Answers(p, q) ==
    /\ p \in RequestRecord /\ Leaves(p, q) /\ Settled(p)
    /\ Grows(p, q)
    /\ p.pc = "skipping" =>
          /\ p.entry \in UsedEntry /\ p.entry.handler = "files"
          /\ p.body_read => GlobalLate \/ Late(p.entry)

LEMMA AnswersGood ==
    ASSUME NEW q \in RequestRecord, Good(q), NEW p, Answers(p, q)
    PROVE  Good(p) /\ Grows(p, q)
<1>1. GlobalInv(p) /\ LocalInv(p)
  BY LeavesGood DEF Answers
<1>2. AnswerInv(p)
  BY DEF Answers, AnswerInv, Leaves
<1>3. BodyInv(p)
  BY DEF Answers, BodyInv, Leaves, Front
<1> QED BY <1>1, <1>2, <1>3 DEF Good, Answers

LEMMA StatusOK ==
    ASSUME NEW q \in RequestRecord, NEW s \in Nat
    PROVE  /\ WithStatus(q, s) \in RequestRecord /\ SamePlace(WithStatus(q, s), q)
           /\ WithStatus(q, s).types = q.types /\ WithStatus(q, s).ends = q.ends
           /\ WithStatus(q, s).again = q.again /\ WithStatus(q, s).typed = q.typed
BY DEF WithStatus, RequestRecord, SamePlace

LEMMA AtOK ==
    ASSUME NEW q \in RequestRecord, NEW w \in Place
    PROVE  /\ At(q, w) \in RequestRecord /\ At(q, w).pc = w
           /\ At(q, w).info = q.info /\ At(q, w).entry = q.entry /\ At(q, w).asked = q.asked
           /\ At(q, w).ran = q.ran /\ At(q, w).body_read = q.body_read
           /\ At(q, w).types = q.types /\ At(q, w).ends = q.ends
           /\ At(q, w).again = q.again /\ At(q, w).typed = q.typed
           /\ At(q, w).wraps = q.wraps /\ At(q, w).routed = q.routed
           /\ At(q, w).guarded = q.guarded
BY DEF At, RequestRecord

LEMMA UnguardedOK ==
    ASSUME NEW q \in RequestRecord, NEW p, p = [q EXCEPT !.guarded = FALSE]
    PROVE  /\ p \in RequestRecord /\ p.pc = q.pc /\ ~p.guarded
           /\ p.info = q.info /\ p.entry = q.entry /\ p.asked = q.asked
           /\ p.ran = q.ran /\ p.body_read = q.body_read
           /\ p.types = q.types /\ p.ends = q.ends
           /\ p.again = q.again /\ p.typed = q.typed
           /\ p.wraps = q.wraps /\ p.routed = q.routed
BY DEF RequestRecord

(* What becomes of the response in a step. *)
Ends(e, q) == e \in RequestRecord /\ SamePlace(e, q) /\ Settled(e) /\ EndsMore(e, q)

LEMMA EndsLeaves ==
    ASSUME NEW q \in RequestRecord, q.pc # "new", NEW e, Ends(e, q),
           NEW w \in {"over", "raised", "not_found", "lost"}
    PROVE  Answers(At(e, w), q)
<1>1. w \in Place /\ w \notin Front
  BY DEF Place, Front
<1>2. PICK p : p = At(e, w)
  OBVIOUS
<1>3. /\ p \in RequestRecord /\ p.pc = w /\ p.info = e.info /\ p.entry = e.entry
      /\ p.asked = e.asked /\ p.ran = e.ran /\ p.types = e.types /\ p.ends = e.ends
      /\ p.again = e.again /\ p.typed = e.typed /\ p.wraps = e.wraps
      /\ p.routed = e.routed /\ p.guarded = e.guarded
  BY <1>1, <1>2, AtOK DEF Ends
<1>4. Leaves(p, q)
  BY <1>1, <1>3 DEF Leaves, Ends, SamePlace
<1>5. Grows(p, q)
  BY <1>1, <1>3 DEF Ends, Grows, EndsMore, SamePlace, Front
<1>6. Settled(p)
  BY <1>3, SettledBy DEF Ends
<1>7. Answers(p, q)
  BY <1>3, <1>4, <1>5, <1>6 DEF Answers, Ends
<1> QED BY <1>2, <1>7

LEMMA StatusEnds ==
    ASSUME NEW q \in RequestRecord, Settled(q), NEW s \in Nat
    PROVE  Ends(q, q) /\ Ends(WithStatus(q, s), q)
<1>1. PICK c : c = WithStatus(q, s)
  OBVIOUS
<1>2. /\ c \in RequestRecord /\ SamePlace(c, q) /\ c.types = q.types /\ c.ends = q.ends
      /\ c.again = q.again /\ c.typed = q.typed
  BY <1>1, StatusOK
<1>3. Settled(c)
  BY <1>2, SettledBy DEF SamePlace
<1>4. Ends(q, q) /\ Ends(c, q)
  BY <1>2, <1>3 DEF Ends, EndsMore, SamePlace
<1> QED BY <1>1, <1>4

(* Where the exceptions of a request are answered. *)
Level(q) == IF q.guarded THEN q.routed ELSE 0

(* A response that is ended, through all the wrappers that may still be    *)
(* gone through, has its one type: it is settled, and ended again it has   *)
(* the same one.                                                           *)
LEMMA EndedSettled ==
    ASSUME NEW c \in RequestRecord, Settled(c), NEW level \in Nat, Level(c) <= level,
           c.ends = 0 \/ level = Level(c)
    PROVE  /\ Ended(c, level) \in RequestRecord /\ SamePlace(Ended(c, level), c)
           /\ Settled(Ended(c, level))
           /\ Ended(c, level).ends = c.ends + 1 /\ Ended(c, level).again = c.again
<1>1. PICK e : e = Ended(c, level)
  OBVIOUS
<1>2. /\ e \in RequestRecord /\ SamePlace(e, c)
      /\ e.ends = c.ends + 1 /\ e.again = c.again
      /\ e.types = IF AddsType(c, level) THEN c.types + 1 ELSE c.types
      /\ ~AddsType(e, level)
  BY <1>1, EndedOK
<1>3. c.ends \in Nat /\ c.types \in Nat /\ c.routed \in Nat /\ c.guarded \in BOOLEAN
  BY DEF RequestRecord
<1>4. e.types <= 1
  <2>1. CASE c.ends = 0
    BY <1>2, <1>3, <2>1 DEF Settled
  <2>2. CASE c.ends # 0
    <3>1. level = Level(c)
      BY <2>2
    <3>2. ~AddsType(c, level)
      <4>1. CASE c.guarded
        BY <1>3, <2>2, <3>1, <4>1 DEF Settled, Level
      <4>2. CASE ~c.guarded
        BY <3>1, <4>2 DEF AddsType, Level
      <4> QED BY <4>1, <4>2
    <3> QED BY <1>2, <3>2 DEF Settled
  <2> QED BY <2>1, <2>2
<1>5. e.guarded = c.guarded /\ e.routed = c.routed /\ e.wraps = c.wraps
  BY <1>2 DEF SamePlace
<1>6. e.guarded => ~AddsType(e, e.routed)
  <2> SUFFICES ASSUME e.guarded PROVE ~AddsType(e, e.routed)
      OBVIOUS
  <2>1. c.routed <= level
    BY <1>5 DEF Level
  <2> QED BY <1>2, <1>3, <1>5, <2>1, NoTypeBelow
<1>7. e.guarded => e.routed <= Len(e.wraps)
  BY <1>5 DEF Settled
<1>8. e.ends # 0
  BY <1>2, <1>3
<1>9. Settled(e)
  BY <1>4, <1>6, <1>7, <1>8 DEF Settled
<1> QED BY <1>1, <1>2, <1>9

LEMMA EndedEnds ==
    ASSUME NEW q \in RequestRecord, Settled(q), q.ends = 0, NEW s \in Nat,
           NEW level \in Nat, Level(q) <= level
    PROVE  Ends(Ended(WithStatus(q, s), level), q)
<1>1. PICK c : c = WithStatus(q, s)
  OBVIOUS
<1>2. /\ c \in RequestRecord /\ SamePlace(c, q) /\ Settled(c) /\ c.ends = 0
      /\ c.again = q.again /\ Level(c) = Level(q)
  <2>1. c \in RequestRecord /\ SamePlace(c, q) /\ Settled(c)
    BY <1>1, StatusEnds DEF Ends
  <2>2. c.ends = q.ends /\ c.again = q.again
    BY <1>1, StatusOK
  <2> QED BY <2>1, <2>2 DEF Level, SamePlace
<1>3. PICK e : e = Ended(c, level)
  OBVIOUS
<1>4. /\ e \in RequestRecord /\ SamePlace(e, c) /\ Settled(e)
      /\ e.ends = c.ends + 1 /\ e.again = c.again
  BY <1>2, <1>3, EndedSettled
<1>5. Ends(e, q)
  BY <1>2, <1>4 DEF Ends, EndsMore, SamePlace
<1> QED BY <1>1, <1>3, <1>5

(* What the application's handlers, or the status alone, make of it. *)
LEMMA RepliesEnd ==
    ASSUME NEW q \in RequestRecord, Settled(q), NEW s \in Nat, NEW asked \in BOOLEAN,
           NEW level \in Nat, Level(q) <= level, q.ends = 0 \/ level = Level(q),
           NEW p \in Replies(q, s, asked, level)
    PROVE  Ends(p, q) /\ (p.ends = 0 => q.ends = 0 /\ p = WithStatus(q, s))
<1>1. PICK c : c = WithStatus(q, s)
  OBVIOUS
<1>2. /\ c \in RequestRecord /\ SamePlace(c, q) /\ Settled(c) /\ c.ends = q.ends
      /\ c.again = q.again /\ Level(c) = Level(q) /\ Ends(c, q)
  <2>1. c \in RequestRecord /\ SamePlace(c, q) /\ Settled(c) /\ Ends(c, q)
    BY <1>1, StatusEnds DEF Ends
  <2>2. c.ends = q.ends /\ c.again = q.again
    BY <1>1, StatusOK
  <2> QED BY <2>1, <2>2 DEF Level, SamePlace
<1>3. PICK e : e = Ended(c, level)
  OBVIOUS
<1>4. /\ e \in RequestRecord /\ SamePlace(e, c) /\ Settled(e)
      /\ e.ends = c.ends + 1 /\ e.again = c.again
  BY <1>2, <1>3, EndedSettled
<1>5. q.ends \in Nat /\ q.again \in Nat
  BY DEF RequestRecord
<1>6. CASE p = c
  BY <1>1, <1>2, <1>6
<1>7. CASE q.ends = 0 /\ p = e
  <2>1. Ends(e, q)
    BY <1>2, <1>4, <1>7 DEF Ends, EndsMore, SamePlace
  <2>2. e.ends # 0
    BY <1>2, <1>4, <1>5
  <2> QED BY <1>7, <2>1, <2>2
<1>8. CASE q.ends # 0 /\ p = [e EXCEPT !.again = e.again + 1]
  <2>1. e.again + 1 \in Nat
    BY <1>2, <1>4, <1>5
  <2>2. /\ p \in RequestRecord /\ SamePlace(p, e) /\ p.types = e.types /\ p.typed = e.typed
        /\ p.ends = e.ends /\ p.again = e.again + 1
    BY <1>4, <1>8, <2>1 DEF RequestRecord, SamePlace
  <2>3. Settled(p)
    BY <1>4, <2>2, SettledBy DEF SamePlace
  <2>4. p.ends = q.ends + 1 /\ p.again = q.again + 1 /\ p.ends # 0
    BY <1>2, <1>4, <1>5, <2>2
  <2>5. SamePlace(p, q)
    BY <1>2, <1>4, <2>2 DEF SamePlace
  <2>6. Ends(p, q)
    BY <2>2, <2>3, <2>4, <2>5 DEF Ends, EndsMore
  <2> QED BY <2>4, <2>6
<1> QED BY <1>1, <1>3, <1>6, <1>7, <1>8 DEF Replies

LEMMA BreaksEnd ==
    ASSUME NEW q \in RequestRecord, Settled(q), NEW s \in Nat, NEW asked \in BOOLEAN,
           NEW level \in Nat, Level(q) <= level, q.ends = 0 \/ level = Level(q),
           NEW p \in Breaks(q, s, asked, level)
    PROVE  Ends(p, q)
<1>1. CASE p = WithStatus(q, s)
  BY <1>1, StatusEnds
<1>2. CASE p \in Replies(q, s, asked, level)
  BY <1>2, RepliesEnd
<1> QED BY <1>1, <1>2 DEF Breaks

LEMMA RefusedGood ==
    ASSUME NEW q \in RequestRecord, Good(q), q.pc = "global",
           NEW s \in Nat, NEW asked \in BOOLEAN, NEW e,
           \/ e \in Replies(q, s, asked, Len(q.wraps))
           \/ e \in Breaks(q, s, asked, Len(q.wraps)),
           NEW w \in {"over", "raised"}
    PROVE  Good(At(e, w)) /\ Grows(At(e, w), q)
<1>1. Settled(q) /\ q.ends = 0
  BY DEF Good, AnswerInv, Front
<1>2. PICK l \in Nat : l = Len(q.wraps)
  BY DEF RequestRecord
<1>3. Level(q) <= l
  BY <1>1, <1>2 DEF Level, Settled
<1>4. Ends(e, q)
  BY <1>1, <1>2, <1>3, RepliesEnd, BreaksEnd
<1>5. Answers(At(e, w), q)
  BY <1>4, EndsLeaves
<1> QED BY <1>5, AnswersGood

(* What the route's handler makes of a request. *)
Handled(p, q) ==
    LET h == q.entry.handler
        level == Len(q.wraps)
        ok == WithStatus(q, 200)
    IN  \/ h = "ends" /\ p = At(Ended(ok, level), "over")
        \/ h = "typed" /\ p = At(Ended(SetType(ok, level), level), "over")
        \/ h = "throws" /\ p = At(q, "raised")
        \/ h = "ends_throws" /\ p = At(Ended(ok, level), "raised")
        \/ h = "files" /\ p = At(q, "skipping")

LEMMA HandledGood ==
    ASSUME NEW q \in RequestRecord, Good(q), q.pc = "local", NEW p, Handled(p, q)
    PROVE  Good(p) /\ Grows(p, q)
<1>1. Settled(q) /\ q.ends = 0 /\ q.types = 0
  BY DEF Good, AnswerInv, Settled, Front
<1>2. PICK l \in Nat : l = Len(q.wraps)
  BY DEF RequestRecord
<1>10. Level(q) <= l
  BY <1>1, <1>2 DEF Level, Settled
<1>3. Ends(q, q) /\ Ends(Ended(WithStatus(q, 200), l), q)
  BY <1>1, <1>10, EndedEnds, StatusEnds
<1>4. Ends(Ended(SetType(WithStatus(q, 200), l), l), q)
  <2>1. PICK c : c = WithStatus(q, 200)
    OBVIOUS
  <2>2. /\ c \in RequestRecord /\ SamePlace(c, q) /\ c.types = 0 /\ c.ends = 0
        /\ c.again = q.again
    BY <1>1, <2>1, StatusOK
  <2>3. PICK d : d = SetType(c, l)
    OBVIOUS
  <2>4. /\ d \in RequestRecord /\ SamePlace(d, c) /\ d.types = c.types + 1
        /\ d.ends = c.ends /\ d.again = c.again /\ ~AddsType(d, l)
    BY <2>2, <2>3, SetTypeOK
  <2>5. d.types = 1 /\ d.ends = 0
    BY <2>2, <2>4
  <2>6. PICK e : e = Ended(d, l)
    OBVIOUS
  <2>7. /\ e \in RequestRecord /\ SamePlace(e, d) /\ e.ends = d.ends + 1
        /\ e.types = d.types /\ e.again = d.again /\ ~AddsType(e, l)
    BY <2>4, <2>6, EndedOK
  <2>8. e.ends = 1 /\ e.types = 1 /\ e.again = q.again
    BY <2>2, <2>4, <2>5, <2>7
  <2>9. SamePlace(e, q)
    BY <2>2, <2>4, <2>7 DEF SamePlace
  <2>10. e.guarded => e.routed <= l /\ e.routed \in Nat /\ e.wraps = q.wraps
    BY <1>1, <1>2, <2>9 DEF Settled, SamePlace, RequestRecord
  <2>11. e.guarded => ~AddsType(e, e.routed)
    BY <2>7, <2>10, NoTypeBelow
  <2>12. Settled(e)
    BY <1>2, <2>8, <2>10, <2>11 DEF Settled
  <2>13. Ends(e, q)
    BY <1>1, <2>7, <2>8, <2>9, <2>12 DEF Ends, EndsMore
  <2> QED BY <2>1, <2>3, <2>6, <2>13
<1>5. CASE q.entry.handler = "ends"
  <2>1. p = At(Ended(WithStatus(q, 200), l), "over")
    BY <1>2, <1>5 DEF Handled
  <2> QED BY <1>3, <2>1, EndsLeaves, AnswersGood
<1>6. CASE q.entry.handler = "typed"
  <2>1. p = At(Ended(SetType(WithStatus(q, 200), l), l), "over")
    BY <1>2, <1>6 DEF Handled
  <2> QED BY <1>4, <2>1, EndsLeaves, AnswersGood
<1>7. CASE q.entry.handler = "throws"
  <2>1. p = At(q, "raised")
    BY <1>7 DEF Handled
  <2> QED BY <1>3, <2>1, EndsLeaves, AnswersGood
<1>8. CASE q.entry.handler = "ends_throws"
  <2>1. p = At(Ended(WithStatus(q, 200), l), "raised")
    BY <1>2, <1>8 DEF Handled
  <2> QED BY <1>3, <2>1, EndsLeaves, AnswersGood
<1>9. CASE q.entry.handler = "files"
  <2>1. p = At(q, "skipping") /\ "skipping" \in Place /\ "skipping" \notin Front
    BY <1>9 DEF Handled, Place, Front
  <2>2. /\ p \in RequestRecord /\ p.pc = "skipping" /\ p.info = q.info
        /\ p.entry = q.entry /\ p.asked = q.asked /\ p.ran = q.ran
        /\ p.body_read = q.body_read /\ p.types = q.types /\ p.ends = q.ends
        /\ p.again = q.again /\ p.typed = q.typed /\ p.wraps = q.wraps
        /\ p.routed = q.routed /\ p.guarded = q.guarded
    BY <2>1, AtOK
  <2>3. q.entry \in UsedEntry /\ (q.body_read => GlobalLate \/ Late(q.entry))
    BY DEF Good, BodyInv
  <2>4. Leaves(p, q) /\ Grows(p, q) /\ Settled(p)
    BY <1>1, <2>1, <2>2, SettledBy DEF Leaves, Grows, EndsMore
  <2>5. Answers(p, q)
    BY <1>1, <1>9, <2>2, <2>3, <2>4 DEF Answers
  <2> QED BY <2>5, AnswersGood
<1> QED BY <1>5, <1>6, <1>7, <1>8, <1>9 DEF Handled

FileAnswered(p, q) ==
    LET bare == [q EXCEPT !.guarded = FALSE]
    IN  \/ p = [Ended(WithStatus(bare, 200), 0) EXCEPT
                   !.pc = IF q.body_read THEN "skipping" ELSE "over", !.body_read = FALSE]
        \/ p = At(bare, "not_found")

(* A file is sent on the bare connection, with no type. *)
LEMMA FileGood ==
    ASSUME NEW q \in RequestRecord, Good(q), q.pc = "skipping", NEW p, FileAnswered(p, q)
    PROVE  Good(p) /\ Grows(p, q)
<1>0. PICK bare : bare = [q EXCEPT !.guarded = FALSE]
  OBVIOUS
<1>1. Settled(q) /\ q.entry \in UsedEntry /\ q.entry.handler = "files" /\ q.ends \in Nat
  BY DEF Good, AnswerInv, BodyInv, RequestRecord
<1>2. /\ bare \in RequestRecord /\ bare.pc = q.pc /\ ~bare.guarded /\ bare.info = q.info
      /\ bare.entry = q.entry /\ bare.asked = q.asked /\ bare.ran = q.ran
      /\ bare.types = q.types /\ bare.ends = q.ends /\ bare.again = q.again
      /\ bare.typed = q.typed /\ bare.wraps = q.wraps /\ bare.routed = q.routed
  BY <1>0, UnguardedOK
<1>3. Settled(bare)
  BY <1>1, <1>2, SettledBy
<1>4. CASE p = At(bare, "not_found")
  <2>1. Ends(bare, bare)
    BY <1>2, <1>3, StatusEnds
  <2>2. Answers(p, bare)
    BY <1>2, <1>4, <2>1, EndsLeaves
  <2>3. Answers(p, q)
    <3>1. Leaves(p, q) /\ p.pc = "not_found"
      <4>1. "not_found" \in Place
        BY DEF Place
      <4>2. p.pc = "not_found"
        BY <1>2, <1>4, <4>1, AtOK
      <4> QED BY <1>2, <2>2, <4>2 DEF Answers, Leaves
    <3>2. Grows(p, q)
      BY <1>2, <2>2, <3>1 DEF Answers, Grows, EndsMore
    <3> QED BY <2>2, <3>1, <3>2 DEF Answers
  <2> QED BY <2>3, AnswersGood
<1>5. CASE p = [Ended(WithStatus(bare, 200), 0) EXCEPT
                   !.pc = IF q.body_read THEN "skipping" ELSE "over", !.body_read = FALSE]
  <2>1. PICK c : c = WithStatus(bare, 200)
    OBVIOUS
  <2>2. /\ c \in RequestRecord /\ SamePlace(c, bare) /\ Settled(c) /\ c.ends = q.ends
        /\ c.again = q.again
    <3>1. c \in RequestRecord /\ SamePlace(c, bare) /\ Settled(c)
      BY <1>2, <1>3, <2>1, StatusEnds DEF Ends
    <3>2. c.ends = bare.ends /\ c.again = bare.again
      BY <1>2, <2>1, StatusOK
    <3> QED BY <1>2, <3>1, <3>2
  <2>3. PICK e : e = Ended(c, 0)
    OBVIOUS
  <2>4. /\ e \in RequestRecord /\ SamePlace(e, c) /\ Settled(e)
        /\ e.ends = q.ends + 1 /\ e.again = q.again
    <3>1. Level(c) = 0
      BY <1>2, <2>2 DEF Level, SamePlace
    <3>2. /\ e \in RequestRecord /\ SamePlace(e, c) /\ Settled(e)
          /\ e.ends = c.ends + 1 /\ e.again = c.again
      BY <2>2, <2>3, <3>1, EndedSettled
    <3> QED BY <2>2, <3>2
  <2>5. PICK w \in {"skipping", "over"} : w = IF q.body_read THEN "skipping" ELSE "over"
    OBVIOUS
  <2>6. p = [e EXCEPT !.pc = w, !.body_read = FALSE]
    BY <1>5, <2>1, <2>3, <2>5
  <2>7. w \in Place /\ w \notin Front
    BY DEF Place, Front
  <2>8. /\ p \in RequestRecord /\ p.pc = w /\ p.info = e.info /\ p.entry = e.entry
        /\ p.asked = e.asked /\ p.ran = e.ran /\ p.body_read = FALSE
        /\ p.types = e.types /\ p.ends = e.ends /\ p.again = e.again
        /\ p.typed = e.typed /\ p.wraps = e.wraps /\ p.routed = e.routed
        /\ p.guarded = e.guarded
    BY <2>4, <2>6, <2>7 DEF RequestRecord
  <2>9. p.info = q.info /\ p.entry = q.entry /\ p.asked = q.asked /\ p.ran = q.ran
    BY <1>2, <2>2, <2>4, <2>8 DEF SamePlace
  <2>10. Settled(p)
    BY <2>4, <2>8, SettledBy
  <2>11. Leaves(p, q)
    BY <2>7, <2>8, <2>9 DEF Leaves
  <2>12. Grows(p, q)
    BY <2>4, <2>5, <2>8, <2>9 DEF Grows, EndsMore
  <2>13. Answers(p, q)
    BY <1>1, <2>8, <2>9, <2>10, <2>11, <2>12 DEF Answers
  <2> QED BY <2>13, AnswersGood
<1> QED BY <1>0, <1>4, <1>5 DEF FileAnswered

(* handle_exception *)
LEMMA ErrorGood ==
    ASSUME NEW q \in RequestRecord, Good(q), q.pc \in {"raised", "not_found"},
           NEW s \in Nat, NEW asked \in BOOLEAN,
           NEW e \in Replies(q, s, asked, Level(q)), NEW p,
           p = At(FinishError(e, Level(q)), "over")
    PROVE  Good(p) /\ Grows(p, q)
<1>1. Settled(q) /\ Level(q) \in Nat /\ Level(q) <= Level(q)
  BY DEF Good, AnswerInv, Level, RequestRecord
<1>2. Ends(e, q) /\ (e.ends = 0 => q.ends = 0 /\ e = WithStatus(q, s))
  BY <1>1, RepliesEnd
<1>3. e.ends \in Nat
  BY <1>2 DEF Ends, RequestRecord
<1>4. CASE e.ends = 0
  <2>1. Ends(Ended(WithStatus(q, s), Level(q)), q)
    BY <1>1, <1>2, <1>4, EndedEnds
  <2>2. p = At(Ended(WithStatus(q, s), Level(q)), "over")
    BY <1>2, <1>4 DEF FinishError, IsFinished
  <2> QED BY <2>1, <2>2, EndsLeaves, AnswersGood
<1>5. CASE e.ends # 0
  <2>1. p = At(e, "over")
    BY <1>3, <1>5 DEF FinishError, IsFinished
  <2> QED BY <1>2, <2>1, EndsLeaves, AnswersGood
<1> QED BY <1>4, <1>5

Thrown(p, e, q) ==
    p = IF q.guarded THEN [At(e, "raised") EXCEPT !.guarded = FALSE] ELSE At(e, "lost")

LEMMA ThrownGood ==
    ASSUME NEW q \in RequestRecord, Good(q), q.pc \in {"raised", "not_found"},
           NEW s \in Nat, NEW asked \in BOOLEAN,
           NEW e \in Breaks(q, s, asked, Level(q)), NEW p, Thrown(p, e, q)
    PROVE  Good(p) /\ Grows(p, q)
<1>1. Settled(q) /\ Level(q) \in Nat /\ Level(q) <= Level(q)
  BY DEF Good, AnswerInv, Level, RequestRecord
<1>2. Ends(e, q)
  BY <1>1, BreaksEnd
<1>3. CASE p = At(e, "lost")
  BY <1>2, <1>3, EndsLeaves, AnswersGood
<1>4. CASE p = [At(e, "raised") EXCEPT !.guarded = FALSE]
  <2>1. PICK a : a = At(e, "raised")
    OBVIOUS
  <2>2. Answers(a, q) /\ a.pc = "raised"
    <3>1. "raised" \in Place
      BY DEF Place
    <3> QED BY <1>2, <2>1, <3>1, EndsLeaves, AtOK DEF Ends
  <2>3. /\ p \in RequestRecord /\ p.pc = "raised" /\ ~p.guarded
        /\ p.info = a.info /\ p.entry = a.entry /\ p.asked = a.asked
        /\ p.ran = a.ran /\ p.types = a.types /\ p.ends = a.ends
        /\ p.again = a.again /\ p.typed = a.typed /\ p.wraps = a.wraps
        /\ p.routed = a.routed
    BY <1>4, <2>1, <2>2, UnguardedOK DEF Answers
  <2>4. Settled(p)
    BY <2>2, <2>3, SettledBy DEF Answers
  <2>5. Leaves(p, q)
    BY <2>2, <2>3 DEF Answers, Leaves
  <2>6. Grows(p, q)
    BY <2>2, <2>3 DEF Answers, Grows, EndsMore
  <2>7. Answers(p, q)
    BY <2>3, <2>4, <2>5, <2>6 DEF Answers
  <2> QED BY <2>7, AnswersGood
<1> QED BY <1>3, <1>4 DEF Thrown

-----------------------------------------------------------------------------
(* Every request, through every step. *)

LEMMA StepGood ==
    ASSUME NEW r \in Request, NEW q \in RequestRecord, q = req[r], Good(q),
           routing \in Used, OnRequest(r) \/ RequestStep(r)
    PROVE  \E p : req' = [req EXCEPT ![r] = p] /\ Good(p) /\ Grows(p, q)
<1>1. CASE OnRequest(r)
  <2>1. PICK p : p = [q EXCEPT !.pc = "global", !.info = routing]
    OBVIOUS
  <2>2. q.pc = "new" /\ req' = [req EXCEPT ![r] = p]
    BY <1>1, <2>1 DEF OnRequest, Becomes
  <2> QED BY <2>1, <2>2, ArrivalGood
<1>2. CASE MiddlewareStep(r)
  <2>1. PICK p : p = Passed(q, Chain(q)[q.next])
    OBVIOUS
  <2>2. /\ q.pc \in {"global", "local"} /\ q.next <= Len(Chain(q))
        /\ req' = [req EXCEPT ![r] = p]
    BY <1>2, <2>1 DEF MiddlewareStep, Becomes
  <2> QED BY <2>1, <2>2, PassedGood
<1>3. CASE Resume(r)
  <2>1. PICK p : p = [q EXCEPT !.pc = IF @ = "global_later" THEN "global" ELSE "local",
                               !.guarded = FALSE, !.body_read = TRUE]
    OBVIOUS
  <2>2. q.pc \in {"global_later", "local_later"} /\ req' = [req EXCEPT ![r] = p]
    BY <1>3, <2>1 DEF Resume, Becomes
  <2> QED BY <2>1, <2>2, ResumeGood
<1>4. CASE DoRouting(r)
  <2>1. q.pc = "global" /\ q.next > Len(Chain(q))
    BY <1>4 DEF DoRouting, ChainDone
  <2>2. q.info.notfound \in BOOLEAN /\ q.info.error \in BOOLEAN
    BY DEF RequestRecord, Used
  <2>3. ASSUME NEW s \in Nat, NEW asked \in BOOLEAN, Refuse(r, s, asked)
        PROVE  \E p : req' = [req EXCEPT ![r] = p] /\ Good(p) /\ Grows(p, q)
    <3>1. CASE \E e \in Replies(q, s, asked, Len(q.wraps)) : Becomes(r, At(e, "over"))
      <4>1. PICK e \in Replies(q, s, asked, Len(q.wraps)) : req' = [req EXCEPT ![r] = At(e, "over")]
        BY <3>1 DEF Becomes
      <4> QED BY <2>1, <4>1, RefusedGood
    <3>2. CASE \E e \in Breaks(q, s, asked, Len(q.wraps)) : Becomes(r, At(e, "raised"))
      <4>1. PICK e \in Breaks(q, s, asked, Len(q.wraps)) : req' = [req EXCEPT ![r] = At(e, "raised")]
        BY <3>2 DEF Becomes
      <4> QED BY <2>1, <4>1, RefusedGood
    <3> QED BY <2>3, <3>1, <3>2 DEF Refuse
  <2>4. PICK p : p = [q EXCEPT !.pc = "local", !.next = 1,
                               !.entry = q.info.routes[First(Matching(q.info, q.target))],
                               !.routed = Len(q.wraps), !.guarded = TRUE]
    OBVIOUS
  <2>5. CASE Matching(q.info, q.target) # {} /\ req' = [req EXCEPT ![r] = p]
    BY <2>1, <2>4, <2>5, RoutedGood
  <2>6. \/ Refuse(r, 404, q.info.notfound) \/ Refuse(r, 500, q.info.error)
        \/ Matching(q.info, q.target) # {} /\ req' = [req EXCEPT ![r] = p]
    BY <1>4, <2>4 DEF DoRouting, Becomes, InfoOf
  <2> QED BY <2>2, <2>3, <2>5, <2>6
<1>5. CASE Handle(r)
  <2>1. q.pc = "local" /\ q.entry.handler \in Handler
    <3>1. q.pc = "local"
      BY <1>5 DEF Handle, ChainDone
    <3>2. q.entry \in UsedEntry
      BY <3>1 DEF Good, BodyInv
    <3> QED BY <3>1, <3>2, UsedOK DEF Entry
  <2>2. \E p : Handled(p, q) /\ req' = [req EXCEPT ![r] = p]
    BY <1>5, <2>1 DEF Handle, Handled, Handler, Becomes
  <2> QED BY <2>1, <2>2, HandledGood
<1>6. CASE FileAnswer(r)
  <2>1. q.pc = "skipping"
    BY <1>6 DEF FileAnswer
  <2>2. PICK p : req' = [req EXCEPT ![r] = p] /\ FileAnswered(p, q)
    BY <1>6 DEF FileAnswer, FileAnswered, Becomes
  <2> QED BY <2>1, <2>2, FileGood
<1>7. CASE HandleException(r)
  <2>1. q.pc \in {"raised", "not_found"}
    BY <1>7 DEF HandleException
  <2> DEFINE Asked(s) == (s = 404 /\ q.info.notfound) \/ (s = 500 /\ q.info.error)
             Thrower(e) == IF q.guarded THEN [At(e, "raised") EXCEPT !.guarded = FALSE]
                                        ELSE At(e, "lost")
  <2>2. PICK s \in Codes(q) :
           \/ \E e \in Replies(q, s, Asked(s), Level(q)) :
                 Becomes(r, At(FinishError(e, Level(q)), "over"))
           \/ \E e \in Breaks(q, s, Asked(s), Level(q)) : Becomes(r, Thrower(e))
    BY <1>7 DEF HandleException, Level
  <2>3. s \in Nat
    BY DEF Codes
  <2>4. PICK asked \in BOOLEAN : asked = Asked(s)
    OBVIOUS
  <2>5. CASE \E e \in Replies(q, s, asked, Level(q)) :
                Becomes(r, At(FinishError(e, Level(q)), "over"))
    <3>1. PICK e \in Replies(q, s, asked, Level(q)) :
             req' = [req EXCEPT ![r] = At(FinishError(e, Level(q)), "over")]
      BY <2>5 DEF Becomes
    <3> QED BY <2>1, <2>3, <3>1, ErrorGood
  <2>6. CASE \E e \in Breaks(q, s, asked, Level(q)) : Becomes(r, Thrower(e))
    <3>1. PICK e \in Breaks(q, s, asked, Level(q)) : req' = [req EXCEPT ![r] = Thrower(e)]
      BY <2>6 DEF Becomes
    <3>2. Thrown(Thrower(e), e, q)
      BY DEF Thrown
    <3> HIDE DEF Thrower
    <3> QED BY <2>1, <2>3, <3>1, <3>2, ThrownGood
  <2> HIDE DEF Asked, Thrower
  <2> QED BY <2>2, <2>4, <2>5, <2>6
<1> QED BY <1>1, <1>2, <1>3, <1>4, <1>5, <1>6, <1>7 DEF RequestStep

RequestInv ==
    /\ UpdateInv
    /\ req \in [Request -> RequestRecord]
    /\ \A r \in Request : Good(req[r])

LEMMA InitRequest == Init => RequestInv
<1> SUFFICES ASSUME Init PROVE RequestInv
    OBVIOUS
<1>1. PICK f \in [Request -> Target] : req = [r \in Request |-> NewRequest(f[r])]
  BY DEF Init
<1>2. \A r \in Request : Good(NewRequest(f[r]))
  BY InitGood
<1>3. \A r \in Request : NewRequest(f[r]) \in RequestRecord
  BY <1>2 DEF Good
<1> QED BY <1>1, <1>2, <1>3, InitUpdate DEF RequestInv

(* A step is one of a request, or leaves them alone. *)
LEMMA Steps ==
    ASSUME RequestInv, [Next]_vars
    PROVE  \/ req' = req
           \/ \E r \in Request : \E p \in RequestRecord :
                 req' = [req EXCEPT ![r] = p] /\ Good(p) /\ Grows(p, req[r])
<1>1. CASE UNCHANGED vars
  BY <1>1 DEF vars
<1>2. ASSUME NEW u \in Update, Load(u) PROVE req' = req
  BY <1>2 DEF Load
<1>3. CASE Store
  BY <1>3 DEF Store
<1>4. ASSUME NEW r \in Request, OnRequest(r) \/ RequestStep(r)
      PROVE  \E p \in RequestRecord :
                req' = [req EXCEPT ![r] = p] /\ Good(p) /\ Grows(p, req[r])
  <2>1. PICK q \in RequestRecord : q = req[r] /\ Good(q)
    BY DEF RequestInv
  <2>2. routing \in Used
    BY DEF RequestInv, UpdateInv
  <2>3. PICK p : req' = [req EXCEPT ![r] = p] /\ Good(p) /\ Grows(p, q)
    BY <1>4, <2>1, <2>2, StepGood
  <2>4. p \in RequestRecord
    BY <2>3 DEF Good
  <2> QED BY <2>1, <2>3, <2>4
<1> QED BY <1>1, <1>2, <1>3, <1>4 DEF Next

LEMMA NextRequest == RequestInv /\ [Next]_vars => RequestInv'
<1> SUFFICES ASSUME RequestInv, [Next]_vars PROVE RequestInv'
    OBVIOUS
<1>1. UpdateInv'
  BY NextUpdate DEF RequestInv
<1>2. CASE req' = req
  BY <1>1, <1>2 DEF RequestInv
<1>3. ASSUME NEW r \in Request, NEW p \in RequestRecord, req' = [req EXCEPT ![r] = p], Good(p)
      PROVE  RequestInv'
  <2>1. req' \in [Request -> RequestRecord]
    BY <1>3 DEF RequestInv
  <2>2. \A s \in Request : req'[s] = IF s = r THEN p ELSE req[s]
    BY <1>3 DEF RequestInv
  <2>3. \A s \in Request : Good(req'[s])
    BY <1>3, <2>2 DEF RequestInv
  <2> QED BY <1>1, <2>1, <2>3 DEF RequestInv
<1> QED BY <1>2, <1>3, Steps

(* The inductive invariant of the router: one update at a time, of what is *)
(* published, and every request where the chains of the information it     *)
(* took have brought it.                                                   *)
THEOREM Invariance == Spec => []RequestInv
BY InitRequest, NextRequest, PTL DEF Spec

(* A response carries one Content-Type at most.                            *)
THEOREM OneType == Spec => []OneContentType
<1>1. RequestInv => OneContentType
  BY DEF RequestInv, Good, AnswerInv, Settled, OneContentType
<1> QED BY <1>1, Invariance, PTL

(* A request goes through the middleware of the information it took and to *)
(* the route that information gives, whatever is published on the way.     *)
THEOREM Snapshot == Spec => []ServedBySnapshot
<1>1. ASSUME RequestInv, NEW r \in Request, req[r].entry # NoEntry
      PROVE  LET q == req[r]
                 global == GlobalOf(q.info)
                 n == Len(q.ran) - Len(global)
                 found == Matching(q.info, AfterRewrites(q.info, q.asked))
             IN  /\ n \in 0 .. Len(q.entry.mws)
                 /\ q.ran = global \o SubSeq(q.entry.mws, 1, n)
                 /\ found # {} /\ q.entry = q.info.routes[First(found)]
  <2>1. PICK q \in RequestRecord : q = req[r] /\ Good(q)
    BY <1>1 DEF RequestInv
  <2>2. PICK g \in Seq(Middleware) : g = GlobalOf(q.info)
    BY GlobalOK DEF RequestRecord
  <2>3. PICK mws \in Seq(Middleware) : mws = q.entry.mws
    <3>1. NoEntry.mws \in Seq(Middleware)
      BY DEF NoEntry
    <3>2. \A e \in UsedEntry : e.mws \in Seq(Middleware)
      BY UsedOK DEF Entry
    <3> QED BY <3>1, <3>2 DEF RequestRecord
  <2>4. PICK ran \in Seq(Middleware) : ran = q.ran
    BY DEF RequestRecord
  <2>5. /\ Len(ran) - Len(g) \in 0 .. Len(mws)
        /\ RanFirst(ran, g, Len(g))
        /\ \A i \in 1 .. Len(ran) - Len(g) : ran[Len(g) + i] = mws[i]
        /\ Matching(q.info, AfterRewrites(q.info, q.asked)) # {}
        /\ q.entry = q.info.routes[First(Matching(q.info, AfterRewrites(q.info, q.asked)))]
    BY <1>1, <2>1, <2>2, <2>3, <2>4 DEF Good, LocalInv
  <2>6. PICK n \in Nat, k \in Nat : k = Len(g) /\ Len(ran) = k + n /\ n <= Len(mws)
    <3>1. PICK k \in Nat, l \in Nat, y \in Nat : k = Len(g) /\ l = Len(ran) /\ y = Len(mws)
      OBVIOUS
    <3>2. l - k \in 0 .. y
      BY <2>5, <3>1
    <3>3. l - k \in Nat /\ l = k + (l - k) /\ l - k <= y
      BY <3>2
    <3> QED BY <3>1, <3>3
  <2>7. PICK s \in Seq(Middleware) :
           s = SubSeq(mws, 1, n) /\ Len(s) = n /\ \A i \in 1 .. n : s[i] = mws[i]
    <3>1. PICK s : s = SubSeq(mws, 1, n)
      OBVIOUS
    <3>2. s \in Seq(Middleware) /\ Len(s) = n /\ \A i \in 1 .. n : s[i] = mws[i]
      BY <2>6, <3>1
    <3> QED BY <3>1, <3>2
  <2>8. ran = g \o s
    <3>1. PICK t : t = g \o s /\ t \in Seq(Middleware)
      <4>1. g \in Seq(Middleware) /\ s \in Seq(Middleware)
        OBVIOUS
      <4>2. g \o s \in Seq(Middleware)
        BY <4>1
      <4> QED BY <4>2
    <3>2. /\ Len(t) = k + n /\ (\A i \in 1 .. k : t[i] = g[i])
          /\ \A i \in 1 .. n : t[k + i] = s[i]
      BY <2>6, <2>7, <3>1
    <3>3. \A i \in 1 .. k : ran[i] = g[i]
      BY <2>5, <2>6 DEF RanFirst
    <3>4. Len(ran) - Len(g) = n
      BY <2>6
    <3>5. \A i \in 1 .. n : ran[k + i] = s[i]
      BY <2>5, <2>6, <2>7, <3>4
    <3>6. ASSUME NEW i \in 1 .. k + n PROVE ran[i] = t[i]
      <4>1. CASE i <= k
        BY <3>2, <3>3, <4>1
      <4>2. CASE i > k
        <5>1. i - k \in 1 .. n /\ k + (i - k) = i
          BY <4>2
        <5> QED BY <3>2, <3>5, <5>1
      <4> QED BY <4>1, <4>2
    <3>7. Len(ran) = Len(t) /\ \A i \in 1 .. Len(t) : ran[i] = t[i]
      BY <2>6, <3>2, <3>6
    <3>8. t \in Seq(Middleware) /\ ran \in Seq(Middleware)
      BY <3>1
    <3>9. ran = t
      BY <3>7, <3>8
    <3> QED BY <3>1, <3>9
  <2>9. n \in 0 .. Len(mws)
    BY <2>6
  <2>10. Len(ran) - Len(g) = n
    BY <2>6
  <2> QED BY <2>1, <2>2, <2>3, <2>4, <2>5, <2>7, <2>8, <2>9, <2>10
<1>2. RequestInv => ServedBySnapshot
  BY <1>1 DEF ServedBySnapshot
<1> QED BY <1>2, Invariance, PTL

-----------------------------------------------------------------------------
(* The file handler, behind a middleware that has read the body, answers   *)
(* once at once and once more when the needless Read completes: files come *)
(* before such a middleware.                                               *)
FilesFirst ==
    \A e \in UsedEntry : e.handler = "files" => ~GlobalLate /\ ~Late(e)

OnceInv ==
    /\ EndedOnce
    /\ \A r \in Request : req[r].pc = "skipping" => req[r].ends = 0

(* A response is ended once at most, and again only by the application.    *)
THEOREM AnsweredOnce ==
    ASSUME FilesFirst
    PROVE  Spec => []EndedOnce
<1>1. Init => OnceInv
  <2> SUFFICES ASSUME Init PROVE OnceInv
      OBVIOUS
  <2>1. PICK f \in [Request -> Target] : req = [r \in Request |-> NewRequest(f[r])]
    BY DEF Init
  <2> QED BY <2>1 DEF OnceInv, EndedOnce, NewRequest
<1>2. RequestInv /\ OnceInv /\ [Next]_vars => OnceInv'
  <2> SUFFICES ASSUME RequestInv, OnceInv, [Next]_vars PROVE OnceInv'
      OBVIOUS
  <2>1. CASE req' = req
    BY <2>1 DEF OnceInv, EndedOnce
  <2>2. ASSUME NEW r \in Request, NEW p \in RequestRecord,
               req' = [req EXCEPT ![r] = p], Grows(p, req[r])
        PROVE  OnceInv'
    <3>1. PICK q \in RequestRecord : q = req[r] /\ Good(q)
      BY DEF RequestInv
    <3>2. q.ends <= 1 + q.again /\ (q.pc = "skipping" => q.ends = 0)
      BY <3>1 DEF OnceInv, EndedOnce
    <3>3. q.ends \in Nat /\ p.ends \in Nat /\ q.again \in Nat /\ p.again \in Nat
      BY DEF RequestRecord
    <3>4. p.ends <= 1 + p.again
      BY <2>2, <3>1, <3>2, <3>3 DEF Grows, EndsMore
    <3>5. p.pc = "skipping" => p.ends = 0
      <4>1. q.pc = "local" => q.ends = 0
        BY <3>1 DEF Good, AnswerInv, Front
      <4>2. q.pc = "skipping" => ~q.body_read
        BY <3>1 DEF Good, BodyInv, FilesFirst
      <4> QED BY <2>2, <3>1, <4>1, <4>2 DEF Grows
    <3>6. \A s \in Request : req'[s] = IF s = r THEN p ELSE req[s]
      BY <2>2 DEF RequestInv
    <3>7. \A s \in Request : req'[s].ends <= 1 + req'[s].again
      BY <3>4, <3>6 DEF OnceInv, EndedOnce
    <3>8. \A s \in Request : req'[s].pc = "skipping" => req'[s].ends = 0
      BY <3>5, <3>6 DEF OnceInv
    <3> QED BY <3>7, <3>8 DEF OnceInv, EndedOnce
  <2> QED BY <2>1, <2>2, Steps
<1>3. OnceInv => EndedOnce
  BY DEF OnceInv
<1> QED BY <1>1, <1>2, <1>3, Invariance, PTL DEF Spec


-----------------------------------------------------------------------------
(* The table.                                                              *)

Made == {applied[i] : i \in 1 .. Len(applied)}
Took(q) == IF q.pc = "new" THEN <<>> ELSE <<q.info>>

(* Nobody makes a call twice: one in progress is not among those made. *)
MadeOnce == \A i \in 1 .. Len(copy) : copy[i].by \notin Made

(* A store publishes what one call makes of what is published. *)
LEMMA StoreStep ==
    ASSUME UpdateInv, MadeOnce, Store
    PROVE  /\ copy' = <<>> /\ req' = req
           /\ \E u \in Update \ Made : routing' = Changed(routing, u) /\ Made' = Made \cup {u}
<1>1. PICK i \in 1 .. Len(copy) :
         /\ routing' = Changed(copy[i].info, copy[i].by)
         /\ applied' = Append(applied, copy[i].by)
         /\ copy' = SubSeq(copy, 1, i - 1) \o SubSeq(copy, i + 1, Len(copy))
         /\ req' = req
  BY DEF Store
<1>2. copy \in Seq(Copy) /\ Len(copy) <= 1 /\ applied \in Seq(Update)
  BY DEF UpdateInv
<1>3. Len(copy) \in Nat /\ copy[i] \in Copy /\ i = 1 /\ Len(copy) = 1
  <2>1. copy \in Seq(Copy)
    BY <1>2
  <2>2. copy[i] \in Copy
    BY <2>1
  <2>3. PICK n \in Nat : n = Len(copy) /\ n <= 1
    BY <1>2, <2>1
  <2>4. i \in 1 .. n
    BY <2>3
  <2>5. i = 1 /\ n = 1
    BY <2>3, <2>4
  <2> QED BY <2>2, <2>3, <2>5
<1>4. copy' = <<>>
  BY <1>1, <1>2, <1>3
<1>5. PICK u \in Update : u = copy[i].by
  BY <1>3 DEF Copy
<1>6. copy[i].info = routing /\ u \notin Made
  BY <1>1, <1>5 DEF UpdateInv, MadeOnce
<1>7. Made' = Made \cup {u}
  <2>1. applied' = Append(applied, u)
    BY <1>1, <1>5
  <2>2. Len(Append(applied, u)) = Len(applied) + 1 /\ Append(applied, u)[Len(applied) + 1] = u
        /\ \A j \in 1 .. Len(applied) : Append(applied, u)[j] = applied[j]
    BY <1>2
  <2>3. Len(applied) \in Nat
    BY <1>2
  <2>4. 1 .. Len(applied) + 1 = (1 .. Len(applied)) \cup {Len(applied) + 1}
    BY <2>3
  <2> QED BY <2>1, <2>2, <2>4 DEF Made
<1> QED BY <1>1, <1>4, <1>5, <1>6, <1>7

LEMMA NextMade == UpdateInv /\ MadeOnce /\ [Next]_vars => MadeOnce'
<1> SUFFICES ASSUME UpdateInv, MadeOnce, [Next]_vars PROVE MadeOnce'
    OBVIOUS
<1>1. CASE UNCHANGED <<copy, applied>>
  BY <1>1 DEF MadeOnce, Made
<1>2. ASSUME NEW u \in Update, Load(u) PROVE MadeOnce'
  <2>1. copy' = <<[by |-> u, info |-> routing]>> /\ applied' = applied
    BY <1>2 DEF Load, MutexFree, UpdateInv
  <2>2. u \notin Made'
    BY <1>2, <2>1 DEF Load, Started, Made
  <2> QED BY <2>1, <2>2 DEF MadeOnce
<1>3. CASE Store
  BY <1>3, StoreStep DEF MadeOnce
<1>4. ASSUME NEW r \in Request, OnRequest(r) \/ RequestStep(r)
      PROVE UNCHANGED <<copy, applied>>
  BY <1>4 DEF OnRequest, RequestStep, MiddlewareStep, Resume, DoRouting, Refuse, Handle,
              FileAnswer, HandleException, Becomes
<1> QED BY <1>1, <1>2, <1>3, <1>4 DEF Next, vars

(* A request that has arrived keeps what it took. *)
LEMMA KeepsInfo ==
    ASSUME RequestInv, NEW r \in Request, RequestStep(r)
    PROVE  \E p : /\ req' = [req EXCEPT ![r] = p]
                  /\ Took(p) = Took(req[r])
<1>1. PICK q \in RequestRecord : q = req[r] /\ Good(q)
  BY DEF RequestInv
<1>2. q.pc # "new"
  BY <1>1 DEF RequestStep, MiddlewareStep, Resume, DoRouting, ChainDone, Handle, FileAnswer,
              HandleException
<1>3. PICK p : req' = [req EXCEPT ![r] = p] /\ Good(p) /\ Grows(p, q)
  BY <1>1, StepGood DEF RequestInv, UpdateInv
<1>4. Took(p) = Took(q)
  BY <1>2, <1>3 DEF Grows, Took
<1> QED BY <1>1, <1>3, <1>4

(* Every update and every arrival of a request is one of the table, and no *)
(* other step touches it: between the load and the store of an update      *)
(* nothing else is published, and a request keeps what it took.            *)
THEOREM Refinement == Spec => ImplementsTable
<1> DEFINE taken == [r \in Request |-> Took(req[r])]
<1>1. Init => Table!Init
  <2> SUFFICES ASSUME Init PROVE Table!Init
      OBVIOUS
  <2>1. PICK f \in [Request -> Target] : req = [r \in Request |-> NewRequest(f[r])]
    BY DEF Init
  <2>2. routing = Initial /\ Made = {}
    BY DEF Init, Made
  <2>3. taken = [r \in Request |-> <<>>]
    BY <2>1 DEF Took, NewRequest
  <2> QED BY <2>2, <2>3 DEF Table!Init, Made, Took
<1>2. RequestInv /\ MadeOnce /\ [Next]_vars => [Table!Next]_(Table!vars)
  <2> SUFFICES ASSUME RequestInv, MadeOnce, [Next]_vars
               PROVE  Table!Next \/ UNCHANGED Table!vars
      OBVIOUS
  <2> DEFINE Still == UNCHANGED <<routing, Made, taken>>
             Configures(u) == u \notin Made /\ routing' = Changed(routing, u)
                              /\ Made' = Made \cup {u} /\ taken' = taken
             Takes(r) == taken[r] = <<>> /\ taken' = [taken EXCEPT ![r] = <<routing>>]
                         /\ UNCHANGED <<routing, Made>>
  <2>1. Still => UNCHANGED Table!vars
    BY DEF Table!vars, Made, Took
  <2>2. ASSUME NEW u \in Update, Configures(u) PROVE Table!Next
    BY <2>2 DEF Table!Next, Table!Configure, Made, Took
  <2>3. ASSUME NEW r \in Request, Takes(r) PROVE Table!Next
    BY <2>3 DEF Table!Next, Table!Take, Made, Took
  <2>4. CASE UNCHANGED vars
    <3>1. Still
      BY <2>4 DEF vars, Made, Took
    <3> QED BY <2>1, <3>1
  <2>5. ASSUME NEW u \in Update, Load(u) PROVE Still
    BY <2>5 DEF Load, Made, Took
  <2>6. CASE Store
    <3>1. PICK u \in Update \ Made : routing' = Changed(routing, u) /\ Made' = Made \cup {u}
      BY <2>6, StoreStep DEF RequestInv
    <3>2. taken' = taken
      BY <2>6, StoreStep DEF RequestInv
    <3>3. Configures(u)
      BY <3>1, <3>2
    <3> QED BY <2>2, <3>3
  <2>7. ASSUME NEW r \in Request, OnRequest(r) PROVE Takes(r)
    <3>1. PICK q \in RequestRecord : q = req[r]
      BY <2>7 DEF RequestInv
    <3>2. PICK p : p = [q EXCEPT !.pc = "global", !.info = routing]
      OBVIOUS
    <3>3. q.pc = "new" /\ req' = [req EXCEPT ![r] = p] /\ UNCHANGED <<routing, applied>>
      BY <2>7, <3>1, <3>2 DEF OnRequest, Becomes
    <3>4. p.pc = "global" /\ p.info = routing
      BY <3>2 DEF RequestRecord
    <3>5. Took(q) = <<>> /\ Took(p) = <<routing>>
      BY <3>3, <3>4 DEF Took
    <3>6. \A s \in Request : req'[s] = IF s = r THEN p ELSE req[s]
      BY <3>3 DEF RequestInv
    <3>7. taken' = [taken EXCEPT ![r] = <<routing>>]
      <4> HIDE DEF Took
      <4> QED BY <3>5, <3>6
    <3> QED BY <3>1, <3>3, <3>5, <3>7 DEF Made
  <2>8. ASSUME NEW r \in Request, RequestStep(r) PROVE Still
    <3>1. PICK p : req' = [req EXCEPT ![r] = p] /\ Took(p) = Took(req[r])
      BY <2>8, KeepsInfo
    <3>2. \A s \in Request : req'[s] = IF s = r THEN p ELSE req[s]
      BY <3>1 DEF RequestInv
    <3>3. taken' = taken
      BY <3>1, <3>2
    <3>4. UNCHANGED <<routing, applied>>
      BY <2>8 DEF RequestStep, MiddlewareStep, Resume, DoRouting, Refuse, Handle,
                  FileAnswer, HandleException, Becomes
    <3> QED BY <3>3, <3>4 DEF Made
  <2> HIDE DEF Still, Makes, Takes
  <2> QED BY <2>1, <2>3, <2>4, <2>5, <2>6, <2>7, <2>8 DEF Next
<1>3. Init => MadeOnce
  BY DEF Init, MadeOnce
<1>4. RequestInv /\ MadeOnce /\ [Next]_vars => MadeOnce'
  BY NextMade DEF RequestInv
<1> QED BY <1>1, <1>2, <1>3, <1>4, Invariance, PTL DEF Spec, ImplementsTable, Table!Spec

=============================================================================
