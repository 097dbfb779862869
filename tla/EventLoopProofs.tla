---------------------------- MODULE EventLoopProofs ----------------------------
(***************************************************************************)
(* Proofs about EventLoop, for any number of requests, any timeout and any *)
(* time of the lookups.                                                    *)
(***************************************************************************)
EXTENDS EventLoop, SequenceTheorems, FiniteSetTheorems, TLAPS

-------------------------------------------------------------------------------
(***************************************************************************)
(* The inductive invariant.                                                *)
(***************************************************************************)
\* What is run in an iteration: first what was scheduled, then what the sockets
\* held, then the timers.
Rank(what) == IF what = "resume" THEN 1 ELSE IF what = "expire" THEN 3 ELSE 2

Ordered(queue) ==
    \A i, j \in DOMAIN queue : i < j => Rank(queue[i].do) <= Rank(queue[j].do)

\* What is left to run of this iteration, and what the next one starts with.
Left == Range(batch)
Following == Range(scheduled)

\* The requests that this iteration has still to start.
Starting == {s \in Requests : Do("start", s) \in Left}

\* For how long the requests of a set hold the loop, one after the other.
Turns(group) == Cardinality(group) * Stretch

\* For how long the holder may still hold the loop.
Rest == IF holder = NoRequest THEN 0 ELSE Stretch - held

\* For how long lookups may still hold the loop in this iteration.
Ahead == Turns(Starting) + Rest

\* What a round of lookups of all the other requests takes.
Round == (Cardinality(Requests) - 1) * Stretch

QueuesOK ==
    /\ Ordered(batch)
    /\ IsInjective(batch) /\ IsInjective(scheduled)
    /\ Left \cap Following = {}
    /\ \A h \in Following : h.do = "resume"
    /\ \A h \in sockets : h.do \in {"start", "receive"}
    /\ holder # NoRequest => \A h \in Left : h.do # "resume"

\* Every handler that waits to be run is about a request at its place.
PlacesOK ==
    \A r \in Requests :
        /\ Do("start", r) \in Left \cup sockets <=> place[r] = "arriving"
        /\ ~(Do("start", r) \in Left /\ Do("start", r) \in sockets)
        /\ Do("resume", r) \in Left \cup Following => place[r] = "awaiting"
        /\ ~(Do("resume", r) \in Following /\ Do("receive", r) \in Left)
        /\ Do("expire", r) \in Left =>
               \/ place[r] = "awaiting" /\ r \notin timers /\ age[r] >= AiTimeout
               \/ place[r] \in {"away", "arriving"} /\ Do("start", r) \notin Left
        /\ place[r] # "awaiting" => age[r] = 0 /\ answered[r] = NoAnswer

\* A call has a timer, which is due in this iteration or has cancelled it.
TimersOK ==
    \A r \in Requests : place[r] = "awaiting" =>
        r \in timers \/ Do("expire", r) \in Left \/ r \in cancelled

\* A call that has been cancelled goes on before time passes.
CancelledOK ==
    \A r \in cancelled :
        /\ age[r] >= AiTimeout
        /\ \/ Do("resume", r) \in Left
           \/ Do("resume", r) \in Following /\ Starting = {} /\ holder = NoRequest

\* How late a call may be: a round before its timer is seen, a round before it is run.
AgesOK ==
    \A r \in Requests :
        /\ r \in timers => age[r] + Ahead <= AiTimeout + Round
        /\ place[r] = "awaiting" /\ r \notin timers /\ r \notin cancelled =>
               age[r] + Ahead <= AiTimeout + 2 * Round

\* An answer is on its way to its request, and the time since is accounted for.
AnswersOK ==
    \A r \in Requests : answered[r] # NoAnswer =>
        /\ \/ Do("receive", r) \in sockets \cup Left
           \/ Do("resume", r) \in Left \cup Following
        /\ age[r] <= answered[r] + blocked[r]

IndInv ==
    /\ TypeOK /\ QueuesOK /\ PlacesOK /\ TimersOK /\ CancelledOK /\ AgesOK /\ AnswersOK
    /\ LatenessIsBounded

-------------------------------------------------------------------------------
(***************************************************************************)
(* Queues without repetition: what popping, appending and joining do.      *)
(***************************************************************************)
LEMMA Popped ==
    ASSUME NEW S, NEW q \in Seq(S), q # <<>>, IsInjective(q)
    PROVE  /\ Tail(q) \in Seq(S) /\ IsInjective(Tail(q))
           /\ q[1] \in Range(q)
           /\ Range(Tail(q)) = Range(q) \ {q[1]}
<1> DEFINE t == Tail(q)
<1>1. /\ Len(q) \in Nat \ {0} /\ DOMAIN q = 1 .. Len(q)
      /\ t \in Seq(S) /\ Len(t) = Len(q) - 1 /\ DOMAIN t = 1 .. Len(t)
      /\ \A i \in 1 .. Len(t) : t[i] = q[i + 1]
  <2>1. t \in Seq(S) /\ Len(t) = Len(q) - 1 /\ \A i \in 1 .. Len(t) : t[i] = q[i + 1]
    BY HeadTailProperties
  <2>2. DOMAIN t = 1 .. Len(t) /\ DOMAIN q = 1 .. Len(q)
    BY <2>1, LenProperties
  <2>3. Len(q) \in Nat \ {0}
    BY EmptySeq
  <2> QED
    BY <2>1, <2>2, <2>3
<1> HIDE DEF t
<1>2. IsInjective(t)
  <2> SUFFICES ASSUME NEW a \in 1 .. Len(t), NEW b \in 1 .. Len(t), t[a] = t[b]
               PROVE  a = b
    BY <1>1 DEF IsInjective
  <2>1. a + 1 \in DOMAIN q /\ b + 1 \in DOMAIN q /\ q[a + 1] = q[b + 1]
    BY <1>1
  <2>2. a + 1 = b + 1
    BY <2>1 DEF IsInjective
  <2> QED
    BY <1>1, <2>2
<1>3. q[1] \in Range(q)
  BY <1>1 DEF Range
<1>4. ASSUME NEW x \in Range(t)
      PROVE  x \in Range(q) \ {q[1]}
  <2>1. PICK i \in 1 .. Len(t) : x = t[i]
    BY <1>1 DEF Range
  <2>2. i + 1 \in DOMAIN q /\ x = q[i + 1] /\ 1 \in DOMAIN q /\ i + 1 # 1
    BY <1>1, <2>1
  <2> QED
    BY <2>2 DEF Range, IsInjective
<1>5. ASSUME NEW x \in Range(q), x # q[1]
      PROVE  x \in Range(t)
  <2>1. PICK i \in DOMAIN q : x = q[i]
    BY DEF Range
  <2>2. i - 1 \in 1 .. Len(t) /\ (i - 1) + 1 = i
    BY <1>1, <1>5, <2>1
  <2>3. i - 1 \in DOMAIN t /\ t[i - 1] = x
    BY <1>1, <2>1, <2>2
  <2> QED
    BY <2>3 DEF Range
<1>6. Range(t) = Range(q) \ {q[1]}
  BY <1>4, <1>5
<1> QED
  BY <1>1, <1>2, <1>3, <1>6 DEF t

LEMMA Appended ==
    ASSUME NEW S, NEW q \in Seq(S), NEW e \in S, IsInjective(q), e \notin Range(q)
    PROVE  /\ Append(q, e) \in Seq(S) /\ IsInjective(Append(q, e))
           /\ Range(Append(q, e)) = Range(q) \cup {e}
<1> DEFINE t == Append(q, e)
           n == Len(q)
<1>1. /\ n \in Nat /\ DOMAIN q = 1 .. n
      /\ t \in Seq(S) /\ DOMAIN t = 1 .. n + 1
      /\ \A i \in 1 .. n : t[i] = q[i]
      /\ t[n + 1] = e
  <2>1. /\ t \in Seq(S) /\ Len(t) = n + 1
        /\ \A i \in 1 .. n : t[i] = q[i]
        /\ t[n + 1] = e
    BY AppendProperties
  <2>2. DOMAIN t = 1 .. Len(t) /\ DOMAIN q = 1 .. n /\ n \in Nat
    BY <2>1, LenProperties
  <2> QED
    BY <2>1, <2>2
<1> HIDE DEF t, n
<1>2. \A i \in 1 .. n : q[i] # e
  BY <1>1 DEF Range
<1>3. IsInjective(t)
  <2> SUFFICES ASSUME NEW a \in 1 .. n + 1, NEW b \in 1 .. n + 1, t[a] = t[b]
               PROVE  a = b
    BY <1>1 DEF IsInjective
  <2>1. (a \in 1 .. n \/ a = n + 1) /\ (b \in 1 .. n \/ b = n + 1)
    BY <1>1
  <2> QED
    BY <1>1, <1>2, <2>1 DEF IsInjective
<1>4. ASSUME NEW x \in Range(t)
      PROVE  x \in Range(q) \cup {e}
  <2>1. PICK i \in 1 .. n + 1 : x = t[i]
    BY <1>1 DEF Range
  <2>2. i \in 1 .. n \/ i = n + 1
    BY <1>1
  <2> QED
    BY <1>1, <2>1, <2>2 DEF Range
<1>5. ASSUME NEW x \in Range(q) \cup {e}
      PROVE  x \in Range(t)
  <2>1. CASE x = e
    <3>1. n + 1 \in DOMAIN t
      BY <1>1
    <3> QED
      BY <1>1, <2>1, <3>1 DEF Range
  <2>2. CASE x \in Range(q)
    <3>1. PICK i \in 1 .. n : x = q[i]
      BY <1>1, <2>2 DEF Range
    <3>2. i \in DOMAIN t
      BY <1>1
    <3> QED
      BY <1>1, <3>1, <3>2 DEF Range
  <2> QED
    BY <2>1, <2>2
<1> QED
  BY <1>1, <1>3, <1>4, <1>5 DEF t

\* One queue behind another.
LEMMA Joined ==
    ASSUME NEW S, NEW s \in Seq(S), NEW t \in Seq(S)
    PROVE  /\ s \o t \in Seq(S)
           /\ Range(s \o t) = Range(s) \cup Range(t)
           /\ IsInjective(s \o t) <=>
                  IsInjective(s) /\ IsInjective(t) /\ Range(s) \cap Range(t) = {}
           /\ DOMAIN (s \o t) = 1 .. Len(s) + Len(t)
           /\ \A i \in 1 .. Len(s) : (s \o t)[i] = s[i]
           /\ \A i \in 1 .. Len(t) : (s \o t)[Len(s) + i] = t[i]
           /\ \A i \in 1 .. Len(s) + Len(t) :
                  i \in 1 .. Len(s) \/ i - Len(s) \in 1 .. Len(t)
<1> DEFINE j == s \o t
           m == Len(s)
           n == Len(t)
<1>1. /\ m \in Nat /\ DOMAIN s = 1 .. m /\ n \in Nat /\ DOMAIN t = 1 .. n
      /\ j \in Seq(S) /\ DOMAIN j = 1 .. m + n
  <2>1. j \in Seq(S) /\ Len(j) = m + n
    BY ConcatProperties
  <2> QED
    BY <2>1, LenProperties
<1>2. /\ \A i \in 1 .. m : j[i] = s[i]
      /\ \A i \in 1 .. n : j[m + i] = t[i]
      /\ \A i \in 1 .. m + n : i \in 1 .. m \/ i - m \in 1 .. n
  <2>1. \A i \in 1 .. m + n : j[i] = IF i <= m THEN s[i] ELSE t[i - m]
    BY ConcatProperties
  <2> HIDE DEF j, m, n
  <2>2. \A i \in 1 .. n : m + i \in 1 .. m + n /\ ~(m + i <= m) /\ (m + i) - m = i
    BY <1>1
  <2>3. \A i \in 1 .. m : i \in 1 .. m + n /\ i <= m
    BY <1>1
  <2>4. \A i \in 1 .. m : j[i] = s[i]
    BY <2>1, <2>3
  <2>5. ASSUME NEW i \in 1 .. n
        PROVE  j[m + i] = t[i]
    <3>1. m + i \in 1 .. m + n /\ ~(m + i <= m) /\ (m + i) - m = i
      BY <2>2
    <3>2. j[m + i] = t[(m + i) - m]
      BY <2>1, <3>1
    <3> QED
      BY <3>1, <3>2
  <2>6. \A i \in 1 .. m + n : i \in 1 .. m \/ i - m \in 1 .. n
    BY <1>1
  <2> QED
    BY <2>4, <2>5, <2>6
<1> HIDE DEF j, m, n
<1>3. /\ \A i \in 1 .. m : i \in DOMAIN j
      /\ \A i \in 1 .. n : m + i \in DOMAIN j
  BY <1>1
<1>4. Range(j) = Range(s) \cup Range(t)
  <2>1. ASSUME NEW x \in Range(j)
        PROVE  x \in Range(s) \cup Range(t)
    <3>1. PICK i \in 1 .. m + n : x = j[i]
      BY <1>1 DEF Range
    <3>2. CASE i \in 1 .. m
      BY <1>1, <1>2, <3>1, <3>2 DEF Range
    <3>3. CASE i - m \in 1 .. n
      <4>1. m + (i - m) = i
        BY <1>1
      <4>2. x = t[i - m] /\ i - m \in DOMAIN t
        BY <1>1, <1>2, <3>1, <3>3, <4>1
      <4> QED
        BY <4>2 DEF Range
    <3> QED
      BY <1>2, <3>2, <3>3
  <2>2. ASSUME NEW x \in Range(s)
        PROVE  x \in Range(j)
    <3>1. PICK i \in 1 .. m : x = s[i]
      BY <1>1 DEF Range
    <3> QED
      BY <1>2, <1>3, <3>1 DEF Range
  <2>3. ASSUME NEW x \in Range(t)
        PROVE  x \in Range(j)
    <3>1. PICK i \in 1 .. n : x = t[i]
      BY <1>1 DEF Range
    <3> QED
      BY <1>2, <1>3, <3>1 DEF Range
  <2> QED
    BY <2>1, <2>2, <2>3
<1>5. ASSUME IsInjective(j)
      PROVE  IsInjective(s) /\ IsInjective(t) /\ Range(s) \cap Range(t) = {}
  <2>1. IsInjective(s)
    BY <1>1, <1>2, <1>3, <1>5 DEF IsInjective
  <2>2. ASSUME NEW a \in 1 .. n, NEW b \in 1 .. n, t[a] = t[b]
        PROVE  a = b
    <3>1. m + a = m + b
      BY <1>2, <1>3, <1>5, <2>2 DEF IsInjective
    <3> QED
      BY <1>1, <3>1
  <2>3. ASSUME NEW a \in 1 .. m, NEW b \in 1 .. n, s[a] = t[b]
        PROVE  FALSE
    <3>1. a = m + b
      BY <1>2, <1>3, <1>5, <2>3 DEF IsInjective
    <3> QED
      BY <1>1, <3>1
  <2> QED
    BY <1>1, <2>1, <2>2, <2>3 DEF IsInjective, Range
<1>6. ASSUME IsInjective(s), IsInjective(t), Range(s) \cap Range(t) = {}
      PROVE  IsInjective(j)
  <2>1. \A a \in 1 .. m, b \in 1 .. n : s[a] # t[b]
    BY <1>1, <1>6 DEF Range
  <2> SUFFICES ASSUME NEW a \in 1 .. m + n, NEW b \in 1 .. m + n, j[a] = j[b]
               PROVE  a = b
    BY <1>1 DEF IsInjective
  <2>2. m + (a - m) = a /\ m + (b - m) = b
    BY <1>1
  <2>3. CASE a \in 1 .. m /\ b \in 1 .. m
    BY <1>1, <1>2, <1>6, <2>3 DEF IsInjective
  <2>4. CASE a - m \in 1 .. n /\ b - m \in 1 .. n
    <3>1. t[a - m] = t[b - m]
      BY <1>2, <2>2, <2>4
    <3>2. a - m = b - m
      BY <1>1, <1>6, <2>4, <3>1 DEF IsInjective
    <3> QED
      BY <2>2, <3>2
  <2>5. CASE a \in 1 .. m /\ b - m \in 1 .. n
    <3>1. s[a] = t[b - m]
      BY <1>2, <2>2, <2>5
    <3> QED
      BY <2>1, <2>5, <3>1
  <2>6. CASE a - m \in 1 .. n /\ b \in 1 .. m
    <3>1. s[b] = t[a - m]
      BY <1>2, <2>2, <2>6
    <3> QED
      BY <2>1, <2>6, <3>1
  <2> QED
    BY <1>2, <2>3, <2>4, <2>5, <2>6
<1> QED
  BY <1>1, <1>2, <1>4, <1>5, <1>6 DEF j, m, n

-------------------------------------------------------------------------------
(***************************************************************************)
(* Handlers and their order.                                               *)
(***************************************************************************)
Kinds == {"start", "receive", "expire", "resume"}

LEMMA DoIs ==
    /\ \A v, r : Do(v, r).do = v /\ Do(v, r).of = r
    /\ \A v, w, r, s : Do(v, r) = Do(w, s) <=> v = w /\ r = s
    /\ \A v \in Kinds, r \in Requests : Do(v, r) \in Handle
    /\ \A h \in Handle : h.do \in Kinds /\ h.of \in Requests /\ h = Do(h.do, h.of)
<1>1. \A v, r : Do(v, r).do = v /\ Do(v, r).of = r
  BY DEF Do
<1>2. \A v, w, r, s : Do(v, r) = Do(w, s) <=> v = w /\ r = s
  BY <1>1
<1> QED
  BY <1>1, <1>2 DEF Do, Handle, Kinds

LEMMA TailOrdered ==
    ASSUME NEW q \in Seq(Handle), q # <<>>, Ordered(q)
    PROVE  /\ Ordered(Tail(q))
           /\ \A h \in Range(q) : Rank(q[1].do) <= Rank(h.do)
<1> DEFINE t == Tail(q)
<1>1. /\ Len(q) \in Nat \ {0} /\ DOMAIN q = 1 .. Len(q)
      /\ Len(t) = Len(q) - 1 /\ DOMAIN t = 1 .. Len(t)
      /\ \A i \in 1 .. Len(t) : t[i] = q[i + 1]
  <2>1. t \in Seq(Handle) /\ Len(t) = Len(q) - 1 /\ \A i \in 1 .. Len(t) : t[i] = q[i + 1]
    BY HeadTailProperties
  <2>2. DOMAIN t = 1 .. Len(t) /\ DOMAIN q = 1 .. Len(q)
    BY <2>1, LenProperties
  <2>3. Len(q) \in Nat \ {0}
    BY EmptySeq
  <2> QED
    BY <2>1, <2>2, <2>3
<1> HIDE DEF t
<1>2. Ordered(t)
  <2> SUFFICES ASSUME NEW i \in 1 .. Len(t), NEW j \in 1 .. Len(t), i < j
               PROVE  Rank(t[i].do) <= Rank(t[j].do)
    BY <1>1 DEF Ordered
  <2>1. i + 1 \in DOMAIN q /\ j + 1 \in DOMAIN q /\ i + 1 < j + 1
    BY <1>1
  <2>2. Rank(q[i + 1].do) <= Rank(q[j + 1].do)
    BY <2>1 DEF Ordered
  <2> QED
    BY <1>1, <2>2
<1>3. ASSUME NEW h \in Range(q)
      PROVE  Rank(q[1].do) <= Rank(h.do)
  <2>1. PICK i \in DOMAIN q : h = q[i]
    BY DEF Range
  <2>2. i = 1 \/ 1 < i
    BY <1>1
  <2>3. CASE i = 1
    BY <2>1, <2>3 DEF Rank
  <2>4. CASE 1 < i
    BY <1>1, <2>1, <2>4 DEF Ordered
  <2> QED
    BY <2>2, <2>3, <2>4
<1> QED
  BY <1>2, <1>3 DEF t

\* The handler that runs is the first of what is left, and leaves the rest.
LEMMA FirstRuns ==
    ASSUME TypeOK, QueuesOK, NEW what \in Kinds, NEW r \in Requests,
           Runs(Do(what, r)), batch' = Tail(batch)
    PROVE  /\ holder = NoRequest
           /\ Do(what, r) \in Left
           /\ batch' \in Seq(Handle) /\ Ordered(batch') /\ IsInjective(batch')
           /\ Left' = Left \ {Do(what, r)}
           /\ \A v \in Kinds, s \in Requests : Do(v, s) \in Left => Rank(what) <= Rank(v)
<1>1. batch \in Seq(Handle) /\ Ordered(batch) /\ IsInjective(batch)
  BY DEF TypeOK, QueuesOK
<1>2. batch # <<>> /\ Do(what, r) = batch[1] /\ holder = NoRequest
  BY DEF Runs
<1>3. /\ Tail(batch) \in Seq(Handle) /\ IsInjective(Tail(batch))
      /\ Do(what, r) \in Range(batch)
      /\ Range(Tail(batch)) = Range(batch) \ {Do(what, r)}
  BY <1>1, <1>2, Popped
<1>4. /\ Ordered(Tail(batch))
      /\ \A h \in Range(batch) : Rank(Do(what, r).do) <= Rank(h.do)
  BY <1>1, <1>2, TailOrdered
<1>5. \A v \in Kinds, s \in Requests : Do(v, s) \in Left => Rank(what) <= Rank(v)
  BY <1>4, DoIs DEF Left
<1> QED
  BY <1>2, <1>3, <1>4, <1>5 DEF Left

LEMMA Distinct ==
    ASSUME batch' \in Seq(Handle), scheduled' \in Seq(Handle),
           IsInjective(batch'), IsInjective(scheduled'), Left' \cap Following' = {}
    PROVE  IsInjective((batch \o scheduled)')
  BY Joined DEF Left, Following

LEMMA LeftHandles == TypeOK => \A h \in Left : h \in Handle
  BY ElementOfSeq, LenProperties DEF TypeOK, Left, Range

\* What SetToSeqs gives: the elements of a set, each once.
LEMMA Listed ==
    ASSUME NEW S, IsFiniteSet(S), NEW q \in SetToSeqs(S)
    PROVE  q \in Seq(S) /\ IsInjective(q) /\ Range(q) = S
<1> DEFINE n == Cardinality(S)
<1>1. n \in Nat
  BY FS_CardinalityType
<1>2. q \in [1 .. n -> S] /\ \A i, j \in 1 .. n : i # j => q[i] # q[j]
  BY DEF SetToSeqs
<1>3. IsInjective(q)
  BY <1>2 DEF IsInjective
<1>4. q \in Injection(1 .. n, S)
  BY <1>2, <1>3 DEF Injection
<1>5. IsFiniteSet(1 .. n) /\ Cardinality(1 .. n) = n
  BY <1>1, FS_Interval
<1>6. q \in Surjection(1 .. n, S)
  BY <1>4, <1>5, FS_Injection
<1>7. Range(q) = S
  BY <1>2, <1>6 DEF Surjection, Range
<1>8. q \in Seq(S)
  BY <1>1, <1>2, SeqDef
<1> QED
  BY <1>3, <1>7, <1>8

\* A queue behind another whose handlers do not come later.
LEMMA Behind ==
    ASSUME NEW s \in Seq(Handle), NEW t \in Seq(Handle), Ordered(s), Ordered(t),
           \A g \in Range(s), h \in Range(t) : Rank(g.do) <= Rank(h.do)
    PROVE  Ordered(s \o t)
<1> DEFINE q == s \o t
           m == Len(s)
           n == Len(t)
<1>1. /\ DOMAIN q = 1 .. m + n
      /\ \A i \in 1 .. m : q[i] = s[i]
      /\ \A i \in 1 .. n : q[m + i] = t[i]
      /\ \A i \in 1 .. m + n : i \in 1 .. m \/ i - m \in 1 .. n
  <2> DEFINE Is(x) ==
          /\ DOMAIN x = 1 .. m + n
          /\ \A i \in 1 .. m : x[i] = s[i]
          /\ \A i \in 1 .. n : x[m + i] = t[i]
          /\ \A i \in 1 .. m + n : i \in 1 .. m \/ i - m \in 1 .. n
  <2>1. Is(s \o t)
    BY Joined
  <2> HIDE DEF q
  <2> QED
    BY <2>1 DEF q
<1>2. m \in Nat /\ n \in Nat /\ DOMAIN s = 1 .. m /\ DOMAIN t = 1 .. n
  BY LenProperties
<1> HIDE DEF q, m, n
<1> SUFFICES ASSUME NEW i \in 1 .. m + n, NEW j \in 1 .. m + n, i < j
             PROVE  Rank(q[i].do) <= Rank(q[j].do)
  BY <1>1 DEF Ordered, q
<1>3. m + (i - m) = i /\ m + (j - m) = j /\ i - m < j - m
  BY <1>2
<1>4. CASE i \in 1 .. m /\ j \in 1 .. m
  BY <1>1, <1>2, <1>4 DEF Ordered
<1>5. CASE i \in 1 .. m /\ j - m \in 1 .. n
  <2>1. q[i] = s[i] /\ q[j] = t[j - m]
    BY <1>1, <1>3, <1>5
  <2>2. s[i] \in Range(s) /\ t[j - m] \in Range(t)
    BY <1>2, <1>5 DEF Range
  <2> QED
    BY <2>1, <2>2
<1>6. CASE i - m \in 1 .. n /\ j - m \in 1 .. n
  <2>1. q[i] = t[i - m] /\ q[j] = t[j - m]
    BY <1>1, <1>3, <1>6
  <2> QED
    BY <1>2, <1>3, <1>6, <2>1 DEF Ordered
<1>7. ~(i - m \in 1 .. n /\ j \in 1 .. m)
  BY <1>2
<1> QED
  BY <1>1, <1>4, <1>5, <1>6, <1>7

LEMMA HandleFinite == IsFiniteSet(Handle)
<1>1. IsFiniteSet(Requests)
  BY TimesAssumption
<1>2. ASSUME NEW v \in Kinds
      PROVE  IsFiniteSet({Do(v, r) : r \in Requests})
  <2> DEFINE T == {Do(v, r) : r \in Requests}
             f == [r \in Requests |-> Do(v, r)]
  <2>1. f \in Surjection(Requests, T)
    BY DEF Surjection
  <2> HIDE DEF f, T
  <2>2. IsFiniteSet(T)
    BY <1>1, <2>1, FS_Surjection
  <2> QED
    BY <2>2 DEF T
<1> DEFINE H(v) == {Do(v, r) : r \in Requests}
<1>3. Handle = ((H("start") \cup H("receive")) \cup H("expire")) \cup H("resume")
  <2>1. ASSUME NEW h \in Handle
        PROVE  h \in ((H("start") \cup H("receive")) \cup H("expire")) \cup H("resume")
    <3>1. h.do \in Kinds /\ h.of \in Requests /\ h = Do(h.do, h.of)
      BY DoIs
    <3>2. h \in H(h.do)
      BY <3>1
    <3> QED
      BY <3>1, <3>2 DEF Kinds
  <2>2. \A v \in Kinds : H(v) \subseteq Handle
    BY DoIs
  <2> QED
    BY <2>1, <2>2 DEF Kinds
<1>4. /\ IsFiniteSet(H("start")) /\ IsFiniteSet(H("receive"))
      /\ IsFiniteSet(H("expire")) /\ IsFiniteSet(H("resume"))
  BY <1>2 DEF Kinds
<1> HIDE DEF H
<1>5. IsFiniteSet(H("start") \cup H("receive"))
  BY <1>4, FS_Union
<1>6. IsFiniteSet((H("start") \cup H("receive")) \cup H("expire"))
  BY <1>4, <1>5, FS_Union
<1>7. IsFiniteSet(((H("start") \cup H("receive")) \cup H("expire")) \cup H("resume"))
  BY <1>4, <1>6, FS_Union
<1> QED
  BY <1>3, <1>7

\* The next iteration: what is scheduled, what came in, and the timers that are due.
LEMMA Selected ==
    ASSUME TypeOK, QueuesOK, Select
    PROVE  LET due == {r \in timers : Due(r)}
           IN  /\ batch' \in Seq(Handle) /\ Ordered(batch') /\ IsInjective(batch')
               /\ Left' = (Following \cup sockets) \cup {Do("expire", r) : r \in due}
               /\ timers' = timers \ due
               /\ Left = {} /\ holder = NoRequest
<1> DEFINE due == {r \in timers : Due(r)}
           E == {Do("expire", r) : r \in due}
<1>1. /\ IsFiniteSet(sockets) /\ sockets \in SUBSET Handle
      /\ IsFiniteSet(due) /\ due \in SUBSET Requests
  <2>1. sockets \in SUBSET Handle /\ due \in SUBSET Requests
    BY DEF TypeOK
  <2> HIDE DEF due
  <2> QED
    BY <2>1, HandleFinite, TimesAssumption, FS_Subset
<1>2. PICK events \in SetToSeqs(sockets), dues \in SetToSeqs(due) :
          /\ batch' = (scheduled \o events) \o [i \in DOMAIN dues |-> Do("expire", dues[i])]
          /\ timers' = timers \ {dues[i] : i \in DOMAIN dues}
  BY Zenon DEF Select
<1> DEFINE expires == [i \in DOMAIN dues |-> Do("expire", dues[i])]
<1> HIDE DEF due
<1>3. /\ events \in Seq(Handle) /\ IsInjective(events) /\ Range(events) = sockets
      /\ dues \in Seq(Requests) /\ IsInjective(dues) /\ Range(dues) = due
  <2>1. events \in Seq(sockets) /\ IsInjective(events) /\ Range(events) = sockets
    BY <1>1, <1>2, Listed
  <2>2. dues \in Seq(due) /\ IsInjective(dues) /\ Range(dues) = due
    BY <1>1, <1>2, Listed
  <2>3. events \in Seq(Handle)
    BY <1>1, <2>1, SeqMonotonic
  <2>4. dues \in Seq(Requests)
    BY <1>1, <2>2, SeqMonotonic
  <2> QED
    BY <2>1, <2>2, <2>3, <2>4
<1>4. /\ expires \in Seq(Handle) /\ IsInjective(expires) /\ Range(expires) = E
  <2>1. /\ Len(dues) \in Nat /\ DOMAIN dues = 1 .. Len(dues)
        /\ \A i \in 1 .. Len(dues) : dues[i] \in Requests
    BY <1>3, LenProperties, ElementOfSeq
  <2>2. \A i \in 1 .. Len(dues) : expires[i] = Do("expire", dues[i])
    BY <2>1
  <2>3. \A i \in 1 .. Len(dues) : expires[i] \in Handle
    BY <2>1, <2>2, DoIs DEF Kinds
  <2>4. expires \in [1 .. Len(dues) -> Handle]
    BY <2>1, <2>3
  <2>5. expires \in Seq(Handle)
    BY <2>1, <2>4, SeqDef
  <2>6. IsInjective(expires)
    BY <1>3, DoIs DEF IsInjective
  <2>7. Range(expires) = E
    BY <1>3 DEF Range
  <2> QED
    BY <2>5, <2>6, <2>7
<1>5. timers' = timers \ due
  BY <1>2, <1>3 DEF Range
<1>6. scheduled \in Seq(Handle) /\ IsInjective(scheduled)
  BY DEF TypeOK, QueuesOK
<1>7. /\ \A h \in Following : Rank(h.do) = 1
      /\ \A h \in sockets : Rank(h.do) = 2
      /\ \A h \in E : Rank(h.do) = 3
  BY DoIs DEF QueuesOK, Rank
<1> DEFINE front == scheduled \o events
<1> HIDE DEF expires, E
<1>8. /\ front \in Seq(Handle) /\ IsInjective(front)
      /\ Range(front) = Following \cup sockets
  <2>1. Following \cap sockets = {}
    BY <1>7
  <2> QED
    BY <1>3, <1>6, <2>1, Joined DEF Following
<1>9. Ordered(front)
  <2>1. \A g \in Range(scheduled), h \in Range(events) : Rank(g.do) <= Rank(h.do)
    BY <1>3, <1>7 DEF Following
  <2>2. Ordered(scheduled) /\ Ordered(events)
    BY <1>3, <1>7 DEF Following, Ordered, Range
  <2> QED
    BY <1>3, <1>6, <2>1, <2>2, Behind
<1> HIDE DEF front
<1>10. batch' = front \o expires
  BY <1>2 DEF front, expires
<1>11. /\ batch' \in Seq(Handle) /\ IsInjective(batch')
       /\ Left' = Range(front) \cup E
  <2>1. Range(front) \cap E = {}
    BY <1>7, <1>8
  <2> QED
    BY <1>4, <1>8, <1>10, <2>1, Joined DEF Left
<1>12. Ordered(batch')
  <2>1. \A g \in Range(front), h \in Range(expires) : Rank(g.do) <= Rank(h.do)
    BY <1>4, <1>7, <1>8
  <2>2. Ordered(expires)
    BY <1>4, <1>7 DEF Ordered, Range
  <2> QED
    BY <1>4, <1>8, <1>9, <1>10, <2>1, <2>2, Behind
<1>13. Left = {} /\ holder = NoRequest
  BY DEF Select, Left, Range
<1> QED
  BY <1>5, <1>8, <1>11, <1>12, <1>13 DEF E, due

-------------------------------------------------------------------------------
(***************************************************************************)
(* How long a group of requests holds the loop.                            *)
(***************************************************************************)
LEMMA StretchNat == Stretch \in Nat
  BY TimesAssumption DEF Stretch

LEMMA Products ==
    ASSUME NEW s \in Nat, NEW a \in Nat
    PROVE  /\ a * s \in Nat
           /\ (a + 1) * s = a * s + s
           /\ \A b \in Nat : a <= b => a * s <= b * s
  OBVIOUS

LEMMA TurnsOf ==
    ASSUME NEW group \in SUBSET Requests
    PROVE  /\ Turns(group) \in Nat
           /\ group = {} => Turns(group) = 0
           /\ \A r \in group : Turns(group) = Turns(group \ {r}) + Stretch
           /\ \A r \in Requests \ group : Turns(group) <= Round
<1>1. IsFiniteSet(Requests) /\ IsFiniteSet(group) /\ Cardinality(group) \in Nat
  BY TimesAssumption, FS_Subset, FS_CardinalityType
<1>2. Turns(group) \in Nat
  BY <1>1, StretchNat, Products DEF Turns
<1>3. ASSUME group = {}
      PROVE  Turns(group) = 0
  <2>1. Cardinality(group) = 0
    BY <1>3, FS_EmptySet
  <2> QED
    BY <2>1, StretchNat DEF Turns
<1>4. ASSUME NEW r \in group
      PROVE  Turns(group) = Turns(group \ {r}) + Stretch
  <2> DEFINE n == Cardinality(group \ {r})
  <2>1. n \in Nat /\ Cardinality(group) = n + 1
    <3>1. IsFiniteSet(group \ {r}) /\ n = Cardinality(group) - 1
      BY <1>1, FS_RemoveElement
    <3>2. n \in Nat
      BY <3>1, FS_CardinalityType
    <3> QED
      BY <1>1, <3>1, <3>2
  <2> HIDE DEF n
  <2>2. (n + 1) * Stretch = n * Stretch + Stretch
    BY <2>1, StretchNat, Products
  <2> QED
    BY <2>1, <2>2 DEF Turns, n
<1>5. ASSUME NEW r \in Requests \ group
      PROVE  Turns(group) <= Round
  <2> DEFINE others == Requests \ {r}
  <2>1. IsFiniteSet(others) /\ Cardinality(others) = Cardinality(Requests) - 1
    BY <1>1, FS_RemoveElement
  <2>2. group \in SUBSET others
    OBVIOUS
  <2> HIDE DEF others
  <2>3. Cardinality(group) <= Cardinality(others) /\ Cardinality(others) \in Nat
    BY <2>1, <2>2, FS_Subset, FS_CardinalityType
  <2>4. Cardinality(group) * Stretch <= Cardinality(others) * Stretch
    BY <1>1, <2>3, StretchNat, Products
  <2> QED
    BY <2>1, <2>4 DEF Turns, Round
<1> QED
  BY <1>2, <1>3, <1>4, <1>5

\* Latest, in rounds.
LEMMA LatestIs ==
    /\ Latest = AiTimeout + 2 * Round
    /\ Requests # {} => Round \in Nat
<1>1. Cardinality(Requests) \in Nat
  BY TimesAssumption, FS_CardinalityType
<1>2. Latest = AiTimeout + 2 * Round
  <2> DEFINE n == Cardinality(Requests) - 1
  <2>1. n \in Int
    BY <1>1
  <2> HIDE DEF n
  <2>2. (2 * n) * Stretch = 2 * (n * Stretch)
    BY <2>1, StretchNat
  <2> QED
    BY <2>2 DEF Latest, Round, n
<1>3. ASSUME NEW r \in Requests
      PROVE  Round \in Nat
  <2>1. Cardinality(Requests) # 0
    BY <1>3, TimesAssumption, FS_EmptySet
  <2>2. Cardinality(Requests) - 1 \in Nat
    BY <1>1, <2>1
  <2> QED
    BY <2>2, StretchNat, Products DEF Round
<1> QED
  BY <1>2, <1>3

LEMMA AheadOf == TypeOK =>
    /\ Rest \in Nat /\ Rest <= Stretch
    /\ Turns(Starting) \in Nat
    /\ Ahead = Turns(Starting) + Rest
    /\ Ahead \in Nat
<1> SUFFICES ASSUME TypeOK
             PROVE  /\ Rest \in Nat /\ Rest <= Stretch
                    /\ Turns(Starting) \in Nat
                    /\ Ahead = Turns(Starting) + Rest
                    /\ Ahead \in Nat
  OBVIOUS
<1>1. Rest \in Nat /\ Rest <= Stretch
  BY StretchNat DEF TypeOK, Rest
<1>2. Starting \in SUBSET Requests
  BY DEF Starting
<1>3. Turns(Starting) \in Nat
  BY <1>2, TurnsOf
<1> QED
  BY <1>1, <1>3 DEF Ahead

LEMMA InitInv == Init => IndInv
<1> SUFFICES ASSUME Init
             PROVE  IndInv
  OBVIOUS
<1>1. batch = <<>> /\ scheduled = <<>> /\ Left = {} /\ Following = {} /\ Starting = {}
  BY DEF Init, Left, Following, Starting, Range
<1>2. IsInjective(batch) /\ IsInjective(scheduled) /\ Ordered(batch)
  BY <1>1 DEF IsInjective, Ordered
<1>3. IsInjective(batch \o scheduled)
  <2>1. batch \in Seq(Handle) /\ scheduled \in Seq(Handle)
    BY <1>1
  <2> QED
    BY <1>1, <1>2, <2>1, Joined DEF Left, Following
<1>4. \A r \in Requests : Round \in Nat /\ Latest = AiTimeout + 2 * Round /\ 0 <= Latest
  BY LatestIs, TimesAssumption
<1>5. TypeOK
  BY <1>1, <1>3, <1>4, StretchNat, TimesAssumption DEF Init, TypeOK
<1>6. QueuesOK
  BY <1>1, <1>2 DEF Init, QueuesOK
<1>7. PlacesOK
  BY <1>1 DEF Init, PlacesOK
<1>8. TimersOK /\ CancelledOK /\ AgesOK /\ AnswersOK /\ LatenessIsBounded
  BY <1>4 DEF Init, TimersOK, CancelledOK, AgesOK, AnswersOK, LatenessIsBounded
<1> QED
  BY <1>5, <1>6, <1>7, <1>8 DEF IndInv

-------------------------------------------------------------------------------
(***************************************************************************)
(* What comes from outside.                                                *)
(***************************************************************************)
\* As long as the queues and the holder stay.
LEMMA QueuesStay ==
    ASSUME UNCHANGED <<batch, scheduled, holder, held>>
    PROVE  Left' = Left /\ Following' = Following /\ Starting' = Starting /\ Ahead' = Ahead
  BY DEF Left, Following, Starting, Ahead, Rest

LEMMA ArriveKeeps ==
    ASSUME IndInv, NEW r \in Requests, Arrive(r)
    PROVE  IndInv'
<1> USE DEF Arrive
<1>1. Left' = Left /\ Following' = Following /\ Starting' = Starting /\ Ahead' = Ahead
  BY QueuesStay
<1>2. Do("start", r) \in Handle
  BY DoIs DEF Kinds
<1>3. TypeOK'
  BY <1>2 DEF IndInv, TypeOK
<1>4. QueuesOK'
  BY <1>1, DoIs DEF IndInv, QueuesOK
<1>5. PlacesOK'
  BY <1>1, DoIs DEF IndInv, PlacesOK, TypeOK
<1>6. TimersOK' /\ CancelledOK' /\ AgesOK'
  BY <1>1 DEF IndInv, TimersOK, CancelledOK, AgesOK, TypeOK
<1>7. AnswersOK'
  BY <1>1 DEF IndInv, AnswersOK
<1>8. LatenessIsBounded'
  BY DEF IndInv, LatenessIsBounded
<1> QED
  BY <1>3, <1>4, <1>5, <1>6, <1>7, <1>8 DEF IndInv

LEMMA AnswerKeeps ==
    ASSUME IndInv, NEW r \in Requests, Answer(r)
    PROVE  IndInv'
<1> USE DEF Answer
<1>1. Left' = Left /\ Following' = Following /\ Starting' = Starting /\ Ahead' = Ahead
  BY QueuesStay
<1>2. Do("receive", r) \in Handle
  BY DoIs DEF Kinds
<1>3. TypeOK'
  BY <1>2 DEF IndInv, TypeOK
<1>4. QueuesOK'
  BY <1>1, DoIs DEF IndInv, QueuesOK
<1>5. PlacesOK'
  BY <1>1, DoIs DEF IndInv, PlacesOK, TypeOK
<1>6. TimersOK' /\ CancelledOK' /\ AgesOK'
  BY <1>1 DEF IndInv, TimersOK, CancelledOK, AgesOK, TypeOK
<1>7. AnswersOK'
  BY <1>1, TimesAssumption DEF IndInv, AnswersOK, TypeOK
<1>8. LatenessIsBounded'
  BY DEF IndInv, LatenessIsBounded
<1> QED
  BY <1>3, <1>4, <1>5, <1>6, <1>7, <1>8 DEF IndInv

-------------------------------------------------------------------------------
(***************************************************************************)
(* Time.                                                                   *)
(***************************************************************************)
LEMMA LookupKeeps ==
    ASSUME IndInv, LookupTakesTime
    PROVE  IndInv'
<1> USE DEF LookupTakesTime
<1>1. Left' = Left /\ Following' = Following /\ Starting' = Starting
  BY DEF Left, Following, Starting
<1>2. Rest' = Rest - 1 /\ Ahead' = Ahead - 1 /\ Ahead' \in Nat
  <2>1. Rest' = Rest - 1 /\ Rest' \in Nat
    BY StretchNat DEF IndInv, TypeOK, Rest
  <2> QED
    BY <1>1, <2>1, AheadOf DEF IndInv, Ahead
<1>3. cancelled = {}
  BY DEF IndInv, CancelledOK, QueuesOK, Do
<1>4. \A r \in Requests :
          /\ age[r] \in Nat /\ age[r] <= Latest
          /\ age'[r] = IF place[r] = "awaiting" THEN age[r] + 1 ELSE age[r]
          /\ Latest \in Nat /\ Latest = AiTimeout + 2 * Round /\ Round \in Nat
  BY LatestIs, TimesAssumption DEF IndInv, TypeOK, LatenessIsBounded, Ages, Older
<1>5. TypeOK'
  <2>1. age' \in [Requests -> 0 .. Latest + 1]
    BY <1>4 DEF Ages
  <2>2. blocked' \in [Requests -> Nat]
    BY DEF IndInv, TypeOK
  <2> QED
    BY <2>1, <2>2, StretchNat DEF IndInv, TypeOK
<1>6. QueuesOK'
  BY <1>1 DEF IndInv, QueuesOK
<1>7. PlacesOK'
  BY <1>1, <1>4, TimesAssumption DEF IndInv, PlacesOK, TypeOK
<1>8. TimersOK' /\ CancelledOK'
  BY <1>1, <1>3 DEF IndInv, TimersOK, CancelledOK
<1>9. AgesOK'
  <2> SUFFICES ASSUME NEW r \in Requests, place[r] = "awaiting"
               PROVE  /\ r \in timers => age'[r] + Ahead' <= AiTimeout + Round
                      /\ r \notin timers => age'[r] + Ahead' <= AiTimeout + 2 * Round
    BY <1>3 DEF AgesOK, IndInv, TypeOK
  <2>1. /\ r \in timers => age[r] + Ahead <= AiTimeout + Round
        /\ r \notin timers => age[r] + Ahead <= AiTimeout + 2 * Round
    BY <1>3 DEF IndInv, AgesOK
  <2>2. age'[r] = age[r] + 1 /\ age[r] \in Nat /\ Ahead \in Nat /\ Ahead' = Ahead - 1
    BY <1>2, <1>4, AheadOf DEF IndInv
  <2>3. age'[r] + Ahead' = age[r] + Ahead
    BY <2>2
  <2> QED
    BY <2>1, <2>3
<1>10. AnswersOK'
  <2> SUFFICES ASSUME NEW r \in Requests, answered[r] # NoAnswer
               PROVE  /\ \/ Do("receive", r) \in sockets \cup Left
                         \/ Do("resume", r) \in Left \cup Following
                      /\ age'[r] <= answered[r] + blocked'[r]
    BY <1>1 DEF AnswersOK
  <2>1. /\ \/ Do("receive", r) \in sockets \cup Left
           \/ Do("resume", r) \in Left \cup Following
        /\ age[r] <= answered[r] + blocked[r]
    BY DEF IndInv, AnswersOK
  <2>2. /\ answered[r] \in Nat /\ blocked[r] \in Nat /\ blocked'[r] = blocked[r] + 1
        /\ age[r] \in Nat /\ age'[r] <= age[r] + 1 /\ age'[r] \in Nat
    <3>1. answered[r] \in Nat /\ blocked[r] \in Nat
      BY DEF IndInv, TypeOK
    <3>2. blocked'[r] = blocked[r] + 1
      OBVIOUS
    <3>3. age[r] \in Nat /\ age'[r] <= age[r] + 1 /\ age'[r] \in Nat
      BY <1>4
    <3> QED
      BY <3>1, <3>2, <3>3
  <2> QED
    BY <2>1, <2>2
<1>11. LatenessIsBounded'
  BY <1>2, <1>3, <1>4, <1>9, TimesAssumption
  DEF IndInv, LatenessIsBounded, AgesOK, PlacesOK
<1> QED
  BY <1>5, <1>6, <1>7, <1>8, <1>9, <1>10, <1>11 DEF IndInv

LEMMA SleepKeeps ==
    ASSUME IndInv, LoopSleeps
    PROVE  IndInv'
<1> USE DEF LoopSleeps
<1>1. Left' = Left /\ Following' = Following /\ Starting' = Starting /\ Ahead' = Ahead
  BY QueuesStay
<1>2. Left = {} /\ Following = {} /\ Starting = {}
  BY DEF Left, Following, Starting, Range
<1>3. Ahead = 0
  <2>1. Turns(Starting) = 0
    BY <1>2, TurnsOf
  <2> QED
    BY <2>1 DEF Ahead, Rest
<1>4. cancelled = {} /\ \A r \in Requests : place[r] = "awaiting" => r \in timers
  BY <1>2 DEF IndInv, CancelledOK, TimersOK
<1>5. \A r \in Requests : answered[r] = NoAnswer
  BY <1>2 DEF IndInv, AnswersOK
<1>6. \A r \in Requests :
          /\ age[r] \in Nat /\ age[r] <= Latest
          /\ age'[r] = IF place[r] = "awaiting" THEN age[r] + 1 ELSE age[r]
          /\ Latest \in Nat /\ Latest = AiTimeout + 2 * Round /\ Round \in Nat
  BY LatestIs, TimesAssumption DEF IndInv, TypeOK, LatenessIsBounded, Ages, Older
<1>7. TypeOK'
  <2>1. age' \in [Requests -> 0 .. Latest + 1]
    BY <1>6 DEF Ages
  <2> QED
    BY <2>1 DEF IndInv, TypeOK
<1>8. QueuesOK'
  BY <1>1 DEF IndInv, QueuesOK
<1>9. PlacesOK'
  BY <1>1, <1>6, TimesAssumption DEF IndInv, PlacesOK, TypeOK
<1>10. TimersOK' /\ CancelledOK'
  BY <1>1, <1>4 DEF IndInv, TimersOK, CancelledOK
<1>11. \A r \in timers : age[r] < AiTimeout /\ place[r] = "awaiting"
  BY <1>6, TimesAssumption DEF IndInv, TypeOK, Due
<1>12. AgesOK'
  <2> SUFFICES ASSUME NEW r \in Requests, r \in timers
               PROVE  age'[r] + Ahead' <= AiTimeout + Round
    BY <1>4 DEF AgesOK
  <2>1. age'[r] = age[r] + 1 /\ age[r] \in Nat /\ age[r] < AiTimeout /\ Round \in Nat
    BY <1>6, <1>11
  <2> QED
    BY <1>1, <1>3, <2>1, TimesAssumption
<1>13. AnswersOK'
  BY <1>5 DEF AnswersOK
<1>14. LatenessIsBounded'
  BY <1>1, <1>3, <1>4, <1>6, <1>12, TimesAssumption
  DEF IndInv, LatenessIsBounded, AgesOK, PlacesOK
<1> QED
  BY <1>7, <1>8, <1>9, <1>10, <1>12, <1>13, <1>14 DEF IndInv

-------------------------------------------------------------------------------
(***************************************************************************)
(* The loop.                                                               *)
(***************************************************************************)
LEMMA SelectKeeps ==
    ASSUME IndInv, Select
    PROVE  IndInv'
<1> DEFINE due == {r \in timers : Due(r)}
           E == {Do("expire", r) : r \in due}
<1>1. /\ batch' \in Seq(Handle) /\ Ordered(batch') /\ IsInjective(batch')
      /\ Left' = (Following \cup sockets) \cup E
      /\ timers' = timers \ due
      /\ Left = {} /\ holder = NoRequest
  BY Selected DEF IndInv
<1>2. /\ sockets' = {} /\ scheduled' = <<>> /\ Following' = {}
      /\ UNCHANGED <<place, holder, held, cancelled, age, answered, blocked>>
  BY DEF Select, Following, Range
<1>3. /\ due \subseteq timers
      /\ \A r \in due : age[r] >= AiTimeout
      /\ \A r \in timers \ due : ~(age[r] >= AiTimeout)
      /\ \A v, r : Do(v, r) \in E <=> v = "expire" /\ r \in due
  BY DoIs DEF Due
<1> HIDE DEF E, due
<1>4. /\ \A r : Do("start", r) \in Left' <=> Do("start", r) \in sockets
      /\ \A r : Do("receive", r) \in Left' <=> Do("receive", r) \in sockets
      /\ \A r : Do("expire", r) \in Left' <=> r \in due
      /\ \A r : Do("resume", r) \in Left' <=> Do("resume", r) \in Following
  BY <1>1, <1>3, DoIs DEF IndInv, QueuesOK
<1>5. TypeOK'
  <2>1. scheduled' \in Seq(Handle) /\ IsInjective(scheduled')
    BY <1>2 DEF IsInjective
  <2>2. IsInjective(batch' \o scheduled')
    BY <1>1, <1>2, <2>1, Joined DEF Left, Following
  <2> QED
    BY <1>1, <1>2, <2>1, <2>2 DEF IndInv, TypeOK
<1>6. QueuesOK'
  BY <1>1, <1>2 DEF QueuesOK, IsInjective
<1>7. PlacesOK'
  <2> SUFFICES ASSUME NEW r \in Requests
               PROVE  /\ r \in due => place[r] = "awaiting" /\ age[r] >= AiTimeout
                      /\ Do("start", r) \in sockets <=> place[r] = "arriving"
                      /\ Do("resume", r) \in Following => place[r] = "awaiting"
                      /\ place[r] # "awaiting" => age[r] = 0 /\ answered[r] = NoAnswer
    BY <1>1, <1>2, <1>4 DEF PlacesOK
  <2>1. Do("start", r) \in sockets <=> place[r] = "arriving"
    BY <1>1 DEF IndInv, PlacesOK
  <2> QED
    BY <1>3, <2>1 DEF IndInv, PlacesOK, TypeOK
<1>8. TimersOK'
  BY <1>1, <1>2, <1>4 DEF IndInv, TimersOK
<1>9. CancelledOK'
  BY <1>1, <1>2, <1>4 DEF IndInv, CancelledOK
<1>10. \A r \in Requests : place[r] = "awaiting" =>
           Ahead' <= Round /\ Ahead' \in Nat /\ Round \in Nat /\ age[r] \in Nat
  <2> SUFFICES ASSUME NEW r \in Requests, place[r] = "awaiting"
               PROVE  Ahead' <= Round /\ Ahead' \in Nat /\ Round \in Nat /\ age[r] \in Nat
    OBVIOUS
  <2>1. r \notin Starting' /\ Starting' \in SUBSET Requests
    BY <1>4 DEF Starting, IndInv, PlacesOK
  <2>2. Turns(Starting') <= Round /\ Turns(Starting') \in Nat
    BY <2>1, TurnsOf
  <2>3. Ahead' = Turns(Starting') + 0
    BY <1>1, <1>2 DEF Ahead, Rest
  <2>4. Round \in Nat /\ age[r] \in Nat
    BY LatestIs DEF IndInv, TypeOK
  <2> QED
    BY <2>2, <2>3, <2>4
<1>11. AgesOK'
  <2> SUFFICES ASSUME NEW r \in Requests, place[r] = "awaiting", r \notin cancelled \/ r \in timers
               PROVE  /\ r \in timers \ due => age[r] + Ahead' <= AiTimeout + Round
                      /\ r \notin timers \ due => age[r] + Ahead' <= AiTimeout + 2 * Round
    BY <1>1, <1>2 DEF AgesOK, IndInv, TypeOK
  <2>1. Ahead' <= Round /\ Ahead' \in Nat /\ Round \in Nat /\ age[r] \in Nat
    BY <1>10
  <2>2. CASE r \in timers \ due
    BY <1>3, <2>1, <2>2, TimesAssumption
  <2>3. CASE r \notin timers \ due
    <3>1. r \in timers
      BY <1>1, <2>3 DEF IndInv, TimersOK
    <3>2. age[r] + Ahead <= AiTimeout + Round /\ Ahead \in Nat
      BY <3>1, AheadOf DEF IndInv, AgesOK
    <3> QED
      BY <2>1, <2>3, <3>2, TimesAssumption
  <2> QED
    BY <2>2, <2>3
<1>12. AnswersOK'
  BY <1>1, <1>2, <1>4 DEF IndInv, AnswersOK
<1>13. LatenessIsBounded'
  BY <1>2 DEF IndInv, LatenessIsBounded
<1> QED
  BY <1>5, <1>6, <1>7, <1>8, <1>9, <1>11, <1>12, <1>13 DEF IndInv

LEMMA StartKeeps ==
    ASSUME IndInv, NEW r \in Requests, Start(r)
    PROVE  IndInv'
<1> USE DEF Start
<1>1. /\ holder = NoRequest /\ Do("start", r) \in Left
      /\ batch' \in Seq(Handle) /\ Ordered(batch') /\ IsInjective(batch')
      /\ Left' = Left \ {Do("start", r)}
      /\ \A s \in Requests : Do("resume", s) \notin Left
  BY FirstRuns DEF IndInv, Kinds, Rank
<1>2. Following' = Following
  BY DEF Following
<1>3. /\ place[r] = "arriving" /\ Do("start", r) \notin sockets
      /\ Do("expire", r) \notin Left
      /\ r \notin timers \cup cancelled /\ r # NoRequest
  BY <1>1, TimesAssumption DEF IndInv, PlacesOK, TypeOK
<1>4. Ahead' = Ahead
  <2>1. Starting \in SUBSET Requests /\ r \in Starting /\ Starting' = Starting \ {r}
    BY <1>1, DoIs DEF Starting
  <2>2. Turns(Starting) = Turns(Starting') + Stretch /\ Turns(Starting') \in Nat
    BY <2>1, TurnsOf
  <2>3. Rest = 0 /\ Rest' = Stretch
    BY <1>1, <1>3, StretchNat DEF Rest
  <2> QED
    BY <2>2, <2>3, StretchNat DEF Ahead
<1>5. cancelled = {}
  <2>1. r \in Starting
    BY <1>1 DEF Starting
  <2>2. cancelled \subseteq Requests
    BY DEF IndInv, TypeOK
  <2> QED
    BY <1>1, <2>1, <2>2 DEF IndInv, CancelledOK
<1>6. TypeOK'
  <2>1. IsInjective(batch' \o scheduled')
    BY <1>1, <1>2, Distinct DEF IndInv, QueuesOK, TypeOK
  <2>2. \A s \in Requests : s = r <=> place'[s] = "enriching"
    BY <1>1, TimesAssumption DEF IndInv, TypeOK
  <2> QED
    BY <1>1, <1>3, <2>1, <2>2, StretchNat DEF IndInv, TypeOK
<1>7. QueuesOK'
  <2>1. \A h \in Left : h.do # "resume"
    BY <1>1, LeftHandles, DoIs DEF IndInv
  <2> QED
    BY <1>1, <1>2, <2>1 DEF IndInv, QueuesOK
<1>8. PlacesOK'
  BY <1>1, <1>2, <1>3, DoIs DEF IndInv, PlacesOK, TypeOK
<1>9. TimersOK' /\ CancelledOK'
  BY <1>1, <1>2, <1>3, <1>5, DoIs DEF IndInv, TimersOK, CancelledOK, TypeOK
<1>10. AgesOK'
  BY <1>3, <1>4 DEF IndInv, AgesOK, TypeOK
<1>11. AnswersOK'
  BY <1>1, <1>2, DoIs DEF IndInv, AnswersOK
<1>12. LatenessIsBounded'
  BY DEF IndInv, LatenessIsBounded
<1> QED
  BY <1>6, <1>7, <1>8, <1>9, <1>10, <1>11, <1>12 DEF IndInv

\* While a request holds the loop, what may be left of it is an answer to a call that is
\* over, and no call is cancelled.
LEMMA HolderIsAlone ==
    ASSUME IndInv, NEW r \in Requests, holder = r
    PROVE  /\ place[r] = "enriching" /\ r \notin timers \cup cancelled
           /\ \A v \in Kinds \ {"receive"} : Do(v, r) \notin Left \cup Following
           /\ Do("start", r) \notin sockets
           /\ cancelled = {}
<1>1. place[r] = "enriching" /\ r \notin timers \cup cancelled
  BY DEF IndInv, TypeOK
<1>2. /\ Do("start", r) \notin Left \cup sockets /\ Do("expire", r) \notin Left
      /\ Do("resume", r) \notin Left \cup Following
  BY <1>1 DEF IndInv, PlacesOK
<1>3. Do("start", r) \notin Following /\ Do("expire", r) \notin Following
  BY DoIs DEF IndInv, QueuesOK
<1>4. \A s \in Requests : Do("resume", s) \notin Left
  BY TimesAssumption, DoIs DEF IndInv, QueuesOK
<1>5. cancelled = {}
  BY <1>4, TimesAssumption DEF IndInv, CancelledOK, TypeOK
<1> QED
  BY <1>1, <1>2, <1>3, <1>5 DEF Kinds

\* The holder gives the loop back: nothing is left of its turn.
LEMMA GivesBack ==
    ASSUME IndInv, holder # NoRequest, holder' = NoRequest, UNCHANGED batch
    PROVE  Ahead \in Nat /\ Ahead' \in Nat /\ Ahead' <= Ahead /\ Ahead' = Turns(Starting)
<1>1. Starting' = Starting /\ Rest' = 0
  BY DEF Starting, Left, Rest
<1>2. Rest \in Nat /\ Turns(Starting) \in Nat /\ Ahead = Turns(Starting) + Rest
  BY AheadOf DEF IndInv
<1> QED
  BY <1>1, <1>2 DEF Ahead

LEMMA CallAssistantKeeps ==
    ASSUME IndInv, NEW r \in Requests, CallAssistant(r)
    PROVE  IndInv'
<1> USE DEF CallAssistant
<1>1. Left' = Left /\ Following' = Following
  BY DEF Left, Following
<1>2. Ahead \in Nat /\ Ahead' \in Nat /\ Ahead' <= Ahead /\ Ahead' = Turns(Starting)
  BY GivesBack, TimesAssumption
<1>3. /\ place[r] = "enriching" /\ r \notin timers \cup cancelled
      /\ \A v \in Kinds \ {"receive"} : Do(v, r) \notin Left \cup Following
      /\ Do("start", r) \notin sockets
  BY HolderIsAlone
<1>4. cancelled = {}
  BY HolderIsAlone
<1>5. TypeOK'
  <2>1. 0 \in 0 .. Latest + 1
    BY LatestIs, TimesAssumption
  <2> QED
    BY <1>3, <2>1, StretchNat, TimesAssumption DEF IndInv, TypeOK
<1>6. QueuesOK'
  BY <1>1 DEF IndInv, QueuesOK
<1>7. PlacesOK'
  BY <1>1, <1>3, DoIs DEF IndInv, PlacesOK, TypeOK, Kinds
<1>8. TimersOK' /\ CancelledOK'
  BY <1>1, <1>3, <1>4 DEF IndInv, TimersOK, CancelledOK, TypeOK
<1>9. AgesOK'
  <2> SUFFICES ASSUME NEW s \in Requests
               PROVE  /\ s \in timers' => age'[s] + Ahead' <= AiTimeout + Round
                      /\ place'[s] = "awaiting" /\ s \notin timers' =>
                             age'[s] + Ahead' <= AiTimeout + 2 * Round
    BY <1>4 DEF AgesOK
  <2>1. CASE s = r
    <3>1. r \in Requests \ Starting /\ Starting \in SUBSET Requests
      BY <1>3 DEF Starting, Kinds
    <3>2. Turns(Starting) <= Round
      BY <3>1, TurnsOf
    <3>3. age'[s] = 0 /\ s \in timers' /\ Round \in Nat
      BY <2>1, LatestIs DEF IndInv, TypeOK
    <3> QED
      BY <1>2, <3>2, <3>3, TimesAssumption
  <2>2. CASE s # r
    <3>1. /\ age'[s] = age[s] /\ age[s] \in Nat /\ place'[s] = place[s]
          /\ s \in timers' <=> s \in timers
          /\ Round \in Nat
      BY <2>2, LatestIs DEF IndInv, TypeOK
    <3>2. /\ s \in timers => age[s] + Ahead <= AiTimeout + Round
          /\ place[s] = "awaiting" /\ s \notin timers => age[s] + Ahead <= AiTimeout + 2 * Round
      BY <1>4 DEF IndInv, AgesOK
    <3> QED
      BY <1>2, <3>1, <3>2, TimesAssumption
  <2> QED
    BY <2>1, <2>2
<1>10. AnswersOK'
  BY <1>1, <1>3, TimesAssumption DEF IndInv, AnswersOK, PlacesOK, TypeOK
<1>11. LatenessIsBounded'
  BY LatestIs, TimesAssumption DEF IndInv, LatenessIsBounded, TypeOK
<1> QED
  BY <1>5, <1>6, <1>7, <1>8, <1>9, <1>10, <1>11 DEF IndInv

LEMMA AnswerAtOnceKeeps ==
    ASSUME IndInv, NEW r \in Requests, AnswerAtOnce(r)
    PROVE  IndInv'
<1> USE DEF AnswerAtOnce
<1>1. Left' = Left /\ Following' = Following
  BY DEF Left, Following
<1>2. Ahead \in Nat /\ Ahead' \in Nat /\ Ahead' <= Ahead
  BY GivesBack, TimesAssumption
<1>3. /\ place[r] = "enriching" /\ r \notin timers \cup cancelled
      /\ \A v \in Kinds \ {"receive"} : Do(v, r) \notin Left \cup Following
      /\ Do("start", r) \notin sockets
  BY HolderIsAlone
<1>4. cancelled = {}
  BY HolderIsAlone
<1>5. TypeOK'
  BY <1>3, StretchNat, TimesAssumption DEF IndInv, TypeOK
<1>6. QueuesOK'
  BY <1>1 DEF IndInv, QueuesOK
<1>7. PlacesOK'
  BY <1>1, <1>3, DoIs DEF IndInv, PlacesOK, TypeOK, Kinds
<1>8. TimersOK' /\ CancelledOK'
  BY <1>1, <1>3, <1>4 DEF IndInv, TimersOK, CancelledOK, TypeOK
<1>9. AgesOK'
  <2> SUFFICES ASSUME NEW s \in Requests, place[s] = "awaiting"
               PROVE  /\ s \in timers => age[s] + Ahead' <= AiTimeout + Round
                      /\ s \notin timers => age[s] + Ahead' <= AiTimeout + 2 * Round
    BY <1>3, <1>4 DEF AgesOK, IndInv, TypeOK
  <2>1. /\ s \in timers => age[s] + Ahead <= AiTimeout + Round
        /\ s \notin timers => age[s] + Ahead <= AiTimeout + 2 * Round
    BY <1>4 DEF IndInv, AgesOK
  <2>2. age[s] \in Nat /\ Round \in Nat
    BY LatestIs DEF IndInv, TypeOK
  <2> QED
    BY <1>2, <2>1, <2>2, TimesAssumption
<1>10. AnswersOK'
  BY <1>1 DEF IndInv, AnswersOK
<1>11. LatenessIsBounded'
  BY DEF IndInv, LatenessIsBounded
<1> QED
  BY <1>5, <1>6, <1>7, <1>8, <1>9, <1>10, <1>11 DEF IndInv

\* A handler that is neither a start nor a lookup takes nothing from what is ahead.
LEMMA AheadStays ==
    ASSUME IndInv, NEW what \in {"receive", "expire", "resume"}, NEW r \in Requests,
           Left' = Left \ {Do(what, r)}, UNCHANGED <<holder, held>>
    PROVE  Starting' = Starting /\ Ahead' = Ahead
<1>1. Starting' = Starting
  BY DoIs DEF Starting
<1> QED
  BY <1>1 DEF Ahead, Rest

LEMMA ReceiveKeeps ==
    ASSUME IndInv, NEW r \in Requests, Receive(r)
    PROVE  IndInv'
<1> USE DEF Receive
<1>1. /\ holder = NoRequest /\ Do("receive", r) \in Left
      /\ batch' \in Seq(Handle) /\ Ordered(batch') /\ IsInjective(batch')
      /\ Left' = Left \ {Do("receive", r)}
      /\ \A s \in Requests : Do("resume", s) \notin Left
  BY FirstRuns DEF IndInv, Kinds, Rank
<1>2. Starting' = Starting /\ Ahead' = Ahead
  BY <1>1, AheadStays
<1> DEFINE resumes == place[r] = "awaiting" /\ r \notin cancelled
<1>3. Do("resume", r) \in Handle /\ Do("resume", r) \notin Following
  BY <1>1, DoIs DEF IndInv, PlacesOK, Kinds
<1>4. /\ scheduled' \in Seq(Handle) /\ IsInjective(scheduled')
      /\ Following' = IF resumes THEN Following \cup {Do("resume", r)} ELSE Following
  <2>1. scheduled \in Seq(Handle) /\ IsInjective(scheduled)
    BY DEF IndInv, TypeOK, QueuesOK
  <2>2. CASE resumes
    <3>1. scheduled' = Append(scheduled, Do("resume", r))
      BY <2>2
    <3> QED
      BY <1>3, <2>1, <2>2, <3>1, Appended DEF Following
  <2>3. CASE ~resumes
    BY <2>1, <2>3 DEF Following
  <2> QED
    BY <2>2, <2>3
<1> HIDE DEF resumes
<1>5. QueuesOK'
  <2>1. Left' \cap Following' = {}
    BY <1>1, <1>4 DEF IndInv, QueuesOK
  <2>2. \A h \in Following' : h.do = "resume"
    BY <1>4, DoIs DEF IndInv, QueuesOK
  <2> QED
    BY <1>1, <1>4, <2>1, <2>2 DEF IndInv, QueuesOK
<1>6. TypeOK'
  <2>1. IsInjective((batch \o scheduled)')
    BY <1>1, <1>4, <1>5, Distinct DEF QueuesOK
  <2> QED
    BY <1>1, <1>4, <2>1 DEF IndInv, TypeOK
<1>7. PlacesOK'
  BY <1>1, <1>4, DoIs DEF IndInv, PlacesOK, resumes
<1>8. TimersOK' /\ CancelledOK'
  BY <1>1, <1>2, <1>4, DoIs DEF IndInv, TimersOK, CancelledOK
<1>9. AgesOK'
  BY <1>2 DEF IndInv, AgesOK
<1>10. AnswersOK'
  <2> SUFFICES ASSUME NEW s \in Requests, answered[s] # NoAnswer
               PROVE  \/ Do("receive", s) \in sockets \cup Left'
                      \/ Do("resume", s) \in Left' \cup Following'
    BY DEF IndInv, AnswersOK
  <2>1. \/ Do("receive", s) \in sockets \cup Left
        \/ Do("resume", s) \in Left \cup Following
    BY DEF IndInv, AnswersOK
  <2>2. CASE s # r
    BY <1>1, <1>4, <2>1, <2>2, DoIs
  <2>3. CASE s = r
    <3>1. place[r] = "awaiting"
      BY <2>3 DEF IndInv, PlacesOK
    <3>2. r \in cancelled => Do("resume", r) \in Following
      BY <1>1 DEF IndInv, CancelledOK
    <3> QED
      BY <1>4, <2>3, <3>1, <3>2 DEF resumes
  <2> QED
    BY <2>2, <2>3
<1>11. LatenessIsBounded'
  BY DEF IndInv, LatenessIsBounded
<1> QED
  BY <1>5, <1>6, <1>7, <1>8, <1>9, <1>10, <1>11 DEF IndInv

LEMMA ExpireKeeps ==
    ASSUME IndInv, NEW r \in Requests, Expire(r)
    PROVE  IndInv'
<1> USE DEF Expire
<1>1. /\ holder = NoRequest /\ Do("expire", r) \in Left
      /\ batch' \in Seq(Handle) /\ Ordered(batch') /\ IsInjective(batch')
      /\ Left' = Left \ {Do("expire", r)}
      /\ \A s \in Requests : /\ Do("resume", s) \notin Left /\ Do("start", s) \notin Left
                              /\ Do("receive", s) \notin Left
  BY FirstRuns DEF IndInv, Kinds, Rank
<1>2. Starting' = Starting /\ Ahead' = Ahead /\ Starting = {}
  BY <1>1, AheadStays DEF Starting
<1>3. Do("resume", r) \in Handle
  BY DoIs DEF Kinds
<1>4. /\ scheduled' \in Seq(Handle) /\ IsInjective(scheduled')
      /\ Following' = IF place[r] = "awaiting" THEN Following \cup {Do("resume", r)} ELSE Following
  <2>1. Resuming(r) <=> Do("resume", r) \in Following
    BY DEF Resuming, Following, Range
  <2>2. scheduled \in Seq(Handle) /\ IsInjective(scheduled)
    BY DEF IndInv, TypeOK, QueuesOK
  <2>3. CASE place[r] = "awaiting" /\ Do("resume", r) \notin Following
    <3>1. scheduled' = Append(scheduled, Do("resume", r))
      BY <2>1, <2>3
    <3> QED
      BY <1>3, <2>2, <2>3, <3>1, Appended DEF Following
  <2>4. CASE ~(place[r] = "awaiting" /\ Do("resume", r) \notin Following)
    <3>1. scheduled' = scheduled
      BY <2>1, <2>4
    <3> QED
      BY <2>2, <2>4, <3>1 DEF Following
  <2> QED
    BY <2>3, <2>4
<1>5. QueuesOK'
  <2>1. Left' \cap Following' = {}
    BY <1>1, <1>4 DEF IndInv, QueuesOK
  <2>2. \A h \in Following' : h.do = "resume"
    BY <1>4, DoIs DEF IndInv, QueuesOK
  <2> QED
    BY <1>1, <1>4, <2>1, <2>2 DEF IndInv, QueuesOK
<1>6. TypeOK'
  <2>1. IsInjective((batch \o scheduled)')
    BY <1>1, <1>4, <1>5, Distinct DEF QueuesOK
  <2> QED
    BY <1>1, <1>4, <2>1 DEF IndInv, TypeOK
<1>7. PlacesOK'
  BY <1>1, <1>4, DoIs DEF IndInv, PlacesOK
<1>8. TimersOK'
  BY <1>1, DoIs DEF IndInv, TimersOK
<1>9. CancelledOK'
  <2> SUFFICES ASSUME NEW s \in cancelled'
               PROVE  age[s] >= AiTimeout /\ Do("resume", s) \in Following'
    BY <1>1, <1>2 DEF CancelledOK
  <2>1. CASE s \in cancelled
    BY <1>1, <1>4, <2>1 DEF IndInv, CancelledOK, TypeOK
  <2>2. CASE s \notin cancelled
    <3>1. s = r /\ place[r] = "awaiting"
      BY <2>2
    <3> QED
      BY <1>1, <1>4, <3>1 DEF IndInv, PlacesOK
  <2> QED
    BY <2>1, <2>2
<1>10. AgesOK'
  BY <1>2 DEF IndInv, AgesOK
<1>11. AnswersOK'
  BY <1>1, <1>4, DoIs DEF IndInv, AnswersOK
<1>12. LatenessIsBounded'
  BY DEF IndInv, LatenessIsBounded
<1> QED
  BY <1>5, <1>6, <1>7, <1>8, <1>9, <1>10, <1>11, <1>12 DEF IndInv

LEMMA ResumeKeeps ==
    ASSUME IndInv, NEW r \in Requests, Resume(r)
    PROVE  IndInv'
<1> USE DEF Resume
<1>1. /\ holder = NoRequest /\ Do("resume", r) \in Left
      /\ batch' \in Seq(Handle) /\ Ordered(batch') /\ IsInjective(batch')
      /\ Left' = Left \ {Do("resume", r)}
  BY FirstRuns DEF IndInv, Kinds
<1>2. Starting' = Starting /\ Ahead' = Ahead /\ Following' = Following
  BY <1>1, AheadStays DEF Following
<1>3. /\ place[r] = "awaiting" /\ Do("resume", r) \notin Following
      /\ Do("start", r) \notin Left \cup sockets
  BY <1>1 DEF IndInv, PlacesOK, QueuesOK
<1>4. /\ 0 \in 0 .. Latest + 1 /\ 0 <= Latest
  BY LatestIs, TimesAssumption
<1>5. QueuesOK'
  BY <1>1, <1>2 DEF IndInv, QueuesOK
<1>6. TypeOK'
  <2>1. IsInjective((batch \o scheduled)')
    BY <1>1, <1>5, Distinct DEF QueuesOK, IndInv, TypeOK
  <2> QED
    BY <1>1, <1>3, <1>4, <2>1 DEF IndInv, TypeOK
<1>7. PlacesOK'
  <2> SUFFICES ASSUME NEW s \in Requests
               PROVE  PlacesOK!(s)'
    BY DEF PlacesOK
  <2> QED
    BY <1>1, <1>2, <1>3, DoIs DEF IndInv, PlacesOK, TypeOK
<1>8. TimersOK' /\ CancelledOK'
  BY <1>1, <1>2, DoIs DEF IndInv, TimersOK, CancelledOK, TypeOK
<1>9. AgesOK'
  BY <1>2 DEF IndInv, AgesOK, TypeOK
<1>10. AnswersOK'
  BY <1>1, <1>2, DoIs DEF IndInv, AnswersOK, TypeOK
<1>11. LatenessIsBounded'
  BY <1>4 DEF IndInv, LatenessIsBounded, TypeOK
<1> QED
  BY <1>5, <1>6, <1>7, <1>8, <1>9, <1>10, <1>11 DEF IndInv

-------------------------------------------------------------------------------
(***************************************************************************)
(* The theorems.                                                           *)
(***************************************************************************)
\* Timers, answers and lookups of all requests together keep the inductive invariant.
THEOREM Invariance == Spec => []IndInv
<1>1. IndInv /\ [Next]_vars => IndInv'
  <2> SUFFICES ASSUME IndInv, [Next]_vars
               PROVE  IndInv'
    OBVIOUS
  <2>1. CASE Next
    BY <2>1, ArriveKeeps, AnswerKeeps, LookupKeeps, SleepKeeps, SelectKeeps, StartKeeps,
       CallAssistantKeeps, AnswerAtOnceKeeps, ReceiveKeeps, ExpireKeeps, ResumeKeeps, Zenon
    DEF Next, Loop, Time
  <2>2. CASE UNCHANGED vars
    <3>1. UNCHANGED <<batch, scheduled, holder, held>>
      BY <2>2 DEF vars
    <3>2. Left' = Left /\ Following' = Following /\ Starting' = Starting /\ Ahead' = Ahead
      BY <3>1, QueuesStay
    <3> QED
      BY <2>2, <3>2
      DEF vars, IndInv, TypeOK, QueuesOK, PlacesOK, TimersOK, CancelledOK, AgesOK,
          AnswersOK, LatenessIsBounded
  <2> QED
    BY <2>1, <2>2
<1> QED
  BY <1>1, InitInv, PTL DEF Spec

\* Every queue holds handlers of requests, each once; a request holds the loop exactly
\* while it enriches; only a request behind its await has a timer.
THEOREM TypeCorrect == Spec => []TypeOK
<1>1. IndInv => TypeOK
  BY DEF IndInv
<1> QED
  BY <1>1, Invariance, PTL

\* However many requests there are, and however long their lookups take, no call of an
\* assistant is awaited for more than its timeout and two rounds of lookups of all the
\* other requests (workflow.py:114, 207-211).
THEOREM CallsEndInTime == Spec => []LatenessIsBounded
<1>1. IndInv => LatenessIsBounded
  BY DEF IndInv
<1> QED
  BY <1>1, Invariance, PTL

\* An answer that comes before the deadline is given up only if the lookups of other
\* requests held the loop for all the time that was left (workflow.py:207-212).
THEOREM AnswersAreKept == Spec => []AnswerKeptUnlessHeld
<1>1. IndInv => AnswerKeptUnlessHeld
  <2> SUFFICES ASSUME IndInv, NEW r \in cancelled, answered[r] # NoAnswer
               PROVE  answered[r] + blocked[r] >= AiTimeout
    BY DEF AnswerKeptUnlessHeld
  <2>1. r \in Requests /\ age[r] \in Nat /\ answered[r] \in Nat /\ blocked[r] \in Nat
    <3>1. r \in Requests
      BY DEF IndInv, TypeOK
    <3>2. Latest + 1 \in Int /\ age[r] \in 0 .. Latest + 1
      BY <3>1, LatestIs, TimesAssumption DEF IndInv, TypeOK
    <3> QED
      BY <3>1, <3>2 DEF IndInv, TypeOK
  <2>2. age[r] >= AiTimeout /\ age[r] <= answered[r] + blocked[r]
    BY <2>1 DEF IndInv, CancelledOK, AnswersOK
  <2> QED
    BY <2>1, <2>2, TimesAssumption
<1> QED
  BY <1>1, Invariance, PTL

\* No wake-up is lost, whatever is cancelled, closed or resumed meanwhile: what a
\* request waits for is in a socket, in a queue or in a timer (workflow.py:114,
\* 207-212).
THEOREM WakeUpsAreKept == Spec => []NoWakeUpIsLost
<1>1. IndInv => NoWakeUpIsLost
  <2> SUFFICES ASSUME IndInv, NEW r \in Requests
               PROVE  /\ place[r] = "arriving" => OnItsWay("start", r)
                      /\ place[r] = "awaiting" =>
                             r \in timers \/ OnItsWay("expire", r) \/ OnItsWay("resume", r)
                      /\ answered[r] # NoAnswer =>
                             OnItsWay("receive", r) \/ OnItsWay("resume", r)
    BY DEF NoWakeUpIsLost
  <2>1. place[r] = "arriving" => OnItsWay("start", r)
    BY DEF IndInv, PlacesOK, OnItsWay, Left
  <2>2. place[r] = "awaiting" => r \in timers \/ OnItsWay("expire", r) \/ OnItsWay("resume", r)
    BY DEF IndInv, TimersOK, CancelledOK, OnItsWay, Left, Following
  <2>3. answered[r] # NoAnswer => OnItsWay("receive", r) \/ OnItsWay("resume", r)
    BY DEF IndInv, AnswersOK, OnItsWay, Left, Following
  <2> QED
    BY <2>1, <2>2, <2>3
<1> QED
  BY <1>1, Invariance, PTL

\* What the timeout would be if it were the outer bound that ADR 001 calls it.
OuterBound == \A r \in Requests : age[r] <= AiTimeout

\* It is the outer bound where nothing else can hold the loop: where requests come one
\* at a time, or alerts have no indicators to look up (workflow.py:114, 207-211).
THEOREM OuterBoundAlone ==
    ASSUME Cardinality(Requests) = 1 \/ Lookups = 0
    PROVE  Spec => []OuterBound
<1>1. IndInv => OuterBound
  <2>1. Round = 0
    BY TimesAssumption, FS_CardinalityType DEF Round, Stretch
  <2>2. Latest = AiTimeout
    BY <2>1, LatestIs, TimesAssumption
  <2> QED
    BY <2>2 DEF IndInv, LatenessIsBounded, OuterBound
<1> QED
  BY <1>1, Invariance, PTL
================================================================================
