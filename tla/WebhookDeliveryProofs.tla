------------------------- MODULE WebhookDeliveryProofs -------------------------
(***************************************************************************)
(* Proofs about WebhookDelivery, for any deliveries, any capacity of the   *)
(* store and any number of requests.                                       *)
(***************************************************************************)
EXTENDS WebhookDelivery, SequenceTheorems, FiniteSetTheorems, TLAPS

-------------------------------------------------------------------------------
\* The store is in the order of handling and holds what has been handled.
StoreOrdered ==
    /\ Len(seen) <= MAX_SEEN_DELIVERIES
    /\ \A i, j \in 1 .. Len(seen) : i < j => latest[seen[i]] < latest[seen[j]]
    /\ \A i \in 1 .. Len(seen) : latest[seen[i]] > 0

\* A delivery is missing from the store only if the store is full of later ones.
MissingIsOlder ==
    \A d \in Deliveries : latest[d] > 0 /\ d \notin ToSet(seen) =>
        /\ Len(seen) = MAX_SEEN_DELIVERIES
        /\ \A i \in 1 .. Len(seen) : latest[d] < latest[seen[i]]

ClockTells ==
    /\ \A d \in Deliveries : latest[d] <= clock
    /\ IsFiniteSet({d \in Deliveries : latest[d] > 0})

IndInv == TypeOK /\ StoreOrdered /\ MissingIsOlder /\ ClockTells

-------------------------------------------------------------------------------
(***************************************************************************)
(* The store.                                                              *)
(***************************************************************************)

\* The place, in a sequence, of what is at place i without its element k.
Skip(k, i) == IF i < k THEN i ELSE i + 1

\* Sequence t is s without its element k, if it has one, and with d at its end.
Renewed(t, s, k, d) ==
    /\ Len(t) = IF k <= Len(s) THEN Len(s) ELSE Len(s) + 1
    /\ \A i \in 1 .. Len(t) - 1 : t[i] = s[Skip(k, i)]
    /\ t[Len(t)] = d

\* What leaves the store for d: d itself, the oldest of a full store, or nothing.
Leaves(s, k, d) ==
    \/ k <= Len(s) /\ s[k] = d
    \/ d \notin ToSet(s) /\ k = 1 /\ Len(s) = MAX_SEEN_DELIVERIES
    \/ d \notin ToSet(s) /\ k = Len(s) + 1 /\ Len(s) < MAX_SEEN_DELIVERIES

\* A sequence without its element k.
LEMMA RemoveAtProperties ==
    ASSUME NEW S, NEW s \in Seq(S), NEW k \in 1 .. Len(s)
    PROVE  /\ RemoveAt(s, k) \in Seq(S)
           /\ Len(RemoveAt(s, k)) = Len(s) - 1
           /\ \A i \in 1 .. Len(s) - 1 : RemoveAt(s, k)[i] = s[Skip(k, i)]
<1> DEFINE head == SubSeq(s, 1, k - 1)
           rest == SubSeq(s, k + 1, Len(s))
<1>1. Len(s) \in Nat /\ k \in Nat
  OBVIOUS
<1>2. head \in Seq(S) /\ Len(head) = k - 1 /\ \A i \in 1 .. k - 1 : head[i] = s[i]
  <2>1. \A i \in 1 .. k - 1 : s[i] \in S
    BY <1>1
  <2>2. /\ head \in Seq(S)
        /\ Len(head) = (IF 1 <= k - 1 THEN k - 1 - 1 + 1 ELSE 0)
        /\ \A i \in 1 .. k - 1 - 1 + 1 : head[i] = s[1 + i - 1]
    BY <1>1, <2>1, SubSeqProperties
  <2> QED
    BY <1>1, <2>2
<1>3. rest \in Seq(S) /\ Len(rest) = Len(s) - k
      /\ \A i \in 1 .. Len(s) - k : rest[i] = s[k + i]
  <2>1. \A i \in k + 1 .. Len(s) : s[i] \in S
    BY <1>1
  <2>2. /\ rest \in Seq(S)
        /\ Len(rest) = (IF k + 1 <= Len(s) THEN Len(s) - (k + 1) + 1 ELSE 0)
        /\ \A i \in 1 .. Len(s) - (k + 1) + 1 : rest[i] = s[(k + 1) + i - 1]
    BY <1>1, <2>1, SubSeqProperties
  <2> HIDE DEF rest
  <2>3. Len(rest) = Len(s) - k
    BY <1>1, <2>2
  <2>4. ASSUME NEW i \in 1 .. Len(s) - k PROVE rest[i] = s[k + i]
    <3>1. i \in 1 .. Len(s) - (k + 1) + 1 /\ (k + 1) + i - 1 = k + i
      BY <1>1
    <3> QED
      BY <2>2, <3>1
  <2> QED
    BY <2>2, <2>3, <2>4
<1>4. RemoveAt(s, k) = head \o rest
  BY DEF RemoveAt
<1> HIDE DEF head, rest
<1>5. ASSUME NEW i \in 1 .. Len(s) - 1
      PROVE  (head \o rest)[i] = s[Skip(k, i)]
  <2>1. CASE i < k
    BY <1>1, <1>2, <1>3, <2>1 DEF Skip
  <2>2. CASE ~(i < k)
    <3>1. (head \o rest)[i] = rest[i - (k - 1)]
      BY <1>1, <1>2, <1>3, <2>2
    <3>2. i - (k - 1) \in 1 .. Len(s) - k /\ k + (i - (k - 1)) = i + 1
      BY <1>1, <2>2
    <3> QED
      BY <1>3, <2>2, <3>1, <3>2 DEF Skip
  <2> QED
    BY <2>1, <2>2
<1>6. head \o rest \in Seq(S) /\ Len(head \o rest) = Len(s) - 1
  <2>1. head \o rest \in Seq(S) /\ Len(head \o rest) = Len(head) + Len(rest)
    BY <1>2, <1>3, ConcatProperties
  <2> QED
    BY <1>1, <1>2, <1>3, <2>1
<1> QED
  BY <1>4, <1>5, <1>6

LEMMA WithDeliveryRenews ==
    ASSUME NEW s \in Seq(Deliveries), Len(s) <= MAX_SEEN_DELIVERIES, NEW d \in Deliveries
    PROVE  /\ WithDelivery(s, d) \in Seq(Deliveries)
           /\ \E k \in 1 .. Len(s) + 1 : Renewed(WithDelivery(s, d), s, k, d) /\ Leaves(s, k, d)
<1>1. MAX_SEEN_DELIVERIES \in Nat \ {0} /\ Len(s) \in Nat /\ DOMAIN s = 1 .. Len(s)
  BY CapacityAssumption
<1>2. CASE d \in ToSet(s)
  <2> DEFINE k == CHOOSE i \in DOMAIN s : s[i] = d
             r == RemoveAt(s, k)
  <2>1. k \in 1 .. Len(s) /\ s[k] = d
    BY <1>1, <1>2 DEF ToSet
  <2>2. WithDelivery(s, d) = Append(r, d)
    BY <1>2 DEF WithDelivery, MoveToEnd
  <2> HIDE DEF k
  <2>3. /\ r \in Seq(Deliveries)
        /\ Len(r) = Len(s) - 1
        /\ \A i \in 1 .. Len(s) - 1 : r[i] = s[Skip(k, i)]
    BY <2>1, RemoveAtProperties
  <2> HIDE DEF r
  <2>4. /\ Append(r, d) \in Seq(Deliveries) /\ Len(Append(r, d)) = Len(s)
        /\ Append(r, d)[Len(s)] = d
        /\ \A i \in 1 .. Len(s) - 1 : Append(r, d)[i] = r[i]
    <3>1. Len(r) + 1 = Len(s)
      BY <1>1, <2>3
    <3> QED
      BY <2>3, <3>1, AppendProperties
  <2>5. Renewed(Append(r, d), s, k, d)
    BY <1>1, <2>1, <2>3, <2>4 DEF Renewed
  <2>6. k \in 1 .. Len(s) + 1 /\ k <= Len(s)
    BY <1>1, <2>1
  <2>7. Leaves(s, k, d)
    BY <2>1, <2>6 DEF Leaves
  <2> QED
    BY <2>2, <2>4, <2>5, <2>6, <2>7
<1> DEFINE a == Append(s, d)
<1>3. /\ a \in Seq(Deliveries) /\ Len(a) = Len(s) + 1 /\ a # <<>>
      /\ \A i \in 1 .. Len(s) : a[i] = s[i]
      /\ a[Len(s) + 1] = d
  BY <1>1
<1>4. CASE d \notin ToSet(s) /\ Len(s) < MAX_SEEN_DELIVERIES
  <2>1. WithDelivery(s, d) = a
    <3>1. ~(Len(a) > MAX_SEEN_DELIVERIES)
      BY <1>1, <1>3, <1>4
    <3> QED
      BY <1>4, <3>1 DEF WithDelivery
  <2> HIDE DEF a
  <2>2. Renewed(a, s, Len(s) + 1, d)
    BY <1>1, <1>3 DEF Renewed, Skip
  <2>3. Len(s) + 1 \in 1 .. Len(s) + 1
    BY <1>1
  <2>4. Leaves(s, Len(s) + 1, d)
    BY <1>1, <1>4 DEF Leaves
  <2> QED
    BY <1>3, <2>1, <2>2, <2>3, <2>4
<1>5. CASE d \notin ToSet(s) /\ Len(s) = MAX_SEEN_DELIVERIES
  <2>1. WithDelivery(s, d) = Tail(a)
    <3>1. Len(a) > MAX_SEEN_DELIVERIES
      BY <1>1, <1>3, <1>5
    <3> QED
      BY <1>5, <3>1 DEF WithDelivery
  <2> HIDE DEF a
  <2>2. /\ Tail(a) \in Seq(Deliveries) /\ Len(Tail(a)) = Len(s)
        /\ \A i \in 1 .. Len(s) : Tail(a)[i] = a[i + 1]
    BY <1>1, <1>3, HeadTailProperties
  <2>3. Renewed(Tail(a), s, 1, d)
    BY <1>1, <1>3, <1>5, <2>2 DEF Renewed, Skip
  <2>4. 1 \in 1 .. Len(s) + 1 /\ Leaves(s, 1, d)
    BY <1>1, <1>5 DEF Leaves
  <2> QED
    BY <2>1, <2>2, <2>3, <2>4
<1> QED
  <2> HIDE DEF a
  <2>1. Len(s) < MAX_SEEN_DELIVERIES \/ Len(s) = MAX_SEEN_DELIVERIES
    <3>1. Len(s) \in Nat /\ MAX_SEEN_DELIVERIES \in Nat
      BY <1>1
    <3> QED
      BY <3>1
  <2> QED
    BY <2>1, <1>2, <1>4, <1>5

-------------------------------------------------------------------------------
(***************************************************************************)
(* Preservation.                                                           *)
(***************************************************************************)
EmptyStore == seen = <<>> /\ clock = 0 /\ latest = [d \in Deliveries |-> 0]

LEMMA EmptyStoreIsGood == EmptyStore => StoreOrdered /\ MissingIsOlder /\ ClockTells
<1> SUFFICES ASSUME EmptyStore PROVE StoreOrdered /\ MissingIsOlder /\ ClockTells
  OBVIOUS
<1> USE DEF EmptyStore
<1>1. Len(seen) = 0 /\ MAX_SEEN_DELIVERIES \in Nat
  BY CapacityAssumption
<1>2. {d \in Deliveries : latest[d] > 0} = {}
  OBVIOUS
<1>3. StoreOrdered
  BY <1>1 DEF StoreOrdered
<1>4. MissingIsOlder
  BY DEF MissingIsOlder
<1>5. ClockTells
  <2>1. IsFiniteSet({})
    BY FS_EmptySet
  <2>2. \A d \in Deliveries : latest[d] <= clock
    OBVIOUS
  <2> QED
    BY <1>2, <2>1, <2>2 DEF ClockTells
<1> QED
  BY <1>3, <1>4, <1>5

LEMMA InitiallyInv == Init => IndInv
<1> SUFFICES ASSUME Init PROVE IndInv
  OBVIOUS
<1>1. TypeOK
  BY CapacityAssumption DEF Init, TypeOK, Answers
<1> QED
  BY <1>1, EmptyStoreIsGood DEF Init, IndInv, EmptyStore

\* Handling delivery d keeps the store in order and complete.
LEMMA HandlingKeeps ==
    ASSUME IndInv, NEW d \in Deliveries,
           seen' = WithDelivery(seen, d), clock' = clock + 1,
           latest' = [latest EXCEPT ![d] = clock + 1]
    PROVE  /\ seen' \in Seq(Deliveries)
           /\ clock' \in Nat /\ latest' \in [Deliveries -> Nat]
           /\ StoreOrdered' /\ MissingIsOlder' /\ ClockTells'
<1>1. /\ seen \in Seq(Deliveries) /\ clock \in Nat /\ latest \in [Deliveries -> Nat]
      /\ MAX_SEEN_DELIVERIES \in Nat \ {0} /\ Len(seen) \in Nat
      /\ \A i \in 1 .. Len(seen) : seen[i] \in Deliveries
  <2>1. /\ seen \in Seq(Deliveries) /\ clock \in Nat /\ latest \in [Deliveries -> Nat]
        /\ MAX_SEEN_DELIVERIES \in Nat \ {0}
    BY CapacityAssumption DEF IndInv, TypeOK
  <2> QED
    BY <2>1
<1>2. Len(seen) <= MAX_SEEN_DELIVERIES
  BY DEF IndInv, StoreOrdered
<1>3. /\ seen' \in Seq(Deliveries)
      /\ \E k \in 1 .. Len(seen) + 1 : Renewed(seen', seen, k, d) /\ Leaves(seen, k, d)
  BY <1>1, <1>2, WithDeliveryRenews
<1>4. PICK k \in 1 .. Len(seen) + 1 : Renewed(seen', seen, k, d) /\ Leaves(seen, k, d)
  BY <1>3
<1>5. /\ latest'[d] = clock + 1
      /\ \A e \in Deliveries : e # d => latest'[e] = latest[e]
      /\ \A e \in Deliveries : latest[e] <= latest'[e] /\ latest[e] \in Nat /\ latest[e] <= clock
  <2>1. \A e \in Deliveries : latest[e] <= clock
    BY DEF IndInv, ClockTells
  <2> QED
    BY <1>1, <2>1
\* What the new store holds, place by place.
<1>6. /\ Len(seen') \in 1 .. MAX_SEEN_DELIVERIES
      /\ seen'[Len(seen')] = d
      /\ \A i \in 1 .. Len(seen') - 1 :
            /\ Skip(k, i) \in 1 .. Len(seen)
            /\ seen'[i] = seen[Skip(k, i)]
            /\ seen'[i] \in Deliveries
            /\ seen'[i] # d
  <2>1. Len(seen') = (IF k <= Len(seen) THEN Len(seen) ELSE Len(seen) + 1)
    BY <1>4 DEF Renewed
  <2>2. k = Len(seen) + 1 => Len(seen) < MAX_SEEN_DELIVERIES
    BY <1>1, <1>4 DEF Leaves
  <2>3. Len(seen') \in 1 .. MAX_SEEN_DELIVERIES
    BY <1>1, <1>2, <2>1, <2>2
  <2>4. ASSUME NEW i \in 1 .. Len(seen') - 1
        PROVE  Skip(k, i) \in 1 .. Len(seen) /\ Skip(k, i) # k
    BY <1>1, <2>1 DEF Skip
  <2>5. \A j \in 1 .. Len(seen) : seen[j] = d => j = k
    <3> SUFFICES ASSUME NEW j \in 1 .. Len(seen), seen[j] = d PROVE j = k
      OBVIOUS
    <3>1. d \in ToSet(seen)
      BY <1>1 DEF ToSet
    <3>2. k \in 1 .. Len(seen) /\ seen[k] = d
      BY <1>1, <1>4, <3>1 DEF Leaves
    <3>3. latest[seen[j]] = latest[seen[k]] /\ latest[seen[k]] \in Nat
      BY <1>1, <3>2
    <3>4. \A x, y \in 1 .. Len(seen) : x < y => latest[seen[x]] < latest[seen[y]]
      BY DEF IndInv, StoreOrdered
    <3>5. ~(j < k) /\ ~(k < j)
      BY <1>1, <3>2, <3>3, <3>4
    <3> QED
      BY <1>1, <3>2, <3>5
  <2>6. ASSUME NEW i \in 1 .. Len(seen') - 1
        PROVE  seen'[i] = seen[Skip(k, i)] /\ seen'[i] \in Deliveries /\ seen'[i] # d
    <3>1. seen'[i] = seen[Skip(k, i)]
      BY <1>4 DEF Renewed
    <3> QED
      BY <1>1, <2>4, <2>5, <3>1
  <2>7. seen'[Len(seen')] = d
    BY <1>4 DEF Renewed
  <2> QED
    BY <2>3, <2>4, <2>6, <2>7
<1>7. StoreOrdered'
  <2>1. ASSUME NEW i \in 1 .. Len(seen'), NEW j \in 1 .. Len(seen'), i < j
        PROVE  latest'[seen'[i]] < latest'[seen'[j]]
    <3>1. i \in 1 .. Len(seen') - 1
      BY <1>6, <2>1
    <3>2. latest'[seen'[i]] = latest[seen[Skip(k, i)]] /\ latest'[seen'[i]] <= clock
          /\ latest'[seen'[i]] \in Nat
      BY <1>5, <1>6, <3>1
    <3>3. CASE j = Len(seen')
      BY <1>1, <1>5, <1>6, <3>2, <3>3
    <3>4. CASE j # Len(seen')
      <4>1. j \in 1 .. Len(seen') - 1
        BY <1>6, <3>4
      <4>2. latest'[seen'[j]] = latest[seen[Skip(k, j)]]
        BY <1>5, <1>6, <4>1
      <4>3. /\ Skip(k, i) \in 1 .. Len(seen) /\ Skip(k, j) \in 1 .. Len(seen)
            /\ Skip(k, i) < Skip(k, j)
        BY <1>1, <1>6, <2>1, <3>1, <4>1 DEF Skip
      <4> QED
        BY <3>2, <4>2, <4>3 DEF IndInv, StoreOrdered
    <3> QED
      BY <3>3, <3>4
  <2>2. ASSUME NEW i \in 1 .. Len(seen') PROVE latest'[seen'[i]] > 0
    <3>1. CASE i = Len(seen')
      BY <1>1, <1>5, <1>6, <3>1
    <3>2. CASE i # Len(seen')
      <4>1. i \in 1 .. Len(seen') - 1
        BY <1>6, <3>2
      <4>2. latest'[seen'[i]] = latest[seen[Skip(k, i)]] /\ Skip(k, i) \in 1 .. Len(seen)
        BY <1>5, <1>6, <4>1
      <4> QED
        BY <4>2 DEF IndInv, StoreOrdered
    <3> QED
      BY <3>1, <3>2
  <2>3. Len(seen') <= MAX_SEEN_DELIVERIES
    BY <1>6
  <2> QED
    BY <2>1, <2>2, <2>3 DEF StoreOrdered
<1>8. MissingIsOlder'
  <2> SUFFICES ASSUME NEW e \in Deliveries, latest'[e] > 0, e \notin ToSet(seen')
               PROVE  /\ Len(seen') = MAX_SEEN_DELIVERIES
                      /\ \A i \in 1 .. Len(seen') : latest'[e] < latest'[seen'[i]]
    BY DEF MissingIsOlder
  <2>1. DOMAIN seen' = 1 .. Len(seen') /\ DOMAIN seen = 1 .. Len(seen)
    BY <1>1, <1>3
  <2>2. \A i \in 1 .. Len(seen') : seen'[i] # e
    BY <2>1 DEF ToSet
  <2>3. e # d /\ latest'[e] = latest[e] /\ latest[e] > 0
    BY <1>5, <1>6, <2>2
  <2>4. /\ k <= Len(seen) /\ Len(seen) = MAX_SEEN_DELIVERIES
        /\ \A i \in 1 .. Len(seen) : i # k => latest[e] < latest[seen[i]]
    <3>1. CASE e \in ToSet(seen)
      <4>1. PICK j \in 1 .. Len(seen) : seen[j] = e
        BY <2>1, <3>1 DEF ToSet
      <4>2. j = k
        <5>1. CASE j < k
          <6>1. j \in 1 .. Len(seen') - 1 /\ Skip(k, j) = j
            BY <1>1, <1>4, <5>1 DEF Renewed, Skip
          <6>2. j \in 1 .. Len(seen')
            BY <1>6, <6>1
          <6> QED
            BY <1>6, <2>2, <4>1, <6>1, <6>2
        <5>2. CASE j > k
          <6>1. j - 1 \in 1 .. Len(seen') - 1 /\ Skip(k, j - 1) = j
            BY <1>1, <1>4, <5>2 DEF Renewed, Skip
          <6>2. j - 1 \in 1 .. Len(seen')
            BY <1>6, <6>1
          <6> QED
            BY <1>6, <2>2, <4>1, <6>1, <6>2
        <5> QED
          BY <1>1, <5>1, <5>2
      <4>3. k = 1 /\ Len(seen) = MAX_SEEN_DELIVERIES
        BY <1>1, <1>4, <2>3, <4>1, <4>2 DEF Leaves
      <4>4. \A i \in 1 .. Len(seen) : i # k => latest[e] < latest[seen[i]]
        <5>1. \A x, y \in 1 .. Len(seen) : x < y => latest[seen[x]] < latest[seen[y]]
          BY DEF IndInv, StoreOrdered
        <5> QED
          BY <1>1, <4>1, <4>2, <4>3, <5>1
      <4> QED
        BY <1>1, <4>3, <4>4
    <3>2. CASE e \notin ToSet(seen)
      <4>1. /\ Len(seen) = MAX_SEEN_DELIVERIES
            /\ \A i \in 1 .. Len(seen) : latest[e] < latest[seen[i]]
        BY <2>3, <3>2 DEF IndInv, MissingIsOlder
      <4>2. k <= Len(seen)
        BY <1>1, <1>4, <4>1 DEF Leaves
      <4> QED
        BY <4>1, <4>2
    <3> QED
      BY <3>1, <3>2
  <2>5. Len(seen') = MAX_SEEN_DELIVERIES
    BY <1>4, <2>4 DEF Renewed
  <2>6. ASSUME NEW i \in 1 .. Len(seen') PROVE latest'[e] < latest'[seen'[i]]
    <3>1. CASE i = Len(seen')
      BY <1>1, <1>5, <1>6, <2>3, <3>1
    <3>2. CASE i # Len(seen')
      <4>1. i \in 1 .. Len(seen') - 1
        BY <1>6, <3>2
      <4>2. /\ Skip(k, i) \in 1 .. Len(seen) /\ Skip(k, i) # k
            /\ latest'[seen'[i]] = latest[seen[Skip(k, i)]]
        <5>1. Skip(k, i) # k
          BY <1>1, <4>1 DEF Skip
        <5> QED
          BY <1>5, <1>6, <4>1, <5>1
      <4> QED
        BY <2>3, <2>4, <4>2
    <3> QED
      BY <3>1, <3>2
  <2> QED
    BY <2>5, <2>6
<1>9. ClockTells'
  <2>1. \A e \in Deliveries : latest'[e] <= clock + 1
    BY <1>1, <1>5
  <2>2. {e \in Deliveries : latest'[e] > 0} = {e \in Deliveries : latest[e] > 0} \cup {d}
    BY <1>1, <1>5
  <2>3. IsFiniteSet({e \in Deliveries : latest[e] > 0} \cup {d})
    BY FS_AddElement DEF IndInv, ClockTells
  <2> QED
    BY <2>1, <2>2, <2>3 DEF ClockTells
<1> QED
  BY <1>1, <1>3, <1>7, <1>8, <1>9

LEMMA EveryStepKeeps == IndInv /\ [Next]_vars => IndInv'
<1> SUFFICES ASSUME IndInv, [Next]_vars PROVE IndInv'
  OBVIOUS
<1> USE DEF IndInv
<1>1. CASE Arrive
  <2>1. TypeOK'
    <3>1. made + 1 \in 1 .. MaxRequests
      BY <1>1, CapacityAssumption DEF Arrive, TypeOK
    <3> QED
      BY <1>1, <3>1 DEF Arrive, TypeOK
  <2> QED
    BY <1>1, <2>1 DEF Arrive, StoreOrdered, MissingIsOlder, ClockTells
<1>2. ASSUME NEW w \in waiting, Handle(w) PROVE IndInv'
  <2>1. w.request.delivery \in Deliveries /\ answer' \in Answers
    BY <1>2 DEF Handle, TypeOK, Request, Refusal, Answers, RefusalAnswers
  <2>2. CASE Remembered(w.request)
    <3>1. /\ seen' \in Seq(Deliveries)
          /\ clock' \in Nat /\ latest' \in [Deliveries -> Nat]
          /\ StoreOrdered' /\ MissingIsOlder' /\ ClockTells'
      BY <1>2, <2>1, <2>2, HandlingKeeps DEF Handle
    <3> QED
      BY <1>2, <2>1, <3>1 DEF Handle, TypeOK
  <2>3. CASE ~Remembered(w.request)
    <3>1. UNCHANGED <<seen, clock, latest, made>> /\ waiting' = waiting \ {w}
      BY <1>2, <2>3 DEF Handle
    <3> QED
      BY <2>1, <3>1 DEF TypeOK, StoreOrdered, MissingIsOlder, ClockTells
  <2> QED
    BY <2>2, <2>3
<1>3. CASE Restart
  <2>1. TypeOK'
    BY <1>3 DEF Restart, TypeOK, Answers
  <2>2. StoreOrdered' /\ MissingIsOlder' /\ ClockTells'
    <3>1. EmptyStore'
      BY <1>3 DEF Restart, EmptyStore
    <3> QED
      BY <3>1, EmptyStoreIsGood, PTL
  <2> QED
    BY <2>1, <2>2
<1>4. CASE UNCHANGED vars
  BY <1>4 DEF vars, TypeOK, StoreOrdered, MissingIsOlder, ClockTells
<1> QED
  BY <1>1, <1>2, <1>3, <1>4 DEF Next

-------------------------------------------------------------------------------
\* The inductive invariant: the store holds the deliveries handled last, in the
\* order of their handling (webhooks.py:55-69).
THEOREM Invariance == Spec => []IndInv
<1>1. Init => IndInv
  BY InitiallyInv
<1>2. IndInv /\ [Next]_vars => IndInv'
  BY EveryStepKeeps
<1> QED
  BY <1>1, <1>2, PTL DEF Spec

\* Requests, answers and the store are always of their types (webhooks.py:84-138).
THEOREM TypeCorrect == Spec => []TypeOK
<1>1. IndInv => TypeOK
  BY DEF IndInv
<1> QED
  BY <1>1, Invariance, PTL

\* The store never outgrows its capacity and is in the order of last handling,
\* each identifier once (webhooks.py:55-69).
THEOREM StoreIsAnLru == Spec => []SeenIsAnLru
<1>1. IndInv => SeenIsAnLru
  <2> SUFFICES ASSUME IndInv PROVE SeenIsAnLru
    OBVIOUS
  <2>1. DOMAIN seen = 1 .. Len(seen)
    BY DEF IndInv, TypeOK
  <2> QED
    BY <2>1 DEF IndInv, StoreOrdered, SeenIsAnLru
<1> QED
  BY <1>1, Invariance, PTL

\* A request that is refused, or that makes the handler raise, changes neither
\* the store nor the record of what was handled (webhooks.py:84-138).
THEOREM RefusalsLeaveNoTrace == Spec => RefusedLeavesNoTrace
<1>1. ASSUME [Next]_vars, answer' \in RefusalAnswers
      PROVE  seen' = seen /\ latest' = latest
  <2>1. CASE Arrive
    BY <2>1 DEF Arrive
  <2>2. ASSUME NEW w \in waiting, Handle(w) PROVE seen' = seen /\ latest' = latest
    BY <1>1, <2>2 DEF Handle, Remembered, RefusalAnswers
  <2>3. CASE Restart
    BY <1>1, <2>3 DEF Restart, RefusalAnswers
  <2>4. CASE UNCHANGED vars
    BY <2>4 DEF vars
  <2> QED
    BY <1>1, <2>1, <2>2, <2>3, <2>4 DEF Next
<1> QED
  BY <1>1, PTL DEF Spec, RefusedLeavesNoTrace

-------------------------------------------------------------------------------
(***************************************************************************)
(* The refinement of DeliveryWindow.                                       *)
(***************************************************************************)

\* A store without repetitions holds as many deliveries as it is long.
LEMMA StoreSize ==
    ASSUME IndInv
    PROVE  IsFiniteSet(ToSet(seen)) /\ Cardinality(ToSet(seen)) = Len(seen)
<1>1. seen \in Seq(Deliveries) /\ Len(seen) \in Nat /\ DOMAIN seen = 1 .. Len(seen)
      /\ latest \in [Deliveries -> Nat]
  BY DEF IndInv, TypeOK
<1>2. \A i, j \in 1 .. Len(seen) : seen[i] = seen[j] => i = j
  <2> SUFFICES ASSUME NEW i \in 1 .. Len(seen), NEW j \in 1 .. Len(seen), seen[i] = seen[j]
               PROVE  i = j
    OBVIOUS
  <2>1. \A x, y \in 1 .. Len(seen) : x < y => latest[seen[x]] < latest[seen[y]]
    BY DEF IndInv, StoreOrdered
  <2>2. seen[i] \in Deliveries /\ latest[seen[i]] \in Nat
    BY <1>1
  <2>3. ~(i < j) /\ ~(j < i)
    BY <1>1, <2>1, <2>2
  <2> QED
    BY <1>1, <2>3
<1>3. seen \in Bijection(1 .. Len(seen), ToSet(seen))
  BY <1>1, <1>2 DEF Bijection, Injection, Surjection, IsInjective, ToSet
<1>4. ExistsBijection(1 .. Len(seen), ToSet(seen))
  BY <1>3 DEF ExistsBijection
<1>5. IsFiniteSet(1 .. Len(seen)) /\ Cardinality(1 .. Len(seen)) = Len(seen)
  <2>1. /\ IsFiniteSet(1 .. Len(seen))
        /\ Cardinality(1 .. Len(seen)) = (IF 1 > Len(seen) THEN 0 ELSE Len(seen) - 1 + 1)
    BY <1>1, FS_Interval
  <2> QED
    BY <1>1, <2>1
<1> QED
  BY <1>4, <1>5, FS_Bijection

\* The store holds exactly the deliveries of the window.
LEMMA StoreIsWindow ==
    ASSUME IndInv, NEW d \in Deliveries
    PROVE  Window!InWindow(d) <=> d \in ToSet(seen)
<1>1. /\ seen \in Seq(Deliveries) /\ Len(seen) \in Nat /\ DOMAIN seen = 1 .. Len(seen)
      /\ latest \in [Deliveries -> Nat] /\ MAX_SEEN_DELIVERIES \in Nat
      /\ Len(seen) <= MAX_SEEN_DELIVERIES
  BY CapacityAssumption DEF IndInv, TypeOK, StoreOrdered
<1>2. Window!After(d) = {e \in Deliveries : latest[e] > latest[d]}
  BY DEF Window!After
<1>3. IsFiniteSet(ToSet(seen)) /\ Cardinality(ToSet(seen)) = Len(seen)
  BY StoreSize
<1>4. CASE d \in ToSet(seen)
  <2>1. PICK i \in 1 .. Len(seen) : seen[i] = d
    BY <1>1, <1>4 DEF ToSet
  <2>2. latest[d] > 0
    BY <2>1 DEF IndInv, StoreOrdered
  <2>3. Window!After(d) \subseteq ToSet(seen) \ {d}
    <3> SUFFICES ASSUME NEW e \in Deliveries, latest[e] > latest[d] PROVE e \in ToSet(seen) \ {d}
      BY <1>2
    <3>1. e # d /\ latest[e] > 0 /\ ~(latest[e] < latest[d])
      BY <1>1
    <3>2. e \in ToSet(seen)
      BY <2>1, <3>1 DEF IndInv, MissingIsOlder
    <3> QED
      BY <3>1, <3>2
  <2>4. /\ IsFiniteSet(ToSet(seen) \ {d})
        /\ Cardinality(ToSet(seen) \ {d}) = Len(seen) - 1
    BY <1>3, <1>4, FS_RemoveElement
  <2>5. /\ IsFiniteSet(Window!After(d))
        /\ Cardinality(Window!After(d)) <= Cardinality(ToSet(seen) \ {d})
    BY <2>3, <2>4, FS_Subset
  <2>6. Cardinality(Window!After(d)) \in Nat
    BY <2>5, FS_CardinalityType
  <2>7. Cardinality(Window!After(d)) < MAX_SEEN_DELIVERIES
    BY <1>1, <2>4, <2>5, <2>6
  <2> QED
    BY <1>4, <2>2, <2>7 DEF Window!InWindow, Window!Cardinality, Cardinality
<1>5. CASE d \notin ToSet(seen) /\ latest[d] > 0
  <2>1. /\ Len(seen) = MAX_SEEN_DELIVERIES
        /\ \A i \in 1 .. Len(seen) : latest[d] < latest[seen[i]]
    BY <1>5 DEF IndInv, MissingIsOlder
  <2>2. ToSet(seen) \subseteq Window!After(d)
    <3> SUFFICES ASSUME NEW i \in 1 .. Len(seen)
                 PROVE  seen[i] \in Deliveries /\ latest[seen[i]] > latest[d]
      BY <1>1, <1>2 DEF ToSet
    <3>1. seen[i] \in Deliveries
      BY <1>1
    <3> QED
      BY <1>1, <2>1, <3>1
  <2>3. IsFiniteSet(Window!After(d))
    <3>1. IsFiniteSet({e \in Deliveries : latest[e] > 0})
      BY DEF IndInv, ClockTells
    <3>2. Window!After(d) \subseteq {e \in Deliveries : latest[e] > 0}
      BY <1>1, <1>2
    <3> QED
      BY <3>1, <3>2, FS_Subset
  <2>4. Cardinality(ToSet(seen)) <= Cardinality(Window!After(d))
    BY <2>2, <2>3, FS_Subset
  <2>5. Cardinality(Window!After(d)) \in Nat
    BY <2>3, FS_CardinalityType
  <2>6. ~(Cardinality(Window!After(d)) < MAX_SEEN_DELIVERIES)
    BY <1>1, <1>3, <2>1, <2>4, <2>5
  <2> QED
    BY <1>5, <2>6 DEF Window!InWindow, Window!Cardinality, Cardinality
<1>6. CASE d \notin ToSet(seen) /\ ~(latest[d] > 0)
  BY <1>6 DEF Window!InWindow
<1> QED
  BY <1>4, <1>5, <1>6

LEMMA StepRefines ==
    ASSUME IndInv, [Next]_vars
    PROVE  Window!Next \/ UNCHANGED Window!vars
<1>1. CASE Arrive \/ UNCHANGED vars
  <2>1. UNCHANGED <<clock, latest, answer>>
    BY <1>1 DEF Arrive, vars
  <2> QED
    BY <2>1 DEF Window!vars, RefusalAnswers
<1>2. ASSUME NEW w \in waiting, Handle(w) PROVE Window!Next
  <2> DEFINE d == w.request.delivery
             refusal == Refusal(w.request)
  <2>1. d \in Deliveries /\ refusal \in RefusalAnswers \cup {"none"}
    BY DEF IndInv, TypeOK, Request, Refusal, RefusalAnswers
  <2>2. CASE refusal = "none"
    <3>1. /\ answer' = IF d \in ToSet(seen) THEN "duplicate_ignored" ELSE "received"
          /\ clock' = clock + 1
          /\ latest' = [latest EXCEPT ![d] = clock + 1]
      BY <1>2, <2>2 DEF Handle, Remembered
    <3> HIDE DEF d
    <3>2. Window!InWindow(d) <=> d \in ToSet(seen)
      BY <2>1, StoreIsWindow
    <3>3. Window!Handle(d)
      BY <3>1, <3>2 DEF Window!Handle, RefusalAnswers
    <3> QED
      BY <2>1, <3>3 DEF Window!Next
  <2>3. CASE refusal # "none"
    <3>1. answer' \in RefusalAnswers /\ UNCHANGED <<clock, latest>>
      BY <1>2, <2>1, <2>3 DEF Handle, Remembered
    <3>2. Window!Refuse
      BY <3>1 DEF Window!Refuse, RefusalAnswers
    <3> QED
      BY <3>2 DEF Window!Next
  <2> QED
    BY <2>2, <2>3
<1>3. CASE Restart
  <2>1. Window!Restart
    BY <1>3 DEF Restart, Window!Restart, RefusalAnswers
  <2> QED
    BY <2>1 DEF Window!Next
<1> QED
  BY <1>1, <1>2, <1>3 DEF Next

\* The sender sees a window of the deliveries handled last: the webhook and its
\* store implement DeliveryWindow (webhooks.py:55-138).
THEOREM SenderSeesAWindow == Spec => ProcessedOncePerWindow
<1>1. Init => Window!Init
  BY DEF Init, Window!Init, RefusalAnswers
<1>2. IndInv /\ [Next]_vars => [Window!Next]_(Window!vars)
  BY StepRefines
<1> QED
  BY <1>1, <1>2, Invariance, PTL DEF Spec, ProcessedOncePerWindow, Window!Spec
===============================================================================
