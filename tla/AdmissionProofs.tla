--------------------------- MODULE AdmissionProofs ---------------------------
(***************************************************************************)
(* Admission for every set of box ids and every limit: its invariants, and *)
(* that the deque implements the FIFO promise of FifoCapacity.             *)
(***************************************************************************)
EXTENDS Admission, FiniteSetTheorems, SequenceTheorems, TLAPS

\* VecDeque::remove(i): one element fewer, the ones behind it move up.
LEMMA RemoveAtProperties ==
    ASSUME NEW S, NEW s \in Seq(S), NEW i \in 1..Len(s)
    PROVE  /\ RemoveAt(s, i) \in Seq(S)
           /\ Len(RemoveAt(s, i)) = Len(s) - 1
           /\ \A j \in 1..(Len(s) - 1) :
                 RemoveAt(s, i)[j] = IF j < i THEN s[j] ELSE s[j + 1]
<1> DEFINE l == SubSeq(s, 1, i - 1)
           r == SubSeq(s, i + 1, Len(s))
<1>1. /\ l \in Seq(S) /\ Len(l) = i - 1
      /\ \A j \in 1..(i - 1) : l[j] = s[j]
  <2>1. \A j \in 1..(i - 1) : s[j] \in S
    BY ElementOfSeq
  <2> QED BY <2>1, SubSeqProperties
<1>2. /\ r \in Seq(S) /\ Len(r) = Len(s) - i
      /\ \A j \in 1..(Len(s) - i) : r[j] = s[i + j]
  <2>1. \A j \in (i + 1)..Len(s) : s[j] \in S
    BY ElementOfSeq
  <2>2. /\ r \in Seq(S)
        /\ Len(r) = IF i + 1 <= Len(s) THEN Len(s) - (i + 1) + 1 ELSE 0
        /\ \A j \in 1..(Len(s) - (i + 1) + 1) : r[j] = s[(i + 1) + j - 1]
    BY <2>1, SubSeqProperties
  <2> QED BY <2>2
<1>3. RemoveAt(s, i) = l \o r
  BY DEF RemoveAt
<1> HIDE DEF l, r
<1>4. /\ l \o r \in Seq(S) /\ Len(l \o r) = Len(l) + Len(r)
      /\ \A j \in 1..(Len(l) + Len(r)) :
            (l \o r)[j] = IF j <= Len(l) THEN l[j] ELSE r[j - Len(l)]
  BY <1>1, <1>2, ConcatProperties
<1> QED BY <1>1, <1>2, <1>3, <1>4

\* The deque keeps its ids distinct when any one of them is removed, and
\* loses exactly that id.
LEMMA RemoveAtInjective ==
    ASSUME NEW S, NEW s \in Seq(S), NEW i \in 1..Len(s), IsInjective(s)
    PROVE  /\ IsInjective(RemoveAt(s, i))
           /\ Range(RemoveAt(s, i)) = Range(s) \ {s[i]}
<1> DEFINE t == RemoveAt(s, i)
<1>1. /\ t \in Seq(S) /\ Len(t) = Len(s) - 1
      /\ \A j \in 1..(Len(s) - 1) : t[j] = IF j < i THEN s[j] ELSE s[j + 1]
  BY RemoveAtProperties
<1> HIDE DEF t
<1>2. DOMAIN t = 1..(Len(s) - 1) /\ DOMAIN s = 1..Len(s)
  BY <1>1
<1> DEFINE from(j) == IF j < i THEN j ELSE j + 1
<1>3. \A j \in DOMAIN t : from(j) \in DOMAIN s /\ from(j) # i /\ t[j] = s[from(j)]
  BY <1>1, <1>2
<1>3a. \A j, k \in DOMAIN t : from(j) = from(k) => j = k
  BY <1>2
<1> HIDE DEF from
<1>3b. IsInjective(t)
  BY <1>3, <1>3a DEF IsInjective
<1>4. ASSUME NEW j \in DOMAIN t PROVE t[j] \in Range(s) \ {s[i]}
  BY <1>2, <1>3 DEF Range, IsInjective
<1>5. ASSUME NEW k \in DOMAIN s, k # i PROVE s[k] \in Range(t)
  <2>1. CASE k < i
    BY <2>1, <1>1, <1>2 DEF Range
  <2>2. CASE k > i
    <3>1. k - 1 \in DOMAIN t /\ t[k - 1] = s[k]
      BY <2>2, <1>1, <1>2
    <3> QED BY <3>1 DEF Range
  <2> QED BY <2>1, <2>2, <1>2, <1>5
<1> QED BY <1>3b, <1>4, <1>5 DEF Range, t
-----------------------------------------------------------------------------
Inv == TypeOK /\ CapacityRespected /\ OnePlace

\* The invariant holds of the empty controller.
\* A controller made anew satisfies the invariant whatever was before it.
LEMMA FreshInv == active' = {} /\ queued' = <<>> => Inv'
<1> SUFFICES ASSUME active' = {}, queued' = <<>> PROVE Inv'
  OBVIOUS
<1>1. TypeOK' /\ CapacityRespected'
  BY FS_EmptySet, LimitAssumption DEF TypeOK, CapacityRespected
<1>2. OnePlace'
  BY DEF OnePlace, IsInjective
<1> QED BY <1>1, <1>2 DEF Inv

LEMMA InitInv == Init => Inv
<1> SUFFICES ASSUME Init PROVE Inv OBVIOUS
<1>1. TypeOK /\ CapacityRespected
  BY FS_EmptySet, LimitAssumption DEF Init, TypeOK, CapacityRespected
<1>2. OnePlace
  BY DEF Init, OnePlace, IsInjective
<1> QED BY <1>1, <1>2 DEF Inv

\* Appending a fresh id keeps the ids of the deque distinct.
LEMMA AppendFresh ==
    ASSUME NEW S, NEW s \in Seq(S), NEW b \in S, IsInjective(s), b \notin Range(s)
    PROVE  /\ IsInjective(Append(s, b))
           /\ Range(Append(s, b)) = Range(s) \cup {b}
BY DEF IsInjective, Range

\* Popping the oldest id keeps the rest distinct, and takes only that id.
LEMMA TailInjective ==
    ASSUME NEW S, NEW s \in Seq(S), s # <<>>, IsInjective(s)
    PROVE  /\ Head(s) \in S /\ Tail(s) \in Seq(S)
           /\ Head(s) \in Range(s)
           /\ IsInjective(Tail(s))
           /\ Range(Tail(s)) = Range(s) \ {Head(s)}
<1>1. Head(s) \in S /\ Tail(s) \in Seq(S) /\ Head(s) = s[1]
  BY HeadTailProperties
<1>2. /\ Len(Tail(s)) = Len(s) - 1 /\ Len(s) >= 1
      /\ \A j \in 1..(Len(s) - 1) : Tail(s)[j] = s[j + 1]
  BY HeadTailProperties, EmptySeq
<1>3. DOMAIN s = 1..Len(s) /\ DOMAIN Tail(s) = 1..(Len(s) - 1)
  BY <1>1, <1>2
<1>4. IsInjective(Tail(s))
  BY <1>2, <1>3 DEF IsInjective
<1>5. ASSUME NEW k \in DOMAIN s, k # 1 PROVE s[k] \in Range(Tail(s))
  <2>1. k - 1 \in DOMAIN Tail(s) /\ Tail(s)[k - 1] = s[k]
    BY <1>2, <1>3, <1>5
  <2> QED BY <2>1 DEF Range
<1>6. ASSUME NEW j \in DOMAIN Tail(s) PROVE Tail(s)[j] \in Range(s) \ {Head(s)}
  BY <1>1, <1>2, <1>3 DEF Range, IsInjective
<1>7. Head(s) \in Range(s)
  BY <1>1, <1>2, <1>3 DEF Range
<1> QED BY <1>1, <1>4, <1>5, <1>6, <1>7 DEF Range
-----------------------------------------------------------------------------
\* Every method of the controller preserves the invariant.
LEMMA NextInv == Inv /\ [Next]_admissionVars => Inv'
<1> SUFFICES ASSUME Inv, [Next]_admissionVars PROVE Inv'
  OBVIOUS
<1> USE DEF Inv, TypeOK, CapacityRespected, OnePlace
<1> USE LimitAssumption
<1>1. ASSUME NEW b \in BoxIds, AdmitStart(b) PROVE Inv'
  <2>1. /\ IsFiniteSet(active \cup {b})
        /\ Cardinality(active \cup {b}) = Cardinality(active) + 1
        /\ Cardinality(active) \in Nat
    BY <1>1, FS_AddElement, FS_CardinalityType DEF AdmitStart, Known
  <2>2. OnePlace'
    BY <1>1 DEF AdmitStart, Known, Range
  <2> QED BY <1>1, <2>1, <2>2 DEF AdmitStart, Full
<1>2. ASSUME NEW b \in BoxIds, AdmitQueue(b) PROVE Inv'
  <2>1. Append(queued, b) \in Seq(BoxIds)
    BY AppendProperties
  <2>2. OnePlace'
    BY <1>2, AppendFresh DEF AdmitQueue, Known
  <2> QED BY <1>2, <2>1, <2>2 DEF AdmitQueue
<1>3. ASSUME NEW b \in BoxIds, Release(b) PROVE Inv'
  <2>1. /\ IsFiniteSet(active \ {b})
        /\ Cardinality(active \ {b}) = Cardinality(active) - 1
        /\ Cardinality(active) \in Nat
    BY <1>3, FS_RemoveElement, FS_CardinalityType DEF Release
  <2>2. OnePlace'
    BY <1>3 DEF Release
  <2> QED BY <1>3, <2>1, <2>2 DEF Release
<1>4. ASSUME StartNext PROVE Inv'
  <2>1. queued # <<>>
    BY <1>4 DEF StartNext
  <2>2. /\ Head(queued) \in BoxIds /\ Tail(queued) \in Seq(BoxIds)
        /\ Head(queued) \in Range(queued)
        /\ IsInjective(Tail(queued))
        /\ Range(Tail(queued)) = Range(queued) \ {Head(queued)}
    BY <2>1, TailInjective
  <2>3. /\ IsFiniteSet(active') /\ Cardinality(active') <= Limit
    <3> DEFINE h == Head(queued)
    <3>1. active' = active \cup {h}
      BY <1>4 DEF StartNext
    <3> HIDE DEF h
    <3>2. /\ IsFiniteSet(active \cup {h})
          /\ Cardinality(active \cup {h}) =
               IF h \in active THEN Cardinality(active) ELSE Cardinality(active) + 1
      BY FS_AddElement
    <3>3. Cardinality(active) \in Nat /\ Cardinality(active) < Limit
      BY <1>4, FS_CardinalityType DEF StartNext, Full
    <3> QED BY <3>1, <3>2, <3>3
  <2>4. OnePlace'
    BY <1>4, <2>2 DEF StartNext
  <2> QED BY <1>4, <2>2, <2>3, <2>4 DEF StartNext
<1>5. ASSUME NEW b \in BoxIds, CancelQueued(b) PROVE Inv'
  <2>1. PICK i \in DOMAIN queued : queued' = RemoveAt(queued, i)
    BY <1>5 DEF CancelQueued
  <2>2. i \in 1..Len(queued)
    OBVIOUS
  <2>3. /\ queued' \in Seq(BoxIds)
        /\ IsInjective(queued')
        /\ Range(queued') = Range(queued) \ {queued[i]}
    BY <2>1, <2>2, RemoveAtProperties, RemoveAtInjective
  <2> QED BY <1>5, <2>3 DEF CancelQueued
<1>6. ASSUME UNCHANGED admissionVars PROVE Inv'
  BY <1>6 DEF admissionVars
<1> QED BY <1>1, <1>2, <1>3, <1>4, <1>5, <1>6 DEF Next

\* No order of calls, cancellations or releases reserves more slots than the
\* limit, or puts a box id in two places (admission.rs, every method).
THEOREM AdmissionInvariant == Spec => [](TypeOK /\ CapacityRespected /\ OnePlace)
<1>1. Inv => TypeOK /\ CapacityRespected /\ OnePlace
  BY DEF Inv
<1> QED BY InitInv, NextInv, <1>1, PTL DEF Spec
-----------------------------------------------------------------------------
(***************************************************************************)
(* Refinement: what each method does to the deque, read as arrival order.  *)
(***************************************************************************)

\* push_back adds a box behind every waiting one.
LEMMA ArrivalAppend ==
    ASSUME NEW S, NEW s \in Seq(S), NEW b \in S, IsInjective(s), b \notin Range(s)
    PROVE  Arrival(Append(s, b)) = Arrival(s) \cup (Range(s) \X {b})
<1> DEFINE t == Append(s, b)
<1>1. /\ DOMAIN t = 1..(Len(s) + 1) /\ DOMAIN s = 1..Len(s) /\ Len(s) \in Nat
      /\ \A i \in 1..Len(s) : t[i] = s[i]
      /\ t[Len(s) + 1] = b
  BY AppendProperties, LenProperties
<1>2. Range(t) = Range(s) \cup {b}
  BY AppendFresh
<1> HIDE DEF t
<1>3. ASSUME NEW p \in Arrival(t) PROVE p \in Arrival(s) \cup (Range(s) \X {b})
  <2>1. PICK i, j \in DOMAIN t : i < j /\ p = <<t[i], t[j]>>
    BY DEF Arrival
  <2>2. i \in DOMAIN s /\ t[i] = s[i] /\ s[i] \in Range(s)
    BY <2>1, <1>1 DEF Range
  <2>3. CASE j = Len(s) + 1
    BY <2>1, <2>2, <2>3, <1>1
  <2>4. CASE j # Len(s) + 1
    <3>1. j \in DOMAIN s /\ t[j] = s[j] /\ s[j] \in Range(s)
      BY <2>1, <2>4, <1>1 DEF Range
    <3> QED BY <3>1, <2>1, <2>2 DEF Arrival
  <2> QED BY <2>3, <2>4
<1>4. ASSUME NEW p \in Arrival(s) PROVE p \in Arrival(t)
  <2>1. PICK i, j \in DOMAIN s : i < j /\ p = <<s[i], s[j]>>
    BY DEF Arrival
  <2>2. p \in Range(t) \X Range(t)
    BY <1>2 DEF Arrival
  <2> QED BY <2>1, <2>2, <1>1 DEF Arrival
<1>5. ASSUME NEW a \in Range(s) PROVE <<a, b>> \in Arrival(t)
  <2>1. PICK i \in DOMAIN s : s[i] = a
    BY DEF Range
  <2>2. /\ i \in DOMAIN t /\ Len(s) + 1 \in DOMAIN t /\ i < Len(s) + 1
        /\ <<a, b>> = <<t[i], t[Len(s) + 1]>>
    BY <2>1, <1>1
  <2> QED BY <2>2, <1>2 DEF Arrival
<1> QED BY <1>3, <1>4, <1>5 DEF t

\* Taking one box out leaves the order of the others as it was.
LEMMA ArrivalRemove ==
    ASSUME NEW S, NEW s \in Seq(S), NEW i \in 1..Len(s), IsInjective(s)
    PROVE  Arrival(RemoveAt(s, i)) =
             {p \in Arrival(s) : p[1] # s[i] /\ p[2] # s[i]}
<1> DEFINE t == RemoveAt(s, i)
           from(j) == IF j < i THEN j ELSE j + 1
<1>1. /\ t \in Seq(S) /\ Len(t) = Len(s) - 1
      /\ \A j \in 1..(Len(s) - 1) : t[j] = IF j < i THEN s[j] ELSE s[j + 1]
  BY RemoveAtProperties
<1>2. Range(t) = Range(s) \ {s[i]}
  BY RemoveAtInjective
<1> HIDE DEF t
<1>3. /\ DOMAIN t = 1..(Len(s) - 1) /\ DOMAIN s = 1..Len(s)
      /\ \A j \in DOMAIN t : from(j) \in DOMAIN s /\ t[j] = s[from(j)]
      /\ \A j, k \in DOMAIN t : j < k <=> from(j) < from(k)
  BY <1>1
<1>4. \A m \in DOMAIN s \ {i} : \E j \in DOMAIN t : from(j) = m
  <2> TAKE m \in DOMAIN s \ {i}
  <2>1. CASE m < i
    BY <2>1, <1>3
  <2>2. CASE m > i
    <3>1. m - 1 \in DOMAIN t /\ from(m - 1) = m
      BY <2>2, <1>3
    <3> QED BY <3>1
  <2> QED BY <2>1, <2>2, <1>3
<1> HIDE DEF from
<1>5. ASSUME NEW p \in Arrival(t)
      PROVE  p \in Arrival(s) /\ p[1] # s[i] /\ p[2] # s[i]
  <2>1. PICK j, k \in DOMAIN t : j < k /\ p = <<t[j], t[k]>>
    BY DEF Arrival
  <2>2. /\ from(j) \in DOMAIN s /\ from(k) \in DOMAIN s /\ from(j) < from(k)
        /\ p = <<s[from(j)], s[from(k)]>>
    BY <2>1, <1>3
  <2>3. p \in (Range(s) \ {s[i]}) \X (Range(s) \ {s[i]})
    BY <1>2 DEF Arrival
  <2> QED BY <2>2, <2>3 DEF Arrival
<1>6. ASSUME NEW p \in Arrival(s), p[1] # s[i], p[2] # s[i]
      PROVE  p \in Arrival(t)
  <2>1. PICK m, n \in DOMAIN s : m < n /\ p = <<s[m], s[n]>>
    BY DEF Arrival
  <2>2. m # i /\ n # i
    BY <2>1, <1>6
  <2>3. PICK j \in DOMAIN t : from(j) = m
    BY <2>2, <1>4
  <2>4. PICK k \in DOMAIN t : from(k) = n
    BY <2>2, <1>4
  <2>5. j < k /\ p = <<t[j], t[k]>>
    BY <2>1, <2>3, <2>4, <1>3
  <2>6. p \in Range(t) \X Range(t)
    BY <2>5 DEF Range
  <2> QED BY <2>5, <2>6 DEF Arrival
<1> QED BY <1>5, <1>6 DEF t

\* pop_front is the removal of the first element.
LEMMA TailIsRemoveAt ==
    ASSUME NEW S, NEW s \in Seq(S), s # <<>>
    PROVE  1 \in 1..Len(s) /\ Head(s) = s[1] /\ Tail(s) = RemoveAt(s, 1)
<1>1. Len(s) \in Nat \ {0} /\ Head(s) = s[1]
  BY EmptySeq
<1>2. Tail(s) \in Seq(S) /\ Len(Tail(s)) = Len(s) - 1
      /\ \A j \in 1..(Len(s) - 1) : Tail(s)[j] = s[j + 1]
  BY HeadTailProperties
<1>3. 1 \in 1..Len(s)
  BY <1>1
<1> DEFINE r == RemoveAt(s, 1)
<1>4. r \in Seq(S) /\ Len(r) = Len(s) - 1
      /\ \A j \in 1..(Len(s) - 1) : r[j] = IF j < 1 THEN s[j] ELSE s[j + 1]
  BY <1>3, RemoveAtProperties
<1> HIDE DEF r
<1>5. Tail(s) = r
  BY <1>2, <1>4, SeqEqual
<1> QED BY <1>1, <1>3, <1>5 DEF r

\* Removing the element at i from the deque is a Dequeue of the promise.
LEMMA RemoveIsDequeue ==
    ASSUME TypeOK, OnePlace, NEW i \in 1..Len(queued), queued' = RemoveAt(queued, i)
    PROVE  Fifo!Dequeue(queued[i])
<1>1. /\ Range(queued') = Range(queued) \ {queued[i]}
      /\ Arrival(queued') =
            {p \in Arrival(queued) : p[1] # queued[i] /\ p[2] # queued[i]}
  BY RemoveAtInjective, ArrivalRemove DEF TypeOK, OnePlace
<1>2. queued[i] \in Range(queued)
  BY DEF Range, TypeOK
<1> QED BY <1>1, <1>2 DEF Fifo!Dequeue

\* Nothing arrived before the head of the deque.
LEMMA HeadIsOldest ==
    ASSUME TypeOK, OnePlace, queued # <<>>
    PROVE  \A a \in Range(queued) : <<a, queued[1]>> \notin Arrival(queued)
<1> SUFFICES ASSUME NEW a \in Range(queued), <<a, queued[1]>> \in Arrival(queued)
             PROVE FALSE
  OBVIOUS
<1>1. PICK i, j \in DOMAIN queued : i < j /\ <<a, queued[1]>> = <<queued[i], queued[j]>>
  BY DEF Arrival
<1>2. 1 \in DOMAIN queued
  BY TailIsRemoveAt DEF TypeOK
<1>3. j = 1
  BY <1>1, <1>2 DEF OnePlace, IsInjective
<1> QED BY <1>1, <1>3 DEF TypeOK

\* Every method is a step of the promise, or leaves it alone.
LEMMA StepImplementsFifo ==
    Inv /\ [Next]_admissionVars => [Fifo!FifoNext]_(Fifo!fifoVars)
<1> SUFFICES ASSUME Inv, [Next]_admissionVars
             PROVE  [Fifo!FifoNext]_(Fifo!fifoVars)
  OBVIOUS
<1> USE DEF Inv
<1>0. Fifo!HasRoom <=> ~Full
  <2>1. Fifo!Cardinality(active) = Cardinality(active)
    BY DEF Fifo!Cardinality, Cardinality
  <2> QED BY <2>1, FS_CardinalityType, LimitAssumption DEF Fifo!HasRoom, Full, TypeOK
<1>a. queued = <<>> <=> Range(queued) = {}
  BY TailIsRemoveAt DEF Range, TypeOK
<1>1. ASSUME NEW b \in BoxIds, AdmitStart(b) PROVE Fifo!StartNow(b)
  BY <1>1, <1>0, <1>a DEF AdmitStart, Known, Fifo!StartNow, Fifo!Fresh
<1>2. ASSUME NEW b \in BoxIds, AdmitQueue(b) PROVE Fifo!Wait(b)
  <2>1. /\ Range(queued') = Range(queued) \cup {b}
        /\ Arrival(queued') = Arrival(queued) \cup (Range(queued) \X {b})
    BY <1>2, AppendFresh, ArrivalAppend DEF AdmitQueue, Known, TypeOK, OnePlace
  <2> QED BY <2>1, <1>2, <1>0, <1>a DEF AdmitQueue, Known, Fifo!Wait, Fifo!Fresh
<1>3. ASSUME NEW b \in BoxIds, Release(b) PROVE Fifo!Leave(b)
  BY <1>3 DEF Release, Fifo!Leave
<1>4. ASSUME StartNext PROVE queued[1] \in BoxIds /\ Fifo!Promote(queued[1])
  <2>1. /\ 1 \in 1..Len(queued) /\ Head(queued) = queued[1]
        /\ queued' = RemoveAt(queued, 1)
    BY <1>4, TailIsRemoveAt DEF StartNext, TypeOK
  <2>2. Fifo!Dequeue(queued[1])
    BY <2>1, RemoveIsDequeue
  <2>3. \A a \in Range(queued) : <<a, queued[1]>> \notin Arrival(queued)
    BY <1>4, HeadIsOldest DEF StartNext
  <2>4. queued[1] \in BoxIds
    BY <2>1 DEF TypeOK
  <2> QED BY <1>4, <1>0, <2>1, <2>2, <2>3, <2>4 DEF StartNext, Fifo!Promote
<1>5. ASSUME NEW b \in BoxIds, CancelQueued(b) PROVE Fifo!Withdraw(b)
  <2>1. PICK i \in DOMAIN queued : queued[i] = b /\ queued' = RemoveAt(queued, i)
    BY <1>5 DEF CancelQueued
  <2>2. i \in 1..Len(queued)
    BY DEF TypeOK
  <2>3. Fifo!Dequeue(b)
    BY <2>1, <2>2, RemoveIsDequeue
  <2> QED BY <2>3, <1>5 DEF CancelQueued, Fifo!Withdraw
<1>6. ASSUME UNCHANGED admissionVars PROVE UNCHANGED Fifo!fifoVars
  BY <1>6 DEF admissionVars, Fifo!fifoVars, Arrival, Range
<1> QED BY <1>1, <1>2, <1>3, <1>4, <1>5, <1>6 DEF Next, Fifo!FifoNext

\* The controller keeps the FIFO promise for every limit and every set of box
\* ids: whatever the calls, a request starts only when every older one has
\* started or was cancelled (admit and start_next in admission.rs).
THEOREM AdmissionImplementsFifo == Spec => ImplementsFifo
<1>1. Init => Fifo!FifoInit
  BY DEF Init, Fifo!FifoInit, Range, Arrival
<1> QED BY <1>1, InitInv, NextInv, StepImplementsFifo, PTL
        DEF Spec, ImplementsFifo, Fifo!FifoSpec
=============================================================================
