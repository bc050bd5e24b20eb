------------------------ MODULE LeasedWorkProofs ------------------------
(***************************************************************************)
(* The pool's safety for every set of threads, keys, workspaces and leases, *)
(* and that of the works that hold its leases, which rests on it.           *)
(* Exclusivity is not inductive alone: that a return cannot create a second *)
(* entry needs that only one thread is returning a lease (OneReturner), and *)
(* that a fresh allocation is not already out needs KeyFidelity.            *)
(***************************************************************************)
EXTENDS LeasedWork, FiniteSetTheorems, TLAPS

LeaseShape ==
    /\ \A l \in Leases : leaseKey[l] # NoKey => leaseValue[l] \in Workspaces
    /\ \A l \in Leases : released[l] => leaseKey[l] # NoKey
    /\ \A t \in Threads : returning[t] # NoLease => released[returning[t]]

OneReturner ==
    \A t, u \in Threads :
        returning[t] = returning[u] /\ returning[t] # NoLease => t = u

IndInv ==
    /\ TypeOK
    /\ LeaseShape
    /\ OneReturner
    /\ ExclusiveLeases
    /\ IdleOnce
    /\ KeyFidelity
    /\ NoLeak

USE DEF Elements

\* Initially nothing is allocated, idle or leased.
LEMMA InitIndInv == Init => IndInv
BY NullsAssumption, SMTT(30)
   DEF Init, IndInv, TypeOK, LeaseShape, OneReturner, ExclusiveLeases,
       IdleOnce, KeyFidelity, NoLeak, Holds, Held

\* What popping the last element of a list leaves behind.
LEMMA PopFacts ==
    ASSUME NEW S, NEW s \in Seq(S), s # <<>>
    PROVE  LET p == SubSeq(s, 1, Len(s) - 1)
           IN  /\ p \in Seq(S)
               /\ Len(s) \in DOMAIN s
               /\ DOMAIN p = 1 .. (Len(s) - 1)
               /\ DOMAIN s = 1 .. Len(s)
               /\ \A i \in DOMAIN p : p[i] = s[i]
OBVIOUS

\* What appending one element to a list adds.
LEMMA AppendFacts ==
    ASSUME NEW S, NEW s \in Seq(S), NEW e \in S
    PROVE  LET p == Append(s, e)
           IN  /\ p \in Seq(S)
               /\ DOMAIN s = 1 .. Len(s)
               /\ DOMAIN p = 1 .. (Len(s) + 1)
               /\ \A i \in DOMAIN s : p[i] = s[i]
               /\ p[Len(s) + 1] = e
OBVIOUS

\* The number of workspaces of a key that are out is a natural number.
LEMMA HeldCount ==
    ASSUME NEW k \in Keys
    PROVE  Cardinality(HeldOf(k)) \in Nat /\ IsFiniteSet(HeldOf(k))
BY LeasesAssumption, FS_Subset, FS_CardinalityType DEF HeldOf

\* The history of the peak stays a natural number when a lease is handed out.
LEMMA LendPeak ==
    ASSUME TypeOK, NEW l \in Leases, NEW k \in Keys, NEW w, Lend(l, k, w)
    PROVE  peak' \in [Keys -> Nat]
<1>1. Cardinality(HeldOf(k)) + 1 \in Nat
  BY HeldCount
<1> QED  BY <1>1 DEF TypeOK, Lend

\* A lease taken from the idle list keeps the pool's invariant.
LEMMA ReuseIndInv ==
    ASSUME IndInv, NEW l \in Leases, NEW k \in Keys,
           Reuse(l, k), UNCHANGED <<released, returning>>
    PROVE  IndInv'
<1> DEFINE s == available[k]
           w == s[Len(s)]
<1>1. /\ s \in Seq(Workspaces) /\ s # <<>>
      /\ leaseKey[l] = NoKey
      /\ leaseKey' = [leaseKey EXCEPT ![l] = k]
      /\ leaseValue' = [leaseValue EXCEPT ![l] = w]
      /\ available' = [available EXCEPT ![k] = SubSeq(s, 1, Len(s) - 1)]
      /\ allocatedFor' = allocatedFor
  BY DEF IndInv, TypeOK, Reuse, Lend, PopIdle
<1>2. /\ SubSeq(s, 1, Len(s) - 1) \in Seq(Workspaces)
      /\ Len(s) \in DOMAIN s
      /\ DOMAIN SubSeq(s, 1, Len(s) - 1) = 1 .. (Len(s) - 1)
      /\ DOMAIN s = 1 .. Len(s)
      /\ \A i \in DOMAIN SubSeq(s, 1, Len(s) - 1) :
             SubSeq(s, 1, Len(s) - 1)[i] = s[i]
      /\ w \in Workspaces
  BY <1>1, PopFacts
<1>3. TypeOK'
  BY <1>1, <1>2, LendPeak DEF IndInv, TypeOK, Reuse
<1>4. /\ ~released[l] /\ \A t \in Threads : returning[t] # l
      /\ \A m \in Leases : Holds(m)' <=> Holds(m) \/ m = l
  BY <1>1, NullsAssumption DEF IndInv, TypeOK, LeaseShape, Holds
<1>5. LeaseShape' /\ OneReturner'
  BY <1>1, <1>2, <1>4, NullsAssumption
  DEF IndInv, TypeOK, LeaseShape, OneReturner
<1>6. \A j \in Keys : \A i \in DOMAIN available'[j] :
          /\ i \in DOMAIN available[j]
          /\ available'[j][i] = available[j][i]
          /\ available'[j][i] # w
  BY <1>1, <1>2 DEF IndInv, TypeOK, IdleOnce
<1>7. \A m \in Leases : Holds(m) => leaseValue[m] # w /\ m # l
  BY <1>1, <1>2, <1>4 DEF IndInv, TypeOK, ExclusiveLeases, Holds
<1>8. ExclusiveLeases'
  BY <1>1, <1>2, <1>4, <1>6, <1>7 DEF IndInv, TypeOK, ExclusiveLeases
<1>9. IdleOnce'
  BY <1>1, <1>6 DEF IndInv, TypeOK, IdleOnce
<1>10. KeyFidelity'
  BY <1>1, <1>2, <1>4, <1>6, <1>7 DEF IndInv, TypeOK, KeyFidelity
<1>11. NoLeak'
  <2> SUFFICES ASSUME NEW v \in Workspaces, allocatedFor[v] # NoKey
               PROVE  \/ v \in Held'
                      \/ \E j \in Keys : v \in Elements(available'[j])
    BY <1>1 DEF NoLeak
  <2>1. CASE v = w
    BY <2>1, <1>1, <1>2, <1>4 DEF Held, IndInv, TypeOK
  <2>2. CASE v # w /\ v \in Held
    BY <2>2, <1>1, <1>4, <1>7 DEF Held, IndInv, TypeOK
  <2>3. CASE v # w /\ \E j \in Keys : v \in Elements(available[j])
    <3>0. PICK j \in Keys : v \in Elements(available[j])
      BY <2>3
    <3>1. PICK i \in DOMAIN available[j] : available[j][i] = v
      BY <3>0
    <3>2. i \in DOMAIN available'[j] /\ available'[j][i] = v
      BY <3>1, <2>3, <1>1, <1>2 DEF IndInv, TypeOK
    <3> QED  BY <3>2
  <2> QED  BY <2>1, <2>2, <2>3 DEF IndInv, NoLeak
<1> QED  BY <1>3, <1>5, <1>8, <1>9, <1>10, <1>11 DEF IndInv

\* A lease on a fresh allocation keeps the pool's invariant.
LEMMA AllocateIndInv ==
    ASSUME IndInv, NEW l \in Leases, NEW k \in Keys, NEW w \in Workspaces,
           Allocate(l, k, w), UNCHANGED <<released, returning>>
    PROVE  IndInv'
<1>1. /\ leaseKey[l] = NoKey
      /\ allocatedFor[w] = NoKey
      /\ leaseKey' = [leaseKey EXCEPT ![l] = k]
      /\ leaseValue' = [leaseValue EXCEPT ![l] = w]
      /\ allocatedFor' = [allocatedFor EXCEPT ![w] = k]
      /\ available' = available
  BY DEF Allocate, Lend
<1>2. TypeOK'
  BY <1>1, LendPeak DEF IndInv, TypeOK, Allocate
<1>3. /\ ~released[l] /\ \A t \in Threads : returning[t] # l
      /\ \A m \in Leases : Holds(m)' <=> Holds(m) \/ m = l
  BY <1>1, NullsAssumption DEF IndInv, TypeOK, LeaseShape, Holds
<1>4. LeaseShape' /\ OneReturner'
  BY <1>1, <1>3, NullsAssumption DEF IndInv, TypeOK, LeaseShape, OneReturner
<1>5. /\ \A m \in Leases : Holds(m) => leaseValue[m] # w /\ m # l
      /\ \A j \in Keys : \A i \in DOMAIN available[j] : available[j][i] # w
  BY <1>1, NullsAssumption DEF IndInv, TypeOK, KeyFidelity, Holds
<1>6. ExclusiveLeases'
  BY <1>1, <1>3, <1>5 DEF IndInv, TypeOK, ExclusiveLeases
<1>7. IdleOnce'
  BY <1>1 DEF IndInv, IdleOnce
<1>8. KeyFidelity'
  BY <1>1, <1>3, <1>5 DEF IndInv, TypeOK, KeyFidelity
<1>9. NoLeak'
  <2> SUFFICES ASSUME NEW v \in Workspaces, allocatedFor'[v] # NoKey
               PROVE  \/ v \in Held'
                      \/ \E j \in Keys : v \in Elements(available[j])
    BY <1>1 DEF NoLeak
  <2>1. CASE v = w
    BY <2>1, <1>1, <1>3 DEF Held, IndInv, TypeOK
  <2>2. CASE v # w /\ v \in Held
    BY <2>2, <1>1, <1>3, <1>5 DEF Held, IndInv, TypeOK
  <2>3. CASE v # w /\ v \notin Held
    BY <2>3, <1>1 DEF IndInv, TypeOK, NoLeak
  <2> QED  BY <2>1, <2>2, <2>3
<1> QED  BY <1>2, <1>4, <1>6, <1>7, <1>8, <1>9 DEF IndInv

\* The second half of release() keeps the pool's invariant.
LEMMA ReturnIndInv ==
    ASSUME IndInv, NEW t \in Threads, Return(t)
    PROVE  IndInv'
<1>0. PICK l \in Leases : returning[t] = l /\ l # NoLease
  BY DEF IndInv, TypeOK, Return
<1> DEFINE w == leaseValue[l]
           s == available[leaseKey[l]]
<1>1. /\ l \in Leases /\ l # NoLease /\ returning[t] = l
      /\ leaseKey[l] \in Keys /\ w \in Workspaces /\ released[l]
      /\ available' = [available EXCEPT ![leaseKey[l]] = Append(s, w)]
      /\ returning' = [returning EXCEPT ![t] = NoLease]
      /\ UNCHANGED <<allocatedFor, leaseKey, leaseValue, released, peak>>
  BY <1>0 DEF IndInv, TypeOK, LeaseShape, Return
<1>2. /\ s \in Seq(Workspaces)
      /\ Append(s, w) \in Seq(Workspaces)
      /\ DOMAIN s = 1 .. Len(s)
      /\ DOMAIN Append(s, w) = 1 .. (Len(s) + 1)
      /\ \A i \in DOMAIN s : Append(s, w)[i] = s[i]
      /\ Append(s, w)[Len(s) + 1] = w
      /\ Len(s) \in Nat
  BY <1>1, AppendFacts DEF IndInv, TypeOK
<1>3. TypeOK'
  BY <1>1, <1>2 DEF IndInv, TypeOK
<1>4. Holds(l) /\ \A m \in Leases : Holds(m)' <=> Holds(m) /\ m # l
  <2>1. Holds(l)
    BY <1>1, NullsAssumption DEF Holds
  <2>2. ~Holds(l)'
    BY <1>1 DEF IndInv, TypeOK, OneReturner, Holds
  <2>3. ASSUME NEW m \in Leases, m # l
        PROVE  Holds(m)' <=> Holds(m)
    BY <2>3, <1>1, NullsAssumption DEF IndInv, TypeOK, Holds
  <2> QED  BY <2>1, <2>2, <2>3
<1>5. LeaseShape' /\ OneReturner'
  BY <1>1, NullsAssumption DEF IndInv, TypeOK, LeaseShape, OneReturner
<1>6. \A j \in Keys : \A i \in DOMAIN available'[j] :
          \/ i \in DOMAIN available[j] /\ available'[j][i] = available[j][i]
          \/ j = leaseKey[l] /\ i = Len(s) + 1 /\ available'[j][i] = w
  BY <1>1, <1>2 DEF IndInv, TypeOK
<1>7. \A j \in Keys : \A i \in DOMAIN available[j] : available[j][i] # w
  BY <1>1, <1>4 DEF IndInv, ExclusiveLeases
<1>8. ExclusiveLeases'
  <2>1. \A m, n \in Leases :
            Holds(m)' /\ Holds(n)' /\ leaseValue'[m] = leaseValue'[n] => m = n
    BY <1>1, <1>4 DEF IndInv, ExclusiveLeases
  <2>2. ASSUME NEW m \in Leases, Holds(m)', NEW j \in Keys,
               NEW i \in DOMAIN available'[j]
        PROVE  leaseValue'[m] # available'[j][i]
    <3>1. Holds(m) /\ m # l /\ leaseValue[m] # w
      BY <2>2, <1>1, <1>4 DEF IndInv, ExclusiveLeases
    <3> QED  BY <3>1, <2>2, <1>1, <1>6 DEF IndInv, ExclusiveLeases
  <2> QED  BY <2>1, <2>2 DEF ExclusiveLeases
<1>9. IdleOnce'
  <2> SUFFICES ASSUME NEW j \in Keys, NEW i \in DOMAIN available'[j],
                      NEW h \in Keys, NEW g \in DOMAIN available'[h],
                      available'[j][i] = available'[h][g]
               PROVE  j = h /\ i = g
    BY DEF IdleOnce
  <2> QED  BY <1>6, <1>7 DEF IndInv, IdleOnce
<1>10. KeyFidelity'
  <2>1. allocatedFor[w] = leaseKey[l]
    BY <1>1, <1>4 DEF IndInv, KeyFidelity
  <2>2. ASSUME NEW j \in Keys, NEW i \in DOMAIN available'[j]
        PROVE  allocatedFor'[available'[j][i]] = j
    BY <2>1, <2>2, <1>1, <1>6 DEF IndInv, KeyFidelity
  <2> QED  BY <2>2, <1>1, <1>4 DEF IndInv, KeyFidelity
<1>11. NoLeak'
  <2> SUFFICES ASSUME NEW v \in Workspaces, allocatedFor[v] # NoKey
               PROVE  \/ v \in Held'
                      \/ \E j \in Keys : v \in Elements(available'[j])
    BY <1>1 DEF NoLeak
  <2>1. CASE v = w
    <3>1. Len(s) + 1 \in DOMAIN available'[leaseKey[l]]
      BY <1>1, <1>2 DEF IndInv, TypeOK
    <3>2. available'[leaseKey[l]][Len(s) + 1] = w
      BY <1>1, <1>2 DEF IndInv, TypeOK
    <3> QED  BY <3>1, <3>2, <2>1, <1>1
  <2>2. CASE v # w /\ v \in Held
    BY <2>2, <1>1, <1>4 DEF Held
  <2>3. CASE \E j \in Keys : v \in Elements(available[j])
    <3>0. PICK j \in Keys : v \in Elements(available[j])
      BY <2>3
    <3>1. PICK i \in DOMAIN available[j] : available[j][i] = v
      BY <3>0
    <3>2. i \in DOMAIN available'[j] /\ available'[j][i] = v
      BY <3>1, <1>1, <1>2 DEF IndInv, TypeOK
    <3> QED  BY <3>2
  <2> QED  BY <2>1, <2>2, <2>3 DEF IndInv, NoLeak
<1> QED  BY <1>3, <1>5, <1>8, <1>9, <1>10, <1>11 DEF IndInv

\* Marking a lease released keeps the pool's invariant.
LEMMA MarkIndInv ==
    ASSUME IndInv, NEW t \in Threads, NEW l \in Leases, MarkReleased(t, l)
    PROVE  IndInv'
<1>1. TypeOK'
  BY DEF IndInv, TypeOK, MarkReleased
<1>2. \A m \in Leases : Holds(m)' <=> Holds(m)
  BY NullsAssumption DEF IndInv, TypeOK, MarkReleased, Holds, LeaseShape
<1>3. LeaseShape' /\ OneReturner'
  BY NullsAssumption
  DEF IndInv, TypeOK, MarkReleased, LeaseShape, OneReturner
<1>4. UNCHANGED <<available, allocatedFor, leaseKey, leaseValue>>
  BY DEF MarkReleased
<1>5. ExclusiveLeases' /\ IdleOnce' /\ KeyFidelity'
  BY <1>2, <1>4 DEF IndInv, ExclusiveLeases, IdleOnce, KeyFidelity
<1>6. NoLeak'
  BY <1>2, <1>4 DEF IndInv, NoLeak, Held
<1> QED  BY <1>1, <1>3, <1>5, <1>6 DEF IndInv

\* Every step of the pool keeps the invariant.
LEMMA NextIndInv == IndInv /\ [Next]_poolVars => IndInv'
<1> SUFFICES ASSUME IndInv, [Next]_poolVars PROVE IndInv'
  OBVIOUS
<1>1. ASSUME NEW t \in Threads, NEW l \in Leases, NEW k \in Keys,
             Acquire(t, l, k)
      PROVE  IndInv'
  BY <1>1, ReuseIndInv, AllocateIndInv DEF Acquire
<1>2. ASSUME NEW t \in Threads, NEW l \in Leases, MarkReleased(t, l)
      PROVE  IndInv'
  BY <1>2, MarkIndInv
<1>3. ASSUME UNCHANGED poolVars
      PROVE  IndInv'
  BY <1>3 DEF poolVars, IndInv, TypeOK, LeaseShape, OneReturner,
              ExclusiveLeases, IdleOnce, KeyFidelity, NoLeak, Holds, Held
<1>4. ASSUME NEW t \in Threads, Return(t)
      PROVE  IndInv'
  BY <1>4, ReturnIndInv
<1> QED  BY <1>1, <1>2, <1>3, <1>4 DEF Next, ReleaseAgain

(***************************************************************************)
(* For any number of threads releasing in any order: a workspace is never   *)
(* in two leases, nor idle while a lease has it.                            *)
(***************************************************************************)
THEOREM PoolSafety == Spec => [](TypeOK /\ ExclusiveLeases)
<1>1. IndInv => TypeOK /\ ExclusiveLeases
  BY DEF IndInv
<1> QED  BY InitIndInv, NextIndInv, <1>1, PTL DEF Spec

(***************************************************************************)
(* And whatever release() calls are made, and repeated: a workspace is on   *)
(* the idle lists at most once, serves only the key it was allocated for,   *)
(* and is never lost.                                                       *)
(***************************************************************************)
THEOREM PoolAccounts == Spec => []Accounted
<1>1. IndInv => Accounted
  BY DEF IndInv, Accounted
<1> QED  BY InitIndInv, NextIndInv, <1>1, PTL DEF Spec
----------------------------------------------------------------------------
(***************************************************************************)
(* The allocation count.  The leases of a key map one-to-one into the       *)
(* key's allocations, and onto them when the idle list is empty.            *)
(***************************************************************************)
PeakInv ==
    \A k \in Keys : /\ IsFiniteSet(AllocatedOf(k))
                    /\ Cardinality(AllocatedOf(k)) = peak[k]

LeaseMap(k) == [l \in HeldOf(k) |-> leaseValue[l]]

\* Distinct leases of a key hold distinct allocations of that key.
LEMMA LeaseMapInjective ==
    ASSUME IndInv, NEW k \in Keys
    PROVE  LeaseMap(k) \in Injection(HeldOf(k), AllocatedOf(k))
<1>1. \A l \in HeldOf(k) : leaseValue[l] \in AllocatedOf(k)
  BY DEF IndInv, TypeOK, LeaseShape, KeyFidelity, HeldOf, AllocatedOf, Holds
<1>2. \A l, m \in HeldOf(k) : leaseValue[l] = leaseValue[m] => l = m
  BY DEF IndInv, ExclusiveLeases, HeldOf
<1> QED  BY <1>1, <1>2 DEF LeaseMap, Injection, IsInjective

\* A reused workspace shows that fewer were out than were ever allocated.
LEMMA IdleMeansRoom ==
    ASSUME IndInv, PeakInv, NEW k \in Keys, available[k] # <<>>
    PROVE  Cardinality(HeldOf(k)) + 1 <= peak[k]
<1> DEFINE w == available[k][Len(available[k])]
           A == AllocatedOf(k)
<1>1. Len(available[k]) \in DOMAIN available[k]
  BY PopFacts DEF IndInv, TypeOK
<1>2. w \in A /\ \A l \in HeldOf(k) : leaseValue[l] # w
  BY <1>1 DEF IndInv, TypeOK, KeyFidelity, ExclusiveLeases, HeldOf,
              AllocatedOf
<1>3. LeaseMap(k) \in Injection(HeldOf(k), A \ {w})
  BY LeaseMapInjective, <1>2 DEF LeaseMap, Injection, IsInjective
<1>4. IsFiniteSet(A) /\ Cardinality(A) = peak[k]
  BY DEF PeakInv
<1>5. IsFiniteSet(A \ {w}) /\ Cardinality(A \ {w}) = peak[k] - 1
  BY <1>2, <1>4, FS_RemoveElement
<1>6. Cardinality(HeldOf(k)) <= Cardinality(A \ {w})
  BY <1>3, <1>5, FS_Injection
<1> QED  BY <1>5, <1>6, HeldCount DEF IndInv, TypeOK

\* With no idle workspace, everything allocated for the key is out.
LEMMA EmptyMeansAllOut ==
    ASSUME IndInv, PeakInv, NEW k \in Keys, available[k] = <<>>
    PROVE  Cardinality(HeldOf(k)) = peak[k]
<1>1. ASSUME NEW w \in AllocatedOf(k)
      PROVE  \E l \in HeldOf(k) : leaseValue[l] = w
  <2>1. w \in Workspaces /\ allocatedFor[w] = k /\ k # NoKey
    BY NullsAssumption DEF AllocatedOf
  <2>2. \A j \in Keys : w \notin Elements(available[j])
    <3>1. ASSUME NEW j \in Keys, NEW i \in DOMAIN available[j],
                 available[j][i] = w
          PROVE  FALSE
      <4>1. j = k
        BY <3>1, <2>1 DEF IndInv, KeyFidelity
      <4>2. DOMAIN available[k] = {}
        OBVIOUS
      <4> QED  BY <4>1, <4>2, <3>1
    <3> QED  BY <3>1
  <2>3. w \in Held
    BY <2>1, <2>2 DEF IndInv, NoLeak
  <2> QED  BY <2>1, <2>3 DEF Held, HeldOf, IndInv, KeyFidelity
<1>2. LeaseMap(k) \in Surjection(HeldOf(k), AllocatedOf(k))
  BY <1>1, LeaseMapInjective DEF Surjection, Injection, LeaseMap
<1>3. IsFiniteSet(AllocatedOf(k))
  BY DEF PeakInv
<1>4. Cardinality(HeldOf(k)) = Cardinality(AllocatedOf(k))
  BY <1>2, <1>3, LeaseMapInjective, FS_Injection
<1> QED  BY <1>4 DEF PeakInv

\* Every step keeps the allocation count equal to the peak.
LEMMA NextPeakInv == IndInv /\ PeakInv /\ [Next]_poolVars => PeakInv'
<1> SUFFICES ASSUME IndInv, PeakInv, [Next]_poolVars PROVE PeakInv'
  OBVIOUS
<1>1. ASSUME NEW l \in Leases, NEW k \in Keys, Reuse(l, k)
      PROVE  PeakInv'
  <2>1. Cardinality(HeldOf(k)) + 1 <= peak[k] /\ Cardinality(HeldOf(k)) \in Nat
    BY <1>1, IdleMeansRoom, HeldCount DEF Reuse
  <2>2. peak' = peak /\ allocatedFor' = allocatedFor
    BY <2>1, <1>1 DEF IndInv, TypeOK, Reuse, Lend
  <2> QED  BY <2>2 DEF PeakInv, AllocatedOf
<1>2. ASSUME NEW l \in Leases, NEW k \in Keys, NEW w \in Workspaces,
             Allocate(l, k, w)
      PROVE  PeakInv'
  <2>1. Cardinality(HeldOf(k)) = peak[k]
    BY <1>2, EmptyMeansAllOut DEF Allocate
  <2>2. peak' = [peak EXCEPT ![k] = peak[k] + 1]
    <3>1. peak' = [peak EXCEPT ![k] = IF Cardinality(HeldOf(k)) + 1 > peak[k]
                                      THEN Cardinality(HeldOf(k)) + 1
                                      ELSE peak[k]]
      BY <1>2 DEF Allocate, Lend
    <3>2. peak[k] \in Nat
      BY DEF IndInv, TypeOK
    <3>3. peak[k] + 1 > peak[k]
      BY <3>2
    <3> QED  BY <2>1, <3>1, <3>3
  <2>3. /\ AllocatedOf(k)' = AllocatedOf(k) \cup {w}
        /\ w \notin AllocatedOf(k)
        /\ \A j \in Keys : j # k => AllocatedOf(j)' = AllocatedOf(j)
    <3>1. /\ allocatedFor' = [allocatedFor EXCEPT ![w] = k]
          /\ allocatedFor \in [Workspaces -> Keys \cup {NoKey}]
          /\ allocatedFor[w] = NoKey /\ k # NoKey
          /\ \A j \in Keys : j # NoKey
      BY <1>2, NullsAssumption DEF IndInv, TypeOK, Allocate
    <3> QED  BY <3>1 DEF AllocatedOf
  <2>4. /\ IsFiniteSet(AllocatedOf(k)')
        /\ Cardinality(AllocatedOf(k)') = peak[k] + 1
    BY <2>3, FS_AddElement DEF PeakInv
  <2> QED  BY <2>2, <2>3, <2>4 DEF PeakInv, IndInv, TypeOK
<1>3. ASSUME UNCHANGED <<allocatedFor, peak>>
      PROVE  PeakInv'
  BY <1>3 DEF PeakInv, AllocatedOf
<1> QED  BY <1>1, <1>2, <1>3
         DEF Next, Acquire, MarkReleased, ReleaseAgain, Return, poolVars

(***************************************************************************)
(* The allocator is never called while an idle workspace would do, whatever *)
(* the interleaving: as many workspaces exist per key as were ever out at   *)
(* once.                                                                    *)
(***************************************************************************)
THEOREM PoolAllocation == Spec => []AllocationsArePeakUse
<1>1. Init => PeakInv
  <2>1. ASSUME Init, NEW k \in Keys PROVE AllocatedOf(k) = {}
    BY <2>1, NullsAssumption DEF Init, AllocatedOf
  <2> QED  BY <2>1, FS_EmptySet DEF Init, PeakInv
<1>2. PeakInv => AllocationsArePeakUse
  BY DEF PeakInv, AllocationsArePeakUse
<1> QED  BY InitIndInv, NextIndInv, NextPeakInv, <1>1, <1>2, PTL DEF Spec
----------------------------------------------------------------------------
(***************************************************************************)
(* Works on the pool.  What a work has acquired is what its run asked for,  *)
(* in order; a lease is marked released only by the one thread in the       *)
(* release loop of its work, after the event and the callback; and a        *)
(* finished work has given everything back.                                 *)
(***************************************************************************)
NumKeys == Len(ResourceKeys)

ComposedTypes ==
    /\ event \in [Works -> {"pending", "fired", "failed"}]
    /\ pc \in [Threads -> {"idle", "blocked", "entering", "completing",
                           "releasing"}]
    /\ on \in [Threads -> Works \cup {NoWork}]
    /\ cursor \in [Threads -> 0 .. NumKeys]
    /\ owner \in [Works -> Threads \cup {Nobody}]
    /\ finished \in [Works -> BOOLEAN]
    /\ attempts \in [Works -> Nat]
    /\ resources \in [Works -> Seq(Leases)]
    /\ launching \in [Threads -> Works \cup {NoWork}]

LaunchInv ==
    /\ \A t, u \in Threads :
           launching[t] = launching[u] /\ launching[t] # NoWork => t = u
    /\ \A t \in Threads : launching[t] # NoWork =>
           Len(resources[launching[t]]) < NumKeys
    /\ \A w \in Works : Len(resources[w]) <= NumKeys
    /\ \A w \in Works : \A i \in 1 .. Len(resources[w]) :
           resources[w][i] = <<w, i>> /\ leaseKey[<<w, i>>] # NoKey

\* The waiter in the completion block of a work is alone there.
WaiterInv ==
    \A t \in Threads :
        /\ pc[t] # "idle" => on[t] \in Works /\ Launched(on[t])
        /\ pc[t] \in {"entering", "completing", "releasing"} =>
               event[on[t]] = "fired"
        /\ pc[t] \in {"completing", "releasing"} =>
               owner[on[t]] = t /\ ~finished[on[t]] /\ attempts[on[t]] # 0
        /\ pc[t] = "completing" => cursor[t] = NumKeys

Releasing(t, w) == pc[t] = "releasing" /\ on[t] = w

\* The loop of thread t has marked the lease of buffer i of work w.
Passed(t, w, i) ==
    Releasing(t, w) /\ (cursor[t] < i \/ returning[t] = <<w, i>>)

ReleaseInv ==
    /\ \A w \in Works, i \in 1 .. NumKeys : released[<<w, i>>] =>
           /\ event[w] = "fired"
           /\ attempts[w] # 0
           /\ finished[w] \/ \E t \in Threads : Passed(t, w, i)
    /\ \A t \in Threads : returning[t] # NoLease =>
           pc[t] = "releasing" /\ returning[t] = <<on[t], cursor[t]>>
    /\ \A w \in Works, i \in 1 .. NumKeys :
           /\ finished[w] => Launched(w) /\ released[<<w, i>>]
           /\ \A t \in Threads :
                  Releasing(t, w) /\ cursor[t] < i => released[<<w, i>>]

WorkInv == ComposedTypes /\ LaunchInv /\ WaiterInv /\ ReleaseInv

(***************************************************************************)
(* A finished work has no workspace out: each one its run acquired has been *)
(* given back, the append to the idle list included.                        *)
(***************************************************************************)
FinishedHoldsNothing ==
    \A w \in Works : finished[w] =>
        /\ Launched(w)
        /\ \A i \in DOMAIN resources[w] : ~Holds(resources[w][i])

\* The run's keys and leases, whichever work and buffer they are for.
LEMMA KeyFacts ==
    /\ NumKeys \in Nat \ {0}
    /\ \A i \in 1 .. NumKeys : ResourceKeys[i] \in Keys
    /\ \A w \in Works, i \in 1 .. NumKeys : <<w, i>> \in Leases
    /\ NoLease \notin Leases
<1>1. NumKeys \in Nat \ {0} /\ \A i \in 1 .. NumKeys : ResourceKeys[i] \in Keys
  BY LeasedAssumption DEF NumKeys
<1> QED  BY <1>1, LeasedAssumption, NullsAssumption DEF NumKeys

\* Releases stand where they stood when no loop, lease or outcome moves.
LEMMA ReleasesStand ==
    ASSUME WorkInv,
           \A w \in Works : event[w] = "fired" => event'[w] = "fired",
           \A w \in Works : Launched(w) => Launched(w)',
           UNCHANGED <<pc, on, cursor, finished, attempts, released,
                       returning>>
    PROVE  ReleaseInv'
<1>1. \A t \in Threads, w \in Works, i \in 1 .. NumKeys :
          /\ Releasing(t, w)' <=> Releasing(t, w)
          /\ Passed(t, w, i)' <=> Passed(t, w, i)
  BY DEF Releasing, Passed
<1> QED  BY <1>1 DEF WorkInv, ReleaseInv

\* Initially no work is launched, waited on or finished.
LEMMA InitWorkInv == LeasedInit => WorkInv
<1> SUFFICES ASSUME LeasedInit PROVE WorkInv
  OBVIOUS
<1>1. /\ Work!Init /\ Init
      /\ resources = [w \in Works |-> <<>>]
      /\ launching = [t \in Threads |-> NoWork]
  BY DEF LeasedInit
<1>2. ComposedTypes
  BY <1>1, KeyFacts DEF ComposedTypes, Work!Init
<1>3. LaunchInv
  BY <1>1, KeyFacts DEF LaunchInv
<1>4. WaiterInv
  BY <1>1 DEF WaiterInv, Work!Init
<1>5. ReleaseInv
  BY <1>1, KeyFacts DEF ReleaseInv, Work!Init, Init, Releasing, Passed
<1> QED  BY <1>2, <1>3, <1>4, <1>5 DEF WorkInv

\* A run begins: only launching changes.
LEMMA StartRunWorkInv ==
    ASSUME WorkInv, NEW t \in Threads, NEW w \in Works, StartRun(t, w)
    PROVE  WorkInv'
<1>1. /\ launching[t] = NoWork /\ resources[w] = <<>>
      /\ \A u \in Threads : launching[u] # w
      /\ launching' = [launching EXCEPT ![t] = w]
      /\ UNCHANGED <<poolVars, workVars, resources>>
  BY DEF StartRun
<1>2. ComposedTypes'
  BY <1>1 DEF WorkInv, ComposedTypes, workVars
<1>3. LaunchInv'
  <2>1. Len(resources[w]) = 0 /\ w # NoWork
    BY <1>1, LeasedAssumption
  <2> QED  BY <1>1, <2>1, KeyFacts
           DEF WorkInv, ComposedTypes, LaunchInv, poolVars
<1>4. WaiterInv'
  BY <1>1 DEF WorkInv, WaiterInv, Launched, workVars
<1>5. ReleaseInv'
  BY <1>1, ReleasesStand DEF Launched, poolVars, workVars
<1> QED  BY <1>2, <1>3, <1>4, <1>5 DEF WorkInv

\* A thread that acquires does so for the next buffer of a run not launched.
LEMMA AcquireFacts ==
    ASSUME WorkInv, NEW t \in Threads, AcquireNext(t)
    PROVE  \E w \in Works, i \in 1 .. NumKeys :
               /\ launching[t] = w
               /\ i = Len(resources[w]) + 1
               /\ Acquire(t, <<w, i>>, ResourceKeys[i])
               /\ resources' = [resources EXCEPT ![w] =
                                    Append(resources[w], <<w, i>>)]
               /\ launching' = [launching EXCEPT ![t] =
                                    IF i = NumKeys THEN NoWork ELSE w]
               /\ UNCHANGED workVars
<1>1. PICK w \in Works : launching[t] = w
  BY DEF WorkInv, ComposedTypes, AcquireNext
<1>2. PICK i \in Nat : i = Len(resources[w]) + 1
  BY DEF WorkInv, ComposedTypes
<1>3. i \in 1 .. NumKeys
  <2>1. w # NoWork /\ NumKeys \in Nat
    BY KeyFacts, LeasedAssumption
  <2>2. Len(resources[w]) < NumKeys
    BY <1>1, <2>1 DEF WorkInv, LaunchInv
  <2>3. Len(resources[w]) \in Nat
    BY DEF WorkInv, ComposedTypes
  <2> QED  BY <1>2, <2>1, <2>2, <2>3
<1> QED  BY <1>1, <1>2, <1>3 DEF AcquireNext, NumKeys

\* acquire() for a run: the work gains the lease of its next buffer.
LEMMA AcquireWorkInv ==
    ASSUME IndInv, WorkInv, NEW t \in Threads, AcquireNext(t)
    PROVE  WorkInv'
<1>1. PICK w \in Works, i \in 1 .. NumKeys :
          /\ launching[t] = w
          /\ i = Len(resources[w]) + 1
          /\ Acquire(t, <<w, i>>, ResourceKeys[i])
          /\ resources' = [resources EXCEPT ![w] =
                               Append(resources[w], <<w, i>>)]
          /\ launching' = [launching EXCEPT ![t] =
                               IF i = NumKeys THEN NoWork ELSE w]
          /\ UNCHANGED workVars
  BY AcquireFacts
<1>2. /\ leaseKey' = [leaseKey EXCEPT ![<<w, i>>] = ResourceKeys[i]]
      /\ released' = released /\ returning' = returning
  BY <1>1 DEF Acquire, Reuse, Allocate, Lend
<1>3. /\ <<w, i>> \in Leases /\ ResourceKeys[i] \in Keys
      /\ ResourceKeys[i] # NoKey /\ w # NoWork
  BY KeyFacts, LeasedAssumption, NullsAssumption
<1>4. /\ resources[w] \in Seq(Leases)
      /\ Append(resources[w], <<w, i>>) \in Seq(Leases)
      /\ Len(Append(resources[w], <<w, i>>)) = i
      /\ Append(resources[w], <<w, i>>)[i] = <<w, i>>
      /\ \A j \in 1 .. Len(resources[w]) :
             Append(resources[w], <<w, i>>)[j] = resources[w][j]
  BY <1>1, <1>3 DEF WorkInv, ComposedTypes
<1>5. ComposedTypes'
  BY <1>1, <1>3, <1>4 DEF WorkInv, ComposedTypes, workVars
<1>6. \A v \in Works : /\ v # w => resources'[v] = resources[v]
                       /\ v = w => Len(resources'[v]) = i
                       /\ Launched(v) => v # w
  BY <1>1, <1>4, KeyFacts
  DEF WorkInv, ComposedTypes, Launched, NumKeys
<1>7. LaunchInv'
  <2>1. \A u, x \in Threads :
            launching'[u] = launching'[x] /\ launching'[u] # NoWork => u = x
    BY <1>1, <1>3 DEF WorkInv, ComposedTypes, LaunchInv
  <2>2. \A u \in Threads : launching'[u] # NoWork =>
            Len(resources'[launching'[u]]) < NumKeys
    BY <1>1, <1>3, <1>6, KeyFacts DEF WorkInv, ComposedTypes, LaunchInv
  <2>3. \A v \in Works : Len(resources'[v]) <= NumKeys
    BY <1>1, <1>6, KeyFacts DEF WorkInv, ComposedTypes, LaunchInv
  <2>4. ASSUME NEW v \in Works, NEW j \in 1 .. Len(resources'[v])
        PROVE  resources'[v][j] = <<v, j>> /\ leaseKey'[<<v, j>>] # NoKey
    <3>1. CASE v = w /\ j = i
      BY <3>1, <1>1, <1>2, <1>3, <1>4
      DEF IndInv, TypeOK, WorkInv, ComposedTypes
    <3>2. CASE v # w \/ j # i
      <4>1. j \in 1 .. Len(resources[v]) /\ resources'[v][j] = resources[v][j]
        BY <3>2, <2>4, <1>1, <1>4, <1>6 DEF WorkInv, ComposedTypes
      <4>2. resources[v][j] = <<v, j>> /\ leaseKey[<<v, j>>] # NoKey
        BY <4>1 DEF WorkInv, LaunchInv
      <4>3. <<v, j>> # <<w, i>>
        BY <3>2
      <4>4. <<v, j>> \in Leases
        <5>1. j \in 1 .. NumKeys
          BY <4>1, KeyFacts DEF WorkInv, LaunchInv, ComposedTypes
        <5> QED  BY <5>1, KeyFacts
      <4> QED  BY <4>1, <4>2, <4>3, <4>4, <1>2 DEF IndInv, TypeOK
    <3> QED  BY <3>1, <3>2
  <2> QED  BY <2>1, <2>2, <2>3, <2>4 DEF LaunchInv, NumKeys
<1>8. WaiterInv'
  BY <1>1, <1>6 DEF WorkInv, WaiterInv, Launched, workVars
<1>9. ReleaseInv'
  BY <1>1, <1>2, <1>6, ReleasesStand DEF Launched, workVars
<1> QED  BY <1>5, <1>7, <1>8, <1>9 DEF WorkInv

\* The lease that a thread in the release loop is at.
LEMMA CursorLease ==
    ASSUME WorkInv, NEW t \in Threads, pc[t] = "releasing", cursor[t] > 0
    PROVE  /\ on[t] \in Works /\ cursor[t] \in 1 .. NumKeys
           /\ ReleasedLease(t) = <<on[t], cursor[t]>>
           /\ ReleasedLease(t) \in Leases
<1>1. on[t] \in Works /\ Len(resources[on[t]]) = NumKeys
  BY DEF WorkInv, WaiterInv, Launched, NumKeys
<1>2. cursor[t] \in 1 .. NumKeys
  BY KeyFacts DEF WorkInv, ComposedTypes
<1> QED  BY <1>1, <1>2, KeyFacts DEF WorkInv, LaunchInv, ReleasedLease

\* release() of the resource at the cursor, first half: it is marked.
LEMMA MarkWorkInv ==
    ASSUME IndInv, WorkInv, NEW t \in Threads, MarkResource(t)
    PROVE  WorkInv'
<1> DEFINE l == <<on[t], cursor[t]>>
<1>1. /\ pc[t] = "releasing" /\ cursor[t] > 0
      /\ on[t] \in Works /\ cursor[t] \in 1 .. NumKeys
      /\ l \in Leases /\ MarkReleased(t, l)
      /\ UNCHANGED <<workVars, launchVars>>
  BY CursorLease DEF MarkResource
<1>2. /\ leaseKey' = leaseKey
      /\ released' = [released EXCEPT ![l] = TRUE]
      /\ returning' = [returning EXCEPT ![t] = l]
      /\ released \in [Leases -> BOOLEAN]
      /\ returning \in [Threads -> Leases \cup {NoLease}]
  BY <1>1 DEF MarkReleased, IndInv, TypeOK
<1>3. ComposedTypes' /\ LaunchInv' /\ WaiterInv'
  BY <1>1, <1>2 DEF WorkInv, ComposedTypes, LaunchInv, WaiterInv, Launched,
                    workVars, launchVars
<1>4. UNCHANGED <<event, pc, on, cursor, finished, attempts, resources>>
  BY <1>1 DEF workVars, launchVars
<1>5. ReleaseInv'
  <2>1. ASSUME NEW w \in Works, NEW i \in 1 .. NumKeys, released'[<<w, i>>]
        PROVE  /\ event[w] = "fired"
               /\ attempts[w] # 0
               /\ finished[w] \/ \E u \in Threads : Passed(u, w, i)'
    <3>1. CASE <<w, i>> = l
      <4>1. w = on[t] /\ returning'[t] = <<w, i>>
        BY <3>1, <1>2
      <4> QED  BY <4>1, <1>1, <1>4 DEF WorkInv, WaiterInv, Releasing, Passed
    <3>2. CASE <<w, i>> # l
      <4>1. /\ event[w] = "fired" /\ attempts[w] # 0
            /\ finished[w] \/ \E u \in Threads : Passed(u, w, i)
        BY <3>2, <2>1, <1>2, KeyFacts DEF WorkInv, ReleaseInv
      <4>2. ASSUME NEW u \in Threads, Passed(u, w, i)
            PROVE  Passed(u, w, i)'
        <5>1. u # t => returning'[u] = returning[u]
          BY <1>2
        <5>2. u = t => returning[u] # <<w, i>>
          BY <1>1, KeyFacts DEF MarkReleased
        <5> QED  BY <4>2, <5>1, <5>2, <1>4 DEF Passed, Releasing
      <4> QED  BY <4>1, <4>2
    <3> QED  BY <3>1, <3>2
  <2>2. ASSUME NEW u \in Threads, returning'[u] # NoLease
        PROVE  pc[u] = "releasing" /\ returning'[u] = <<on[u], cursor[u]>>
    BY <2>2, <1>1, <1>2 DEF WorkInv, ReleaseInv
  <2>3. ASSUME NEW w \in Works, NEW i \in 1 .. NumKeys, released[<<w, i>>]
        PROVE  released'[<<w, i>>]
    BY <2>3, <1>2, KeyFacts
  <2> QED  BY <2>1, <2>2, <2>3, <1>4
           DEF WorkInv, ReleaseInv, Releasing, Launched
<1> QED  BY <1>3, <1>5 DEF WorkInv

\* The second half: the lease at the cursor is back, the cursor moves on.
LEMMA ReturnWorkInv ==
    ASSUME IndInv, WorkInv, NEW t \in Threads, ReturnResource(t)
    PROVE  WorkInv'
<1>1. /\ pc[t] = "releasing" /\ cursor[t] > 0
      /\ cursor' = [cursor EXCEPT ![t] = cursor[t] - 1]
      /\ UNCHANGED <<event, pc, on, owner, finished, attempts, resources,
                     launching, leaseKey, released>>
      /\ returning[t] # NoLease
      /\ returning' = [returning EXCEPT ![t] = NoLease]
      /\ returning \in [Threads -> Leases \cup {NoLease}]
  BY DEF ReturnResource, Return, Work!ReleaseNext, Work!storeVars,
         launchVars, IndInv, TypeOK
<1>2. on[t] \in Works /\ cursor[t] \in 1 .. NumKeys
  BY <1>1, CursorLease
<1>3. released[<<on[t], cursor[t]>>]
  BY <1>1 DEF IndInv, LeaseShape, WorkInv, ReleaseInv
<1>4. cursor \in [Threads -> 0 .. NumKeys] /\ NumKeys \in Nat
  BY KeyFacts DEF WorkInv, ComposedTypes
<1>5. ComposedTypes' /\ LaunchInv'
  BY <1>1, <1>2, <1>4 DEF WorkInv, ComposedTypes, LaunchInv
<1>6. WaiterInv'
  BY <1>1, <1>4 DEF WorkInv, WaiterInv, Launched
<1>7. ReleaseInv'
  <2>1. ASSUME NEW u \in Threads, returning'[u] # NoLease
        PROVE  pc[u] = "releasing" /\ returning'[u] = <<on[u], cursor'[u]>>
    BY <2>1, <1>1, <1>4 DEF WorkInv, ReleaseInv
  <2>2. ASSUME NEW w \in Works, NEW i \in 1 .. NumKeys, NEW u \in Threads,
               Releasing(u, w), cursor'[u] < i
        PROVE  released[<<w, i>>]
    <3>1. CASE u = t /\ i = cursor[t]
      BY <3>1, <2>2, <1>3 DEF Releasing
    <3>2. CASE u # t \/ i # cursor[t]
      <4>1. cursor[u] < i
        BY <3>2, <2>2, <1>1, <1>2, <1>4
      <4> QED  BY <4>1, <2>2 DEF WorkInv, ReleaseInv
    <3> QED  BY <3>1, <3>2
  <2>3. \A u \in Threads, w \in Works : Releasing(u, w)' <=> Releasing(u, w)
    BY <1>1 DEF Releasing
  <2>4. ASSUME NEW w \in Works, NEW i \in 1 .. NumKeys, NEW u \in Threads,
               Passed(u, w, i)
        PROVE  Passed(u, w, i)'
    <3>1. CASE u # t
      BY <3>1, <2>4, <1>1, <1>4 DEF Passed, Releasing
    <3>2. CASE u = t
      <4>1. cursor[t] <= i
        <5>1. CASE returning[t] = <<w, i>>
          <6>1. returning[t] = <<on[t], cursor[t]>>
            BY <1>1 DEF WorkInv, ReleaseInv
          <6>2. i = cursor[t]
            BY <5>1, <6>1
          <6> QED  BY <6>2, <1>2, <1>4
        <5>2. CASE cursor[t] < i
          BY <5>2, <1>2, <1>4
        <5> QED  BY <5>1, <5>2, <3>2, <2>4 DEF Passed
      <4>2. cursor'[t] < i
        BY <4>1, <1>1, <1>2, <1>4
      <4> QED  BY <4>2, <3>2, <2>4, <2>3 DEF Passed
    <3> QED  BY <3>1, <3>2
  <2> QED  BY <2>1, <2>2, <2>3, <2>4, <1>1 DEF WorkInv, ReleaseInv, Launched
<1> QED  BY <1>5, <1>6, <1>7 DEF WorkInv

\* What the steps of wait() leave alone when no resource is released.
Elsewhere == UNCHANGED <<poolVars, launchVars>>

\* A thread outside the completion block enters, wakes up or leaves wait().
LEMMA OutsideWorkInv ==
    ASSUME IndInv, WorkInv, NEW t \in Threads, Elsewhere,
           NEW label \in {"idle", "blocked", "entering"},
           NEW w \in Works \cup {NoWork},
           pc[t] \in {"idle", "blocked", "entering"},
           pc' = [pc EXCEPT ![t] = label],
           on' = [on EXCEPT ![t] = w],
           cursor' \in [Threads -> 0 .. NumKeys],
           \A u \in Threads : u # t => cursor'[u] = cursor[u],
           UNCHANGED <<event, owner, finished, attempts>>,
           label # "idle" => w \in Works /\ Launched(w),
           label = "entering" => event[w] = "fired"
    PROVE  WorkInv'
<1>1. ComposedTypes' /\ LaunchInv'
  BY DEF WorkInv, ComposedTypes, LaunchInv, Elsewhere, launchVars, poolVars
<1>2. /\ \A u \in Threads : u # t => pc'[u] = pc[u] /\ on'[u] = on[u]
      /\ pc'[t] = label /\ on'[t] = w
      /\ UNCHANGED <<resources, released, returning>>
  BY DEF WorkInv, ComposedTypes, Elsewhere, launchVars, poolVars
<1>3. WaiterInv'
  BY <1>2 DEF WorkInv, WaiterInv, Launched
<1>4. \A u \in Threads, v \in Works : Releasing(u, v)' <=> Releasing(u, v)
  BY <1>2 DEF Releasing
<1>5. ReleaseInv'
  <2>1. ASSUME NEW u \in Threads, returning[u] # NoLease
        PROVE  /\ pc'[u] = "releasing"
               /\ returning[u] = <<on'[u], cursor'[u]>>
    <3>1. pc[u] = "releasing"
      BY <2>1 DEF WorkInv, ReleaseInv
    <3>2. u # t
      BY <3>1
    <3> QED  BY <2>1, <3>2, <1>2 DEF WorkInv, ReleaseInv
  <2>2. ASSUME NEW v \in Works, NEW i \in 1 .. NumKeys, NEW u \in Threads,
               Releasing(u, v)', cursor'[u] < i
        PROVE  released[<<v, i>>]
    <3>1. u # t
      BY <2>2, <1>2 DEF Releasing
    <3> QED  BY <2>2, <3>1, <1>4 DEF WorkInv, ReleaseInv
  <2>3. ASSUME NEW v \in Works, NEW i \in 1 .. NumKeys, NEW u \in Threads,
               Passed(u, v, i)
        PROVE  Passed(u, v, i)'
    <3>1. pc[u] = "releasing" /\ u # t
      BY <2>3 DEF Passed, Releasing
    <3> QED  BY <2>3, <3>1, <1>2 DEF Passed, Releasing
  <2> QED  BY <2>1, <2>2, <2>3, <1>2, <1>4 DEF WorkInv, ReleaseInv, Launched
<1> QED  BY <1>1, <1>3, <1>5 DEF WorkInv

\* The first waiter enters the completion block.
LEMMA StartCompleteWorkInv ==
    ASSUME IndInv, WorkInv, NEW t \in Threads, Elsewhere,
           Work!StartComplete(t)
    PROVE  WorkInv'
<1>0. PICK w \in Works : on[t] = w /\ pc[t] = "entering"
  BY DEF Work!StartComplete, WorkInv, WaiterInv
<1>1. /\ owner[w] = Nobody /\ ~finished[w]
      /\ owner' = [owner EXCEPT ![w] = t]
      /\ attempts' = [attempts EXCEPT ![w] = attempts[w] + 1]
      /\ pc' = [pc EXCEPT ![t] = "completing"]
      /\ cursor' = [cursor EXCEPT ![t] = NumKeys]
      /\ UNCHANGED <<event, on, finished>>
  BY <1>0 DEF Work!StartComplete, Work!Goto, NumKeys
<1>2. /\ UNCHANGED <<resources, launching, leaseKey, released, returning>>
      /\ NumKeys \in 0 .. NumKeys
  BY KeyFacts DEF Elsewhere, launchVars, poolVars
<1>3. ComposedTypes' /\ LaunchInv'
  BY <1>1, <1>2 DEF WorkInv, ComposedTypes, LaunchInv
<1>4. /\ \A u \in Threads : u # t => pc'[u] = pc[u] /\ cursor'[u] = cursor[u]
      /\ pc'[t] = "completing" /\ cursor'[t] = NumKeys
      /\ \A v \in Works : v # w =>
             owner'[v] = owner[v] /\ attempts'[v] = attempts[v]
      /\ owner'[w] = t /\ attempts'[w] # 0
  BY <1>1 DEF WorkInv, ComposedTypes
<1>5. \A u \in Threads : u # t /\ pc[u] \in {"completing", "releasing"} =>
          on[u] # w
  BY <1>1, LeasedAssumption DEF WorkInv, WaiterInv
<1>6. WaiterInv'
  BY <1>0, <1>1, <1>2, <1>4, <1>5 DEF WorkInv, WaiterInv, Launched
<1>7. \A u \in Threads, v \in Works : Releasing(u, v)' <=> Releasing(u, v)
  BY <1>0, <1>1, <1>4 DEF Releasing
<1>8. ReleaseInv'
  <2>1. ASSUME NEW u \in Threads, returning[u] # NoLease
        PROVE  /\ pc'[u] = "releasing"
               /\ returning[u] = <<on[u], cursor'[u]>>
    <3>1. pc[u] = "releasing" /\ u # t
      BY <2>1, <1>0 DEF WorkInv, ReleaseInv
    <3> QED  BY <2>1, <3>1, <1>4 DEF WorkInv, ReleaseInv
  <2>2. ASSUME NEW v \in Works, NEW i \in 1 .. NumKeys, NEW u \in Threads,
               Releasing(u, v)', cursor'[u] < i
        PROVE  released[<<v, i>>]
    <3>1. u # t
      BY <2>2, <1>4 DEF Releasing
    <3> QED  BY <2>2, <3>1, <1>4, <1>7 DEF WorkInv, ReleaseInv
  <2>3. ASSUME NEW v \in Works, NEW i \in 1 .. NumKeys, released[<<v, i>>]
        PROVE  attempts'[v] # 0
    BY <2>3, <1>4 DEF WorkInv, ReleaseInv
  <2>4. ASSUME NEW v \in Works, NEW i \in 1 .. NumKeys, NEW u \in Threads,
               Passed(u, v, i)
        PROVE  Passed(u, v, i)'
    <3>1. pc[u] = "releasing" /\ u # t
      BY <2>4, <1>0 DEF Passed, Releasing
    <3> QED  BY <2>4, <3>1, <1>1, <1>2, <1>4 DEF Passed, Releasing
  <2> QED  BY <2>1, <2>2, <2>3, <2>4, <1>1, <1>2, <1>7
           DEF WorkInv, ReleaseInv, Launched
<1> QED  BY <1>3, <1>6, <1>8 DEF WorkInv

\* The callback returns or raises: its thread begins the release loop.
LEMMA CallbackWorkInv ==
    ASSUME IndInv, WorkInv, NEW t \in Threads, Elsewhere,
           Work!CompleteReturns(t) \/ Work!CompleteRaises(t)
    PROVE  WorkInv'
<1>1. /\ pc[t] = "completing"
      /\ pc' = [pc EXCEPT ![t] = "releasing"]
      /\ UNCHANGED <<event, on, cursor, owner, finished, attempts>>
  BY DEF Work!CompleteReturns, Work!CompleteRaises, Work!Goto
<1>2. /\ UNCHANGED <<resources, launching, leaseKey, released, returning>>
      /\ cursor[t] = NumKeys
  BY <1>1 DEF Elsewhere, launchVars, poolVars, WorkInv, WaiterInv
<1>3. ComposedTypes' /\ LaunchInv'
  BY <1>1, <1>2 DEF WorkInv, ComposedTypes, LaunchInv
<1>4. \A u \in Threads : /\ u # t => pc'[u] = pc[u]
                         /\ u = t => pc'[u] = "releasing"
  BY <1>1 DEF WorkInv, ComposedTypes
<1>5. WaiterInv'
  BY <1>1, <1>2, <1>4 DEF WorkInv, WaiterInv, Launched
<1>6. ReleaseInv'
  <2>1. ASSUME NEW u \in Threads, returning[u] # NoLease
        PROVE  pc'[u] = "releasing" /\ returning[u] = <<on[u], cursor[u]>>
    BY <2>1, <1>4 DEF WorkInv, ReleaseInv
  <2>2. ASSUME NEW v \in Works, NEW i \in 1 .. NumKeys, NEW u \in Threads,
               Releasing(u, v)', cursor[u] < i
        PROVE  released[<<v, i>>]
    <3>1. u # t
      BY <2>2, <1>2, KeyFacts
    <3> QED  BY <2>2, <3>1, <1>1, <1>4 DEF WorkInv, ReleaseInv, Releasing
  <2>3. ASSUME NEW v \in Works, NEW i \in 1 .. NumKeys, NEW u \in Threads,
               Passed(u, v, i)
        PROVE  Passed(u, v, i)'
    <3>1. pc[u] = "releasing" /\ u # t
      BY <2>3, <1>1 DEF Passed, Releasing
    <3> QED  BY <2>3, <3>1, <1>1, <1>2, <1>4 DEF Passed, Releasing
  <2> QED  BY <2>1, <2>2, <2>3, <1>1, <1>2 DEF WorkInv, ReleaseInv, Launched
<1> QED  BY <1>3, <1>5, <1>6 DEF WorkInv

\* The release loop is through: the work is finished and the thread leaves.
LEMMA FinishWorkInv ==
    ASSUME IndInv, WorkInv, NEW t \in Threads, Elsewhere, Work!Finish(t)
    PROVE  WorkInv'
<1>0. PICK w \in Works : on[t] = w /\ pc[t] = "releasing"
  BY DEF Work!Finish, WorkInv, WaiterInv
<1>1. /\ cursor[t] = 0
      /\ finished' = [finished EXCEPT ![w] = TRUE]
      /\ owner' = [owner EXCEPT ![w] = Nobody]
      /\ pc' = [pc EXCEPT ![t] = "idle"]
      /\ on' = [on EXCEPT ![t] = NoWork]
      /\ cursor' = [cursor EXCEPT ![t] = 0]
      /\ UNCHANGED <<event, attempts>>
  BY <1>0 DEF Work!Finish, Work!Leave
<1>2. /\ UNCHANGED <<resources, launching, leaseKey, released, returning>>
      /\ 0 \in 0 .. NumKeys
  BY KeyFacts DEF Elsewhere, launchVars, poolVars
<1>3. ComposedTypes' /\ LaunchInv'
  BY <1>1, <1>2 DEF WorkInv, ComposedTypes, LaunchInv
<1>4. /\ \A u \in Threads : u # t => /\ pc'[u] = pc[u] /\ on'[u] = on[u]
                                     /\ cursor'[u] = cursor[u]
      /\ pc'[t] = "idle"
      /\ \A v \in Works : v # w =>
             owner'[v] = owner[v] /\ finished'[v] = finished[v]
      /\ finished'[w]
  BY <1>1 DEF WorkInv, ComposedTypes
<1>5. \A u \in Threads : u # t /\ pc[u] \in {"completing", "releasing"} =>
          on[u] # w
  BY <1>0 DEF WorkInv, WaiterInv
<1>6. WaiterInv'
  BY <1>0, <1>1, <1>2, <1>4, <1>5 DEF WorkInv, WaiterInv, Launched
<1>7. ReleaseInv'
  <2>1. ASSUME NEW u \in Threads, returning[u] # NoLease
        PROVE  /\ pc'[u] = "releasing"
               /\ returning[u] = <<on'[u], cursor'[u]>>
    <3>1. pc[u] = "releasing" /\ returning[u] = <<on[u], cursor[u]>>
      BY <2>1 DEF WorkInv, ReleaseInv
    <3>2. returning[u] \in Works \X (1 .. NumKeys)
      BY <2>1, LeasedAssumption DEF IndInv, TypeOK, NumKeys
    <3>3. cursor[u] \in 1 .. NumKeys
      BY <3>1, <3>2
    <3>4. u # t
      BY <3>3, <1>1
    <3> QED  BY <3>1, <3>4, <1>4
  <2>2. \A i \in 1 .. NumKeys : Launched(w) /\ released[<<w, i>>]
    <3>1. \A i \in 1 .. NumKeys : cursor[t] < i
      BY <1>1, KeyFacts
    <3> QED  BY <3>1, <1>0 DEF WorkInv, WaiterInv, ReleaseInv, Releasing
  <2>3. ASSUME NEW v \in Works, NEW i \in 1 .. NumKeys, NEW u \in Threads,
               Releasing(u, v)', cursor'[u] < i
        PROVE  released[<<v, i>>]
    <3>1. u # t
      BY <2>3, <1>4 DEF Releasing
    <3> QED  BY <2>3, <3>1, <1>4 DEF WorkInv, ReleaseInv, Releasing
  <2>4. ASSUME NEW v \in Works, NEW i \in 1 .. NumKeys, released[<<v, i>>]
        PROVE  finished'[v] \/ \E u \in Threads : Passed(u, v, i)'
    <3>1. CASE v = w
      BY <3>1, <1>4
    <3>2. CASE v # w
      <4>1. finished[v] \/ \E u \in Threads : Passed(u, v, i)
        BY <2>4 DEF WorkInv, ReleaseInv
      <4>2. ASSUME NEW u \in Threads, Passed(u, v, i)
            PROVE  Passed(u, v, i)'
        <5>1. u # t
          BY <4>2, <3>2, <1>0 DEF Passed, Releasing
        <5> QED  BY <4>2, <5>1, <1>2, <1>4 DEF Passed, Releasing
      <4> QED  BY <4>1, <4>2, <3>2, <1>4
    <3> QED  BY <3>1, <3>2
  <2>5. ASSUME NEW v \in Works, finished'[v], NEW i \in 1 .. NumKeys
        PROVE  Launched(v) /\ released[<<v, i>>]
    BY <2>2, <2>5, <1>4 DEF WorkInv, ReleaseInv
  <2> QED  BY <2>1, <2>3, <2>4, <2>5, <1>1, <1>2
           DEF WorkInv, ReleaseInv, Launched
<1> QED  BY <1>3, <1>6, <1>7 DEF WorkInv

\* The communication of a launched work ends, well or badly.
LEMMA EventWorkInv ==
    ASSUME IndInv, WorkInv, NEW w \in Works, Elsewhere,
           Work!FireEvent(w) \/ Work!FailEvent(w)
    PROVE  WorkInv'
<1>1. /\ event[w] = "pending"
      /\ \A v \in Works : v # w => event'[v] = event[v]
      /\ event' \in [Works -> {"pending", "fired", "failed"}]
      /\ UNCHANGED <<pc, on, cursor, owner, finished, attempts>>
  BY DEF Work!FireEvent, Work!FailEvent, Work!threadVars, Work!storeVars,
         WorkInv, ComposedTypes
<1>2. UNCHANGED <<resources, launching, leaseKey, released, returning>>
  BY DEF Elsewhere, launchVars, poolVars
<1>3. ComposedTypes' /\ LaunchInv'
  BY <1>1, <1>2 DEF WorkInv, ComposedTypes, LaunchInv
<1>4. WaiterInv'
  BY <1>1, <1>2 DEF WorkInv, WaiterInv, Launched
<1>5. ReleaseInv'
  BY <1>1, <1>2, ReleasesStand DEF Launched
<1> QED  BY <1>3, <1>4, <1>5 DEF WorkInv

\* Every step of a composed thread or of its environment keeps the invariant.
LEMMA NextWorkInv == IndInv /\ WorkInv /\ [LeasedNext]_vars => WorkInv'
<1> SUFFICES ASSUME IndInv, WorkInv, [LeasedNext]_vars PROVE WorkInv'
  OBVIOUS
<1>1. ASSUME NEW t \in Threads, OtherWorkStep(t) PROVE WorkInv'
  <2>0. Elsewhere
    BY <1>1 DEF OtherWorkStep, Elsewhere
  <2>1. ASSUME Work!WakeUp(t) PROVE WorkInv'
    <3>1. /\ pc[t] = "blocked" /\ event[on[t]] = "fired"
          /\ pc' = [pc EXCEPT ![t] = "entering"]
          /\ UNCHANGED <<on, cursor, event, owner, finished, attempts>>
      BY <2>1 DEF Work!WakeUp, Work!Goto, Work!storeVars
    <3>2. PICK w \in Works : w = on[t] /\ Launched(w)
      BY <3>1 DEF WorkInv, WaiterInv
    <3>3. on' = [on EXCEPT ![t] = w] /\ cursor' \in [Threads -> 0 .. NumKeys]
      BY <3>1, <3>2 DEF WorkInv, ComposedTypes
    <3> QED  BY <2>0, <3>1, <3>2, <3>3, OutsideWorkInv
  <2>2. ASSUME Work!HandleRaises(t) \/ Work!ReadFinished(t)
        PROVE  WorkInv'
    <3>1. /\ pc[t] \in {"blocked", "entering"}
          /\ Work!Leave(t)
          /\ UNCHANGED <<event, owner, finished, attempts>>
      BY <2>2 DEF Work!HandleRaises, Work!ReadFinished, Work!storeVars
    <3>2. /\ cursor' \in [Threads -> 0 .. NumKeys]
          /\ \A u \in Threads : u # t => cursor'[u] = cursor[u]
      BY <3>1, KeyFacts DEF Work!Leave, WorkInv, ComposedTypes
    <3> QED  BY <2>0, <3>1, <3>2, OutsideWorkInv DEF Work!Leave
  <2> QED  BY <1>1, <2>0, <2>1, <2>2, StartCompleteWorkInv, CallbackWorkInv,
              FinishWorkInv DEF OtherWorkStep
<1>2. ASSUME NEW t \in Threads, ThreadStep(t) PROVE WorkInv'
  BY <1>1, <1>2, MarkWorkInv, ReturnWorkInv DEF ThreadStep
<1>3. ASSUME Environment PROVE WorkInv'
  <2>0. Elsewhere
    BY <1>3 DEF Environment, Elsewhere
  <2>1. ASSUME NEW t \in Threads, NEW w \in Works,
               Launched(w), Work!CallWait(t, w)
        PROVE  WorkInv'
    <3>1. PICK label \in {"blocked", "entering"} :
              /\ pc' = [pc EXCEPT ![t] = label]
              /\ label = "entering" => event[w] = "fired"
      BY <2>1 DEF Work!CallWait
    <3>2. /\ pc[t] = "idle"
          /\ on' = [on EXCEPT ![t] = w]
          /\ UNCHANGED <<cursor, event, owner, finished, attempts>>
          /\ cursor' \in [Threads -> 0 .. NumKeys]
      BY <2>1 DEF Work!CallWait, Work!storeVars, WorkInv, ComposedTypes
    <3> QED  BY <2>0, <2>1, <3>1, <3>2, OutsideWorkInv
  <2>2. ASSUME NEW t \in Threads, Work!TimeOut(t) PROVE WorkInv'
    <3>1. /\ pc[t] = "blocked"
          /\ Work!Leave(t)
          /\ UNCHANGED <<event, owner, finished, attempts>>
      BY <2>2 DEF Work!TimeOut, Work!storeVars
    <3>2. /\ cursor' \in [Threads -> 0 .. NumKeys]
          /\ \A u \in Threads : u # t => cursor'[u] = cursor[u]
      BY <3>1, KeyFacts DEF Work!Leave, WorkInv, ComposedTypes
    <3> QED  BY <2>0, <3>1, <3>2, OutsideWorkInv DEF Work!Leave
  <2> QED  BY <1>3, <2>0, <2>1, <2>2, EventWorkInv DEF Environment
<1>4. ASSUME UNCHANGED vars PROVE WorkInv'
  <2>1. UNCHANGED <<poolVars, workVars, launchVars>>
    BY <1>4 DEF vars
  <2>2. ComposedTypes' /\ LaunchInv' /\ WaiterInv'
    BY <2>1 DEF poolVars, workVars, launchVars, WorkInv, ComposedTypes,
                LaunchInv, WaiterInv, Launched
  <2>3. ReleaseInv'
    BY <2>1, ReleasesStand DEF poolVars, workVars, launchVars, Launched
  <2> QED  BY <2>2, <2>3 DEF WorkInv
<1> QED  BY <1>2, <1>3, <1>4, StartRunWorkInv, AcquireWorkInv DEF LeasedNext

\* Each step is a step of the pool, or leaves the pool alone.
LEMMA NextPool == WorkInv /\ [LeasedNext]_vars => [Next]_poolVars
<1> SUFFICES ASSUME WorkInv, [LeasedNext]_vars PROVE [Next]_poolVars
  OBVIOUS
<1>1. ASSUME NEW t \in Threads, AcquireNext(t) PROVE Next
  <2>1. PICK w \in Works, i \in 1 .. NumKeys :
            Acquire(t, <<w, i>>, ResourceKeys[i])
    BY <1>1, AcquireFacts
  <2>2. <<w, i>> \in Leases /\ ResourceKeys[i] \in Keys
    BY KeyFacts
  <2> QED  BY <2>1, <2>2 DEF Next
<1>2. ASSUME NEW t \in Threads, MarkResource(t) PROVE Next
  <2>1. ReleasedLease(t) \in Leases /\ MarkReleased(t, ReleasedLease(t))
    BY <1>2, CursorLease DEF MarkResource
  <2> QED  BY <2>1 DEF Next
<1>3. ASSUME NEW t \in Threads, ReturnResource(t) PROVE Next
  BY <1>3 DEF ReturnResource, Next
<1>4. ASSUME UNCHANGED vars PROVE UNCHANGED poolVars
  BY <1>4 DEF vars
<1> QED  BY <1>1, <1>2, <1>3, <1>4
         DEF LeasedNext, StartRun, ThreadStep, OtherWorkStep, Environment

\* Each step is a step of the works, or leaves the works alone.
LEMMA NextWork == [LeasedNext]_vars => [Work!Next]_(Work!vars)
<1> SUFFICES ASSUME [LeasedNext]_vars PROVE [Work!Next]_(Work!vars)
  OBVIOUS
<1>1. ASSUME NEW t \in Threads, ReturnResource(t) \/ OtherWorkStep(t)
      PROVE  Work!Next
  BY <1>1 DEF ReturnResource, OtherWorkStep, Work!Step, Work!Next
<1>2. ASSUME Environment PROVE Work!Next
  BY <1>2 DEF Environment, Work!Next
<1>3. ASSUME UNCHANGED workVars PROVE UNCHANGED (Work!vars)
  BY <1>3 DEF workVars, Work!vars, Work!threadVars, Work!storeVars
<1>4. ASSUME UNCHANGED vars PROVE UNCHANGED workVars
  BY <1>4 DEF vars
<1> QED  BY <1>1, <1>2, <1>3, <1>4
         DEF LeasedNext, StartRun, AcquireNext, ThreadStep, MarkResource

\* The two invariants together, of the composition.
LEMMA ComposedInv == LeasedSpec => [](IndInv /\ WorkInv)
<1>1. LeasedInit => IndInv /\ WorkInv
  BY InitIndInv, InitWorkInv DEF LeasedInit
<1>2. IndInv /\ WorkInv /\ [LeasedNext]_vars => IndInv' /\ WorkInv'
  BY NextWorkInv, NextPool, NextIndInv
<1> QED  BY <1>1, <1>2, PTL DEF LeasedSpec

(***************************************************************************)
(* Threads that acquire, wait and release in any order drive the pool and   *)
(* the works only by their own operations: the release loop of wait() is    *)
(* the pool's release() and the work's, and neither is entered in a state   *)
(* its own specification excludes.                                          *)
(***************************************************************************)
THEOREM CompositionIsItsParts ==
    LeasedSpec => /\ Init /\ [][Next]_poolVars
                  /\ Work!Init /\ [][Work!Next]_(Work!vars)
<1>1. LeasedInit => Init /\ Work!Init
  BY DEF LeasedInit
<1> QED  BY <1>1, ComposedInv, NextPool, NextWork, PTL DEF LeasedSpec

\* While a work is in use it has marked none of its leases.
LEMMA InUseHolds ==
    ASSUME IndInv, WorkInv, NEW w \in Works, InUse(w),
           NEW i \in DOMAIN resources[w]
    PROVE  /\ resources[w][i] = <<w, i>> /\ <<w, i>> \in Leases
           /\ Holds(<<w, i>>)
<1>1. i \in 1 .. Len(resources[w]) /\ i \in 1 .. NumKeys
  BY KeyFacts DEF WorkInv, ComposedTypes, LaunchInv
<1>2. /\ resources[w][i] = <<w, i>> /\ leaseKey[<<w, i>>] # NoKey
      /\ <<w, i>> \in Leases
  BY <1>1, KeyFacts DEF WorkInv, LaunchInv
<1>3. ASSUME released[<<w, i>>] PROVE FALSE
  <2>1. /\ event[w] = "fired" /\ attempts[w] # 0
        /\ finished[w] \/ \E t \in Threads : Passed(t, w, i)
    BY <1>1, <1>3 DEF WorkInv, ReleaseInv
  <2>2. PICK t \in Threads : pc[t] = "completing" /\ on[t] = w
    BY <2>1 DEF InUse
  <2>3. owner[w] = t /\ ~finished[w]
    BY <2>2 DEF WorkInv, WaiterInv
  <2>4. PICK u \in Threads : pc[u] = "releasing" /\ on[u] = w
    BY <2>1, <2>3 DEF Passed, Releasing
  <2>5. owner[w] = u
    BY <2>4 DEF WorkInv, WaiterInv
  <2> QED  BY <2>2, <2>3, <2>4, <2>5
<1> QED  BY <1>2, <1>3 DEF Holds

(***************************************************************************)
(* For any number of threads, runs and buffers: while the communication of  *)
(* a work is in flight, or its callback reads the buffers, none of them is  *)
(* idle in the pool or with another such work.                              *)
(***************************************************************************)
THEOREM BuffersAreNotShared == LeasedSpec => []InFlightNotShared
<1>1. ASSUME IndInv, WorkInv PROVE InFlightNotShared
  <2> SUFFICES ASSUME NEW w \in Works, InUse(w)
               PROVE  /\ Uses(w) \cap Idle = {}
                      /\ \A v \in Works \ {w} : InUse(v) =>
                             Uses(v) \cap Uses(w) = {}
    BY DEF InFlightNotShared
  <2>1. ASSUME NEW x \in Uses(w), x \in Idle PROVE FALSE
    <3>1. PICK i \in DOMAIN resources[w] : x = leaseValue[resources[w][i]]
      BY <2>1 DEF Uses
    <3>2. /\ x = leaseValue[<<w, i>>] /\ <<w, i>> \in Leases
          /\ Holds(<<w, i>>)
      BY <1>1, <3>1, InUseHolds
    <3>3. PICK k \in Keys : x \in {available[k][j] : j \in DOMAIN available[k]}
      BY <2>1 DEF Idle
    <3> QED  BY <1>1, <3>2, <3>3 DEF IndInv, ExclusiveLeases
  <2>2. ASSUME NEW v \in Works \ {w}, InUse(v),
               NEW x \in Uses(w), x \in Uses(v)
        PROVE  FALSE
    <3>1. PICK i \in DOMAIN resources[w] : x = leaseValue[resources[w][i]]
      BY <2>2 DEF Uses
    <3>2. PICK j \in DOMAIN resources[v] : x = leaseValue[resources[v][j]]
      BY <2>2 DEF Uses
    <3>3. /\ x = leaseValue[<<w, i>>] /\ <<w, i>> \in Leases
          /\ Holds(<<w, i>>)
      BY <1>1, <3>1, InUseHolds
    <3>4. /\ x = leaseValue[<<v, j>>] /\ <<v, j>> \in Leases
          /\ Holds(<<v, j>>)
      BY <1>1, <2>2, <3>2, InUseHolds
    <3>5. <<w, i>> = <<v, j>>
      BY <1>1, <3>3, <3>4 DEF IndInv, ExclusiveLeases
    <3> QED  BY <3>5
  <2> QED  BY <2>1, <2>2
<1>2. IndInv /\ WorkInv => InFlightNotShared
  BY <1>1
<1> QED  BY <1>2, ComposedInv, PTL

(***************************************************************************)
(* And once a work is finished, by whichever waiter and whether or not its  *)
(* callback raised, every buffer its run acquired has been given back.      *)
(***************************************************************************)
THEOREM FinishedWorksHoldNothing == LeasedSpec => []FinishedHoldsNothing
<1>1. ASSUME IndInv, WorkInv PROVE FinishedHoldsNothing
  <2> SUFFICES ASSUME NEW w \in Works, finished[w]
               PROVE  /\ Launched(w)
                      /\ \A i \in DOMAIN resources[w] :
                             ~Holds(resources[w][i])
    BY DEF FinishedHoldsNothing
  <2>1. Launched(w)
    <3>1. PICK i \in 1 .. NumKeys : TRUE
      BY KeyFacts
    <3> QED  BY <1>1, <3>1 DEF WorkInv, ReleaseInv
  <2>2. ASSUME NEW i \in DOMAIN resources[w] PROVE ~Holds(resources[w][i])
    <3>1. i \in 1 .. NumKeys /\ resources[w][i] = <<w, i>>
      <4>1. i \in 1 .. Len(resources[w])
        BY <1>1, <2>2 DEF WorkInv, ComposedTypes
      <4>2. Len(resources[w]) = NumKeys
        BY <2>1 DEF Launched, NumKeys
      <4> QED  BY <1>1, <4>1, <4>2 DEF WorkInv, LaunchInv
    <3>2. released[<<w, i>>] /\ <<w, i>> \in Leases
      BY <1>1, <3>1, KeyFacts DEF WorkInv, ReleaseInv
    <3>3. ASSUME NEW t \in Threads, returning[t] = <<w, i>> PROVE FALSE
      <4>1. returning[t] # NoLease
        BY <3>2, <3>3, KeyFacts
      <4>2. pc[t] = "releasing" /\ <<w, i>> = <<on[t], cursor[t]>>
        BY <1>1, <3>3, <4>1 DEF WorkInv, ReleaseInv
      <4>3. on[t] = w
        BY <4>2
      <4> QED  BY <1>1, <4>2, <4>3 DEF WorkInv, WaiterInv
    <3> QED  BY <3>1, <3>2, <3>3 DEF Holds
  <2> QED  BY <2>1, <2>2
<1>2. IndInv /\ WorkInv => FinishedHoldsNothing
  BY <1>1
<1> QED  BY <1>2, ComposedInv, PTL

\* The next lease of a release loop is one that nobody has released.
LoopFindsUnreleased ==
    \A t \in Threads :
        pc[t] = "releasing" /\ cursor[t] > 0 /\ returning[t] = NoLease =>
            /\ leaseKey[ReleasedLease(t)] # NoKey
            /\ ~released[ReleasedLease(t)]

(***************************************************************************)
(* The release loop of wait() never comes to a lease that is released       *)
(* already, so the early return of release() is not taken there and every   *)
(* pass of the loop gives a workspace back: MarkResource is never blocked.  *)
(***************************************************************************)
THEOREM LoopReleasesEach == LeasedSpec => []LoopFindsUnreleased
<1>1. ASSUME IndInv, WorkInv PROVE LoopFindsUnreleased
  <2> SUFFICES ASSUME NEW t \in Threads, pc[t] = "releasing", cursor[t] > 0,
                      returning[t] = NoLease
               PROVE  /\ leaseKey[ReleasedLease(t)] # NoKey
                      /\ ~released[ReleasedLease(t)]
    BY DEF LoopFindsUnreleased
  <2>1. PICK w \in Works, i \in 1 .. NumKeys :
            /\ w = on[t] /\ i = cursor[t]
            /\ ReleasedLease(t) = <<w, i>> /\ <<w, i>> \in Leases
    BY <1>1, CursorLease
  <2>2. owner[w] = t /\ ~finished[w] /\ Launched(w)
    BY <1>1, <2>1 DEF WorkInv, WaiterInv
  <2>3. leaseKey[<<w, i>>] # NoKey
    <3>1. Len(resources[w]) = NumKeys
      BY <2>2 DEF Launched, NumKeys
    <3> QED  BY <1>1, <3>1 DEF WorkInv, LaunchInv
  <2>4. ASSUME released[<<w, i>>] PROVE FALSE
    <3>1. PICK u \in Threads : Passed(u, w, i)
      BY <1>1, <2>2, <2>4 DEF WorkInv, ReleaseInv
    <3>2. u = t
      BY <1>1, <2>2, <3>1 DEF Passed, Releasing, WorkInv, WaiterInv
    <3>3. cursor[t] < i
      BY <3>1, <3>2, <2>1, KeyFacts DEF Passed
    <3> QED  BY <2>1, <3>3, KeyFacts
  <2> QED  BY <2>1, <2>3, <2>4
<1>2. IndInv /\ WorkInv => LoopFindsUnreleased
  BY <1>1
<1> QED  BY <1>2, ComposedInv, PTL
=============================================================================
