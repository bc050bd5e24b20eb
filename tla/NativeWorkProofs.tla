-------------------------- MODULE NativeWorkProofs --------------------------
(***************************************************************************)
(* The C++ CompressedWork for every set of threads: the locks cannot form a *)
(* cycle, the callback runs at most once, and the work is a OnceWork.       *)
(*                                                                          *)
(* None of the three is inductive alone.  That no thread holds the GIL at   *)
(* the mutex once the work is over needs that the winner stores state 2     *)
(* with the GIL in hand; that the outcome is fixed needs that there is one  *)
(* winner and that it has left the labels that write the result.            *)
(***************************************************************************)
EXTENDS NativeWork, TLAPS

\* One thread won the compare-and-swap, and its label tells the state.
OneWinner ==
    /\ \A t, u \in Threads :
           pc[t] \in Winner /\ pc[u] \in Winner => t = u
    /\ \A t \in Threads : pc[t] \in Winner \ {"notify"} => waitState = 1

\* Who is past the wait, and who still can be in front of the mutex.
Phases ==
    /\ \A t \in Threads :
           pc[t] \in {"notify", "regil", "return"} => waitState = 2
    /\ \A t \in Threads : pc[t] = "lock" => waitState = 1

GilHolders ==
    \A t \in Threads :
        pc[t] \in {"lock", "clear", "store", "notify", "return"} => gil = t

MutexHolders ==
    \A t \in Threads : pc[t] \in {"check", "block", "regil"} => mutex = t

CallbackState ==
    \/ callbacks = 0
    \/ callbacks = 1 /\ callbackFinished

\* The result is there whenever the winner, or the state, relies on it.
ResultThere ==
    /\ waitState = 0 /\ callbackFinished => stored # Unset
    /\ \A t \in Threads :
           pc[t] = "transport" /\ callbackFinished => stored # Unset
    /\ \A t \in Threads :
           pc[t] \in {"completion", "clear", "store"} => stored # Unset
    /\ waitState = 2 => stored # Unset

ResourcesDropped ==
    /\ \A t \in Threads :
           pc[t] \in Winner \ {"transport"} => transport # "pending"
    /\ \A t \in Threads : pc[t] = "store" => ~holdsResources
    /\ waitState = 2 => ~holdsResources

IndInv ==
    /\ TypeOK
    /\ OneWinner
    /\ Phases
    /\ GilHolders
    /\ MutexHolders
    /\ CallbackState
    /\ ResultThere
    /\ ResourcesDropped

\* Initially nobody waits, and a work without a callback has its result.
LEMMA InitIndInv == Init => IndInv
<1> SUFFICES ASSUME Init PROVE IndInv
  OBVIOUS
<1>1. TypeOK
  <2>1. stored \in Outcomes \cup {Unset}
    BY DEF Init, Outcomes
  <2>2. waitState \in 0 .. 2 /\ callbacks \in Nat
    BY DEF Init
  <2>3. pc \in [Threads -> {"idle", "return"} \cup Winner \cup Loser]
    BY DEF Init
  <2> QED  BY <2>1, <2>2, <2>3, Zenon DEF Init, TypeOK
<1>2. \A t \in Threads : pc[t] = "idle"
  BY DEF Init
<1>3. OneWinner /\ Phases /\ GilHolders /\ MutexHolders
  BY <1>2 DEF OneWinner, Phases, GilHolders, MutexHolders, Winner
<1>4. CallbackState /\ ResultThere /\ ResourcesDropped
  BY <1>2 DEF Init, CallbackState, ResultThere, ResourcesDropped, Winner,
              Unset
<1> QED  BY <1>1, <1>3, <1>4 DEF IndInv

\* Every step of every thread keeps the invariant.
LEMMA StepIndInv == IndInv /\ [Next]_vars => IndInv'
<1> SUFFICES ASSUME IndInv, [Next]_vars PROVE IndInv'
  OBVIOUS
<1> USE NativeAssumption
    DEF IndInv, TypeOK, OneWinner, Phases, GilHolders, MutexHolders,
        CallbackState, ResultThere, ResourcesDropped, Winner, Loser, Outcomes,
        Unset, Goto, TakeGil, DropGil
<1>1. ASSUME TransportEnds PROVE IndInv'
  BY <1>1 DEF TransportEnds
<1>2. ASSUME NEW t \in Threads, CallWait(t) PROVE IndInv'
  <2>1. CASE waitState = 0
    BY <1>2, <2>1 DEF CallWait
  <2>2. CASE waitState = 1
    BY <1>2, <2>2 DEF CallWait
  <2>3. CASE waitState = 2
    BY <1>2, <2>3 DEF CallWait
  <2> QED  BY <2>1, <2>2, <2>3
<1>3. ASSUME NEW t \in Threads, StartCallback(t) PROVE IndInv'
  BY <1>3 DEF StartCallback
<1>4. ASSUME NEW t \in Threads, SkipCallback(t) PROVE IndInv'
  BY <1>4 DEF SkipCallback
<1>5. ASSUME NEW t \in Threads, CallbackReturns(t) PROVE IndInv'
  BY <1>5 DEF CallbackReturns
<1>6. ASSUME NEW t \in Threads, Throws(t) PROVE IndInv'
  BY <1>6 DEF Throws
<1>7. ASSUME NEW t \in Threads, CompletionReady(t) PROVE IndInv'
  BY <1>7 DEF CompletionReady
<1>8. ASSUME NEW t \in Threads, ClearResources(t) PROVE IndInv'
  BY <1>8 DEF ClearResources
<1>9. ASSUME NEW t \in Threads, StoreState(t) PROVE IndInv'
  BY <1>9 DEF StoreState
<1>10. ASSUME NEW t \in Threads, NotifyAll(t) PROVE IndInv'
  BY <1>10 DEF NotifyAll
<1>11. ASSUME NEW t \in Threads, LockMutex(t) PROVE IndInv'
  BY <1>11 DEF LockMutex
<1>12. ASSUME NEW t \in Threads, CheckState(t) PROVE IndInv'
  BY <1>12 DEF CheckState
<1>13. ASSUME NEW t \in Threads, Block(t) PROVE IndInv'
  BY <1>13 DEF Block
<1>14. ASSUME NEW t \in Threads, SpuriousWakeup(t) PROVE IndInv'
  BY <1>14 DEF SpuriousWakeup
<1>15. ASSUME NEW t \in Threads, Relock(t) PROVE IndInv'
  BY <1>15 DEF Relock
<1>16. ASSUME NEW t \in Threads, TakeGilBack(t) PROVE IndInv'
  BY <1>16 DEF TakeGilBack
<1>17. ASSUME NEW t \in Threads, Return(t) PROVE IndInv'
  BY <1>17 DEF Return
<1>18. ASSUME NEW t \in Threads, Query(t) PROVE IndInv'
  BY <1>18 DEF Query
<1>19. CASE UNCHANGED vars
  BY <1>19 DEF vars
<1> QED
  BY <1>1, <1>2, <1>3, <1>4, <1>5, <1>6, <1>7, <1>8, <1>9, <1>10, <1>11, <1>12, <1>13, <1>14, <1>15, <1>16, <1>17, <1>18, <1>19 DEF Next, Step

(***************************************************************************)
(* However many threads call wait(), the variables keep their types and the *)
(* callback is entered at most once.                                        *)
(***************************************************************************)
THEOREM NativeCallback == Spec => [](TypeOK /\ CallbackOnce)
<1>1. IndInv => TypeOK /\ CallbackOnce
  BY DEF IndInv, CallbackOnce, CallbackState
<1> QED  BY InitIndInv, StepIndInv, <1>1, PTL DEF Spec

(***************************************************************************)
(* However many threads call wait(), none waits for state_mutex_ with the   *)
(* GIL in hand while the holder of the mutex waits for the GIL: the winner  *)
(* ends the work with the GIL, so nobody is then on the way to the mutex.   *)
(***************************************************************************)
THEOREM NativeNoDeadlyEmbrace == Spec => []NoLockCycle
<1>1. IndInv => NoLockCycle
  BY DEF IndInv, TypeOK, NoLockCycle, Phases
<1> QED  BY InitIndInv, StepIndInv, <1>1, PTL DEF Spec

(***************************************************************************)
(* Every step of wait() is a step of OnceWork or changes nothing of it.     *)
(***************************************************************************)
LEMMA StepOnce == IndInv /\ [Next]_vars => [Once!Next]_(Once!onceVars)
<1> SUFFICES ASSUME IndInv, [Next]_vars
             PROVE  Once!Next \/ UNCHANGED Once!onceVars
  OBVIOUS
<1> DEFINE Seen == <<transport, holdsResources, waitState, stored, returned>>
<1>1. ASSUME UNCHANGED Seen PROVE UNCHANGED Once!onceVars
  BY <1>1 DEF Once!onceVars
<1>2. ASSUME TransportEnds PROVE Once!Next
  <2>1. Once!BecomeReady(1)
    BY <1>2 DEF TransportEnds, Once!BecomeReady, One
  <2> QED  BY <2>1 DEF Once!Next, One
<1>3. ASSUME NEW t \in Threads, ClearResources(t)
      PROVE  Once!Next \/ UNCHANGED Once!onceVars
  <2>1. transport # "pending" /\ waitState = 1
    BY <1>3 DEF ClearResources, IndInv, ResourcesDropped, OneWinner, Winner
  <2>2. CASE ~holdsResources
    BY <1>3, <2>2, <1>1 DEF ClearResources, IndInv, TypeOK
  <2>3. CASE holdsResources
    <3>1. /\ waitState' = 1 /\ stored' = stored /\ returned' = returned
          /\ transport' = transport /\ ~holdsResources'
      BY <1>3, <2>1 DEF ClearResources
    <3>2. [w \in One |-> IF holdsResources THEN One ELSE {}]'
          = [[w \in One |-> IF holdsResources THEN One ELSE {}]
                 EXCEPT ![1] = @ \ {1}]
      BY <3>1, <2>3 DEF One
    <3>3. UNCHANGED <<[w \in One |-> transport # "pending"],
                      [w \in One |-> IF waitState = 2 THEN stored
                                                      ELSE Undecided],
                      [w \in One |-> returned]>>
      BY <3>1, <2>1
    <3>4. /\ [w \in One |-> transport # "pending"][1]
          /\ [w \in One |-> IF waitState = 2 THEN stored ELSE Undecided][1]
             = Undecided
          /\ 1 \in [w \in One |-> IF holdsResources THEN One ELSE {}][1]
      <4>1. 1 \in One /\ waitState # 2
        BY <2>1 DEF One
      <4> QED  BY <2>1, <2>3, <4>1, Zenon
    <3>5. Once!GiveBack(1, 1)
      BY <3>2, <3>3, <3>4, Zenon DEF Once!GiveBack
    <3> QED  BY <3>5 DEF Once!Next, One
  <2> QED  BY <2>2, <2>3
<1>4. ASSUME NEW t \in Threads, StoreState(t) PROVE Once!Next
  <2>1. ~holdsResources /\ waitState = 1 /\ stored \in Outcomes
    BY <1>4 DEF StoreState, IndInv, TypeOK, ResourcesDropped, ResultThere,
                OneWinner, Winner
  <2>2. Once!Decide(1, stored)
    BY <1>4, <2>1 DEF StoreState, Once!Decide, One
  <2> QED  BY <2>1, <2>2 DEF Once!Next, One
<1>5. ASSUME NEW t \in Threads, Return(t) PROVE Once!Next
  <2>1. waitState = 2 /\ stored \in Outcomes
    BY <1>5 DEF Return, IndInv, TypeOK, Phases, ResultThere
  <2>2. Once!Deliver(1)
    BY <1>5, <2>1 DEF Return, Once!Deliver, One, Outcomes, Undecided
  <2> QED  BY <2>2 DEF Once!Next, One
<1>6. ASSUME NEW t \in Threads, CallWait(t)
      PROVE  UNCHANGED Once!onceVars
  <2>1. (waitState = 2) = (waitState' = 2)
    BY <1>6 DEF CallWait, IndInv, TypeOK
  <2> QED  BY <1>6, <2>1 DEF CallWait, Once!onceVars
<1>7. ASSUME NEW t \in Threads, Throws(t) \/ CallbackReturns(t)
      PROVE  UNCHANGED Once!onceVars
  <2>1. waitState = 1 /\ waitState' = 1
    BY <1>7 DEF Throws, CallbackReturns, IndInv, OneWinner, Winner
  <2> QED  BY <1>7, <2>1 DEF Throws, CallbackReturns, Once!onceVars
<1>8. ASSUME NEW t \in Threads,
             \/ StartCallback(t) \/ SkipCallback(t) \/ CompletionReady(t)
             \/ NotifyAll(t) \/ LockMutex(t) \/ CheckState(t) \/ Block(t)
             \/ SpuriousWakeup(t) \/ Relock(t) \/ TakeGilBack(t) \/ Query(t)
      PROVE  UNCHANGED Once!onceVars
  <2>1. UNCHANGED Seen
    BY <1>8 DEF StartCallback, SkipCallback, CompletionReady, NotifyAll,
                LockMutex, CheckState, Block, SpuriousWakeup, Relock,
                TakeGilBack, Query
  <2> QED  BY <2>1, <1>1
<1>9. CASE UNCHANGED vars
  BY <1>9, <1>1 DEF vars
<1> QED
  BY <1>2, <1>3, <1>4, <1>5, <1>6, <1>7, <1>8, <1>9 DEF Next, Step

(***************************************************************************)
(* The C++ work implements OnceWork whatever the threads: its outcome is    *)
(* decided once, only after the transport is over and the resources are     *)
(* dropped, and that outcome is all that wait() hands out.                  *)
(***************************************************************************)
THEOREM NativeIsOnceWork == Spec => ImplementsOnceWork
<1>1. Init => Once!Init
  <2>1. Init => /\ ~(transport # "pending") /\ holdsResources
                /\ waitState # 2 /\ returned = {}
    BY DEF Init
  <2> QED  BY <2>1, Zenon DEF Once!Init
<1> QED
  BY <1>1, InitIndInv, StepIndInv, StepOnce, PTL
  DEF Spec, ImplementsOnceWork, Once!Spec
=============================================================================
