----------------------- MODULE GradientFeedbackProofs -----------------------
(***************************************************************************)
(* Error feedback conserves the error, for any buckets, gradients, errors,  *)
(* pool size and bounds, and any number of threads that rebuild the layout. *)
(*                                                                          *)
(* The residual of a bucket is read when a transaction is prepared and      *)
(* overwritten when it commits.  What makes the two fit is that in between  *)
(* the bucket has no other transaction, and a rebuild in between to a new   *)
(* generation leaves the transaction's key behind, so that the commit is    *)
(* refused.  No key is ever above all generations that have been current,   *)
(* so a generation above those before it has no transaction of its own yet; *)
(* this is all that overlapping rebuilds leave of rebuild()'s check.        *)
(***************************************************************************)
EXTENDS GradientFeedback, TLAPS

\* No transaction has a key above all generations that have been current.
KeysNotAhead ==
    \A b \in Buckets : keyGeneration[b] <= before \/ keyGeneration[b] <= generation

\* Queued jobs are those of calls in phase "queued", each once.
QueueMatches ==
    /\ \A i \in 1 .. Len(queue) : phase[queue[i]] = "queued"
    /\ \A i, j \in 1 .. Len(queue) : queue[i] = queue[j] => i = j

\* A transaction of the current layout, if new, fits the residual it read.
PreparedFits ==
    \A b \in Buckets :
        phase[b] \in {"prepared", "queued", "waiting"}
        /\ generation > before /\ keyGeneration[b] = generation =>
            prepared[b] = value[b] + OrZero(residuals[Key(b)])

IndInv ==
    /\ TypeOK
    /\ KeysNotAhead
    /\ QueueMatches
    /\ PreparedFits
    /\ ResidualsCurrent
    /\ ErrorConserved

(***************************************************************************)
(* A residual taken as a number.                                            *)
(***************************************************************************)
LEMMA OrZeroInt ==
    ASSUME NEW r \in Int \cup {NoResidual}
    PROVE  /\ OrZero(r) \in Int
           /\ r \in Int => OrZero(r) = r
           /\ OrZero(NoResidual) = 0
BY FeedbackAssumption DEF OrZero

(***************************************************************************)
(* A new state owes nothing and has nothing on the books.                   *)
(***************************************************************************)
LEMMA InitIndInv == Init => IndInv
<1> SUFFICES ASSUME Init PROVE IndInv
  OBVIOUS
<1> USE DEF Init
<1>1. TypeOK
  BY FeedbackAssumption DEF TypeOK, Generations, Phases, Keys
<1>2. KeysNotAhead /\ QueueMatches /\ PreparedFits
  BY DEF KeysNotAhead, QueueMatches, PreparedFits
<1>3. ResidualsCurrent
  BY DEF ResidualsCurrent, Keys
<1>4. ErrorConserved
  BY FeedbackAssumption DEF ErrorConserved, OrZero, Keys, Generations
<1> QED
  BY <1>1, <1>2, <1>3, <1>4 DEF IndInv

\* The queue is not disturbed by what happens to a call that is not in it.
LEMMA QueueUndisturbed ==
    ASSUME QueueMatches, queue \in Seq(Buckets), phase \in [Buckets -> Phases],
           NEW b \in Buckets, phase[b] # "queued", NEW l,
           phase' = [phase EXCEPT ![b] = l], queue' = queue
    PROVE  QueueMatches'
<1>1. ASSUME NEW i \in 1 .. Len(queue) PROVE phase'[queue[i]] = "queued"
  <2>1. PICK a \in Buckets : a = queue[i]
    OBVIOUS
  <2>2. phase[a] = "queued"
    BY <2>1 DEF QueueMatches
  <2> QED  BY <2>1, <2>2
<1> QED  BY <1>1 DEF QueueMatches

\* The end of a call, well or badly, touches neither residuals nor generation.
LEMMA EndIndInv ==
    ASSUME IndInv, NEW b \in Buckets, End(b),
           phase[b] \in {"prepared", "waiting", "stored"},
           callbackErrors' \in 0 .. MaxCallbackErrors
    PROVE  IndInv'
<1> USE DEF IndInv, End, Goto, stateVars, books
<1>1. TypeOK'
  BY FeedbackAssumption DEF TypeOK, Phases, Generations
<1>2. KeysNotAhead'
  BY FeedbackAssumption DEF TypeOK, KeysNotAhead, Generations
<1>3. QueueMatches'
  BY QueueUndisturbed DEF TypeOK
<1>4. PreparedFits'
  BY DEF TypeOK, PreparedFits, Key
<1>5. ResidualsCurrent' /\ ErrorConserved'
  BY DEF ResidualsCurrent, ErrorConserved
<1> QED
  BY <1>1, <1>2, <1>3, <1>4, <1>5

(***************************************************************************)
(* prepare(): the transaction is made of the residual that is on the books. *)
(***************************************************************************)
LEMMA PrepareIndInv ==
    ASSUME IndInv, NEW b \in Buckets,
           \/ \E v \in Gradients : ReadGeneration(b, v)
           \/ ReadResidual(b)
    PROVE  IndInv'
<1> USE DEF IndInv
<1>1. ASSUME NEW v \in Gradients, ReadGeneration(b, v)
      PROVE  IndInv'
  <2> USE <1>1 DEF ReadGeneration, Goto, stateVars, books
  <2>1. TypeOK'
    BY FeedbackAssumption DEF TypeOK, Phases
  <2>2. KeysNotAhead'
    BY FeedbackAssumption DEF TypeOK, KeysNotAhead, Generations
  <2>3. QueueMatches'
    BY QueueUndisturbed DEF TypeOK
  <2>4. PreparedFits'
    BY DEF TypeOK, PreparedFits, Key
  <2>5. ResidualsCurrent' /\ ErrorConserved'
    BY DEF ResidualsCurrent, ErrorConserved
  <2> QED
    BY <2>1, <2>2, <2>3, <2>4, <2>5
<1>2. ASSUME ReadResidual(b)
      PROVE  IndInv'
  <2> USE <1>2 DEF ReadResidual, Goto, stateVars, books
  <2>1. Key(b) \in Keys /\ residuals[Key(b)] \in Int \cup {NoResidual}
    BY DEF TypeOK, Key, Keys
  <2>2. value[b] + OrZero(residuals[Key(b)]) \in Int
    BY <2>1, OrZeroInt DEF TypeOK
  <2>3. TypeOK'
    BY <2>2 DEF TypeOK, Phases
  <2>4. KeysNotAhead'
    BY DEF KeysNotAhead
  <2>5. QueueMatches'
    BY QueueUndisturbed DEF TypeOK
  <2>6. PreparedFits'
    BY DEF TypeOK, PreparedFits, Key
  <2>7. ResidualsCurrent' /\ ErrorConserved'
    BY DEF ResidualsCurrent, ErrorConserved
  <2> QED
    BY <2>3, <2>4, <2>5, <2>6, <2>7
<1> QED
  BY <1>1, <1>2

(***************************************************************************)
(* The hook launches the communication, or fails to.                        *)
(***************************************************************************)
LEMMA LaunchIndInv ==
    ASSUME IndInv, NEW b \in Buckets,
           (\E e \in Errors : Launch(b, e)) \/ LaunchRaises(b)
    PROVE  IndInv'
<1> USE DEF IndInv
<1>1. ASSUME NEW e \in Errors, Launch(b, e)
      PROVE  IndInv'
  <2> USE <1>1 DEF Launch, Goto, stateVars, books
  <2>1. prepared[b] - e \in Int
    BY FeedbackAssumption DEF TypeOK
  <2>2. TypeOK'
    BY <2>1 DEF TypeOK, Phases
  <2>3. KeysNotAhead'
    BY DEF KeysNotAhead
  <2>4. QueueMatches'
    <3>1. /\ Len(queue') = Len(queue) + 1
          /\ queue'[Len(queue) + 1] = b
          /\ \A i \in 1 .. Len(queue) : queue'[i] = queue[i]
      BY DEF TypeOK
    <3>2. \A i \in 1 .. Len(queue) : queue[i] \in Buckets /\ queue[i] # b
      BY DEF TypeOK, QueueMatches
    <3>3. Len(queue) \in Nat
      BY DEF TypeOK
    <3>4. \A i \in 1 .. Len(queue') : phase'[queue'[i]] = "queued"
      <4> SUFFICES ASSUME NEW i \in 1 .. Len(queue')
                   PROVE  phase'[queue'[i]] = "queued"
        OBVIOUS
      <4>1. CASE i = Len(queue) + 1
        BY <4>1, <3>1 DEF TypeOK
      <4>2. CASE i # Len(queue) + 1
        <5>1. i \in 1 .. Len(queue)
          BY <4>2, <3>1, <3>3
        <5>2. queue'[i] = queue[i] /\ phase[queue[i]] = "queued"
          BY <5>1, <3>1 DEF QueueMatches
        <5>3. phase'[queue[i]] = phase[queue[i]]
          BY <5>1, <3>2 DEF TypeOK
        <5> QED
          BY <5>2, <5>3
      <4> QED
        BY <4>1, <4>2
    <3>5. \A i, j \in 1 .. Len(queue') : queue'[i] = queue'[j] => i = j
      BY <3>1, <3>2, <3>3 DEF QueueMatches
    <3> QED
      BY <3>4, <3>5 DEF QueueMatches
  <2>5. PreparedFits'
    BY DEF TypeOK, PreparedFits, Key
  <2>6. ResidualsCurrent' /\ ErrorConserved'
    BY DEF ResidualsCurrent, ErrorConserved
  <2> QED
    BY <2>2, <2>3, <2>4, <2>5, <2>6
<1>2. ASSUME LaunchRaises(b)
      PROVE  IndInv'
  BY <1>2, EndIndInv DEF LaunchRaises, TypeOK
<1> QED
  BY <1>1, <1>2

(***************************************************************************)
(* A worker takes the oldest job: it is that of a queued call.              *)
(***************************************************************************)
LEMMA TakeIndInv ==
    ASSUME IndInv, NEW b \in Buckets, Take(b)
    PROVE  IndInv'
<1> USE DEF IndInv, Take, Goto, stateVars, books, callVars
<1>1. /\ Len(queue) \in Nat /\ Len(queue) > 0
      /\ queue[1] = b
      /\ Len(queue') = Len(queue) - 1
      /\ \A i \in 1 .. Len(queue') : queue'[i] = queue[i + 1]
      /\ queue' \in Seq(Buckets)
  BY DEF TypeOK
<1>2. phase[b] = "queued"
  BY <1>1 DEF QueueMatches
<1>3. TypeOK'
  BY <1>1 DEF TypeOK, Phases
<1>4. KeysNotAhead'
  BY DEF KeysNotAhead
<1>5. QueueMatches'
  <2>1. \A i \in 1 .. Len(queue') :
            /\ i + 1 \in 1 .. Len(queue)
            /\ queue[i + 1] # b
            /\ queue[i + 1] \in Buckets
    <3>1. \A i \in 1 .. Len(queue') : i + 1 \in 1 .. Len(queue) /\ i + 1 # 1
      BY <1>1
    <3>2. 1 \in 1 .. Len(queue)
      BY <1>1
    <3>3. \A i \in 1 .. Len(queue) : queue[i] \in Buckets
      BY DEF TypeOK
    <3> HIDE DEF Take
    <3> QED  BY <1>1, <3>1, <3>2, <3>3 DEF QueueMatches
  <2>2. \A i \in 1 .. Len(queue') : phase'[queue'[i]] = "queued"
    BY <2>1, <1>1 DEF QueueMatches, TypeOK
  <2>3. \A i, j \in 1 .. Len(queue') : queue'[i] = queue'[j] => i = j
    <3> SUFFICES ASSUME NEW i \in 1 .. Len(queue'), NEW j \in 1 .. Len(queue'),
                        queue'[i] = queue'[j]
                 PROVE  i = j
      OBVIOUS
    <3>1. i + 1 = j + 1
      BY <2>1, <1>1 DEF QueueMatches
    <3> QED
      BY <3>1, <1>1
  <2> QED
    BY <2>2, <2>3 DEF QueueMatches
<1>6. PreparedFits'
  BY <1>2 DEF TypeOK, PreparedFits, Key
<1>7. ResidualsCurrent' /\ ErrorConserved'
  BY DEF ResidualsCurrent, ErrorConserved
<1> QED
  BY <1>3, <1>4, <1>5, <1>6, <1>7

(***************************************************************************)
(* The communication ends, a failed or refused commit, and the resolution   *)
(* of the Future touch neither residuals nor generation.                    *)
(***************************************************************************)
LEMMA OutcomeIndInv ==
    ASSUME IndInv, NEW b \in Buckets,
           \/ Arrive(b)
           \/ WaitRaises(b) \/ CommitNonFinite(b) \/ CommitObsolete(b)
           \/ CallbackRaises(b) \/ Resolve(b)
    PROVE  IndInv'
<1> USE DEF IndInv
<1>1. ASSUME Arrive(b)
      PROVE  IndInv'
  <2> USE <1>1 DEF Arrive, stateVars, books, callVars
  <2>1. TypeOK'
    BY DEF TypeOK
  <2>2. KeysNotAhead' /\ QueueMatches'
    BY DEF KeysNotAhead, QueueMatches
  <2>3. PreparedFits' /\ ResidualsCurrent' /\ ErrorConserved'
    BY DEF PreparedFits, Key, ResidualsCurrent, ErrorConserved
  <2> QED
    BY <2>1, <2>2, <2>3
<1>2. ASSUME \/ WaitRaises(b) \/ CommitNonFinite(b) \/ CommitObsolete(b)
             \/ CallbackRaises(b) \/ Resolve(b)
      PROVE  IndInv'
  <2>1. /\ End(b) /\ phase[b] \in {"waiting", "stored"}
        /\ callbackErrors' \in 0 .. MaxCallbackErrors
    BY <1>2, FeedbackAssumption
       DEF WaitRaises, CommitNonFinite, CommitObsolete, CallbackRaises,
           Resolve, TypeOK
  <2> QED
    BY <2>1, EndIndInv
<1> QED
  BY <1>1, <1>2

(***************************************************************************)
(* _commit() stores: the residual it replaces is the one that was added to  *)
(* the gradient, so residual and debt change by the same amount.            *)
(***************************************************************************)
LEMMA CommitIndInv ==
    ASSUME IndInv, NEW b \in Buckets, CommitStores(b)
    PROVE  IndInv'
<1> USE DEF IndInv, CommitStores, StoreResidual, Goto, callVars
<1> DEFINE old == OrZero(residuals[Key(b)])
<1>1. /\ Key(b) = <<b, generation>>
      /\ Key(b) \in Keys
      /\ residuals[Key(b)] \in Int \cup {NoResidual}
  BY DEF TypeOK, Key, Keys
<1>2. old \in Int
  BY <1>1, OrZeroInt
<1>3. generation > before => prepared[b] = value[b] + old
  BY DEF PreparedFits
<1>4. /\ prepared[b] - restored[b] \in Int
      /\ debt[Key(b)] + value[b] - restored[b] \in Int
      /\ residuals'[Key(b)] = prepared[b] - restored[b]
      /\ debt'[Key(b)] = debt[Key(b)] + value[b] - restored[b]
      /\ \A k \in Keys : k # Key(b) => residuals'[k] = residuals[k]
                                       /\ debt'[k] = debt[k]
  BY <1>1 DEF TypeOK
<1>5. TypeOK'
  <2>1. residuals' \in [Keys -> Int \cup {NoResidual}] /\ debt' \in [Keys -> Int]
    BY <1>1, <1>4 DEF TypeOK
  <2> QED
    BY <2>1 DEF TypeOK, Phases
<1>6. KeysNotAhead'
  BY DEF KeysNotAhead
<1>7. QueueMatches'
  BY QueueUndisturbed DEF TypeOK
<1>8. PreparedFits'
  <2> SUFFICES ASSUME NEW c \in Buckets,
                      phase'[c] \in {"prepared", "queued", "waiting"},
                      generation > before, keyGeneration[c] = generation
               PROVE  prepared[c] = value[c] + OrZero(residuals'[<<c, keyGeneration[c]>>])
    BY DEF PreparedFits, Key
  <2>1. c # b /\ phase'[c] = phase[c]
    BY DEF TypeOK
  <2>2. /\ <<c, keyGeneration[c]>> \in Keys
        /\ <<c, keyGeneration[c]>> # Key(b)
    BY <2>1 DEF TypeOK, Key, Keys
  <2>3. residuals'[<<c, keyGeneration[c]>>] = residuals[<<c, keyGeneration[c]>>]
    BY <2>2, <1>4
  <2>4. prepared[c] = value[c] + OrZero(residuals[<<c, keyGeneration[c]>>])
    BY <2>1 DEF PreparedFits, Key
  <2> QED
    BY <2>3, <2>4
<1>9. ResidualsCurrent'
  <2> SUFFICES ASSUME NEW c \in Buckets, NEW g \in Generations,
                      residuals'[<<c, g>>] # NoResidual
               PROVE  g = generation
    BY DEF ResidualsCurrent
  <2>1. CASE <<c, g>> = Key(b)
    BY <2>1, <1>1
  <2>2. CASE <<c, g>> # Key(b)
    BY <2>2, <1>4 DEF ResidualsCurrent, Keys
  <2> QED
    BY <2>1, <2>2
<1>10. ErrorConserved'
  <2> SUFFICES ASSUME NEW c \in Buckets, generation > before
               PROVE  OrZero(residuals'[<<c, generation>>]) = debt'[<<c, generation>>]
    BY DEF ErrorConserved
  <2>1. CASE c = b
    <3>1. old = debt[Key(b)]
      BY <1>1 DEF ErrorConserved
    <3>2. OrZero(residuals'[Key(b)]) = prepared[b] - restored[b]
      BY <1>4, OrZeroInt
    <3>3. value[b] \in Int /\ restored[b] \in Int /\ debt[Key(b)] \in Int
      BY <1>1 DEF TypeOK
    <3>4. prepared[b] - restored[b] = debt[Key(b)] + value[b] - restored[b]
      BY <1>2, <1>3, <3>1, <3>3
    <3> QED
      BY <2>1, <3>2, <3>4, <1>1, <1>4
  <2>2. CASE c # b
    <3>1. <<c, generation>> \in Keys /\ <<c, generation>> # Key(b)
      BY <2>2, <1>1 DEF TypeOK, Keys
    <3> QED
      BY <3>1, <1>4 DEF ErrorConserved
  <2> QED
    BY <2>1, <2>2
<1> QED
  BY <1>5, <1>6, <1>7, <1>8, <1>9, <1>10

(***************************************************************************)
(* rebuild(): whatever generation it sets, every key is at most one that    *)
(* was current before; so if it is new, no transaction belongs to it yet.   *)
(***************************************************************************)
LEMMA RebuildIndInv ==
    ASSUME IndInv, NEW r \in Rebuilders,
           (\E g \in Generations : CheckRebuild(r, g)) \/ ApplyRebuild(r)
    PROVE  IndInv'
<1> USE DEF IndInv
<1>1. ASSUME NEW g \in Generations, CheckRebuild(r, g)
      PROVE  IndInv'
  <2> USE <1>1 DEF CheckRebuild, stateVars, books, callVars
  <2>1. TypeOK'
    BY DEF TypeOK
  <2>2. KeysNotAhead' /\ QueueMatches'
    BY DEF KeysNotAhead, QueueMatches
  <2>3. PreparedFits' /\ ResidualsCurrent' /\ ErrorConserved'
    BY DEF PreparedFits, Key, ResidualsCurrent, ErrorConserved
  <2> QED
    BY <2>1, <2>2, <2>3
<1>2. ASSUME ApplyRebuild(r)
      PROVE  IndInv'
  <2> USE <1>2 DEF ApplyRebuild, callVars
  <2>1. /\ generation \in Int /\ generation' \in Generations
        /\ generation' \in Int /\ before \in Int
        /\ before' \in -1 .. MaxGeneration
        /\ before <= before' /\ generation <= before'
    BY FeedbackAssumption DEF TypeOK, Generations
  <2>2. TypeOK'
    BY <2>1 DEF TypeOK
  <2>3. \A b \in Buckets : keyGeneration[b] \in Int /\ keyGeneration[b] <= before'
    BY <2>1, FeedbackAssumption DEF KeysNotAhead, TypeOK, Generations
  <2>4. KeysNotAhead' /\ QueueMatches'
    BY <2>1, <2>3 DEF KeysNotAhead, QueueMatches
  <2>5. PreparedFits'
    BY <2>1, <2>3 DEF PreparedFits
  <2>6. ResidualsCurrent'
    BY DEF ResidualsCurrent, Keys
  <2>7. ErrorConserved'
    BY <2>1, OrZeroInt DEF ErrorConserved, Keys
  <2> QED
    BY <2>2, <2>4, <2>5, <2>6, <2>7
<1> QED
  BY <1>1, <1>2

(***************************************************************************)
(* Every step of hook, worker, training code and network keeps IndInv.      *)
(***************************************************************************)
LEMMA NextIndInv ==
    ASSUME IndInv, [Next]_vars
    PROVE  IndInv'
<1>1. CASE UNCHANGED vars
  BY <1>1 DEF IndInv, vars, stateVars, books, callVars, TypeOK,
              KeysNotAhead, QueueMatches, PreparedFits, Key,
              ResidualsCurrent, ErrorConserved
<1>2. CASE Next
  <2>1. ASSUME NEW b \in Buckets, NEW v \in Gradients,
               ReadGeneration(b, v)
        PROVE  IndInv'
    BY <2>1, PrepareIndInv
  <2>2. ASSUME NEW b \in Buckets,
               Hook(b) \/ Arrive(b) \/ Worker(b) \/ CallbackRaises(b)
        PROVE  IndInv'
    BY <2>2, PrepareIndInv, LaunchIndInv, TakeIndInv, OutcomeIndInv,
       CommitIndInv DEF Hook, Worker
  <2>3. ASSUME NEW r \in Rebuilders, NEW g \in Generations, CheckRebuild(r, g)
        PROVE  IndInv'
    BY <2>3, RebuildIndInv
  <2>4. ASSUME NEW r \in Rebuilders, ApplyRebuild(r)
        PROVE  IndInv'
    BY <2>4, RebuildIndInv
  <2> QED
    BY <1>2, <2>1, <2>2, <2>3, <2>4 DEF Next
<1> QED
  BY <1>1, <1>2

\* The invariant holds in every reachable state.
LEMMA AlwaysIndInv ==
    Spec => []IndInv
<1>1. Init => IndInv
  BY InitIndInv
<1>2. IndInv /\ [Next]_vars => IndInv'
  BY NextIndInv
<1> QED
  BY <1>1, <1>2, PTL DEF Spec

\* Hook calls, queue and books keep their types, whoever rebuilds.
THEOREM FeedbackTypes == Spec => []TypeOK
<1>1. IndInv => TypeOK
  BY DEF IndInv
<1> QED
  BY AlwaysIndInv, <1>1, PTL

(***************************************************************************)
(* However many threads rebuild, no residual of another layout survives a   *)
(* rebuild or is stored after it by a commit that was prepared before it    *)
(* (state.py: _commit() compares generations under the lock).               *)
(***************************************************************************)
THEOREM ResidualsStayCurrent == Spec => []ResidualsCurrent
<1>1. IndInv => ResidualsCurrent
  BY DEF IndInv
<1> QED
  BY AlwaysIndInv, <1>1, PTL

(***************************************************************************)
(* Error feedback is conserved in every layout whose generation is new,     *)
(* with prepares, commits and any number of overlapping rebuilds            *)
(* interleaved in any way (state.py): no transaction of an earlier layout,  *)
(* or of one that two racing rebuilds repeated, reaches it.                 *)
(***************************************************************************)
THEOREM FeedbackSafety == Spec => []ErrorConserved
<1>1. IndInv => ErrorConserved
  BY DEF IndInv
<1> QED
  BY AlwaysIndInv, <1>1, PTL
=============================================================================
