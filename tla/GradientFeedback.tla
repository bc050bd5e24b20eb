-------------------------- MODULE GradientFeedback --------------------------
(***************************************************************************)
(* adapters/ddp/state.py and adapters/ddp/hook.py: the DDP communication    *)
(* hook and the error-feedback state behind it, on one rank.                *)
(*                                                                          *)
(* The hook runs in the backward pass: it opens a transaction on its        *)
(* bucket, starts the communication and hands the rest to a worker of the   *)
(* completion pool, which waits for the work, commits the new residual and  *)
(* resolves the Future.  Training code may rebuild the bucket layout at any *)
(* time.  Values are integers and quantization is off by any member of      *)
(* Errors: error feedback is about the sum of what was sent, not about how  *)
(* it is encoded.                                                           *)
(*                                                                          *)
(* A bucket stands for everything but the generation in a FeedbackKey       *)
(* (identity, shape, dtype).  DDP calls the hook of a bucket again only     *)
(* after the previous Future of that bucket is resolved, so one set of      *)
(* fields per bucket describes its current call.                            *)
(***************************************************************************)
EXTENDS Integers, Sequences, FiniteSets

CONSTANTS
    Buckets,
    Gradients,          \* bucket contents the backward pass may produce
    Errors,             \* by how much reconstruct_local() may miss its input
    Workers,            \* max_workers of _HOOK_COMPLETION_POOL
    Rebuilders,         \* threads that call rebuild()
    MaxGeneration,      \* bound on layout generations
    MaxCallbackErrors,  \* bound on how often the user's on_commit raises
    NoResidual, NoTarget

ASSUME FeedbackAssumption ==
    /\ Gradients \subseteq Int
    /\ Errors \subseteq Int
    /\ Workers \in Nat \ {0}
    /\ MaxGeneration \in Nat
    /\ MaxCallbackErrors \in Nat
    /\ NoResidual \notin Int
    /\ NoTarget \notin Int

VARIABLES
    generation,     \* GradientFeedbackState._layout_generation
    residuals,      \* GradientFeedbackState._residuals, NoResidual if absent
    target,         \* the generation a rebuild() that passed its check will set
    phase,          \* how far the bucket's current hook call has come
    keyGeneration,  \* FeedbackTransaction.key.layout_generation
    value,          \* the bucket's gradient
    prepared,       \* FeedbackTransaction.prepared
    restored,       \* local_restored, what the other ranks reconstruct
    wire,           \* the communication behind the call's Work
    callbackErrors, \* times on_commit has raised
    queue,          \* finish() jobs submitted and not yet taken by a worker
    debt,           \* history: gradients minus reconstructions of the calls
                    \* that committed, per bucket and generation
    before          \* history: the highest generation that was current
                    \* before the last rebuild, -1 if there was none

stateVars == <<generation, residuals>>
callVars == <<keyGeneration, value, prepared, restored>>
books == <<debt, before>>
vars == <<stateVars, target, phase, callVars, wire, callbackErrors, queue,
          books>>

Generations == 0 .. MaxGeneration
Keys == Buckets \X Generations

\* A bucket is idle when it has no call, or when its Future is resolved.
Phases == {"idle", "keyed", "prepared", "queued", "waiting", "stored"}

Key(b) == <<b, keyGeneration[b]>>

\* Workers that have taken a job and not yet returned from finish().
Busy == {b \in Buckets : phase[b] \in {"waiting", "stored"}}

OrZero(r) == IF r = NoResidual THEN 0 ELSE r

TypeOK ==
    /\ generation \in Generations
    /\ residuals \in [Keys -> Int \cup {NoResidual}]
    /\ target \in [Rebuilders -> Generations \cup {NoTarget}]
    /\ phase \in [Buckets -> Phases]
    /\ keyGeneration \in [Buckets -> Generations]
    /\ value \in [Buckets -> Int]
    /\ prepared \in [Buckets -> Int]
    /\ restored \in [Buckets -> Int]
    /\ wire \in [Buckets -> {"none", "inflight", "arrived", "broken"}]
    /\ callbackErrors \in 0 .. MaxCallbackErrors
    /\ queue \in Seq(Buckets)
    /\ debt \in [Keys -> Int]
    /\ before \in -1 .. MaxGeneration

Init ==
    /\ generation = 0
    /\ residuals = [k \in Keys |-> NoResidual]
    /\ target = [r \in Rebuilders |-> NoTarget]
    /\ phase = [b \in Buckets |-> "idle"]
    /\ keyGeneration = [b \in Buckets |-> 0]
    /\ value = [b \in Buckets |-> 0]
    /\ prepared = [b \in Buckets |-> 0]
    /\ restored = [b \in Buckets |-> 0]
    /\ wire = [b \in Buckets |-> "none"]
    /\ callbackErrors = 0
    /\ queue = <<>>
    /\ debt = [k \in Keys |-> 0]
    /\ before = -1
----------------------------------------------------------------------------
(***************************************************************************)
(* The hook, in the thread of the backward pass.  prepare() reads the       *)
(* generation before it takes the lock under which it reads the residual.   *)
(***************************************************************************)
Goto(b, label) == phase' = [phase EXCEPT ![b] = label]

\* outer.set_result() or set_exception() resolves the Future; the transaction
\* and the locals of the call are gone.
End(b) ==
    /\ Goto(b, "idle")
    /\ keyGeneration' = [keyGeneration EXCEPT ![b] = 0]
    /\ value' = [value EXCEPT ![b] = 0]
    /\ prepared' = [prepared EXCEPT ![b] = 0]
    /\ restored' = [restored EXCEPT ![b] = 0]
    /\ wire' = [wire EXCEPT ![b] = "none"]
    /\ UNCHANGED <<stateVars, target, queue, books>>

ReadGeneration(b, v) ==
    /\ phase[b] = "idle"
    /\ Goto(b, "keyed")
    /\ keyGeneration' = [keyGeneration EXCEPT ![b] = generation]
    /\ value' = [value EXCEPT ![b] = v]
    /\ UNCHANGED <<stateVars, target, callbackErrors, prepared, restored, wire,
                   queue, books>>

\* Mutant: the residual is not added to the gradient.
ReadResidual_Dropped(b) ==
    /\ phase[b] = "keyed"
    /\ Goto(b, "prepared")
    /\ prepared' = [prepared EXCEPT ![b] = value[b]]
    /\ UNCHANGED <<stateVars, target, callbackErrors, keyGeneration, value,
                   restored, wire, queue, books>>

\* Mutant: prepared is the residual, None for a new key, and not the sum.
ReadResidual_NotAdded(b) ==
    /\ phase[b] = "keyed"
    /\ Goto(b, "prepared")
    /\ prepared' = [prepared EXCEPT ![b] = residuals[Key(b)]]
    /\ UNCHANGED <<stateVars, target, callbackErrors, keyGeneration, value,
                   restored, wire, queue, books>>

ReadResidual(b) ==
    /\ phase[b] = "keyed"
    /\ Goto(b, "prepared")
    /\ prepared' = [prepared EXCEPT ![b] =
                        value[b] + OrZero(residuals[Key(b)])]
    /\ UNCHANGED <<stateVars, target, callbackErrors, keyGeneration, value,
                   restored, wire, queue, books>>

\* reconstruct and run succeed: finish() is queued for the completion pool.
Launch(b, e) ==
    /\ phase[b] = "prepared"
    /\ Goto(b, "queued")
    /\ restored' = [restored EXCEPT ![b] = prepared[b] - e]
    /\ wire' = [wire EXCEPT ![b] = "inflight"]
    /\ queue' = Append(queue, b)
    /\ UNCHANGED <<stateVars, target, callbackErrors, keyGeneration, value,
                   prepared, books>>

\* reconstruct or run raises: abort, set_exception.
LaunchRaises(b) ==
    /\ phase[b] = "prepared"
    /\ End(b)
    /\ UNCHANGED callbackErrors

\* The communication ends, in any order among the buckets.
Arrive(b) ==
    /\ wire[b] = "inflight"
    /\ \E w \in {"arrived", "broken"} : wire' = [wire EXCEPT ![b] = w]
    /\ UNCHANGED <<stateVars, target, callbackErrors, phase, callVars, queue,
                   books>>
----------------------------------------------------------------------------
(***************************************************************************)
(* finish(), in a worker of the pool: jobs are taken in order, and a worker *)
(* is bound to its job until the job's Future is resolved.                  *)
(***************************************************************************)
Take(b) ==
    /\ queue # <<>> /\ Head(queue) = b
    /\ Cardinality(Busy) < Workers
    /\ queue' = Tail(queue)
    /\ Goto(b, "waiting")
    /\ UNCHANGED <<stateVars, target, callbackErrors, callVars, wire, books>>

\* Mutant: the handler aborts but does not call set_exception.
WaitRaises_Unreported(b) ==
    /\ phase[b] = "waiting"
    /\ wire[b] = "broken"
    /\ wire' = [wire EXCEPT ![b] = "none"]
    /\ UNCHANGED <<stateVars, target, callbackErrors, phase, callVars, queue,
                   books>>

\* work.wait() raises: abort, set_exception.
WaitRaises(b) ==
    /\ phase[b] = "waiting"
    /\ wire[b] = "broken"
    /\ End(b)
    /\ UNCHANGED callbackErrors

\* commit() finds the gradient or its reconstruction not finite, which may be
\* so in any call, and refuses before it touches the state.
CommitNonFinite(b) ==
    /\ phase[b] = "waiting"
    /\ wire[b] = "arrived"
    /\ End(b)
    /\ UNCHANGED callbackErrors

\* _commit() finds, under the lock, that the layout was rebuilt.
CommitObsolete(b) ==
    /\ phase[b] = "waiting"
    /\ wire[b] = "arrived"
    /\ keyGeneration[b] # generation
    /\ End(b)
    /\ UNCHANGED callbackErrors

StoreResidual(b) ==
    /\ residuals' = [residuals EXCEPT ![Key(b)] = prepared[b] - restored[b]]
    /\ debt' = [debt EXCEPT ![Key(b)] = @ + value[b] - restored[b]]
    /\ Goto(b, "stored")
    /\ UNCHANGED <<generation, target, callbackErrors, callVars, wire, queue,
                   before>>

\* Mutant: _commit() stores without comparing generations.
CommitStores_Unchecked(b) ==
    /\ phase[b] = "waiting"
    /\ wire[b] = "arrived"
    /\ StoreResidual(b)

CommitStores(b) ==
    /\ phase[b] = "waiting"
    /\ wire[b] = "arrived"
    /\ keyGeneration[b] = generation
    /\ StoreResidual(b)

\* on_commit() runs after the lock is released and may raise.
CallbackRaises(b) ==
    /\ phase[b] = "stored"
    /\ callbackErrors < MaxCallbackErrors
    /\ callbackErrors' = callbackErrors + 1
    /\ End(b)

\* outer.set_result(result).
Resolve(b) ==
    /\ phase[b] = "stored"
    /\ End(b)
    /\ UNCHANGED callbackErrors
----------------------------------------------------------------------------
(***************************************************************************)
(* rebuild() compares the generations before it takes the lock (a refused   *)
(* rebuild changes nothing), and sets and clears under it.  What was owed   *)
(* in the old layout is written off.  Of two rebuilds that have both passed *)
(* the check the second may set a generation that is not new.               *)
(***************************************************************************)
CheckRebuild(r, g) ==
    /\ target[r] = NoTarget
    /\ g > generation
    /\ target' = [target EXCEPT ![r] = g]
    /\ UNCHANGED <<stateVars, callbackErrors, phase, callVars, wire, queue,
                   books>>

ApplyRebuild(r) ==
    /\ target[r] # NoTarget
    /\ generation' = target[r]
    /\ residuals' = [k \in Keys |-> NoResidual]
    /\ debt' = [k \in Keys |-> 0]
    /\ before' = IF before < generation THEN generation ELSE before
    /\ target' = [target EXCEPT ![r] = NoTarget]
    /\ UNCHANGED <<callbackErrors, phase, callVars, wire, queue>>

Worker(b) ==
    \/ Take(b)
    \/ WaitRaises(b)
    \/ CommitNonFinite(b)
    \/ CommitObsolete(b)
    \/ CommitStores(b)
    \/ Resolve(b)

Hook(b) ==
    \/ ReadResidual(b)
    \/ \E e \in Errors : Launch(b, e)
    \/ LaunchRaises(b)

Next ==
    \/ \E b \in Buckets, v \in Gradients : ReadGeneration(b, v)
    \/ \E b \in Buckets :
           Hook(b) \/ Arrive(b) \/ Worker(b) \/ CallbackRaises(b)
    \/ \E r \in Rebuilders, g \in Generations : CheckRebuild(r, g)
    \/ \E r \in Rebuilders : ApplyRebuild(r)

(***************************************************************************)
(* A hook that was called runs on, workers run, and a communication ends,   *)
(* well or badly.  Nobody has to call a hook or rebuild.                    *)
(***************************************************************************)
Spec ==
    /\ Init /\ [][Next]_vars
    /\ \A b \in Buckets : WF_vars(Hook(b)) /\ WF_vars(Arrive(b))
                                           /\ WF_vars(Worker(b))
----------------------------------------------------------------------------
(***************************************************************************)
(* A residual on the books always belongs to the current bucket layout,     *)
(* however rebuilds race with commits that were prepared before them.       *)
(***************************************************************************)
ResidualsCurrent ==
    \A b \in Buckets, g \in Generations :
        residuals[<<b, g>>] # NoResidual => g = generation

(***************************************************************************)
(* Error feedback loses nothing and counts nothing twice in a layout whose  *)
(* generation is new: the residual of a bucket is exactly the gradient mass *)
(* that its commits left out, whatever failed in between and however the    *)
(* rebuilds that led there overlapped.  Two rebuilds that overlap may also  *)
(* lead to a generation that is not new, since rebuild() compares before it *)
(* takes the lock; a transaction still in flight may then put a residual    *)
(* back that rebuild() had cleared, and nothing is claimed until the next   *)
(* rebuild to a new generation.                                             *)
(***************************************************************************)
ErrorConserved ==
    generation > before =>
        \A b \in Buckets :
            OrZero(residuals[<<b, generation>>]) = debt[<<b, generation>>]

(***************************************************************************)
(* The Future of every hook call is resolved, with a result or with an      *)
(* exception, however few workers there are and whatever fails.             *)
(***************************************************************************)
FuturesResolve ==
    \A b \in Buckets : phase[b] # "idle" ~> phase[b] = "idle"
=============================================================================
