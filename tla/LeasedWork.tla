----------------------------- MODULE LeasedWork -----------------------------
(***************************************************************************)
(* Works whose resources are leases of one shared WorkspacePool: the life   *)
(* of a workspace from acquire(), through the communication that uses it,   *)
(* to the release() that CompletionWork.wait() makes for its caller.        *)
(*                                                                          *)
(* The pool is WorkspacePool and the works are CompletionWork, step for     *)
(* step; only the release of a resource is shared: it is the two steps of   *)
(* WorkspaceLease.release(), taken by the thread inside wait().             *)
(***************************************************************************)
EXTENDS WorkspacePool

CONSTANTS
    Works, Collective,
    ResourceKeys,       \* the keys a run acquires, in order
    Nobody, NoWork

\* The lease objects are those of each buffer of each run.
ASSUME LeasedAssumption ==
    /\ Leases = Works \X (1 .. Len(ResourceKeys))
    /\ ResourceKeys \in Seq(Keys) \ {<<>>}
    /\ Collective \subseteq Works
    /\ Nobody \notin Threads
    /\ NoWork \notin Works

VARIABLES
    event, pc, on, cursor, owner, finished, result, error, attempts, freed,
    received, polled,
    resources,          \* CompletionWork._resources, as acquired so far
    launching           \* the work a thread is acquiring workspaces for

Work == INSTANCE CompletionWork WITH
            NumResources <- Len(ResourceKeys), Postprocessed <- Works,
            FaultyWorks <- {}, MaxAttempts <- 1

workVars == <<event, pc, on, cursor, owner, finished, result, error, attempts,
              freed, received, polled>>
launchVars == <<resources, launching>>
vars == <<poolVars, workVars, launchVars>>

Launched(w) == Len(resources[w]) = Len(ResourceKeys)

LeasedInit ==
    /\ Init
    /\ Work!Init
    /\ resources = [w \in Works |-> <<>>]
    /\ launching = [t \in Threads |-> NoWork]
----------------------------------------------------------------------------
(***************************************************************************)
(* A run acquires one lease per buffer, then issues the communication and   *)
(* hands the leases to the work it returns.                                 *)
(***************************************************************************)
StartRun(t, w) ==
    /\ launching[t] = NoWork
    /\ pc[t] = "idle"
    /\ resources[w] = <<>>
    /\ \A u \in Threads : launching[u] # w
    /\ launching' = [launching EXCEPT ![t] = w]
    /\ UNCHANGED <<poolVars, workVars, resources>>

\* Which unused identity an allocation gets makes no difference: take one.
Fresh == CHOOSE b \in Workspaces : allocatedFor[b] = NoKey

AcquireNext(t) ==
    LET w == launching[t]
        i == Len(resources[w]) + 1
    IN  /\ w # NoWork
        /\ Acquire(t, <<w, i>>, ResourceKeys[i])
        /\ available[ResourceKeys[i]] = <<>> => leaseValue'[<<w, i>>] = Fresh
        /\ resources' = [resources EXCEPT ![w] = Append(@, <<w, i>>)]
        /\ launching' = [launching EXCEPT ![t] =
                             IF i = Len(ResourceKeys) THEN NoWork ELSE w]
        /\ UNCHANGED workVars
----------------------------------------------------------------------------
\* release() of the resource at the cursor: mark it, then give it back.
ReleasedLease(t) == resources[on[t]][cursor[t]]

MarkResource(t) ==
    /\ pc[t] = "releasing"
    /\ cursor[t] > 0
    /\ MarkReleased(t, ReleasedLease(t))
    /\ UNCHANGED <<workVars, launchVars>>

ReturnResource(t) ==
    /\ Return(t)
    /\ Work!ReleaseNext(t)
    /\ UNCHANGED launchVars

OtherWorkStep(t) ==
    /\ \/ Work!WakeUp(t)
       \/ Work!HandleRaises(t)
       \/ Work!ReadFinished(t)
       \/ Work!StartComplete(t)
       \/ Work!CompleteReturns(t)
       \/ Work!CompleteRaises(t)
       \/ Work!Finish(t)
    /\ UNCHANGED <<poolVars, launchVars>>

ThreadStep(t) ==
    \/ MarkResource(t)
    \/ ReturnResource(t)
    \/ OtherWorkStep(t)

\* The communication ends, or a caller that has the work waits on it.
Environment ==
    /\ \/ \E w \in Works :
              Launched(w) /\ (Work!FireEvent(w) \/ Work!FailEvent(w))
       \/ \E t \in Threads, w \in Works :
              launching[t] = NoWork /\ Launched(w) /\ Work!CallWait(t, w)
       \/ \E t \in Threads : Work!TimeOut(t)
    /\ UNCHANGED <<poolVars, launchVars>>

LeasedNext ==
    \/ \E t \in Threads, w \in Works : StartRun(t, w)
    \/ \E t \in Threads : AcquireNext(t) \/ ThreadStep(t)
    \/ Environment

LeasedSpec ==
    /\ LeasedInit /\ [][LeasedNext]_vars
    /\ \A t \in Threads : WF_vars(ThreadStep(t))
----------------------------------------------------------------------------
Uses(w) == {leaseValue[l] : l \in Elements(resources[w])}

Idle == UNION {Elements(available[k]) : k \in Keys}

\* From the first acquire until the callback of the first wait() is done.
InUse(w) ==
    /\ resources[w] # <<>>
    /\ \/ event[w] # "fired"
       \/ attempts[w] = 0
       \/ \E t \in Threads : pc[t] = "completing" /\ on[t] = w

(***************************************************************************)
(* Concurrent runs never share a buffer: while the communication of a work  *)
(* is in flight, or its callback still reads the buffers, no other such     *)
(* work has one of them and no acquire() could be given one; however runs,  *)
(* waits, timeouts and releases interleave.                                 *)
(***************************************************************************)
InFlightNotShared ==
    \A w \in Works : InUse(w) =>
        /\ Uses(w) \cap Idle = {}
        /\ \A v \in Works \ {w} : InUse(v) => Uses(v) \cap Uses(w) = {}

(***************************************************************************)
(* A waited-on work whose communication has ended gives everything back.    *)
(***************************************************************************)
WorkspacesComeBack ==
    \A w \in Works :
        (event[w] = "fired" /\ \E t \in Threads : on[t] = w /\ pc[t] # "blocked")
            ~> \A i \in DOMAIN resources[w] : ~Holds(resources[w][i])
=============================================================================
