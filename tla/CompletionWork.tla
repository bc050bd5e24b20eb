--------------------------- MODULE CompletionWork ---------------------------
(***************************************************************************)
(* runtime/work.py and runtime/event.py: CompletionWork objects polled and  *)
(* waited on by several threads, and the completion events they wait for.   *)
(*                                                                          *)
(* wait() blocks on the event without the lock, then, under the work's      *)
(* RLock, the first caller runs complete() and releases the resources in    *)
(* reverse order; it and every later caller read the stored outcome.  The   *)
(* callback and each release() are steps of their own: other threads run    *)
(* in between, and the callback or a release() may raise.                   *)
(***************************************************************************)
EXTENDS Naturals, Sequences, FiniteSets

CONSTANTS
    Threads,
    Works,
    NumResources,       \* each work owns resources 1 .. NumResources
    Postprocessed,      \* works built with a complete callback
    Collective,         \* works whose event is executors._CollectiveEvent
    FaultyWorks,        \* works with a resource whose release() may raise
    MaxAttempts,        \* bound on the times a work's completion is tried
    Nobody, NoWork

ASSUME WorkAssumption ==
    /\ NumResources \in Nat
    /\ Postprocessed \subseteq Works
    /\ Collective \subseteq Works
    /\ FaultyWorks \subseteq Works
    /\ MaxAttempts \in Nat \ {0}
    /\ Nobody \notin Threads
    /\ NoWork \notin Works

VARIABLES
    event,      \* "pending", "fired", or "failed" (the handle's wait() raises)
    pc,         \* where each thread is in its wait() call
    on,         \* the work that call is on
    cursor,     \* resources the thread has still to release
    owner,      \* holder of the work's RLock
    finished,   \* CompletionWork._finished
    result,     \* CompletionWork._result
    error,      \* CompletionWork._error, NoError for None
    attempts,   \* history: times the completion block was entered
    freed,      \* history: the release() calls made, in order
    received,   \* history: what wait() gave its callers after the event
    polled      \* history: query() has answered True

threadVars == <<pc, on, cursor>>
storeVars == <<finished, result, error, attempts>>
vars == <<event, threadVars, owner, storeVars, freed, received, polled>>

\* A value or an exception, told apart by the run of complete() it came from.
Outcomes == [kind : {"value", "error"}, attempt : 0 .. MaxAttempts]
\* The exception of a release(), by the attempt at completion it ended.
Refusal(i) == [kind |-> "release", attempt |-> i]
Refusals == {Refusal(i) : i \in 1 .. MaxAttempts}
NoError == [kind |-> "none", attempt |-> 0]
Constructed == [kind |-> "value", attempt |-> 0]

\* `if self._error is not None: raise self._error; return self._result`
Stored(w) == IF error[w] # NoError THEN error[w] ELSE result[w]

Resources == 1 .. NumResources

TypeOK ==
    /\ event \in [Works -> {"pending", "fired", "failed"}]
    /\ pc \in [Threads -> {"idle", "blocked", "entering", "completing",
                           "releasing"}]
    /\ on \in [Threads -> Works \cup {NoWork}]
    /\ cursor \in [Threads -> 0 .. NumResources]
    /\ owner \in [Works -> Threads \cup {Nobody}]
    /\ finished \in [Works -> BOOLEAN]
    /\ result \in [Works -> Outcomes]
    /\ error \in [Works -> Outcomes \cup {NoError}]
    /\ attempts \in [Works -> 0 .. MaxAttempts]
    /\ freed \in [Works -> Seq(Resources)]
    /\ received \in [Works -> SUBSET (Outcomes \cup Refusals)]
    /\ polled \in [Works -> BOOLEAN]

Init ==
    /\ event = [w \in Works |-> "pending"]
    /\ pc = [t \in Threads |-> "idle"]
    /\ on = [t \in Threads |-> NoWork]
    /\ cursor = [t \in Threads |-> 0]
    /\ owner = [w \in Works |-> Nobody]
    /\ finished = [w \in Works |-> FALSE]
    /\ result = [w \in Works |-> Constructed]
    /\ error = [w \in Works |-> NoError]
    /\ attempts = [w \in Works |-> 0]
    /\ freed = [w \in Works |-> <<>>]
    /\ received = [w \in Works |-> {}]
    /\ polled = [w \in Works |-> FALSE]
----------------------------------------------------------------------------
(***************************************************************************)
(* The event.  A manual event is only ever set; the wait() of a collective  *)
(* handle may also raise.                                                   *)
(***************************************************************************)
FireEvent(w) ==
    /\ event[w] = "pending"
    /\ event' = [event EXCEPT ![w] = "fired"]
    /\ UNCHANGED <<threadVars, owner, storeVars, freed, received, polled>>

FailEvent(w) ==
    /\ w \in Collective
    /\ event[w] = "pending"
    /\ event' = [event EXCEPT ![w] = "failed"]
    /\ UNCHANGED <<threadVars, owner, storeVars, freed, received, polled>>
----------------------------------------------------------------------------
\* A wait() call ends: its thread is free to call again.
Leave(t) ==
    /\ pc' = [pc EXCEPT ![t] = "idle"]
    /\ on' = [on EXCEPT ![t] = NoWork]
    /\ cursor' = [cursor EXCEPT ![t] = 0]

Goto(t, label) ==
    /\ pc' = [pc EXCEPT ![t] = label]
    /\ UNCHANGED on

CallWait(t, w) ==
    /\ pc[t] = "idle"
    /\ pc' = [pc EXCEPT ![t] = IF event[w] = "fired" THEN "entering"
                                                     ELSE "blocked"]
    /\ on' = [on EXCEPT ![t] = w]
    /\ UNCHANGED <<event, cursor, owner, storeVars, freed, received, polled>>

WakeUp(t) ==
    /\ pc[t] = "blocked"
    /\ event[on[t]] = "fired"
    /\ Goto(t, "entering")
    /\ UNCHANGED <<event, cursor, owner, storeVars, freed, received, polled>>

(***************************************************************************)
(* TimeoutError.  A wait that began on an unset event may time out although *)
(* the event is set by the time its thread runs again.  _CollectiveEvent    *)
(* drops the timeout: those waits never time out.                           *)
(***************************************************************************)
\* Mutant: the False that event.wait(timeout) returns is ignored.
TimeOut_Proceeds(t) ==
    /\ pc[t] = "blocked"
    /\ on[t] \notin Collective
    /\ Goto(t, "entering")
    /\ UNCHANGED <<event, cursor, owner, storeVars, freed, received, polled>>

TimeOut(t) ==
    /\ pc[t] = "blocked"
    /\ on[t] \notin Collective
    /\ Leave(t)
    /\ UNCHANGED <<event, owner, storeVars, freed, received, polled>>

\* The handle's exception leaves wait() before the lock is ever taken.
HandleRaises(t) ==
    /\ pc[t] = "blocked"
    /\ event[on[t]] = "failed"
    /\ Leave(t)
    /\ UNCHANGED <<event, owner, storeVars, freed, received, polled>>

ReadFinished(t) ==
    /\ pc[t] = "entering"
    /\ owner[on[t]] = Nobody
    /\ finished[on[t]]
    /\ received' = [received EXCEPT ![on[t]] = @ \cup {Stored(on[t])}]
    /\ Leave(t)
    /\ UNCHANGED <<event, owner, storeVars, freed, polled>>

\* Mutant: `if not self._finished` is missing, so a late waiter runs it again.
StartComplete_Unchecked(t) ==
    /\ pc[t] = "entering"
    /\ owner[on[t]] = Nobody
    /\ attempts[on[t]] < MaxAttempts
    /\ owner' = [owner EXCEPT ![on[t]] = t]
    /\ attempts' = [attempts EXCEPT ![on[t]] = @ + 1]
    /\ Goto(t, "completing")
    /\ cursor' = [cursor EXCEPT ![t] = NumResources]
    /\ UNCHANGED <<event, finished, result, error, freed, received, polled>>

\* Mutant: the lock is not taken, so two waiters complete side by side.
StartComplete_Unlocked(t) ==
    /\ pc[t] = "entering"
    /\ ~finished[on[t]]
    /\ attempts[on[t]] < MaxAttempts
    /\ attempts' = [attempts EXCEPT ![on[t]] = @ + 1]
    /\ Goto(t, "completing")
    /\ cursor' = [cursor EXCEPT ![t] = NumResources]
    /\ UNCHANGED <<event, owner, finished, result, error, freed, received,
                   polled>>

StartComplete(t) ==
    /\ pc[t] = "entering"
    /\ owner[on[t]] = Nobody
    /\ ~finished[on[t]]
    /\ owner' = [owner EXCEPT ![on[t]] = t]
    /\ attempts' = [attempts EXCEPT ![on[t]] = @ + 1]
    /\ Goto(t, IF on[t] \in Postprocessed THEN "completing" ELSE "releasing")
    /\ cursor' = [cursor EXCEPT ![t] = NumResources]
    /\ UNCHANGED <<event, finished, result, error, freed, received, polled>>

CompleteReturns(t) ==
    /\ pc[t] = "completing"
    /\ result' = [result EXCEPT ![on[t]] =
                      [kind |-> "value", attempt |-> attempts[on[t]]]]
    /\ Goto(t, "releasing")
    /\ UNCHANGED <<event, cursor, owner, finished, error, attempts, freed,
                   received, polled>>

\* Mutant: the release loop is not in a finally block.
CompleteRaises_SkipsReleases(t) ==
    /\ pc[t] = "completing"
    /\ error' = [error EXCEPT ![on[t]] =
                     [kind |-> "error", attempt |-> attempts[on[t]]]]
    /\ finished' = [finished EXCEPT ![on[t]] = TRUE]
    /\ owner' = [owner EXCEPT ![on[t]] = Nobody]
    /\ Leave(t)
    /\ UNCHANGED <<event, result, attempts, freed, received, polled>>

CompleteRaises(t) ==
    /\ pc[t] = "completing"
    /\ error' = [error EXCEPT ![on[t]] =
                     [kind |-> "error", attempt |-> attempts[on[t]]]]
    /\ Goto(t, "releasing")
    /\ UNCHANGED <<event, cursor, owner, finished, result, attempts, freed,
                   received, polled>>

(***************************************************************************)
(* One release() of the `for resource in reversed(self._resources)` loop.   *)
(* A resource without a release method is only dropped.                     *)
(***************************************************************************)
ReleaseNext(t) ==
    /\ pc[t] = "releasing"
    /\ cursor[t] > 0
    /\ freed' = [freed EXCEPT ![on[t]] = Append(@, cursor[t])]
    /\ cursor' = [cursor EXCEPT ![t] = @ - 1]
    /\ UNCHANGED <<event, pc, on, owner, storeVars, received, polled>>

(***************************************************************************)
(* A raising release() leaves the finally block at once: the remaining      *)
(* resources are skipped, its exception is what this wait() gives its       *)
(* caller, and _finished stays False, so the next wait() tries again, the   *)
(* callback included; MaxAttempts bounds how often.                         *)
(***************************************************************************)
\* Mutant: _finished is set before the releases and not after them.
ReleaseRaises_Finished(t) ==
    /\ pc[t] = "releasing"
    /\ cursor[t] > 0
    /\ on[t] \in FaultyWorks
    /\ attempts[on[t]] < MaxAttempts
    /\ owner' = [owner EXCEPT ![on[t]] = Nobody]
    /\ finished' = [finished EXCEPT ![on[t]] = TRUE]
    /\ received' = [received EXCEPT ![on[t]] =
                        @ \cup {Refusal(attempts[on[t]])}]
    /\ Leave(t)
    /\ UNCHANGED <<event, result, error, attempts, freed, polled>>

ReleaseRaises(t) ==
    /\ pc[t] = "releasing"
    /\ cursor[t] > 0
    /\ on[t] \in FaultyWorks
    /\ attempts[on[t]] < MaxAttempts
    /\ owner' = [owner EXCEPT ![on[t]] = Nobody]
    /\ received' = [received EXCEPT ![on[t]] =
                        @ \cup {Refusal(attempts[on[t]])}]
    /\ Leave(t)
    /\ UNCHANGED <<event, storeVars, freed, polled>>

\* Mutant: the first waiter is given _result although an error was stored.
Finish_DropsError(t) ==
    /\ pc[t] = "releasing"
    /\ cursor[t] = 0
    /\ finished' = [finished EXCEPT ![on[t]] = TRUE]
    /\ owner' = [owner EXCEPT ![on[t]] = Nobody]
    /\ received' = [received EXCEPT ![on[t]] = @ \cup {result[on[t]]}]
    /\ Leave(t)
    /\ UNCHANGED <<event, result, error, attempts, freed, polled>>

\* Mutant: a lock taken and released by hand is kept when wait() raises.
Finish_KeepsLock(t) ==
    /\ pc[t] = "releasing"
    /\ cursor[t] = 0
    /\ finished' = [finished EXCEPT ![on[t]] = TRUE]
    /\ owner' = [owner EXCEPT ![on[t]] =
                     IF error[on[t]] = NoError THEN Nobody ELSE t]
    /\ received' = [received EXCEPT ![on[t]] = @ \cup {Stored(on[t])}]
    /\ Leave(t)
    /\ UNCHANGED <<event, result, error, attempts, freed, polled>>

Finish(t) ==
    /\ pc[t] = "releasing"
    /\ cursor[t] = 0
    /\ finished' = [finished EXCEPT ![on[t]] = TRUE]
    /\ owner' = [owner EXCEPT ![on[t]] = Nobody]
    /\ received' = [received EXCEPT ![on[t]] = @ \cup {Stored(on[t])}]
    /\ Leave(t)
    /\ UNCHANGED <<event, result, error, attempts, freed, polled>>

\* Mutant: query() reports the event and not the work.
Query_Event(t, w) ==
    /\ pc[t] = "idle"
    /\ owner[w] = Nobody
    /\ polled' = [polled EXCEPT ![w] = @ \/ event[w] = "fired"]
    /\ UNCHANGED <<event, threadVars, owner, storeVars, freed, received>>

\* query() needs the lock, so it waits while a thread is completing.
Query(t, w) ==
    /\ pc[t] = "idle"
    /\ owner[w] = Nobody
    /\ polled' = [polled EXCEPT ![w] = @ \/ finished[w]]
    /\ UNCHANGED <<event, threadVars, owner, storeVars, freed, received>>

Step(t) ==
    \/ WakeUp(t)
    \/ HandleRaises(t)
    \/ ReadFinished(t)
    \/ StartComplete(t)
    \/ CompleteReturns(t)
    \/ CompleteRaises(t)
    \/ ReleaseNext(t)
    \/ Finish(t)

Next ==
    \/ \E w \in Works : FireEvent(w) \/ FailEvent(w)
    \/ \E t \in Threads : Step(t) \/ TimeOut(t) \/ ReleaseRaises(t)
    \/ \E t \in Threads, w \in Works : CallWait(t, w) \/ Query(t, w)

(***************************************************************************)
(* Threads inside wait() keep running and callbacks return; nothing obliges *)
(* an event to fire, a timeout to expire or anybody to call wait().         *)
(***************************************************************************)
Spec == Init /\ [][Next]_vars /\ \A t \in Threads : WF_vars(Step(t))

----------------------------------------------------------------------------
(***************************************************************************)
(* However many threads wait, however often, and whether or not it raises,  *)
(* the completion of a work, callback included, runs at most once, as long  *)
(* as the release() of its resources does not raise.                        *)
(***************************************************************************)
CompleteOnce == \A w \in Works \ FaultyWorks : attempts[w] <= 1

(***************************************************************************)
(* If no release() raises, resources are released once each, last acquired  *)
(* first, only after the event has fired, and never while a thread is still *)
(* in the callback that uses them; a finished work holds none.              *)
(***************************************************************************)
OrderlyRelease ==
    \A w \in Works \ FaultyWorks :
        /\ Len(freed[w]) <= NumResources
        /\ \A i \in DOMAIN freed[w] : freed[w][i] = NumResources + 1 - i
        /\ freed[w] # <<>> =>
               /\ event[w] = "fired"
               /\ \A t \in Threads : ~(pc[t] = "completing" /\ on[t] = w)
        /\ finished[w] => Len(freed[w]) = NumResources

(***************************************************************************)
(* query() answers True only of a work that is over: its callback has run,  *)
(* its resources are back and the outcome every further wait() gives is     *)
(* fixed, and is the only value or error of the callback given so far.      *)
(***************************************************************************)
QueryMeansDone ==
    \A w \in Works : polled[w] =>
        /\ {freed[w][i] : i \in DOMAIN freed[w]} = Resources
        /\ \A t \in Threads :
               ~(on[t] = w /\ pc[t] \in {"completing", "releasing"})
        /\ received[w] \cap Outcomes = {Stored(w)}

(***************************************************************************)
(* No failed release() is lost, whoever retries after it: each attempt that *)
(* was given up gave its exception to the caller that made it, the attempt  *)
(* that finished the work gave nobody one, and whatever the earlier         *)
(* attempts ended with, callers are given one outcome, and only when the    *)
(* last attempt is over.                                                    *)
(***************************************************************************)
RetriesReported ==
    \A w \in Works :
        /\ \A i \in 1 .. attempts[w] - 1 : Refusal(i) \in received[w]
        /\ finished[w] => Refusal(attempts[w]) \notin received[w]
        /\ received[w] \cap Outcomes =
               IF finished[w] THEN {Stored(w)} ELSE {}

(***************************************************************************)
(* A CompletionWork whose resources release without raising is, with its    *)
(* locks and threads, a OnceWork: decided once, after its resources are     *)
(* back, and every caller is given that.  A release() that raises breaks    *)
(* the promise: that caller is given its exception and a later one a value. *)
(***************************************************************************)
Undecided == [kind |-> "undecided"]

Reliable == Works \ FaultyWorks

Once == INSTANCE OnceWork WITH
            Works <- Reliable,
            ready <- [w \in Reliable |-> event[w] = "fired"],
            held <- [w \in Reliable |->
                         Resources \ {freed[w][i] : i \in DOMAIN freed[w]}],
            outcome <- [w \in Reliable |-> IF finished[w] THEN Stored(w)
                                                          ELSE Undecided],
            received <- [w \in Reliable |-> received[w]]

ImplementsOnceWork == Once!Spec

(***************************************************************************)
(* Once the event has fired, or the handle has failed, every thread inside  *)
(* wait() gets out: no interleaving of waiters blocks one for good.         *)
(***************************************************************************)
WaitReturns ==
    \A t \in Threads, w \in Works :
        on[t] = w /\ event[w] # "pending" ~> on[t] # w
=============================================================================
