----------------------------- MODULE NativeWork -----------------------------
(***************************************************************************)
(* csrc/executor/compressed_work.cpp: the C++ CompressedWork bound to       *)
(* Python, with the interpreter lock (GIL), the mutex and the condition     *)
(* variable its wait() uses.                                                *)
(*                                                                          *)
(* The first caller wins a compare-and-swap and does the work: it waits for *)
(* the transport without the GIL, runs the Python callback, waits for the   *)
(* completion event without the GIL, drops the resources, stores state 2    *)
(* and notifies, without ever taking the mutex.  A later caller takes the   *)
(* mutex while it holds the GIL, releases the GIL, and sleeps on the        *)
(* condition variable; on its way out it takes the GIL back while it still  *)
(* holds the mutex.                                                         *)
(***************************************************************************)
EXTENDS Naturals, FiniteSets

CONSTANTS Threads, Nobody

ASSUME NativeAssumption == Nobody \notin Threads

VARIABLES
    gil,                \* holder of the interpreter lock
    mutex,              \* holder of state_mutex_
    pc,                 \* where each thread is in wait()
    waitState,          \* wait_state_: 0 new, 1 being waited for, 2 over
    transport,          \* the c10d work: "pending", "done" or "broken"
    callbackFinished,   \* callback_finished_
    callbacks,          \* history: times the callback was entered
    stored,             \* result_ or the cached exception, Unset before
    holdsResources,     \* resources_ is not cleared
    returned,           \* history: outcomes that wait() gave its callers
    queriedTrue         \* history: query() has answered true

vars == <<gil, mutex, pc, waitState, transport, callbackFinished, callbacks,
          stored, holdsResources, returned, queriedTrue>>

Unset == "unset"
Outcomes == {"value", "error"}

\* Labels of wait(), the winner's first.
Winner == {"transport", "callback", "completion", "clear", "store", "notify"}
Loser == {"lock", "check", "block", "asleep", "relock", "regil"}

TypeOK ==
    /\ gil \in Threads \cup {Nobody}
    /\ mutex \in Threads \cup {Nobody}
    /\ pc \in [Threads -> {"idle", "return"} \cup Winner \cup Loser]
    /\ waitState \in 0 .. 2
    /\ transport \in {"pending", "done", "broken"}
    /\ callbackFinished \in BOOLEAN
    /\ callbacks \in Nat
    /\ stored \in Outcomes \cup {Unset}
    /\ holdsResources \in BOOLEAN
    /\ returned \subseteq Outcomes
    /\ queriedTrue \in BOOLEAN

\* A work built without a callback has its result from the start.
Init ==
    /\ gil = Nobody
    /\ mutex = Nobody
    /\ pc = [t \in Threads |-> "idle"]
    /\ waitState = 0
    /\ transport = "pending"
    /\ callbackFinished \in BOOLEAN
    /\ callbacks = 0
    /\ stored = IF callbackFinished THEN "value" ELSE Unset
    /\ holdsResources = TRUE
    /\ returned = {}
    /\ queriedTrue = FALSE

Goto(t, label) == pc' = [pc EXCEPT ![t] = label]

TakeGil(t) == gil = Nobody /\ gil' = t

DropGil(t) == gil = t /\ gil' = Nobody
----------------------------------------------------------------------------
TransportEnds ==
    /\ transport = "pending"
    /\ transport' \in {"done", "broken"}
    /\ UNCHANGED <<gil, mutex, pc, waitState, callbackFinished, callbacks,
                   stored, holdsResources, returned, queriedTrue>>

(***************************************************************************)
(* The compare-and-swap.  The winner goes on to wait_transport(), which     *)
(* releases the GIL; a caller that finds state 1 goes to the mutex with the *)
(* GIL in hand.                                                             *)
(***************************************************************************)
CallWait(t) ==
    /\ pc[t] = "idle"
    /\ gil = Nobody
    /\ CASE waitState = 0 -> Goto(t, "transport") /\ gil' = Nobody
         [] waitState = 1 -> Goto(t, "lock") /\ gil' = t
         [] waitState = 2 -> Goto(t, "return") /\ gil' = t
    /\ waitState' = IF waitState = 0 THEN 1 ELSE waitState
    /\ UNCHANGED <<mutex, transport, callbackFinished, callbacks, stored,
                   holdsResources, returned, queriedTrue>>

\* Python code of the callback lets other threads have the GIL.
StartCallback(t) ==
    /\ pc[t] = "transport"
    /\ transport = "done"
    /\ ~callbackFinished
    /\ gil = Nobody
    /\ callbackFinished' = TRUE
    /\ callbacks' = callbacks + 1
    /\ Goto(t, "callback")
    /\ UNCHANGED <<gil, mutex, waitState, transport, stored, holdsResources,
                   returned, queriedTrue>>

SkipCallback(t) ==
    /\ pc[t] = "transport"
    /\ transport = "done"
    /\ callbackFinished
    /\ Goto(t, "completion")
    /\ UNCHANGED <<gil, mutex, waitState, transport, callbackFinished,
                   callbacks, stored, holdsResources, returned, queriedTrue>>

CallbackReturns(t) ==
    /\ pc[t] = "callback"
    /\ gil = Nobody
    /\ stored' = "value"
    /\ Goto(t, "completion")
    /\ UNCHANGED <<gil, mutex, waitState, transport, callbackFinished,
                   callbacks, holdsResources, returned, queriedTrue>>

\* Mutant: an exception is not cached; it opens the work to the next caller.
Throws_Reopens(t) ==
    /\ \/ pc[t] = "transport" /\ transport = "broken"
       \/ pc[t] = "callback"
       \/ pc[t] = "completion"
    /\ gil = Nobody
    /\ waitState' = 0
    /\ callbackFinished' = FALSE
    /\ Goto(t, "idle")
    /\ UNCHANGED <<gil, mutex, transport, callbacks, stored, holdsResources,
                   returned, queriedTrue>>

\* wait_transport(), the callback or wait_completion() throws: cached.
Throws(t) ==
    /\ \/ pc[t] = "transport" /\ transport = "broken"
       \/ pc[t] = "callback"
       \/ pc[t] = "completion"
    /\ TakeGil(t)
    /\ stored' = "error"
    /\ Goto(t, "clear")
    /\ UNCHANGED <<mutex, waitState, transport, callbackFinished, callbacks,
                   holdsResources, returned, queriedTrue>>

\* Mutant: the result is published before the GIL is taken back.
CompletionReady_WithoutGil(t) ==
    /\ pc[t] = "completion"
    /\ Goto(t, "clear")
    /\ UNCHANGED <<gil, mutex, waitState, transport, callbackFinished,
                   callbacks, stored, holdsResources, returned, queriedTrue>>

CompletionReady(t) ==
    /\ pc[t] = "completion"
    /\ TakeGil(t)
    /\ Goto(t, "clear")
    /\ UNCHANGED <<mutex, waitState, transport, callbackFinished, callbacks,
                   stored, holdsResources, returned, queriedTrue>>

\* Mutant: only callback_ is dropped.
ClearResources_CallbackOnly(t) ==
    /\ pc[t] = "clear"
    /\ Goto(t, "store")
    /\ UNCHANGED <<gil, mutex, waitState, transport, callbackFinished,
                   callbacks, stored, holdsResources, returned, queriedTrue>>

ClearResources(t) ==
    /\ pc[t] = "clear"
    /\ holdsResources' = FALSE
    /\ Goto(t, "store")
    /\ UNCHANGED <<gil, mutex, waitState, transport, callbackFinished,
                   callbacks, stored, returned, queriedTrue>>

StoreState(t) ==
    /\ pc[t] = "store"
    /\ waitState' = 2
    /\ Goto(t, "notify")
    /\ UNCHANGED <<gil, mutex, transport, callbackFinished, callbacks, stored,
                   holdsResources, returned, queriedTrue>>

\* notify_all wakes the threads that are asleep at this moment, no others.
NotifyAll(t) ==
    /\ pc[t] = "notify"
    /\ pc' = [u \in Threads |-> CASE u = t -> "return"
                                  [] pc[u] = "asleep" -> "relock"
                                  [] OTHER -> pc[u]]
    /\ UNCHANGED <<gil, mutex, waitState, transport, callbackFinished,
                   callbacks, stored, holdsResources, returned, queriedTrue>>
----------------------------------------------------------------------------
\* Mutant: the thread sleeps with the GIL in hand.
LockMutex_KeepsGil(t) ==
    /\ pc[t] = "lock"
    /\ mutex = Nobody
    /\ mutex' = t
    /\ Goto(t, "check")
    /\ UNCHANGED <<gil, waitState, transport, callbackFinished, callbacks,
                   stored, holdsResources, returned, queriedTrue>>

\* unique_lock, then gil_scoped_release: blocks with the GIL if it must.
LockMutex(t) ==
    /\ pc[t] = "lock"
    /\ mutex = Nobody
    /\ mutex' = t
    /\ DropGil(t)
    /\ Goto(t, "check")
    /\ UNCHANGED <<waitState, transport, callbackFinished, callbacks, stored,
                   holdsResources, returned, queriedTrue>>

\* The predicate of state_cv_.wait.
CheckState(t) ==
    /\ pc[t] = "check"
    /\ Goto(t, IF waitState = 2 THEN "regil" ELSE "block")
    /\ UNCHANGED <<gil, mutex, waitState, transport, callbackFinished,
                   callbacks, stored, holdsResources, returned, queriedTrue>>

\* Unlocking and going to sleep are one step of the condition variable.
Block(t) ==
    /\ pc[t] = "block"
    /\ mutex' = Nobody
    /\ Goto(t, "asleep")
    /\ UNCHANGED <<gil, waitState, transport, callbackFinished, callbacks,
                   stored, holdsResources, returned, queriedTrue>>

SpuriousWakeup(t) ==
    /\ pc[t] = "asleep"
    /\ Goto(t, "relock")
    /\ UNCHANGED <<gil, mutex, waitState, transport, callbackFinished,
                   callbacks, stored, holdsResources, returned, queriedTrue>>

Relock(t) ==
    /\ pc[t] = "relock"
    /\ mutex = Nobody
    /\ mutex' = t
    /\ Goto(t, "check")
    /\ UNCHANGED <<gil, waitState, transport, callbackFinished, callbacks,
                   stored, holdsResources, returned, queriedTrue>>

\* The destructors: gil_scoped_release takes the GIL, then the mutex goes.
TakeGilBack(t) ==
    /\ pc[t] = "regil"
    /\ TakeGil(t)
    /\ mutex' = Nobody
    /\ Goto(t, "return")
    /\ UNCHANGED <<waitState, transport, callbackFinished, callbacks, stored,
                   holdsResources, returned, queriedTrue>>

Return(t) ==
    /\ pc[t] = "return"
    /\ DropGil(t)
    /\ returned' = returned \cup {stored}
    /\ Goto(t, "idle")
    /\ UNCHANGED <<mutex, waitState, transport, callbackFinished, callbacks,
                   stored, holdsResources, queriedTrue>>

(***************************************************************************)
(* query() with a completion event that is None or not yet recorded, for    *)
(* which query_completion() is true.                                        *)
(***************************************************************************)
Query(t) ==
    /\ pc[t] = "idle"
    /\ gil = Nobody
    /\ queriedTrue' = \/ queriedTrue
                      \/ waitState = 2
                      \/ transport # "pending" /\ callbackFinished
    /\ UNCHANGED <<gil, mutex, pc, waitState, transport, callbackFinished,
                   callbacks, stored, holdsResources, returned>>

Step(t) ==
    \/ StartCallback(t)
    \/ SkipCallback(t)
    \/ CallbackReturns(t)
    \/ Throws(t)
    \/ CompletionReady(t)
    \/ ClearResources(t)
    \/ StoreState(t)
    \/ NotifyAll(t)
    \/ LockMutex(t)
    \/ CheckState(t)
    \/ Block(t)
    \/ Relock(t)
    \/ TakeGilBack(t)
    \/ Return(t)

Next ==
    \/ TransportEnds
    \/ \E t \in Threads :
           Step(t) \/ CallWait(t) \/ SpuriousWakeup(t) \/ Query(t)

(***************************************************************************)
(* The GIL and the mutex are handed on: a thread that waits for one and can *)
(* have it again and again gets it (SF), the transport ends and the         *)
(* callback returns.  Nothing wakes a sleeper but a notification.           *)
(***************************************************************************)
Spec ==
    /\ Init /\ [][Next]_vars
    /\ WF_vars(TransportEnds)
    /\ \A t \in Threads : SF_vars(Step(t))
----------------------------------------------------------------------------
(***************************************************************************)
(* However many threads wait at once, the callback is entered at most once. *)
(***************************************************************************)
CallbackOnce == callbacks <= 1

(***************************************************************************)
(* No thread waits for the mutex with the GIL in hand while the holder of   *)
(* the mutex waits for the GIL.                                             *)
(***************************************************************************)
NoLockCycle ==
    \A t, u \in Threads :
        ~(pc[t] = "lock" /\ gil = t /\ pc[u] = "regil" /\ mutex = u)

(***************************************************************************)
(* The C++ work keeps the same promise as the Python one: decided once,     *)
(* after its resources are dropped, and every wait() gives that outcome.    *)
(***************************************************************************)
Undecided == "undecided"
One == {1}

Once == INSTANCE OnceWork WITH
            Works <- One,
            Resources <- One,
            ready <- [w \in One |-> transport # "pending"],
            held <- [w \in One |-> IF holdsResources THEN One ELSE {}],
            outcome <- [w \in One |-> IF waitState = 2 THEN stored
                                                       ELSE Undecided],
            received <- [w \in One |-> returned]

ImplementsOnceWork == Once!Spec

(***************************************************************************)
(* A work that somebody waits for gets over: the winner is never blocked    *)
(* for good by the threads that wait with it.                               *)
(***************************************************************************)
WorkGetsOver == waitState = 1 ~> waitState = 2

(***************************************************************************)
(* Every wait() returns: "repeated wait() returns the same logical result". *)
(***************************************************************************)
EveryWaitReturns ==
    \A t \in Threads : pc[t] # "idle" ~> pc[t] = "idle"

(***************************************************************************)
(* A true query() means that collective and postprocessing are over.        *)
(***************************************************************************)
QueryMeansDone == queriedTrue => stored # Unset
=============================================================================
