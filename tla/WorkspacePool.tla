--------------------------- MODULE WorkspacePool ---------------------------
(***************************************************************************)
(* runtime/workspace.py: a keyed, thread-safe pool of workspaces and the    *)
(* leases it hands out.                                                     *)
(*                                                                          *)
(* A critical section of the code (`with self._lock`) is one step.          *)
(* WorkspaceLease.release() is two of them: the lease is marked released    *)
(* under the lease's own lock, and the value is appended to the pool's list *)
(* under the pool's lock only afterwards.  Between the two the workspace is *)
(* in neither place and any other thread may run.                           *)
(***************************************************************************)
EXTENDS Naturals, Sequences, FiniteSets

CONSTANTS
    Threads,        \* threads that acquire and release
    Keys,           \* the hashable keys of the pool
    Workspaces,     \* identities an allocator() call may return
    Leases,         \* identities of WorkspaceLease objects
    NoKey, NoWorkspace, NoLease

ASSUME NullsAssumption ==
    /\ NoKey \notin Keys
    /\ NoWorkspace \notin Workspaces
    /\ NoLease \notin Leases

ASSUME LeasesAssumption == IsFiniteSet(Leases)

VARIABLES
    available,      \* WorkspacePool._available: key -> list of idle workspaces
    allocatedFor,   \* history: the key a workspace was allocated for, or NoKey
    leaseKey,       \* WorkspaceLease._key, NoKey before the lease is built
    leaseValue,     \* WorkspaceLease._value
    released,       \* WorkspaceLease._released
    returning,      \* the lease a thread has marked but not yet given back
    peak            \* history: most workspaces of a key ever out at one time

poolVars == <<available, allocatedFor, leaseKey, leaseValue, released,
              returning, peak>>

Elements(s) == {s[i] : i \in DOMAIN s}

(***************************************************************************)
(* A lease has its workspace out of the pool from acquire() until the       *)
(* append of _return().                                                     *)
(***************************************************************************)
Holds(l) == /\ leaseKey[l] # NoKey
            /\ \/ ~released[l]
               \/ \E t \in Threads : returning[t] = l

Held == {leaseValue[l] : l \in {m \in Leases : Holds(m)}}

HeldOf(k) == {l \in Leases : Holds(l) /\ leaseKey[l] = k}

AllocatedOf(k) == {w \in Workspaces : allocatedFor[w] = k}

TypeOK ==
    /\ available \in [Keys -> Seq(Workspaces)]
    /\ allocatedFor \in [Workspaces -> Keys \cup {NoKey}]
    /\ leaseKey \in [Leases -> Keys \cup {NoKey}]
    /\ leaseValue \in [Leases -> Workspaces \cup {NoWorkspace}]
    /\ released \in [Leases -> BOOLEAN]
    /\ returning \in [Threads -> Leases \cup {NoLease}]
    /\ peak \in [Keys -> Nat]

Init ==
    /\ available = [k \in Keys |-> <<>>]
    /\ allocatedFor = [w \in Workspaces |-> NoKey]
    /\ leaseKey = [l \in Leases |-> NoKey]
    /\ leaseValue = [l \in Leases |-> NoWorkspace]
    /\ released = [l \in Leases |-> FALSE]
    /\ returning = [t \in Threads |-> NoLease]
    /\ peak = [k \in Keys |-> 0]
----------------------------------------------------------------------------
(***************************************************************************)
(* acquire() pops the most recently returned workspace of the key, or calls *)
(* the allocator, all under the pool's lock; the lease built after the lock *)
(* is local to the caller.                                                  *)
(***************************************************************************)
Lend(l, k, w) ==
    /\ leaseKey[l] = NoKey
    /\ leaseKey' = [leaseKey EXCEPT ![l] = k]
    /\ leaseValue' = [leaseValue EXCEPT ![l] = w]
    /\ LET out == Cardinality(HeldOf(k)) + 1
       IN  peak' = [peak EXCEPT ![k] = IF out > @ THEN out ELSE @]

PopIdle(k) ==
    available' = [available EXCEPT ![k] = SubSeq(@, 1, Len(@) - 1)]

\* Mutant: the idle workspace is read with values[-1], not popped.
Reuse_WithoutPop(l, k) ==
    /\ available[k] # <<>>
    /\ Lend(l, k, available[k][Len(available[k])])
    /\ UNCHANGED <<available, allocatedFor>>

Reuse(l, k) ==
    /\ available[k] # <<>>
    /\ Lend(l, k, available[k][Len(available[k])])
    /\ PopIdle(k)
    /\ UNCHANGED allocatedFor

\* Mutant: the allocator is called although an idle workspace is there.
Allocate_Always(l, k, w) ==
    /\ allocatedFor[w] = NoKey
    /\ Lend(l, k, w)
    /\ allocatedFor' = [allocatedFor EXCEPT ![w] = k]
    /\ UNCHANGED available

Allocate(l, k, w) ==
    /\ available[k] = <<>>
    /\ allocatedFor[w] = NoKey
    /\ Lend(l, k, w)
    /\ allocatedFor' = [allocatedFor EXCEPT ![w] = k]
    /\ UNCHANGED available

Acquire(t, l, k) ==
    /\ returning[t] = NoLease
    /\ \/ Reuse(l, k)
       \/ \E w \in Workspaces : Allocate(l, k, w)
    /\ UNCHANGED <<released, returning>>

(***************************************************************************)
(* release(): a lease already released is left alone, whatever became of   *)
(* its workspace since.                                                     *)
(***************************************************************************)
\* Mutant: the `if self._released: return` guard is dropped.
MarkReleased_NoGuard(t, l) ==
    /\ returning[t] = NoLease
    /\ leaseKey[l] # NoKey
    /\ released' = [released EXCEPT ![l] = TRUE]
    /\ returning' = [returning EXCEPT ![t] = l]
    /\ UNCHANGED <<available, allocatedFor, leaseKey, leaseValue, peak>>

MarkReleased(t, l) ==
    /\ returning[t] = NoLease
    /\ leaseKey[l] # NoKey
    /\ ~released[l]
    /\ released' = [released EXCEPT ![l] = TRUE]
    /\ returning' = [returning EXCEPT ![t] = l]
    /\ UNCHANGED <<available, allocatedFor, leaseKey, leaseValue, peak>>

ReleaseAgain(t, l) ==
    /\ returning[t] = NoLease
    /\ leaseKey[l] # NoKey
    /\ released[l]
    /\ UNCHANGED poolVars

Return(t) ==
    /\ returning[t] # NoLease
    /\ LET l == returning[t]
       IN  available' = [available EXCEPT ![leaseKey[l]] =
                             Append(@, leaseValue[l])]
    /\ returning' = [returning EXCEPT ![t] = NoLease]
    /\ UNCHANGED <<allocatedFor, leaseKey, leaseValue, released, peak>>

Next ==
    \E t \in Threads :
        \/ \E l \in Leases, k \in Keys : Acquire(t, l, k)
        \/ \E l \in Leases : MarkReleased(t, l)
        \/ \E l \in Leases : ReleaseAgain(t, l)
        \/ Return(t)

(***************************************************************************)
(* A thread inside release() is a running thread and reaches the pool.      *)
(***************************************************************************)
Spec == Init /\ [][Next]_poolVars /\ \A t \in Threads : WF_poolVars(Return(t))
----------------------------------------------------------------------------
(***************************************************************************)
(* "Exclusive ownership of a pooled workspace until release": no workspace  *)
(* belongs to two leases, and none that a lease still has out (one whose    *)
(* release() is half done included) can be popped by another acquire().     *)
(***************************************************************************)
ExclusiveLeases ==
    /\ \A l, m \in Leases :
           Holds(l) /\ Holds(m) /\ leaseValue[l] = leaseValue[m] => l = m
    /\ \A l \in Leases, k \in Keys :
           Holds(l) => leaseValue[l] \notin Elements(available[k])

(***************************************************************************)
(* However often release() is called and by however many threads, a        *)
(* workspace is on the idle lists at most once: a second entry would later  *)
(* be lent to two callers.                                                  *)
(***************************************************************************)
IdleOnce ==
    \A k, j \in Keys : \A i \in DOMAIN available[k], h \in DOMAIN available[j] :
        available[k][i] = available[j][h] => k = j /\ i = h

(***************************************************************************)
(* A workspace only ever serves the key it was allocated for: keys carry    *)
(* the buffer's size and type, so a cross-keyed one is the wrong buffer.    *)
(***************************************************************************)
KeyFidelity ==
    /\ \A k \in Keys : \A i \in DOMAIN available[k] :
           allocatedFor[available[k][i]] = k
    /\ \A l \in Leases : Holds(l) => allocatedFor[leaseValue[l]] = leaseKey[l]

(***************************************************************************)
(* Nothing allocated is lost: each workspace is idle, leased, or being      *)
(* given back by some thread.                                               *)
(***************************************************************************)
NoLeak ==
    \A w \in Workspaces : allocatedFor[w] # NoKey =>
        \/ w \in Held
        \/ \E k \in Keys : w \in Elements(available[k])

(***************************************************************************)
(* Every workspace ever allocated is in one place of its own key: on the    *)
(* idle list once, or with one lease, half-done releases included.          *)
(***************************************************************************)
Accounted == IdleOnce /\ KeyFidelity /\ NoLeak

(***************************************************************************)
(* The allocator runs only when every workspace of the key is out, so the   *)
(* number ever allocated is the largest number ever out at one time.        *)
(***************************************************************************)
AllocationsArePeakUse ==
    \A k \in Keys : Cardinality(AllocatedOf(k)) = peak[k]

=============================================================================
