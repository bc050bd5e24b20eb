------------------------------ MODULE OnceWork ------------------------------
(***************************************************************************)
(* What a Work promises its callers, with no threads and no locks: after    *)
(* the communication is ready its resources are given back one by one; then *)
(* one outcome is decided, for good; and that outcome is all that a wait()  *)
(* ever hands out.                                                          *)
(***************************************************************************)
CONSTANTS Works, Resources, Outcomes, Undecided

VARIABLES
    ready,      \* the communication of a work is complete
    held,       \* resources a work still owns
    outcome,    \* what the work ended with, or Undecided
    received    \* outcomes handed to callers of wait()

onceVars == <<ready, held, outcome, received>>

Init ==
    /\ ready = [w \in Works |-> FALSE]
    /\ held = [w \in Works |-> Resources]
    /\ outcome = [w \in Works |-> Undecided]
    /\ received = [w \in Works |-> {}]

BecomeReady(w) ==
    /\ ready' = [ready EXCEPT ![w] = TRUE]
    /\ UNCHANGED <<held, outcome, received>>

GiveBack(w, r) ==
    /\ ready[w]
    /\ outcome[w] = Undecided
    /\ r \in held[w]
    /\ held' = [held EXCEPT ![w] = @ \ {r}]
    /\ UNCHANGED <<ready, outcome, received>>

\* The caller that decides the outcome may be handed it in the same step.
Decide(w, o) ==
    /\ held[w] = {}
    /\ outcome[w] = Undecided
    /\ outcome' = [outcome EXCEPT ![w] = o]
    /\ \/ UNCHANGED received
       \/ received' = [received EXCEPT ![w] = @ \cup {o}]
    /\ UNCHANGED <<ready, held>>

Deliver(w) ==
    /\ outcome[w] # Undecided
    /\ received' = [received EXCEPT ![w] = @ \cup {outcome[w]}]
    /\ UNCHANGED <<ready, held, outcome>>

Next ==
    \E w \in Works :
        \/ BecomeReady(w)
        \/ \E r \in Resources : GiveBack(w, r)
        \/ \E o \in Outcomes : Decide(w, o)
        \/ Deliver(w)

Spec == Init /\ [][Next]_onceVars
=============================================================================
