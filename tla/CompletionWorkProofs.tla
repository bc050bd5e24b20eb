------------------------ MODULE CompletionWorkProofs ------------------------
(***************************************************************************)
(* CompletionWork for every number of threads, works and resources.         *)
(*                                                                          *)
(* What the properties need besides themselves: the RLock of a work has a   *)
(* holder exactly while one thread is in the completion block (Places), the *)
(* loop variable of that thread tells what has been released (Progress),    *)
(* no outcome is handed out before the work is finished (Delivered), and    *)
(* the attempts given up are the release() exceptions handed out (Reported). *)
(***************************************************************************)
EXTENDS CompletionWork, TLAPS

Freed(w) == {freed[w][i] : i \in DOMAIN freed[w]}

\* Who is where, and who holds which lock.
Places ==
    /\ \A t \in Threads : on[t] = NoWork <=> pc[t] = "idle"
    /\ \A t \in Threads, w \in Works :
           owner[w] = t <=> on[t] = w /\ pc[t] \in {"completing", "releasing"}
    /\ \A w \in Works : owner[w] # Nobody => ~finished[w]
    /\ \A t \in Threads : pc[t] = "completing" => cursor[t] = NumResources

\* Nobody is past the event, and nothing released, before it has fired.
AfterEvent ==
    /\ \A t \in Threads : pc[t] \in {"entering", "completing", "releasing"} =>
           event[on[t]] = "fired"
    /\ \A w \in Works : freed[w] # <<>> => event[w] = "fired"

\* A work that is open to a first, or a further, attempt has some left.
Attempts ==
    \A w \in Works :
        /\ owner[w] = Nobody /\ ~finished[w] =>
               /\ attempts[w] < MaxAttempts
               /\ w \notin FaultyWorks => attempts[w] = 0
        /\ w \notin FaultyWorks => attempts[w] <= 1

\* What has been released, by the position of the release loop.
Progress ==
    \A w \in Works :
        /\ finished[w] => Resources \subseteq Freed(w)
        /\ \A t \in Threads : owner[w] = t =>
               \A r \in Resources : r > cursor[t] => r \in Freed(w)

\* The same, release by release, for works whose resources do not raise.
Order ==
    \A w \in Works \ FaultyWorks :
        /\ \A i \in DOMAIN freed[w] : freed[w][i] = NumResources + 1 - i
        /\ owner[w] = Nobody =>
               Len(freed[w]) = IF finished[w] THEN NumResources ELSE 0
        /\ \A t \in Threads : owner[w] = t =>
               Len(freed[w]) = NumResources - cursor[t]

Delivered ==
    \A w \in Works :
        /\ received[w] \cap Outcomes =
               IF finished[w] THEN {Stored(w)} ELSE {}
        /\ polled[w] => finished[w]

\* How many attempts at completing a work a release() has ended.
GivenUp(w) == IF finished[w] \/ owner[w] # Nobody THEN attempts[w] - 1
                                                   ELSE attempts[w]

Reported ==
    \A w \in Works :
        /\ finished[w] \/ owner[w] # Nobody => attempts[w] > 0
        /\ \A i \in 1 .. MaxAttempts :
               Refusal(i) \in received[w] <=> i <= GivenUp(w)

IndInv ==
    /\ TypeOK
    /\ Places
    /\ AfterEvent
    /\ Attempts
    /\ Progress
    /\ Order
    /\ Delivered
    /\ Reported

\* Nothing has happened yet.
LEMMA InitIndInv == Init => IndInv
<1> SUFFICES ASSUME Init PROVE IndInv
  OBVIOUS
<1>1. TypeOK
  BY WorkAssumption DEF Init, TypeOK, Resources, Outcomes, Constructed
<1>2. Places /\ AfterEvent /\ Attempts
  BY WorkAssumption DEF Init, Places, AfterEvent, Attempts
<1>3. Progress /\ Order /\ Delivered
  BY WorkAssumption DEF Init, Progress, Order, Delivered
<1>4. Reported
  BY WorkAssumption DEF Init, Reported, GivenUp
<1> QED  BY <1>1, <1>2, <1>3, <1>4 DEF IndInv

\* A finished work hands out an outcome.
LEMMA StoredType ==
    ASSUME TypeOK, NEW w \in Works
    PROVE  Stored(w) \in Outcomes
BY DEF TypeOK, Stored

\* The exceptions of release() are told from outcomes and from one another.
LEMMA RefusalsApart ==
    /\ \A i : Refusal(i) \notin Outcomes
    /\ \A i, j : Refusal(i) = Refusal(j) => i = j
<1>1. \A i : Refusal(i).kind = "release" /\ Refusal(i).attempt = i
  BY DEF Refusal
<1>2. \A o \in Outcomes : o.kind \in {"value", "error"}
  BY DEF Outcomes
<1> QED  BY <1>1, <1>2

\* A thread inside wait() is there for a work.
LEMMA InsideOnWork ==
    ASSUME IndInv, NEW t \in Threads, pc[t] # "idle"
    PROVE  on[t] \in Works
BY DEF IndInv, TypeOK, Places

\* The event fires.
LEMMA FireEventIndInv ==
    ASSUME IndInv, NEW w \in Works, FireEvent(w)
    PROVE  IndInv'
<1> USE WorkAssumption DEF FireEvent, Goto, Leave, threadVars, storeVars
<1>1. TypeOK'
  BY DEF IndInv, TypeOK, Resources, Outcomes
<1>2. Places'
  BY DEF IndInv, Places, TypeOK
<1>3. AfterEvent'
  BY DEF IndInv, AfterEvent, TypeOK, Places
<1>4. Attempts'
  BY DEF IndInv, Attempts, TypeOK, Places
<1>5. Progress'
  BY DEF IndInv, Progress, Freed, Resources, TypeOK, Places
<1>6. Order'
  BY DEF IndInv, Order, Resources, TypeOK, Places
<1>7. Delivered'
  BY DEF IndInv, Delivered, Stored, TypeOK, Places
<1>r. Reported'
  BY DEF IndInv, Reported, GivenUp, TypeOK
<1> QED  BY <1>1, <1>2, <1>3, <1>4, <1>5, <1>6, <1>7, <1>r DEF IndInv

\* The handle of a collective fails.
LEMMA FailEventIndInv ==
    ASSUME IndInv, NEW w \in Works, FailEvent(w)
    PROVE  IndInv'
<1> USE WorkAssumption DEF FailEvent, Goto, Leave, threadVars, storeVars
<1>1. TypeOK'
  BY DEF IndInv, TypeOK, Resources, Outcomes
<1>2. Places'
  BY DEF IndInv, Places, TypeOK
<1>3. AfterEvent'
  BY DEF IndInv, AfterEvent, TypeOK, Places
<1>4. Attempts'
  BY DEF IndInv, Attempts, TypeOK, Places
<1>5. Progress'
  BY DEF IndInv, Progress, Freed, Resources, TypeOK, Places
<1>6. Order'
  BY DEF IndInv, Order, Resources, TypeOK, Places
<1>7. Delivered'
  BY DEF IndInv, Delivered, Stored, TypeOK, Places
<1>r. Reported'
  BY DEF IndInv, Reported, GivenUp, TypeOK
<1> QED  BY <1>1, <1>2, <1>3, <1>4, <1>5, <1>6, <1>7, <1>r DEF IndInv

\* A thread enters wait().
LEMMA CallWaitIndInv ==
    ASSUME IndInv, NEW t \in Threads, NEW w \in Works, CallWait(t, w)
    PROVE  IndInv'
<1> USE WorkAssumption DEF CallWait, Goto, Leave, threadVars, storeVars
<1>1. TypeOK'
  BY DEF IndInv, TypeOK, Resources, Outcomes
<1>2. Places'
  BY DEF IndInv, Places, TypeOK
<1>3. AfterEvent'
  BY DEF IndInv, AfterEvent, TypeOK, Places
<1>4. Attempts'
  BY DEF IndInv, Attempts, TypeOK, Places
<1>5. Progress'
  BY DEF IndInv, Progress, Freed, Resources, TypeOK, Places
<1>6. Order'
  BY DEF IndInv, Order, Resources, TypeOK, Places
<1>7. Delivered'
  BY DEF IndInv, Delivered, Stored, TypeOK, Places
<1>r. Reported'
  BY DEF IndInv, Reported, GivenUp, TypeOK
<1> QED  BY <1>1, <1>2, <1>3, <1>4, <1>5, <1>6, <1>7, <1>r DEF IndInv

\* A blocked thread sees the event.
LEMMA WakeUpIndInv ==
    ASSUME IndInv, NEW t \in Threads, WakeUp(t)
    PROVE  IndInv'
<1> USE WorkAssumption DEF WakeUp, Goto, Leave, threadVars, storeVars
<1>1. TypeOK'
  BY DEF IndInv, TypeOK, Resources, Outcomes
<1>2. Places'
  BY DEF IndInv, Places, TypeOK
<1>3. AfterEvent'
  BY DEF IndInv, AfterEvent, TypeOK, Places
<1>4. Attempts'
  BY DEF IndInv, Attempts, TypeOK, Places
<1>5. Progress'
  BY DEF IndInv, Progress, Freed, Resources, TypeOK, Places
<1>6. Order'
  BY DEF IndInv, Order, Resources, TypeOK, Places
<1>7. Delivered'
  BY DEF IndInv, Delivered, Stored, TypeOK, Places
<1>r. Reported'
  BY DEF IndInv, Reported, GivenUp, TypeOK
<1> QED  BY <1>1, <1>2, <1>3, <1>4, <1>5, <1>6, <1>7, <1>r DEF IndInv

\* A wait on the event times out: the work is as it was.
LEMMA TimeOutIndInv ==
    ASSUME IndInv, NEW t \in Threads, TimeOut(t)
    PROVE  IndInv'
<1> USE WorkAssumption DEF TimeOut, Goto, Leave, threadVars, storeVars
<1>1. TypeOK'
  BY DEF IndInv, TypeOK, Resources, Outcomes
<1>2. Places'
  BY DEF IndInv, Places, TypeOK
<1>3. AfterEvent'
  BY DEF IndInv, AfterEvent, TypeOK, Places
<1>4. Attempts'
  BY DEF IndInv, Attempts, TypeOK, Places
<1>8. \A u \in Threads, w \in Works : owner'[w] = u =>
          owner[w] = u /\ cursor'[u] = cursor[u]
  <2>1. \A w \in Works : owner[w] # t
    BY DEF IndInv, Places
  <2>2. owner' = owner /\ \A u \in Threads : u # t => cursor'[u] = cursor[u]
    BY DEF IndInv, TypeOK
  <2> QED  BY <2>1, <2>2
<1>5. Progress'
  BY <1>8 DEF IndInv, Progress, Freed
<1>6. Order'
  BY <1>8 DEF IndInv, Order
<1>7. Delivered'
  BY DEF IndInv, Delivered, Stored, TypeOK, Places
<1>r. Reported'
  BY DEF IndInv, Reported, GivenUp, TypeOK
<1> QED  BY <1>1, <1>2, <1>3, <1>4, <1>5, <1>6, <1>7, <1>r DEF IndInv

\* The handle's exception leaves wait(): the work is as it was.
LEMMA HandleRaisesIndInv ==
    ASSUME IndInv, NEW t \in Threads, HandleRaises(t)
    PROVE  IndInv'
<1> USE WorkAssumption DEF HandleRaises, Goto, Leave, threadVars, storeVars
<1>1. TypeOK'
  BY DEF IndInv, TypeOK, Resources, Outcomes
<1>2. Places'
  BY DEF IndInv, Places, TypeOK
<1>3. AfterEvent'
  BY DEF IndInv, AfterEvent, TypeOK, Places
<1>4. Attempts'
  BY DEF IndInv, Attempts, TypeOK, Places
<1>8. \A u \in Threads, w \in Works : owner'[w] = u =>
          owner[w] = u /\ cursor'[u] = cursor[u]
  <2>1. \A w \in Works : owner[w] # t
    BY DEF IndInv, Places
  <2>2. owner' = owner /\ \A u \in Threads : u # t => cursor'[u] = cursor[u]
    BY DEF IndInv, TypeOK
  <2> QED  BY <2>1, <2>2
<1>5. Progress'
  BY <1>8 DEF IndInv, Progress, Freed
<1>6. Order'
  BY <1>8 DEF IndInv, Order
<1>7. Delivered'
  BY DEF IndInv, Delivered, Stored, TypeOK, Places
<1>r. Reported'
  BY DEF IndInv, Reported, GivenUp, TypeOK
<1> QED  BY <1>1, <1>2, <1>3, <1>4, <1>5, <1>6, <1>7, <1>r DEF IndInv

\* A late waiter reads the stored outcome.
LEMMA ReadFinishedIndInv ==
    ASSUME IndInv, NEW t \in Threads, ReadFinished(t)
    PROVE  IndInv'
<1> USE WorkAssumption DEF ReadFinished, Goto, Leave, threadVars, storeVars
<1>8. on[t] \in Works /\ Stored(on[t]) \in Outcomes
  BY InsideOnWork, StoredType DEF IndInv
<1>1. TypeOK'
  BY <1>8 DEF IndInv, TypeOK
<1>2. Places'
  BY DEF IndInv, Places, TypeOK
<1>3. AfterEvent'
  BY DEF IndInv, AfterEvent, TypeOK, Places
<1>4. Attempts'
  BY DEF IndInv, Attempts, TypeOK, Places
<1>5. Progress'
  <2>1. /\ UNCHANGED <<freed, finished, owner>>
        /\ \A u \in Threads : u # t => cursor'[u] = cursor[u]
    BY DEF IndInv, TypeOK
  <2>2. \A w \in Works : owner[w] # t
    BY DEF IndInv, Places
  <2> HIDE DEF ReadFinished
  <2> QED  BY <2>1, <2>2 DEF IndInv, Progress, Freed
<1>6. Order'
  BY DEF IndInv, Order, Resources, TypeOK, Places
<1>7. Delivered'
  <2>1. \A w \in Works : Stored(w)' = Stored(w)
    BY DEF Stored
  <2>2. Stored(on[t]) \in received[on[t]]
    BY <1>8 DEF IndInv, TypeOK, Delivered
  <2>3. received' = received
    BY <1>8, <2>2 DEF IndInv, TypeOK
  <2> QED  BY <2>1, <2>3 DEF IndInv, Delivered
<1>r. Reported'
  <2>1. \A w \in Works, i \in 1 .. MaxAttempts :
            Refusal(i) \in received'[w] <=> Refusal(i) \in received[w]
    BY <1>8, RefusalsApart DEF IndInv, TypeOK
  <2>2. UNCHANGED <<finished, owner, attempts>>
    OBVIOUS
  <2> HIDE DEF ReadFinished
  <2> QED  BY <2>1, <2>2 DEF IndInv, Reported, GivenUp
<1> QED  BY <1>1, <1>2, <1>3, <1>4, <1>5, <1>6, <1>7, <1>r DEF IndInv

\* The first waiter enters the completion block.
LEMMA StartCompleteIndInv ==
    ASSUME IndInv, NEW t \in Threads, StartComplete(t)
    PROVE  IndInv'
<1> USE WorkAssumption DEF StartComplete, Goto, Leave, threadVars, storeVars
<1>8. on[t] \in Works /\ attempts[on[t]] + 1 \in 0 .. MaxAttempts
  BY InsideOnWork DEF IndInv, TypeOK, Attempts
<1>1. TypeOK'
  BY <1>8 DEF IndInv, TypeOK
<1>2. Places'
  BY DEF IndInv, Places, TypeOK
<1>3. AfterEvent'
  BY DEF IndInv, AfterEvent, TypeOK, Places
<1>4. Attempts'
  BY DEF IndInv, Attempts, TypeOK, Places
<1>5. Progress'
  BY DEF IndInv, Progress, Freed, Resources, TypeOK, Places
<1>6. Order'
  BY DEF IndInv, Order, Resources, TypeOK, Places
<1>7. Delivered'
  BY DEF IndInv, Delivered, Stored, TypeOK, Places
<1>r. Reported'
  BY DEF IndInv, Reported, GivenUp, TypeOK
<1> QED  BY <1>1, <1>2, <1>3, <1>4, <1>5, <1>6, <1>7, <1>r DEF IndInv

\* The callback returns.
LEMMA CompleteReturnsIndInv ==
    ASSUME IndInv, NEW t \in Threads, CompleteReturns(t)
    PROVE  IndInv'
<1> USE WorkAssumption DEF CompleteReturns, Goto, Leave, threadVars, storeVars
<1>1. TypeOK'
  BY DEF IndInv, TypeOK, Resources, Outcomes
<1>2. Places'
  BY DEF IndInv, Places, TypeOK
<1>3. AfterEvent'
  BY DEF IndInv, AfterEvent, TypeOK, Places
<1>4. Attempts'
  BY DEF IndInv, Attempts, TypeOK, Places
<1>5. Progress'
  BY DEF IndInv, Progress, Freed, Resources, TypeOK, Places
<1>6. Order'
  BY DEF IndInv, Order, Resources, TypeOK, Places
<1>7. Delivered'
  BY DEF IndInv, Delivered, Stored, TypeOK, Places
<1>r. Reported'
  BY DEF IndInv, Reported, GivenUp, TypeOK
<1> QED  BY <1>1, <1>2, <1>3, <1>4, <1>5, <1>6, <1>7, <1>r DEF IndInv

\* The callback raises.
LEMMA CompleteRaisesIndInv ==
    ASSUME IndInv, NEW t \in Threads, CompleteRaises(t)
    PROVE  IndInv'
<1> USE WorkAssumption DEF CompleteRaises, Goto, Leave, threadVars, storeVars
<1>1. TypeOK'
  BY DEF IndInv, TypeOK, Resources, Outcomes
<1>2. Places'
  BY DEF IndInv, Places, TypeOK
<1>3. AfterEvent'
  BY DEF IndInv, AfterEvent, TypeOK, Places
<1>4. Attempts'
  BY DEF IndInv, Attempts, TypeOK, Places
<1>5. Progress'
  BY DEF IndInv, Progress, Freed, Resources, TypeOK, Places
<1>6. Order'
  BY DEF IndInv, Order, Resources, TypeOK, Places
<1>7. Delivered'
  BY DEF IndInv, Delivered, Stored, TypeOK, Places
<1>r. Reported'
  BY DEF IndInv, Reported, GivenUp, TypeOK
<1> QED  BY <1>1, <1>2, <1>3, <1>4, <1>5, <1>6, <1>7, <1>r DEF IndInv

\* One turn of the release loop.
LEMMA ReleaseNextIndInv ==
    ASSUME IndInv, NEW t \in Threads, ReleaseNext(t)
    PROVE  IndInv'
<1> USE WorkAssumption DEF ReleaseNext, Goto, Leave, threadVars, storeVars
<1>0. PICK v \in Works : v = on[t]
  BY InsideOnWork
<1> DEFINE s == freed[v]
<1>8. /\ owner[v] = t
      /\ cursor[t] \in Resources /\ s \in Seq(Resources)
      /\ \A u \in Threads, w \in Works :
             owner[w] = u => (w = v <=> u = t)
  BY <1>0 DEF IndInv, TypeOK, Places, Resources
<1>9. LET p == Append(s, cursor[t])
      IN  /\ p \in Seq(Resources)
          /\ Len(s) \in Nat /\ Len(p) = Len(s) + 1
          /\ DOMAIN s = 1 .. Len(s) /\ DOMAIN p = 1 .. Len(s) + 1
          /\ \A i \in DOMAIN s : p[i] = s[i]
          /\ p[Len(s) + 1] = cursor[t]
  BY <1>8
<1>10. /\ freed'[v] = Append(s, cursor[t])
       /\ \A w \in Works : w # v => freed'[w] = freed[w]
       /\ cursor'[t] = cursor[t] - 1
       /\ \A u \in Threads : u # t => cursor'[u] = cursor[u]
  BY <1>0, <1>8 DEF IndInv, TypeOK
<1>1. TypeOK'
  BY <1>0, <1>8, <1>9 DEF IndInv, TypeOK, Resources
<1> HIDE DEF s
<1>2. Places'
  BY DEF IndInv, Places, TypeOK
<1>3. AfterEvent'
  BY DEF IndInv, AfterEvent, TypeOK, Places
<1>4. Attempts'
  BY DEF IndInv, Attempts, TypeOK, Places
<1>5. Progress'
  <2> SUFFICES ASSUME NEW w \in Works
               PROVE  /\ finished[w] => Resources \subseteq Freed(w)'
                      /\ \A u \in Threads : owner[w] = u =>
                             \A r \in Resources :
                                 r > cursor'[u] => r \in Freed(w)'
    BY DEF Progress
  <2>1. CASE w # v
    <3>1. Freed(w)' = Freed(w)
      BY <1>10, <2>1 DEF Freed
    <3> QED  BY <1>8, <1>10, <2>1, <3>1 DEF IndInv, Progress
  <2>2. CASE w = v
    <3>1. ~finished[v]
      BY <1>8 DEF IndInv, Places
    <3>2. Freed(v) \subseteq Freed(v)' /\ cursor[t] \in Freed(v)'
      <4>1. DOMAIN freed'[v] = 1 .. Len(s) + 1
        BY <1>9, <1>10
      <4> HIDE DEF ReleaseNext
      <4> QED  BY <1>9, <1>10, <4>1 DEF Freed, s
    <3>3. \A r \in Resources :
              r > cursor'[t] => r > cursor[t] \/ r = cursor[t]
      BY <1>8, <1>10 DEF Resources
    <3> QED  BY <1>8, <2>2, <3>1, <3>2, <3>3 DEF IndInv, Progress
  <2> QED  BY <2>1, <2>2
<1>6. Order'
  <2>1. ASSUME v \notin FaultyWorks
        PROVE  /\ \A i \in DOMAIN freed'[v] :
                      freed'[v][i] = NumResources + 1 - i
               /\ Len(freed'[v]) = NumResources - cursor'[t]
    <3>1. /\ Len(s) = NumResources - cursor[t] /\ cursor[t] \in Nat
          /\ \A i \in DOMAIN s : s[i] = NumResources + 1 - i
      <4>1. v \in Works \ FaultyWorks /\ owner[v] = t /\ t \in Threads /\ s = freed[v]
        BY <1>8, <2>1 DEF s
      <4>2. /\ Len(freed[v]) = NumResources - cursor[t]
            /\ \A i \in DOMAIN freed[v] : freed[v][i] = NumResources + 1 - i
        <5> HIDE DEF ReleaseNext
        <5> QED  BY <4>1 DEF IndInv, Order
      <4>3. cursor[t] \in Nat
        BY <1>8 DEF Resources
      <4> QED  BY <4>1, <4>2, <4>3
    <3> HIDE DEF ReleaseNext
    <3>2. PICK m \in Nat : m = Len(s)
      BY <1>9
    <3> DEFINE p == freed'[v]
    <3>3. /\ Len(p) = m + 1 /\ DOMAIN s = 1 .. m /\ DOMAIN p = 1 .. m + 1
          /\ (\A i \in 1 .. m : p[i] = s[i]) /\ p[m + 1] = cursor[t]
      BY <1>9, <1>10, <3>2
    <3>4. PICK c \in Nat : c = cursor[t] /\ m = NumResources - c
      BY <3>1, <3>2
    <3> HIDE DEF p
    <3>5. cursor'[t] = cursor[t] - 1 /\ NumResources \in Nat
      BY <1>10
    <3>6. ASSUME NEW i \in 1 .. m + 1 PROVE p[i] = NumResources + 1 - i
      <4>1. CASE i \in 1 .. m
        BY <3>1, <3>3, <4>1
      <4>2. CASE i = m + 1
        <5>1. NumResources + 1 - i = c
          BY <3>4, <3>5, <4>2
        <5>2. p[i] = c
          BY <3>3, <3>4, <4>2
        <5> QED  BY <5>1, <5>2
      <4> QED  BY <3>2, <4>1, <4>2
    <3>7. Len(p) = NumResources - cursor'[t]
      BY <3>3, <3>4, <3>5
    <3> QED  BY <3>3, <3>6, <3>7 DEF p
  <2>2. owner' = owner /\ finished' = finished
    OBVIOUS
  <2> HIDE DEF ReleaseNext
  <2> SUFFICES ASSUME NEW w \in Works \ FaultyWorks
               PROVE  /\ \A i \in DOMAIN freed'[w] :
                             freed'[w][i] = NumResources + 1 - i
                      /\ owner[w] = Nobody => Len(freed'[w]) =
                             IF finished[w] THEN NumResources ELSE 0
                      /\ \A u \in Threads : owner[w] = u =>
                             Len(freed'[w]) = NumResources - cursor'[u]
    BY <2>2 DEF Order
  <2>3. CASE w = v
    BY <1>8, <2>1, <2>3
  <2>4. CASE w # v
    BY <1>8, <1>10, <2>4 DEF IndInv, Order
  <2> QED  BY <2>3, <2>4
<1>7. Delivered'
  BY DEF IndInv, Delivered, Stored, TypeOK, Places
<1>r. Reported'
  BY DEF IndInv, Reported, GivenUp, TypeOK
<1> QED  BY <1>1, <1>2, <1>3, <1>4, <1>5, <1>6, <1>7, <1>r DEF IndInv

\* A release() raises: the work is open to a further attempt.
LEMMA ReleaseRaisesIndInv ==
    ASSUME IndInv, NEW t \in Threads, ReleaseRaises(t)
    PROVE  IndInv'
<1> USE WorkAssumption DEF ReleaseRaises, Goto, Leave, threadVars, storeVars
<1>0. PICK v \in Works : v = on[t]
  BY InsideOnWork
<1>8. /\ owner[v] = t /\ t # Nobody /\ ~finished[v]
      /\ attempts[v] \in 1 .. MaxAttempts
      /\ Refusal(attempts[v]) \in Refusals
  <2>1. owner[v] = t /\ t # Nobody /\ ~finished[v]
    BY <1>0 DEF IndInv, Places
  <2>2. attempts[v] \in 1 .. MaxAttempts
    BY <2>1 DEF IndInv, TypeOK, Reported
  <2> QED  BY <2>1, <2>2 DEF Refusals
<1>9. /\ received'[v] = received[v] \cup {Refusal(attempts[v])}
      /\ owner'[v] = Nobody
      /\ \A w \in Works : w # v => /\ received'[w] = received[w]
                                   /\ owner'[w] = owner[w]
      /\ UNCHANGED <<event, result, error, finished, attempts, freed, polled>>
  BY <1>0 DEF IndInv, TypeOK
<1>1. TypeOK'
  BY <1>0, <1>8 DEF IndInv, TypeOK, Resources
<1>2. Places'
  BY DEF IndInv, Places, TypeOK
<1>3. AfterEvent'
  BY DEF IndInv, AfterEvent, TypeOK, Places
<1>4. Attempts'
  BY DEF IndInv, Attempts, TypeOK, Places
<1>5. Progress'
  BY DEF IndInv, Progress, Freed, Resources, TypeOK, Places
<1>6. Order'
  BY DEF IndInv, Order, Resources, TypeOK, Places
<1> HIDE DEF ReleaseRaises
<1>7. Delivered'
  <2>1. \A w \in Works : received'[w] \cap Outcomes = received[w] \cap Outcomes
    BY <1>9, RefusalsApart
  <2>2. \A w \in Works : Stored(w)' = Stored(w)
    BY <1>9 DEF Stored
  <2> QED  BY <1>9, <2>1, <2>2 DEF IndInv, Delivered
<1>r. Reported'
  <2> SUFFICES ASSUME NEW w \in Works
               PROVE  /\ finished[w] \/ owner'[w] # Nobody => attempts[w] > 0
                      /\ \A i \in 1 .. MaxAttempts :
                             Refusal(i) \in received'[w] <=> i <= GivenUp(w)'
    BY <1>9 DEF Reported
  <2>1. CASE w # v
    BY <1>9, <2>1 DEF IndInv, Reported, GivenUp
  <2>2. CASE w = v
    <3>1. GivenUp(v) = attempts[v] - 1 /\ GivenUp(v)' = attempts[v]
      BY <1>8, <1>9 DEF GivenUp
    <3>2. ASSUME NEW i \in 1 .. MaxAttempts
          PROVE  Refusal(i) \in received'[v] <=> i <= attempts[v]
      <4>1. Refusal(i) \in received'[v] <=>
                Refusal(i) \in received[v] \/ i = attempts[v]
        BY <1>9, RefusalsApart
      <4>2. Refusal(i) \in received[v] <=> i <= attempts[v] - 1
        BY <3>1 DEF IndInv, Reported
      <4> QED  BY <1>8, <4>1, <4>2
    <3> QED  BY <1>8, <1>9, <2>2, <3>1, <3>2
  <2> QED  BY <2>1, <2>2
<1> QED  BY <1>1, <1>2, <1>3, <1>4, <1>5, <1>6, <1>7, <1>r DEF IndInv

\* The completion block ends: the work is finished.
LEMMA FinishIndInv ==
    ASSUME IndInv, NEW t \in Threads, Finish(t)
    PROVE  IndInv'
<1> USE WorkAssumption DEF Finish, Goto, Leave, threadVars, storeVars
<1>0. PICK v \in Works : v = on[t]
  BY InsideOnWork
<1>8. /\ owner[v] = t /\ Stored(v) \in Outcomes
      /\ \A u \in Threads, w \in Works :
             owner'[w] = u => owner[w] = u /\ u # t
  BY <1>0, StoredType DEF IndInv, TypeOK, Places
<1>1. TypeOK'
  BY <1>0, <1>8 DEF IndInv, TypeOK
<1>2. Places'
  BY DEF IndInv, Places, TypeOK
<1>3. AfterEvent'
  BY DEF IndInv, AfterEvent, TypeOK, Places
<1>4. Attempts'
  BY DEF IndInv, Attempts, TypeOK, Places
<1>5. Progress'
  <2>1. \A w \in Works : Freed(w)' = Freed(w)
    BY DEF Freed
  <2>2. Resources \subseteq Freed(v)
    BY <1>0, <1>8 DEF IndInv, Progress, Resources
  <2>3. \A u \in Threads : u # t => cursor'[u] = cursor[u]
    BY DEF IndInv, TypeOK
  <2>4. \A w \in Works : w # v => finished'[w] = finished[w]
    BY <1>0 DEF IndInv, TypeOK
  <2> QED  BY <1>8, <2>1, <2>2, <2>3, <2>4 DEF IndInv, Progress
<1>6. Order'
  BY DEF IndInv, Order, Resources, TypeOK, Places
<1>7. Delivered'
  <2>1. \A w \in Works : Stored(w)' = Stored(w)
    BY DEF Stored
  <2>2. received[v] \cap Outcomes = {}
    <3>1. ~finished[v]
      BY <1>8 DEF IndInv, Places
    <3> QED  BY <1>8, <3>1 DEF IndInv, Delivered
  <2>3. /\ received'[v] = received[v] \cup {Stored(v)} /\ finished'[v]
        /\ \A w \in Works : w # v => /\ received'[w] = received[w]
                                     /\ finished'[w] = finished[w]
    BY <1>0, <1>8, <2>2 DEF IndInv, TypeOK
  <2>4. polled' = polled
    OBVIOUS
  <2> HIDE DEF Finish
  <2> SUFFICES ASSUME NEW w \in Works
               PROVE  /\ received'[w] \cap Outcomes =
                             IF finished'[w] THEN {Stored(w)'} ELSE {}
                      /\ polled'[w] => finished'[w]
    BY DEF Delivered
  <2>5. CASE w = v
    <3>1. received'[v] \cap Outcomes = {Stored(v)}
      BY <1>8, <2>2, <2>3
    <3> QED  BY <2>1, <2>3, <2>5, <3>1
  <2>6. CASE w # v
    BY <2>1, <2>3, <2>4, <2>6 DEF IndInv, Delivered
  <2> QED  BY <2>5, <2>6
<1>r. Reported'
  <2>1. /\ \A w \in Works, i \in 1 .. MaxAttempts :
                Refusal(i) \in received'[w] <=> Refusal(i) \in received[w]
        /\ attempts' = attempts
    BY <1>0, <1>8, RefusalsApart DEF IndInv, TypeOK
  <2>2. /\ finished'[v] /\ owner[v] # Nobody
        /\ \A w \in Works : w # v => /\ finished'[w] = finished[w]
                                     /\ owner'[w] = owner[w]
    BY <1>0, <1>8 DEF IndInv, TypeOK
  <2> HIDE DEF Finish
  <2>3. \A w \in Works : GivenUp(w)' = GivenUp(w)
    BY <2>1, <2>2 DEF GivenUp
  <2> QED  BY <2>1, <2>2, <2>3 DEF IndInv, Reported
<1> QED  BY <1>1, <1>2, <1>3, <1>4, <1>5, <1>6, <1>7, <1>r DEF IndInv

\* query() reads the flag under the lock.
LEMMA QueryIndInv ==
    ASSUME IndInv, NEW t \in Threads, NEW w \in Works, Query(t, w)
    PROVE  IndInv'
<1> USE WorkAssumption DEF Query, Goto, Leave, threadVars, storeVars
<1>1. TypeOK'
  BY DEF IndInv, TypeOK, Resources, Outcomes
<1>2. Places'
  BY DEF IndInv, Places, TypeOK
<1>3. AfterEvent'
  BY DEF IndInv, AfterEvent, TypeOK, Places
<1>4. Attempts'
  BY DEF IndInv, Attempts, TypeOK, Places
<1>5. Progress'
  BY DEF IndInv, Progress, Freed, Resources, TypeOK, Places
<1>6. Order'
  BY DEF IndInv, Order, Resources, TypeOK, Places
<1>7. Delivered'
  BY DEF IndInv, Delivered, Stored, TypeOK, Places
<1>r. Reported'
  BY DEF IndInv, Reported, GivenUp, TypeOK
<1> QED  BY <1>1, <1>2, <1>3, <1>4, <1>5, <1>6, <1>7, <1>r DEF IndInv

\* Every step of every thread keeps the invariant.
LEMMA NextIndInv == IndInv /\ [Next]_vars => IndInv'
<1> SUFFICES ASSUME IndInv, [Next]_vars PROVE IndInv'
  OBVIOUS
<1>1. CASE UNCHANGED vars
  BY <1>1 DEF vars, threadVars, storeVars, IndInv, TypeOK, Places, AfterEvent,
              Attempts, Progress, Freed, Order, Delivered, Stored, Reported,
              GivenUp
<1>2. CASE Next
  BY <1>2, FireEventIndInv, FailEventIndInv, CallWaitIndInv, WakeUpIndInv,
     TimeOutIndInv, HandleRaisesIndInv, ReadFinishedIndInv,
     StartCompleteIndInv, CompleteReturnsIndInv, CompleteRaisesIndInv,
     ReleaseNextIndInv, ReleaseRaisesIndInv, FinishIndInv, QueryIndInv
  DEF Next, Step
<1> QED  BY <1>1, <1>2

\* The invariant always holds.
LEMMA AlwaysIndInv == Spec => []IndInv
BY InitIndInv, NextIndInv, PTL DEF Spec

(***************************************************************************)
(* For every number of threads, works and resources: the variables keep     *)
(* their types, and the completion of a work whose resources release        *)
(* without raising is entered at most once, callback included.              *)
(***************************************************************************)
THEOREM WorkCompletesOnce == Spec => [](TypeOK /\ CompleteOnce)
<1>1. IndInv => TypeOK /\ CompleteOnce
  BY DEF IndInv, Attempts, CompleteOnce
<1> QED  BY AlwaysIndInv, <1>1, PTL

(***************************************************************************)
(* `for resource in reversed(self._resources)`: whatever the interleaving   *)
(* of waiters, every resource is released once, last acquired first, after  *)
(* the event and never under a running callback.                            *)
(***************************************************************************)
THEOREM WorkReleasesInOrder == Spec => []OrderlyRelease
<1>1. ASSUME IndInv PROVE OrderlyRelease
  <2> SUFFICES ASSUME NEW w \in Works \ FaultyWorks
               PROVE  /\ Len(freed[w]) <= NumResources
                      /\ \A i \in DOMAIN freed[w] :
                             freed[w][i] = NumResources + 1 - i
                      /\ freed[w] # <<>> => event[w] = "fired"
                      /\ freed[w] # <<>> => \A t \in Threads :
                             ~(pc[t] = "completing" /\ on[t] = w)
                      /\ finished[w] => Len(freed[w]) = NumResources
    BY DEF OrderlyRelease
  <2>1. \/ owner[w] = Nobody /\ Len(freed[w]) =
                 IF finished[w] THEN NumResources ELSE 0
        \/ \E t \in Threads : /\ owner[w] = t /\ ~finished[w]
                               /\ Len(freed[w]) = NumResources - cursor[t]
    BY <1>1, WorkAssumption DEF IndInv, TypeOK, Order, Places
  <2>2. Len(freed[w]) <= NumResources
    BY <1>1, <2>1, WorkAssumption DEF IndInv, TypeOK
  <2>3. ASSUME NEW t \in Threads, pc[t] = "completing", on[t] = w
        PROVE  freed[w] = <<>>
    <3>1. owner[w] = t /\ cursor[t] = NumResources
      BY <1>1, <2>3 DEF IndInv, Places
    <3>2. Len(freed[w]) = 0
      BY <1>1, <3>1, WorkAssumption DEF IndInv, Order
    <3> QED  BY <1>1, <3>2 DEF IndInv, TypeOK
  <2>4. finished[w] => Len(freed[w]) = NumResources
    BY <2>1
  <2> QED  BY <1>1, <2>2, <2>3, <2>4 DEF IndInv, AfterEvent, Order
<1> QED  BY AlwaysIndInv, <1>1, PTL

(***************************************************************************)
(* A True from query() is final, for faulty resources too: everything has   *)
(* been released, nobody is in the completion block, and there is one       *)
(* outcome, the stored one, that callers will be given; the exception of a  *)
(* release() that raised before is all they can have been given besides.    *)
(***************************************************************************)
THEOREM QueryIsFinal == Spec => []QueryMeansDone
<1>1. ASSUME IndInv, NEW w \in Works, polled[w]
      PROVE  /\ Freed(w) = Resources
             /\ \A t \in Threads :
                    ~(on[t] = w /\ pc[t] \in {"completing", "releasing"})
             /\ received[w] \cap Outcomes = {Stored(w)}
  <2>1. finished[w] /\ received[w] \cap Outcomes = {Stored(w)}
    BY <1>1 DEF IndInv, Delivered
  <2>2. Resources \subseteq Freed(w)
    BY <1>1, <2>1 DEF IndInv, Progress
  <2>3. Freed(w) \subseteq Resources
    BY <1>1 DEF IndInv, TypeOK, Freed
  <2>4. \A t \in Threads : owner[w] # t
    BY <1>1, <2>1, WorkAssumption DEF IndInv, Places
  <2>5. Freed(w) = Resources
    BY <2>2, <2>3
  <2> QED  BY <1>1, <2>1, <2>4, <2>5 DEF IndInv, Places
<1>2. IndInv => QueryMeansDone
  BY <1>1 DEF QueryMeansDone, Freed
<1> QED  BY AlwaysIndInv, <1>2, PTL

(***************************************************************************)
(* However often the release() of a resource raises and whoever tries       *)
(* again: each attempt given up is one exception that a caller of wait()    *)
(* was given, and the outcome handed out is one, and that of a work all     *)
(* whose resources are back.                                                *)
(***************************************************************************)
THEOREM RetriesAreReported == Spec => []RetriesReported
<1>1. ASSUME IndInv, NEW w \in Works
      PROVE  /\ \A i \in 1 .. attempts[w] - 1 : Refusal(i) \in received[w]
             /\ finished[w] => Refusal(attempts[w]) \notin received[w]
             /\ received[w] \cap Outcomes =
                    IF finished[w] THEN {Stored(w)} ELSE {}
  <2>1. attempts[w] \in 0 .. MaxAttempts /\ MaxAttempts \in Nat
    BY <1>1, WorkAssumption DEF IndInv, TypeOK
  <2>2. \A i \in 1 .. MaxAttempts :
            Refusal(i) \in received[w] <=> i <= GivenUp(w)
    BY <1>1 DEF IndInv, Reported
  <2>3. \A i \in 1 .. attempts[w] - 1 : Refusal(i) \in received[w]
    BY <2>1, <2>2 DEF GivenUp
  <2>4. finished[w] => Refusal(attempts[w]) \notin received[w]
    BY <1>1, <2>1, <2>2 DEF GivenUp, IndInv, Reported
  <2> QED  BY <1>1, <2>3, <2>4 DEF IndInv, Delivered
<1>2. IndInv => RetriesReported
  BY <1>1 DEF RetriesReported
<1> QED  BY AlwaysIndInv, <1>2, PTL
----------------------------------------------------------------------------
\* An outcome is not the mark of an undecided work.
LEMMA DecidedOutcome ==
    ASSUME IndInv, NEW w \in Works
    PROVE  Stored(w) \in Outcomes /\ Stored(w) # Undecided
<1>1. Stored(w) \in Outcomes
  BY StoredType DEF IndInv
<1>2. Stored(w).kind \in {"value", "error"}
  BY <1>1 DEF Outcomes
<1>3. Undecided.kind = "undecided"
  BY DEF Undecided
<1> QED  BY <1>1, <1>2, <1>3

\* What OnceWork sees of the works whose resources release without raising.
Ready == [w \in Reliable |-> event[w] = "fired"]
Held == [w \in Reliable |-> Resources \ {freed[w][i] : i \in DOMAIN freed[w]}]
Outcome == [w \in Reliable |-> IF finished[w] THEN Stored(w) ELSE Undecided]
Given == [w \in Reliable |-> received[w]]

\* A work that somebody is completing has no outcome yet.
LEMMA OpenOutcome ==
    ASSUME IndInv, NEW t \in Threads, pc[t] \in {"completing", "releasing"}
    PROVE  /\ on[t] \in Works /\ owner[on[t]] = t
           /\ ~finished[on[t]] /\ event[on[t]] = "fired"
BY InsideOnWork, WorkAssumption DEF IndInv, Places, AfterEvent

\* The event fires: BecomeReady, if OnceWork is about this work.
LEMMA FireEventOnce ==
    ASSUME IndInv, NEW w \in Works, FireEvent(w)
    PROVE  Once!Next \/ UNCHANGED Once!onceVars
<1>0. Reliable \subseteq Works
  BY DEF Reliable
<1>5. /\ event'[w] = "fired"
      /\ \A v \in Works : v # w => event'[v] = event[v]
  BY DEF FireEvent, IndInv, TypeOK
<1>2. Held' = Held /\ Outcome' = Outcome /\ Given' = Given
  BY DEF FireEvent, storeVars, Held, Outcome, Stored, Given
<1>6. CASE w \in Reliable
  <2>1. Ready' = [Ready EXCEPT ![w] = TRUE]
    BY <1>0, <1>5, <1>6, Zenon DEF Ready
  <2>2. Once!BecomeReady(w)
    BY <1>2, <2>1, Zenon DEF Once!BecomeReady, Ready, Held, Outcome, Given
  <2> QED  BY <1>6, <2>2 DEF Once!Next
<1>7. CASE w \notin Reliable
  <2>1. Ready' = Ready
    BY <1>0, <1>5, <1>7, Zenon DEF Ready
  <2> QED  BY <1>2, <2>1, Zenon
           DEF Once!onceVars, Ready, Held, Outcome, Given
<1> QED  BY <1>6, <1>7

\* A release() gives a resource of a work back.
LEMMA ReleaseNextOnce ==
    ASSUME IndInv, NEW t \in Threads, ReleaseNext(t)
    PROVE  Once!Next \/ UNCHANGED Once!onceVars
<1>0. PICK v \in Works : v = on[t] /\ ~finished[v] /\ event[v] = "fired"
  BY OpenOutcome DEF ReleaseNext
<1>r. PICK r \in Resources : r = cursor[t]
  BY DEF ReleaseNext, IndInv, TypeOK, Resources
<1>w. Reliable \subseteq Works
  BY DEF Reliable
<1>1. /\ freed[v] \in Seq(Resources)
      /\ freed'[v] = Append(freed[v], r)
      /\ \A w \in Works : w # v => freed'[w] = freed[w]
  BY <1>0, <1>r DEF ReleaseNext, IndInv, TypeOK, Resources
<1>2. Ready' = Ready /\ Outcome' = Outcome /\ Given' = Given
  BY DEF ReleaseNext, storeVars, Ready, Outcome, Stored, Given
<1>3. /\ Freed(v)' = Freed(v) \cup {r}
      /\ \A w \in Works : w # v => Freed(w)' = Freed(w)
  <2>1. /\ DOMAIN freed[v] = 1 .. Len(freed[v]) /\ Len(freed[v]) \in Nat
        /\ DOMAIN freed'[v] = 1 .. Len(freed[v]) + 1
        /\ \A i \in 1 .. Len(freed[v]) : freed'[v][i] = freed[v][i]
        /\ freed'[v][Len(freed[v]) + 1] = r
    BY <1>1
  <2>2. Freed(v)' = Freed(v) \cup {r}
    BY <2>1 DEF Freed
  <2>3. \A w \in Works : w # v => Freed(w)' = Freed(w)
    BY <1>1 DEF Freed
  <2> QED  BY <2>2, <2>3
<1>4. /\ Held = [w \in Reliable |-> Resources \ Freed(w)]
      /\ Held' = [w \in Reliable |-> Resources \ Freed(w)']
  BY DEF Held, Freed
<1>5. CASE v \in Reliable /\ r \in Held[v]
  <2>1. Ready[v] /\ Outcome[v] = Undecided
    BY <1>0, <1>5, Zenon DEF Ready, Outcome
  <2>2. Resources \ Freed(v)' = (Resources \ Freed(v)) \ {r}
    BY <1>3
  <2>3. Held' = [Held EXCEPT ![v] = @ \ {r}]
    BY <1>w, <1>3, <1>4, <1>5, <2>2
  <2>4. Once!GiveBack(v, r)
    BY <1>2, <1>5, <2>1, <2>3, Zenon
    DEF Once!GiveBack, Ready, Held, Outcome, Given
  <2> QED  BY <1>5, <2>4 DEF Once!Next
<1>6. CASE ~(v \in Reliable /\ r \in Held[v])
  <2>1. \A w \in Reliable : Resources \ Freed(w)' = Resources \ Freed(w)
    BY <1>w, <1>3, <1>4, <1>6
  <2>2. Held' = Held
    BY <1>4, <2>1
  <2> QED  BY <1>2, <2>2, Zenon
           DEF Once!onceVars, Ready, Held, Outcome, Given
<1> QED  BY <1>5, <1>6

\* The end of the completion block decides the outcome and hands it out.
LEMMA FinishOnce ==
    ASSUME IndInv, NEW t \in Threads, Finish(t)
    PROVE  Once!Next \/ UNCHANGED Once!onceVars
<1>0. PICK v \in Works : v = on[t] /\ ~finished[v] /\ owner[v] = t
  BY OpenOutcome DEF Finish
<1>o. PICK o \in Outcomes : o = Stored(v)
  BY DecidedOutcome
<1>w. Reliable \subseteq Works
  BY DEF Reliable
<1>1. \A w \in Works : Stored(w)' = Stored(w)
  BY DEF Finish, Stored
<1>2. Ready' = Ready /\ Held' = Held
  BY DEF Finish, Ready, Held
<1>3. /\ finished'[v] /\ received'[v] = received[v] \cup {o}
      /\ \A w \in Works : w # v => /\ finished'[w] = finished[w]
                                   /\ received'[w] = received[w]
  BY <1>0, <1>o DEF Finish, IndInv, TypeOK
<1>4. CASE v \in Reliable
  <2>1. Held[v] = {}
    <3>1. \A r \in Resources : r > cursor[t]
      BY DEF Finish, Resources
    <3>2. Resources \subseteq Freed(v)
      BY <1>0, <3>1 DEF IndInv, Progress
    <3> QED  BY <1>4, <3>2 DEF Held, Freed
  <2>2. Outcome' = [Outcome EXCEPT ![v] = o]
    BY <1>w, <1>o, <1>1, <1>3, <1>4, Zenon DEF Outcome
  <2>3. Given' = [Given EXCEPT ![v] = @ \cup {o}]
    BY <1>w, <1>3, <1>4 DEF Given
  <2>4. Outcome[v] = Undecided
    BY <1>0, <1>4, Zenon DEF Outcome
  <2>5. Once!Decide(v, o)
    BY <1>2, <2>1, <2>2, <2>3, <2>4, Zenon
    DEF Once!Decide, Ready, Held, Outcome, Given
  <2> QED  BY <1>4, <2>5 DEF Once!Next
<1>5. CASE v \notin Reliable
  <2>1. Outcome' = Outcome
    BY <1>w, <1>1, <1>3, <1>5, Zenon DEF Outcome
  <2>2. Given' = Given
    BY <1>w, <1>3, <1>5 DEF Given
  <2> QED  BY <1>2, <2>1, <2>2, Zenon
           DEF Once!onceVars, Ready, Held, Outcome, Given
<1> QED  BY <1>4, <1>5

\* A late waiter is delivered the outcome.
LEMMA ReadFinishedOnce ==
    ASSUME IndInv, NEW t \in Threads, ReadFinished(t)
    PROVE  Once!Next \/ UNCHANGED Once!onceVars
<1>0. PICK v \in Works : v = on[t] /\ finished[v]
  BY InsideOnWork DEF ReadFinished
<1>w. Reliable \subseteq Works
  BY DEF Reliable
<1>1. Ready' = Ready /\ Held' = Held /\ Outcome' = Outcome
  BY DEF ReadFinished, storeVars, Ready, Held, Outcome, Stored
<1>2. /\ received'[v] = received[v] \cup {Stored(v)}
      /\ \A w \in Works : w # v => received'[w] = received[w]
  BY <1>0 DEF ReadFinished, IndInv, TypeOK
<1>3. CASE v \in Reliable
  <2>1. Outcome[v] = Stored(v) /\ Outcome[v] # Undecided
    BY <1>0, <1>3, DecidedOutcome, Zenon DEF Outcome
  <2>2. Given' = [Given EXCEPT ![v] = @ \cup {Outcome[v]}]
    BY <1>w, <1>2, <1>3, <2>1 DEF Given
  <2>3. Once!Deliver(v)
    BY <1>1, <2>1, <2>2, Zenon DEF Once!Deliver, Ready, Held, Outcome, Given
  <2> QED  BY <1>3, <2>3 DEF Once!Next
<1>4. CASE v \notin Reliable
  <2>1. Given' = Given
    BY <1>w, <1>2, <1>4 DEF Given
  <2> QED  BY <1>1, <2>1, Zenon
           DEF Once!onceVars, Ready, Held, Outcome, Given
<1> QED  BY <1>3, <1>4

\* A release() that raises is not one of a work OnceWork is about.
LEMMA ReleaseRaisesOnce ==
    ASSUME IndInv, NEW t \in Threads, ReleaseRaises(t)
    PROVE  Given' = Given
<1>1. on[t] \notin Reliable
  BY DEF ReleaseRaises, Reliable
<1>2. \A w \in Reliable : received'[w] = received[w]
  BY <1>1 DEF ReleaseRaises, Reliable, IndInv, TypeOK
<1> QED  BY <1>2, Zenon DEF Given

\* All other steps are invisible to OnceWork.
LEMMA InvisibleOnce ==
    ASSUME IndInv, [Next]_vars,
           \A w \in Works : ~FireEvent(w),
           \A t \in Threads :
               ~ReleaseNext(t) /\ ~Finish(t) /\ ~ReadFinished(t)
    PROVE  UNCHANGED Once!onceVars
<1>w. Reliable \subseteq Works
  BY DEF Reliable
<1>1. freed' = freed /\ finished' = finished
  BY DEF Next, Step, vars, storeVars, threadVars, FailEvent, CallWait, WakeUp,
         TimeOut, HandleRaises, StartComplete, CompleteReturns,
         CompleteRaises, ReleaseRaises, Query
<1>7. Given' = Given
  <2>1. (\E t \in Threads : ReleaseRaises(t)) \/ received' = received
    BY DEF Next, Step, vars, storeVars, threadVars, FailEvent, CallWait,
           WakeUp, TimeOut, HandleRaises, StartComplete, CompleteReturns,
           CompleteRaises, Query
  <2>2. received' = received => Given' = Given
    BY DEF Given
  <2> QED  BY <2>1, <2>2, ReleaseRaisesOnce
<1>2. \A w \in Works : (event[w] = "fired") = (event'[w] = "fired")
  <2>1. ASSUME NEW w \in Works, FailEvent(w)
        PROVE  \A v \in Works : (event[v] = "fired") = (event'[v] = "fired")
    BY <2>1 DEF FailEvent, IndInv, TypeOK
  <2>2. (\E w \in Works : FailEvent(w)) \/ event' = event
    BY DEF Next, Step, vars, CallWait, WakeUp, TimeOut, HandleRaises,
           StartComplete, CompleteReturns, CompleteRaises, ReleaseRaises,
           Query
  <2> QED  BY <2>1, <2>2
<1>3. \A w \in Works : finished[w] => Stored(w)' = Stored(w)
  <2>1. ASSUME NEW t \in Threads, CompleteReturns(t) \/ CompleteRaises(t),
               NEW w \in Works, finished[w]
        PROVE  result'[w] = result[w] /\ error'[w] = error[w]
    <3>1. w # on[t]
      BY <2>1, OpenOutcome DEF CompleteReturns, CompleteRaises
    <3> QED  BY <2>1, <3>1 DEF CompleteReturns, CompleteRaises, IndInv, TypeOK
  <2>2. \/ \E t \in Threads : CompleteReturns(t) \/ CompleteRaises(t)
        \/ result' = result /\ error' = error
    BY DEF Next, Step, vars, storeVars, FailEvent, CallWait, WakeUp, TimeOut,
           HandleRaises, StartComplete, ReleaseRaises, Query
  <2> QED  BY <2>1, <2>2 DEF Stored
<1>4. Ready' = Ready
  BY <1>w, <1>2, Zenon DEF Ready
<1>5. Held' = Held
  BY <1>1 DEF Held
<1>6. Outcome' = Outcome
  BY <1>w, <1>1, <1>3, Zenon DEF Outcome
<1> QED  BY <1>4, <1>5, <1>6, <1>7, Zenon
         DEF Once!onceVars, Ready, Held, Outcome, Given

(***************************************************************************)
(* CompletionWork implements OnceWork for every number of threads, works    *)
(* and resources, for the works whose resources release without raising:    *)
(* the outcome is decided once, after the last release, and never differs   *)
(* between two wait() calls.  Of the others RetriesAreReported says all     *)
(* that callers are given.                                                  *)
(***************************************************************************)
THEOREM WorkIsOnceWork == Spec => ImplementsOnceWork
<1>1. Init => Once!Init
  <2> SUFFICES ASSUME Init PROVE Once!Init
    OBVIOUS
  <2>1. \A w \in Reliable : /\ ~(event[w] = "fired") /\ ~finished[w]
                            /\ received[w] = {} /\ freed[w] = <<>>
    BY DEF Init, Reliable
  <2>2. Held = [w \in Reliable |-> Resources]
    BY <2>1 DEF Held
  <2>3. /\ Ready = [w \in Reliable |-> FALSE]
        /\ Outcome = [w \in Reliable |-> Undecided]
        /\ Given = [w \in Reliable |-> {}]
    BY <2>1, Zenon DEF Ready, Outcome, Given
  <2> QED  BY <2>2, <2>3, Zenon DEF Once!Init, Ready, Held, Outcome, Given
<1>2. IndInv /\ [Next]_vars => [Once!Next]_(Once!onceVars)
  BY FireEventOnce, ReleaseNextOnce, FinishOnce, ReadFinishedOnce,
     InvisibleOnce
<1> QED
  BY <1>1, <1>2, AlwaysIndInv, PTL DEF Spec, ImplementsOnceWork, Once!Spec
=============================================================================
