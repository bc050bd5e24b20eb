------------------------ MODULE CudaExecutorsProofs ------------------------
(***************************************************************************)
(* The executables on every number of ranks, for every program, pool size   *)
(* and number of runs in flight, if a caller waits for a FullTensor run.    *)
(*                                                                          *)
(* The ranks never see each other's program counters, only collectives.     *)
(* What makes them agree is that each rank's issues form a chain: every     *)
(* collective determines the next one (Chain), because a rank issues only   *)
(* what follows its latest issue (Tip), because a run with two collectives  *)
(* is the latest one until it is over (Latest).                             *)
(***************************************************************************)
EXTENDS CudaExecutors, TLAPS

\* What the run of two FullTensor executables shows to be needed.  The DDP hook
\* does not meet it once it has two buckets in flight.
FullAwaited == "full" \in Awaited

TwoStage == {"dynamic", "full"}

\* The collective that a rank issues after collective c, if it issues any.
After(c) == IF c[2] = 1 /\ Program[c[1]] \in TwoStage THEN <<c[1], 2>>
                                                     ELSE <<c[1] + 1, 1>>

Chain ==
    \A r \in Ranks : \A i \in DOMAIN issued[r] :
        /\ i = 1 => issued[r][i] = <<1, 1>>
        /\ i > 1 => issued[r][i] = After(issued[r][i - 1])

\* The phases that a run of each kind goes through.
KindOfPhase ==
    \A r \in Ranks, n \in Runs :
        /\ phase[r][n] \in {"submitted", "first"} => Program[n] # "dynamic"
        /\ phase[r][n] \in {"header", "rejected"} => Program[n] = "dynamic"
        /\ phase[r][n] = "reduced" => Program[n] = "full"
        /\ phase[r][n] = "second" => Program[n] \in TwoStage

\* Runs are started in program order.
InOrder ==
    \A r \in Ranks, m, n \in Runs :
        m < n /\ phase[r][n] # "new" => phase[r][m] # "new"

\* No run is started behind one that will issue a second collective.
Latest ==
    \A r \in Ranks, m, n \in Runs :
        m < n /\ m \in InFlight(r) /\ Program[m] \in TwoStage =>
            phase[r][n] = "new"

\* The latest issue of a rank is that of its latest run.
StageOf(r, n) == IF /\ Program[n] \in TwoStage
                    /\ phase[r][n] \in {"second", "done"}
                 THEN 2 ELSE 1

Tip ==
    /\ \A r \in Ranks : (\A n \in Runs : phase[r][n] = "new") =>
           issued[r] = <<>>
    /\ \A r \in Ranks, n \in Runs :
           /\ phase[r][n] \notin {"new", "rejected", "failed"}
           /\ \A m \in Runs : m > n => phase[r][m] = "new"
           => /\ issued[r] # <<>>
              /\ issued[r][Len(issued[r])] = <<n, StageOf(r, n)>>

\* Jobs in the queue of the pool, each once.
Queued ==
    \A r \in Ranks :
        /\ \A i \in DOMAIN queue[r] : phase[r][queue[r][i]] = "submitted"
        /\ \A i, j \in DOMAIN queue[r] : queue[r][i] = queue[r][j] => i = j

\* A run waits for its own collective.
WaitsForOwn ==
    \A r \in Ranks, n \in Runs :
        phase[r][n] \in {"submitted", "first", "header", "second"} =>
            /\ position[r][n] \in DOMAIN issued[r]
            /\ issued[r][position[r][n]] =
                   <<n, IF phase[r][n] = "second" THEN 2 ELSE 1>>

\* What a rank puts into the gather of a FullTensor run.
ReducedOwn ==
    \A r \in Ranks, n \in Runs :
        /\ phase[r][n] = "reduced" => reduced[r][n] = Contributions(n)
        /\ Program[n] = "full" /\ (\E i \in DOMAIN issued[r] :
                                      issued[r][i] = <<n, 2>>) =>
               reduced[r][n] = Contributions(n)

\* Ranks compare the same headers.
Compared ==
    \A r \in Ranks, n \in Runs :
        /\ phase[r][n] = "rejected" => ~SchemasMatch(r)
        /\ Program[n] = "dynamic" /\ (\E i \in DOMAIN issued[r] :
                                          issued[r][i] = <<n, 2>>) =>
               SchemasMatch(r)

IndInv ==
    /\ TypeOK
    /\ Chain
    /\ CollectivesAgree
    /\ KindOfPhase
    /\ InOrder
    /\ Latest
    /\ Tip
    /\ Queued
    /\ WaitsForOwn
    /\ ReducedOwn
    /\ Compared
    /\ OutputsCorrect

\* The runs are numbered from 1.
LEMMA RunsAre ==
    /\ Runs = 1 .. Len(Program) /\ Len(Program) \in Nat
    /\ \A n \in Runs : Program[n] \in Kinds
BY ExecutorAssumption DEF Runs

\* Nothing has been issued.
LEMMA InitIndInv == Init => IndInv
<1> SUFFICES ASSUME Init PROVE IndInv
  OBVIOUS
<1>1. TypeOK
  BY ExecutorAssumption DEF Init, TypeOK, Phases
<1>2. Chain /\ CollectivesAgree /\ WaitsForOwn /\ ReducedOwn /\ Compared
  BY DEF Init, Chain, CollectivesAgree, WaitsForOwn, ReducedOwn, Compared
<1>3. KindOfPhase /\ InOrder /\ Latest /\ Tip
  BY DEF Init, KindOfPhase, InOrder, Latest, Tip, InFlight
<1>4. Queued /\ OutputsCorrect
  BY DEF Init, Queued, OutputsCorrect
<1> QED  BY <1>1, <1>2, <1>3, <1>4 DEF IndInv

\* What Goto does to the phases.
LEMMA GotoFacts ==
    ASSUME TypeOK, NEW r \in Ranks, NEW n \in Runs, NEW label \in Phases,
           Goto(r, n, label)
    PROVE  /\ phase' \in [Ranks -> [Runs -> Phases]]
           /\ phase'[r][n] = label
           /\ \A q \in Ranks, m \in Runs :
                  q # r \/ m # n => phase'[q][m] = phase[q][m]
BY DEF TypeOK, Goto

\* What issuing a collective adds to the order and to the positions.
LEMMA IssueFacts ==
    ASSUME TypeOK, NEW r \in Ranks, NEW n \in Runs, NEW stage \in {1, 2},
           Issue(r, n, stage)
    PROVE  /\ issued' \in [Ranks -> Seq(Collectives)]
           /\ position' \in [Ranks -> [Runs -> Nat]]
           /\ issued'[r] = Append(issued[r], <<n, stage>>)
           /\ Len(issued[r]) \in Nat
           /\ Len(issued'[r]) = Len(issued[r]) + 1
           /\ DOMAIN issued[r] = 1 .. Len(issued[r])
           /\ DOMAIN issued'[r] = 1 .. Len(issued[r]) + 1
           /\ \A i \in DOMAIN issued[r] : issued'[r][i] = issued[r][i]
           /\ issued'[r][Len(issued[r]) + 1] = <<n, stage>>
           /\ \A q \in Ranks : q # r => issued'[q] = issued[q]
           /\ position'[r][n] = Len(issued[r]) + 1
           /\ \A q \in Ranks, m \in Runs :
                  q # r \/ m # n => position'[q][m] = position[q][m]
<1>1. <<n, stage>> \in Collectives
  BY DEF Collectives
<1>2. issued[r] \in Seq(Collectives)
  BY DEF TypeOK
<1>3. /\ issued' = [issued EXCEPT ![r] = Append(@, <<n, stage>>)]
      /\ position' = [position EXCEPT ![r][n] = Len(issued[r]) + 1]
  BY DEF Issue
<1>4. /\ Append(issued[r], <<n, stage>>) \in Seq(Collectives)
      /\ Len(issued[r]) \in Nat
      /\ DOMAIN issued[r] = 1 .. Len(issued[r])
  BY <1>1, <1>2
<1>5. /\ issued' \in [Ranks -> Seq(Collectives)]
      /\ issued'[r] = Append(issued[r], <<n, stage>>)
      /\ \A q \in Ranks : q # r => issued'[q] = issued[q]
  BY <1>3, <1>4 DEF TypeOK
<1>6. /\ Len(issued'[r]) = Len(issued[r]) + 1
      /\ DOMAIN issued'[r] = 1 .. Len(issued[r]) + 1
      /\ \A i \in DOMAIN issued[r] : issued'[r][i] = issued[r][i]
      /\ issued'[r][Len(issued[r]) + 1] = <<n, stage>>
  BY <1>1, <1>2, <1>5
<1>7. /\ position' \in [Ranks -> [Runs -> Nat]]
      /\ position'[r][n] = Len(issued[r]) + 1
      /\ \A q \in Ranks, m \in Runs :
             q # r \/ m # n => position'[q][m] = position[q][m]
  BY <1>3, <1>4 DEF TypeOK
<1> QED  BY <1>4, <1>5, <1>6, <1>7

(***************************************************************************)
(* A rank that issues what follows its latest collective stays in agreement *)
(* with all ranks, the ones that are ahead of it included.                  *)
(***************************************************************************)
LEMMA IssueAgrees ==
    ASSUME TypeOK, Chain, CollectivesAgree,
           NEW r \in Ranks, NEW n \in Runs, NEW stage \in {1, 2},
           Issue(r, n, stage),
           \/ issued[r] = <<>> /\ <<n, stage>> = <<1, 1>>
           \/ issued[r] # <<>> /\ <<n, stage>> = After(issued[r][Len(issued[r])])
    PROVE  Chain' /\ CollectivesAgree'
<1> DEFINE k == Len(issued[r])
           c == <<n, stage>>
<1>1. /\ k \in Nat
      /\ DOMAIN issued[r] = 1 .. k
      /\ DOMAIN issued'[r] = 1 .. k + 1
      /\ \A i \in 1 .. k : issued'[r][i] = issued[r][i]
      /\ issued'[r][k + 1] = c
      /\ \A q \in Ranks : q # r => issued'[q] = issued[q]
      /\ \A q \in Ranks : DOMAIN issued[q] = 1 .. Len(issued[q])
                           /\ Len(issued[q]) \in Nat
  BY IssueFacts DEF TypeOK
<1>2. (k = 0 => c = <<1, 1>>) /\ (k > 0 => c = After(issued[r][k]))
  BY <1>1 DEF TypeOK
<1> HIDE DEF k, c
<1>3. Chain'
  <2> SUFFICES ASSUME NEW q \in Ranks, NEW i \in DOMAIN issued'[q]
               PROVE  /\ i = 1 => issued'[q][i] = <<1, 1>>
                      /\ i > 1 => issued'[q][i] = After(issued'[q][i - 1])
    BY DEF Chain, After
  <2>1. CASE q # r
    BY <1>1, <2>1 DEF Chain
  <2>2. CASE q = r /\ i = k + 1
    BY <1>1, <1>2, <2>2
  <2>3. CASE q = r /\ i \in 1 .. k
    <3>1. i \in DOMAIN issued[r] /\ issued'[r][i] = issued[r][i]
      BY <1>1, <2>3
    <3>2. i > 1 => i - 1 \in 1 .. k /\ issued'[r][i - 1] = issued[r][i - 1]
      BY <1>1, <2>3
    <3>3. /\ i = 1 => issued[r][i] = <<1, 1>>
          /\ i > 1 => issued[r][i] = After(issued[r][i - 1])
      BY <3>1 DEF Chain
    <3> QED  BY <2>3, <3>1, <3>2, <3>3
  <2> QED  BY <1>1, <2>1, <2>2, <2>3
<1>4. ASSUME NEW q \in Ranks, q # r, k + 1 \in DOMAIN issued[q]
      PROVE  issued[q][k + 1] = c
  <2>1. /\ k = 0 => issued[q][k + 1] = <<1, 1>>
        /\ k > 0 => issued[q][k + 1] = After(issued[q][k])
    <3>1. PICK j : j = k + 1 /\ j \in DOMAIN issued[q]
      BY <1>4
    <3>2. /\ j = 1 => issued[q][j] = <<1, 1>>
          /\ j > 1 => issued[q][j] = After(issued[q][j - 1])
      BY <3>1 DEF Chain
    <3>3. (k = 0 => j = 1) /\ (k > 0 => j > 1) /\ j - 1 = k
      BY <1>1, <3>1
    <3> QED  BY <3>1, <3>2, <3>3
  <2>2. k # 0 => issued[q][k] = issued[r][k]
    BY <1>1, <1>4 DEF CollectivesAgree
  <2> QED  BY <1>1, <1>2, <2>1, <2>2
<1>5. ASSUME NEW q \in Ranks, q # r,
             NEW i \in DOMAIN issued'[q] \cap DOMAIN issued'[r]
      PROVE  issued'[q][i] = issued'[r][i]
  <2>1. issued'[q] = issued[q] /\ (i \in 1 .. k \/ i = k + 1)
    BY <1>1, <1>5
  <2>2. CASE i \in 1 .. k
    <3>1. i \in DOMAIN issued[q] \cap DOMAIN issued[r] /\ issued'[r][i] = issued[r][i]
      BY <1>1, <1>5, <2>1, <2>2
    <3> QED  BY <2>1, <3>1 DEF CollectivesAgree
  <2>3. CASE i = k + 1
    BY <1>1, <1>4, <1>5, <2>1, <2>3
  <2> QED  BY <2>1, <2>2, <2>3
<1>6. CollectivesAgree'
  <2> SUFFICES ASSUME NEW p \in Ranks, NEW q \in Ranks,
                      NEW i \in DOMAIN issued'[p] \cap DOMAIN issued'[q]
               PROVE  issued'[p][i] = issued'[q][i]
    BY DEF CollectivesAgree
  <2>1. CASE p # r /\ q # r
    BY <1>1, <2>1 DEF CollectivesAgree
  <2>2. CASE p = r \/ q = r
    BY <1>5, <2>2
  <2> QED  BY <2>1, <2>2
<1> QED  BY <1>3, <1>6

(***************************************************************************)
(* run(): its first collective is the one that follows the rank's latest,   *)
(* whether the run goes on or raises right after it.                        *)
(***************************************************************************)
LEMMA StartIndInv ==
    ASSUME IndInv, FullAwaited, NEW r \in Ranks, NEW n \in Runs,
           NEW label \in {"submitted", "first", "header", "failed"},
           IsNext(r, n), Issue(r, n, 1), Goto(r, n, label),
           label \in {"submitted", "first"} => Program[n] # "dynamic",
           label = "header" => Program[n] = "dynamic",
           queue' = IF label = "submitted"
                    THEN [queue EXCEPT ![r] = Append(@, n)] ELSE queue,
           faults' \in 0 .. MaxFaults,
           UNCHANGED <<reduced, output, schema>>
    PROVE  IndInv'
<1> DEFINE k == Len(issued[r])
<1>g. /\ phase' \in [Ranks -> [Runs -> Phases]]
      /\ phase'[r][n] = label
      /\ \A q \in Ranks, m \in Runs :
             q # r \/ m # n => phase'[q][m] = phase[q][m]
  BY GotoFacts DEF IndInv, Phases
<1>i. /\ issued' \in [Ranks -> Seq(Collectives)]
      /\ position' \in [Ranks -> [Runs -> Nat]]
      /\ k \in Nat /\ Len(issued'[r]) = k + 1
      /\ DOMAIN issued[r] = 1 .. k /\ DOMAIN issued'[r] = 1 .. k + 1
      /\ \A i \in 1 .. k : issued'[r][i] = issued[r][i]
      /\ issued'[r][k + 1] = <<n, 1>>
      /\ \A q \in Ranks : q # r => issued'[q] = issued[q]
      /\ position'[r][n] = k + 1
      /\ \A q \in Ranks, m \in Runs :
             q # r \/ m # n => position'[q][m] = position[q][m]
  BY IssueFacts DEF IndInv
<1>n. /\ phase[r][n] = "new"
      /\ \A m \in Runs : m < n =>
             phase[r][m] \notin {"new", "rejected", "failed"}
      /\ \A m \in Runs : m > n => phase[r][m] = "new"
  BY DEF IsNext, IndInv, InOrder
<1>t. \A m \in InFlight(r) : Program[m] \notin TwoStage
  BY DEF IsNext, FullAwaited, TwoStage
<1>f. \/ issued[r] = <<>> /\ <<n, 1>> = <<1, 1>>
      \/ issued[r] # <<>> /\ <<n, 1>> = After(issued[r][k])
  <2>1. CASE n = 1
    <3>1. \A m \in Runs : phase[r][m] = "new"
      BY <1>n, <2>1, RunsAre
    <3> QED  BY <2>1, <3>1 DEF IndInv, Tip
  <2>2. CASE n # 1
    <3>1. /\ n - 1 \in Runs /\ n \in Nat
          /\ phase[r][n - 1] \notin {"new", "rejected", "failed"}
          /\ \A m \in Runs : m > n - 1 => phase[r][m] = "new"
      BY <1>n, <2>2, RunsAre
    <3>2. issued[r] # <<>> /\ issued[r][k] = <<n - 1, StageOf(r, n - 1)>>
      BY <3>1 DEF IndInv, Tip
    <3>3. Program[n - 1] \in TwoStage => phase[r][n - 1] = "done"
      BY <1>t, <3>1 DEF InFlight, Over
    <3>4. After(<<n - 1, StageOf(r, n - 1)>>) = <<n, 1>>
      BY <3>1, <3>3 DEF After, StageOf
    <3> QED  BY <3>2, <3>4
  <2> QED  BY <2>1, <2>2
<1>1. TypeOK'
  <2>1. queue' \in [Ranks -> Seq(Runs)]
    BY DEF IndInv, TypeOK
  <2> QED  BY <1>g, <1>i, <2>1 DEF IndInv, TypeOK
<1>2. Chain' /\ CollectivesAgree'
  BY <1>f, IssueAgrees DEF IndInv
<1>3. KindOfPhase'
  BY <1>g DEF IndInv, KindOfPhase
<1>4. InOrder'
  BY <1>g, <1>n, RunsAre DEF IndInv, InOrder
<1>5. Latest'
  BY <1>g, <1>n, <1>t, RunsAre DEF IndInv, Latest, InFlight, Over
<1>6. Tip'
  <2>1. StageOf(r, n)' = 1
    BY <1>g DEF StageOf
  <2>2. \A q \in Ranks : ~(\A m \in Runs : phase'[q][m] = "new") \/ q # r
    BY <1>g
  <2>3. \A q \in Ranks, m \in Runs : q # r => StageOf(q, m)' = StageOf(q, m)
    BY <1>g DEF StageOf
  <2>4. ASSUME NEW m \in Runs,
               phase'[r][m] \notin {"new", "rejected", "failed"},
               \A j \in Runs : j > m => phase'[r][j] = "new"
        PROVE  m = n
    BY <1>g, <1>n, <2>4, RunsAre
  <2>5. issued'[r] # <<>>
    BY <1>i
  <2>6. ASSUME NEW q \in Ranks, \A m \in Runs : phase'[q][m] = "new"
        PROVE  issued'[q] = <<>>
    <3>1. q # r /\ \A m \in Runs : phase[q][m] = "new"
      BY <1>g, <2>2, <2>6
    <3>2. issued[q] = <<>>
      BY <3>1 DEF IndInv, Tip
    <3> QED  BY <1>i, <3>1, <3>2
  <2>7. ASSUME NEW q \in Ranks, NEW m \in Runs,
               phase'[q][m] \notin {"new", "rejected", "failed"},
               \A j \in Runs : j > m => phase'[q][j] = "new"
        PROVE  /\ issued'[q] # <<>>
               /\ issued'[q][Len(issued'[q])] = <<m, StageOf(q, m)'>>
    <3>1. CASE q = r
      BY <1>i, <2>1, <2>4, <2>5, <2>7, <3>1
    <3>2. CASE q # r
      <4>1. /\ issued[q] # <<>>
            /\ issued[q][Len(issued[q])] = <<m, StageOf(q, m)>>
        BY <1>g, <2>7, <3>2 DEF IndInv, Tip
      <4> QED  BY <1>i, <2>3, <3>2, <4>1
    <3> QED  BY <3>1, <3>2
  <2> QED  BY <2>6, <2>7 DEF Tip
<1>7. Queued'
  <2>0. \A q \in Ranks : \A i \in DOMAIN queue[q] :
            phase'[q][queue[q][i]] = "submitted" /\ (q = r => queue[q][i] # n)
    <3> SUFFICES ASSUME NEW q \in Ranks, NEW i \in DOMAIN queue[q]
                 PROVE  /\ phase'[q][queue[q][i]] = "submitted"
                        /\ q = r => queue[q][i] # n
      OBVIOUS
    <3>1. PICK m \in Runs : m = queue[q][i]
      <4>1. queue[q] \in Seq(Runs)
        BY DEF IndInv, TypeOK
      <4> QED  BY <4>1
    <3>2. phase[q][m] = "submitted"
      BY <3>1 DEF IndInv, Queued
    <3>3. q # r \/ m # n
      BY <1>n, <3>2
    <3> QED  BY <1>g, <3>1, <3>2, <3>3
  <2>1. CASE label # "submitted"
    <3>1. queue' = queue
      BY <2>1
    <3> QED  BY <2>0, <3>1 DEF IndInv, Queued
  <2>2. CASE label = "submitted"
    <3>1. queue[r] \in Seq(Runs) /\ queue' = [queue EXCEPT ![r] = Append(@, n)]
      BY <2>2 DEF IndInv, TypeOK
    <3>2. /\ DOMAIN queue[r] = 1 .. Len(queue[r]) /\ Len(queue[r]) \in Nat
          /\ DOMAIN queue'[r] = 1 .. Len(queue[r]) + 1
          /\ \A i \in 1 .. Len(queue[r]) : queue'[r][i] = queue[r][i]
          /\ queue'[r][Len(queue[r]) + 1] = n
      BY <3>1 DEF IndInv, TypeOK
    <3>3. \A q \in Ranks : q # r => queue'[q] = queue[q]
      BY <3>1 DEF IndInv, TypeOK
    <3> QED  BY <1>g, <2>0, <2>2, <3>2, <3>3 DEF IndInv, Queued
  <2> QED  BY <2>1, <2>2
<1>8. WaitsForOwn'
  <2> SUFFICES ASSUME NEW q \in Ranks, NEW m \in Runs,
                      phase'[q][m] \in {"submitted", "first", "header", "second"}
               PROVE  /\ position'[q][m] \in DOMAIN issued'[q]
                      /\ issued'[q][position'[q][m]] =
                             <<m, IF phase'[q][m] = "second" THEN 2 ELSE 1>>
    BY DEF WaitsForOwn
  <2>1. CASE q = r /\ m = n
    BY <1>g, <1>i, <2>1
  <2>2. CASE q # r \/ m # n
    <3>1. /\ phase'[q][m] = phase[q][m] /\ position'[q][m] = position[q][m]
          /\ position[q][m] \in DOMAIN issued[q]
          /\ issued[q][position[q][m]] =
                 <<m, IF phase[q][m] = "second" THEN 2 ELSE 1>>
      BY <1>g, <1>i, <2>2 DEF IndInv, WaitsForOwn
    <3>2. \A i \in DOMAIN issued[q] :
              i \in DOMAIN issued'[q] /\ issued'[q][i] = issued[q][i]
      <4>1. \A i \in DOMAIN issued[r] : i \in DOMAIN issued'[r]
        <5> HIDE DEF k
        <5> QED  BY <1>i
      <4>2. CASE q = r
        BY <1>i, <4>1, <4>2
      <4>3. CASE q # r
        BY <1>i, <4>3
      <4> QED  BY <4>2, <4>3
    <3> QED  BY <3>1, <3>2
  <2> QED  BY <2>1, <2>2
<1>s. ASSUME NEW q \in Ranks, NEW m \in Runs,
             NEW i \in DOMAIN issued'[q], issued'[q][i] = <<m, 2>>
      PROVE  i \in DOMAIN issued[q] /\ issued[q][i] = <<m, 2>>
  <2>1. CASE q = r
    <3>1. <<n, 1>> # <<m, 2>>
      OBVIOUS
    <3> HIDE DEF k
    <3>2. i # k + 1
      BY <1>i, <1>s, <2>1, <3>1
    <3>3. i \in 1 .. k + 1
      BY <1>i, <2>1
    <3>4. i \in 1 .. k
      BY <1>i, <3>2, <3>3
    <3>5. i \in DOMAIN issued[q] /\ issued'[q][i] = issued[q][i]
      BY <1>i, <2>1, <3>4
    <3> QED  BY <1>s, <3>5
  <2>2. CASE q # r
    BY <1>i, <1>s, <2>2
  <2> QED  BY <2>1, <2>2
<1>9. ReducedOwn'
  BY <1>g, <1>s DEF IndInv, ReducedOwn
<1>10. Compared'
  <2>1. \A q \in Ranks : SchemasMatch(q)' <=> SchemasMatch(q)
    BY DEF SchemasMatch
  <2> QED  BY <1>g, <1>s, <2>1 DEF IndInv, Compared
<1>11. OutputsCorrect'
  BY <1>g DEF IndInv, OutputsCorrect
<1> QED
  BY <1>1, <1>2, <1>3, <1>4, <1>5, <1>6, <1>7, <1>8, <1>9, <1>10, <1>11
  DEF IndInv

(***************************************************************************)
(* The second collective of a run: nothing was started behind the run, so   *)
(* its first collective is still the rank's latest.                         *)
(***************************************************************************)
LEMMA SecondIndInv ==
    ASSUME IndInv, NEW r \in Ranks, NEW n \in Runs,
           phase[r][n] \in {"header", "reduced"},
           phase[r][n] = "header" => SchemasMatch(r),
           Issue(r, n, 2), Goto(r, n, "second"),
           UNCHANGED <<reduced, output, queue, faults, schema>>
    PROVE  IndInv'
<1> DEFINE k == Len(issued[r])
<1>g. /\ phase' \in [Ranks -> [Runs -> Phases]]
      /\ phase'[r][n] = "second"
      /\ \A q \in Ranks, m \in Runs :
             q # r \/ m # n => phase'[q][m] = phase[q][m]
  BY GotoFacts DEF IndInv, Phases
<1>i. /\ issued' \in [Ranks -> Seq(Collectives)]
      /\ position' \in [Ranks -> [Runs -> Nat]]
      /\ k \in Nat /\ Len(issued'[r]) = k + 1
      /\ DOMAIN issued[r] = 1 .. k /\ DOMAIN issued'[r] = 1 .. k + 1
      /\ \A i \in 1 .. k : issued'[r][i] = issued[r][i]
      /\ issued'[r][k + 1] = <<n, 2>>
      /\ \A q \in Ranks : q # r => issued'[q] = issued[q]
      /\ position'[r][n] = k + 1
      /\ \A q \in Ranks, m \in Runs :
             q # r \/ m # n => position'[q][m] = position[q][m]
  BY IssueFacts DEF IndInv
<1>n. /\ Program[n] \in TwoStage
      /\ phase[r][n] = "header" => Program[n] = "dynamic"
      /\ phase[r][n] = "reduced" => Program[n] = "full"
      /\ \A m \in Runs : m > n => phase[r][m] = "new"
  <2>1. /\ phase[r][n] = "header" => Program[n] = "dynamic"
        /\ phase[r][n] = "reduced" => Program[n] = "full"
    BY DEF IndInv, KindOfPhase
  <2>2. n \in InFlight(r) /\ Program[n] \in TwoStage
    BY <2>1 DEF InFlight, Over, TwoStage
  <2> QED  BY <2>1, <2>2, RunsAre DEF IndInv, Latest
<1>f. issued[r] # <<>> /\ <<n, 2>> = After(issued[r][k])
  <2>1. issued[r] # <<>> /\ issued[r][k] = <<n, StageOf(r, n)>>
    BY <1>n DEF IndInv, Tip
  <2>2. StageOf(r, n) = 1
    BY DEF StageOf
  <2>3. After(<<n, 1>>) = <<n, 2>>
    BY <1>n DEF After
  <2> QED  BY <2>1, <2>2, <2>3
<1>1. TypeOK'
  BY <1>g, <1>i DEF IndInv, TypeOK
<1>2. Chain' /\ CollectivesAgree'
  BY <1>f, IssueAgrees DEF IndInv
<1>3. KindOfPhase'
  BY <1>g, <1>n DEF IndInv, KindOfPhase
<1>4. InOrder'
  BY <1>g DEF IndInv, InOrder
<1>5. Latest'
  BY <1>g, <1>n, RunsAre DEF IndInv, Latest, InFlight, Over
<1>6. Tip'
  <2>1. StageOf(r, n)' = 2
    BY <1>g, <1>n DEF StageOf
  <2>2. \A q \in Ranks, m \in Runs : q # r => StageOf(q, m)' = StageOf(q, m)
    BY <1>g DEF StageOf
  <2>3. ASSUME NEW q \in Ranks, \A m \in Runs : phase'[q][m] = "new"
        PROVE  issued'[q] = <<>>
    <3>1. q # r /\ \A m \in Runs : phase[q][m] = "new"
      BY <1>g, <2>3
    <3>2. issued[q] = <<>>
      BY <3>1 DEF IndInv, Tip
    <3> QED  BY <1>i, <3>1, <3>2
  <2>4. ASSUME NEW m \in Runs,
               phase'[r][m] \notin {"new", "rejected", "failed"},
               \A j \in Runs : j > m => phase'[r][j] = "new"
        PROVE  m = n
    BY <1>g, <1>n, <2>4, RunsAre
  <2>5. ASSUME NEW q \in Ranks, NEW m \in Runs,
               phase'[q][m] \notin {"new", "rejected", "failed"},
               \A j \in Runs : j > m => phase'[q][j] = "new"
        PROVE  /\ issued'[q] # <<>>
               /\ issued'[q][Len(issued'[q])] = <<m, StageOf(q, m)'>>
    <3>1. CASE q = r
      BY <1>i, <2>1, <2>4, <2>5, <3>1
    <3>2. CASE q # r
      <4>1. /\ issued[q] # <<>>
            /\ issued[q][Len(issued[q])] = <<m, StageOf(q, m)>>
        BY <1>g, <2>5, <3>2 DEF IndInv, Tip
      <4> QED  BY <1>i, <2>2, <3>2, <4>1
    <3> QED  BY <3>1, <3>2
  <2> QED  BY <2>3, <2>5 DEF Tip
<1>7. Queued'
  <2>1. \A q \in Ranks : \A i \in DOMAIN queue[q] :
            phase'[q][queue[q][i]] = "submitted"
    <3>1. \A q \in Ranks : \A i \in DOMAIN queue[q] :
              queue[q][i] \in Runs /\ phase[q][queue[q][i]] = "submitted"
      BY DEF IndInv, Queued, TypeOK
    <3> QED  BY <1>g, <3>1
  <2> QED  BY <2>1 DEF IndInv, Queued
<1>8. WaitsForOwn'
  <2> SUFFICES ASSUME NEW q \in Ranks, NEW m \in Runs,
                      phase'[q][m] \in {"submitted", "first", "header", "second"}
               PROVE  /\ position'[q][m] \in DOMAIN issued'[q]
                      /\ issued'[q][position'[q][m]] =
                             <<m, IF phase'[q][m] = "second" THEN 2 ELSE 1>>
    BY DEF WaitsForOwn
  <2>1. CASE q = r /\ m = n
    BY <1>g, <1>i, <2>1
  <2>2. CASE q # r \/ m # n
    <3>1. /\ phase'[q][m] = phase[q][m] /\ position'[q][m] = position[q][m]
          /\ position[q][m] \in DOMAIN issued[q]
          /\ issued[q][position[q][m]] =
                 <<m, IF phase[q][m] = "second" THEN 2 ELSE 1>>
      BY <1>g, <1>i, <2>2 DEF IndInv, WaitsForOwn
    <3>2. \A i \in DOMAIN issued[q] :
              i \in DOMAIN issued'[q] /\ issued'[q][i] = issued[q][i]
      <4>1. \A i \in DOMAIN issued[r] : i \in DOMAIN issued'[r]
        <5> HIDE DEF k
        <5> QED  BY <1>i
      <4>2. CASE q = r
        BY <1>i, <4>1, <4>2
      <4>3. CASE q # r
        BY <1>i, <4>3
      <4> QED  BY <4>2, <4>3
    <3> QED  BY <3>1, <3>2
  <2> QED  BY <2>1, <2>2
<1>s. ASSUME NEW q \in Ranks, NEW m \in Runs,
             NEW i \in DOMAIN issued'[q], issued'[q][i] = <<m, 2>>
      PROVE  \/ i \in DOMAIN issued[q] /\ issued[q][i] = <<m, 2>>
             \/ q = r /\ m = n
  <2>1. CASE q = r /\ i \in 1 .. k
    BY <1>i, <1>s, <2>1
  <2>3. CASE q = r /\ i = k + 1
    BY <1>i, <1>s, <2>3
  <2>2. CASE q # r
    BY <1>i, <1>s, <2>2
  <2> QED  BY <1>i, <2>1, <2>2, <2>3
<1>9. ReducedOwn'
  <2>1. Program[n] = "full" => reduced[r][n] = Contributions(n)
    BY <1>n DEF IndInv, ReducedOwn
  <2> QED  BY <1>g, <1>s, <2>1 DEF IndInv, ReducedOwn
<1>10. Compared'
  <2>1. \A q \in Ranks : SchemasMatch(q)' <=> SchemasMatch(q)
    BY DEF SchemasMatch
  <2>2. Program[n] = "dynamic" => SchemasMatch(r)
    BY <1>n
  <2> QED  BY <1>g, <1>s, <2>1, <2>2 DEF IndInv, Compared
<1>11. OutputsCorrect'
  BY <1>g DEF IndInv, OutputsCorrect
<1> QED
  BY <1>1, <1>2, <1>3, <1>4, <1>5, <1>6, <1>7, <1>8, <1>9, <1>10, <1>11
  DEF IndInv

(***************************************************************************)
(* A complete collective brings run n what run n of every rank has sent.    *)
(***************************************************************************)
LEMMA ReceivedOwn ==
    ASSUME IndInv, NEW r \in Ranks, NEW n \in Runs, Complete(r, n),
           phase[r][n] \in {"first", "header", "second"}
    PROVE  \A q \in Ranks :
               /\ position[r][n] \in DOMAIN issued[q]
               /\ Peer(r, n, q) = <<n, IF phase[r][n] = "second" THEN 2 ELSE 1>>
<1>1. /\ position[r][n] \in DOMAIN issued[r]
      /\ issued[r][position[r][n]] =
             <<n, IF phase[r][n] = "second" THEN 2 ELSE 1>>
  BY DEF IndInv, WaitsForOwn
<1>2. \A q \in Ranks : position[r][n] \in DOMAIN issued[q]
  BY <1>1 DEF Complete, IndInv, TypeOK
<1> QED  BY <1>1, <1>2 DEF IndInv, CollectivesAgree, Peer

\* What a run is to be made of, and to return, has the type of a payload.
LEMMA ExpectedType ==
    ASSUME NEW n \in Runs
    PROVE  /\ Contributions(n) \in Payloads
           /\ Expected(n) \in Payloads \cup [Ranks -> Payloads]
<1>1. Contributions(n) \in Payloads
  BY DEF Contributions, Payloads, Collectives
<1> QED  BY <1>1 DEF Expected

\* The steps of a run that issue nothing.
Moves(r, n, label) ==
    \/ label = "first" /\ phase[r][n] = "submitted"
    \/ label = "done" /\ phase[r][n] = "first" /\ Program[n] \notin TwoStage
    \/ label = "done" /\ phase[r][n] = "second"
    \/ label = "reduced" /\ phase[r][n] = "first" /\ Program[n] = "full"
    \/ label = "rejected" /\ phase[r][n] = "header" /\ ~SchemasMatch(r)
    \/ label = "failed" /\ phase[r][n] \in {"first", "header", "second"}
    \/ label = "failed" /\ IsNext(r, n)

\* Such a step keeps the invariant if it stores what the run is to be made of.
LEMMA MoveIndInv ==
    ASSUME IndInv, FullAwaited, NEW r \in Ranks, NEW n \in Runs,
           NEW label \in {"first", "done", "reduced", "rejected", "failed"},
           Moves(r, n, label), Goto(r, n, label),
           IF label = "first"
           THEN /\ queue[r] # <<>> /\ n = Head(queue[r])
                /\ queue' = [queue EXCEPT ![r] = Tail(@)]
           ELSE queue' = queue,
           output' = IF label = "done"
                     THEN [output EXCEPT ![r][n] = Expected(n)] ELSE output,
           reduced' = IF label = "reduced"
                      THEN [reduced EXCEPT ![r][n] = Contributions(n)]
                      ELSE reduced,
           faults' \in 0 .. MaxFaults,
           UNCHANGED <<issued, position, schema>>
    PROVE  IndInv'
<1>g. /\ phase' \in [Ranks -> [Runs -> Phases]]
      /\ phase'[r][n] = label
      /\ \A q \in Ranks, m \in Runs :
             q # r \/ m # n => phase'[q][m] = phase[q][m]
  BY GotoFacts DEF IndInv, Phases
<1>n. phase[r][n] = "new" => /\ label = "failed"
                             /\ \A m \in Runs : m < n => phase[r][m] # "new"
                             /\ \A m \in Runs : m > n => phase[r][m] = "new"
                             /\ \A m \in Runs : m \in InFlight(r) =>
                                    Program[m] \notin TwoStage
  BY DEF Moves, IsNext, IndInv, InOrder, FullAwaited, TwoStage
<1>p. /\ label \in {"first", "done", "reduced", "rejected"} =>
             phase[r][n] # "new"
      /\ label = "rejected" => Program[n] = "dynamic"
      /\ label = "first" => Program[n] # "dynamic"
      /\ label = "reduced" => Program[n] = "full"
      /\ label = "done" => \/ phase[r][n] = "second"
                           \/ Program[n] \notin TwoStage
      /\ label \in {"first", "reduced"} => phase[r][n] \notin {"second", "done"}
      /\ phase[r][n] = "submitted" => label = "first"
      /\ label = "first" => phase[r][n] = "submitted"
  BY DEF Moves, IsNext, IndInv, KindOfPhase
<1>o. /\ output' \in [Ranks -> [Runs -> Payloads \cup [Ranks -> Payloads]
                                              \cup {Nothing}]]
      /\ label = "done" => output'[r][n] = Expected(n)
      /\ \A q \in Ranks, m \in Runs :
             q # r \/ m # n => output'[q][m] = output[q][m]
  BY ExpectedType DEF IndInv, TypeOK
<1>r. /\ reduced' \in [Ranks -> [Runs -> Payloads \cup {Nothing}]]
      /\ label = "reduced" => reduced'[r][n] = Contributions(n)
      /\ \A q \in Ranks, m \in Runs :
             reduced'[q][m] \in {reduced[q][m], Contributions(m)}
  BY ExpectedType DEF IndInv, TypeOK
<1>q. /\ queue' \in [Ranks -> Seq(Runs)]
      /\ Queued'
  <2>1. \A q \in Ranks : \A i \in DOMAIN queue[q] :
            queue[q][i] \in Runs /\ phase[q][queue[q][i]] = "submitted"
    BY DEF IndInv, Queued, TypeOK
  <2>2. CASE label # "first"
    <3>1. queue' = queue /\ phase[r][n] # "submitted"
      BY <1>p, <2>2
    <3>2. \A q \in Ranks : \A i \in DOMAIN queue[q] :
              phase'[q][queue[q][i]] = "submitted"
      BY <1>g, <2>1, <3>1
    <3> QED  BY <3>1, <3>2 DEF IndInv, Queued, TypeOK
  <2>3. CASE label = "first"
    <3>1. /\ queue[r] \in Seq(Runs) /\ queue[r] # <<>> /\ n = Head(queue[r])
          /\ queue' = [queue EXCEPT ![r] = Tail(queue[r])]
      BY <2>3 DEF IndInv, TypeOK
    <3>2. /\ Tail(queue[r]) \in Seq(Runs)
          /\ Len(queue[r]) \in Nat /\ 1 \in DOMAIN queue[r]
          /\ DOMAIN queue[r] = 1 .. Len(queue[r])
          /\ DOMAIN Tail(queue[r]) = 1 .. Len(queue[r]) - 1
          /\ \A i \in 1 .. Len(queue[r]) - 1 :
                 Tail(queue[r])[i] = queue[r][i + 1]
          /\ n = queue[r][1]
      BY <3>1
    <3>3. /\ queue' \in [Ranks -> Seq(Runs)]
          /\ queue'[r] = Tail(queue[r])
          /\ \A q \in Ranks : q # r => queue'[q] = queue[q]
      BY <3>1, <3>2 DEF IndInv, TypeOK
    <3>4. \A i \in DOMAIN queue'[r] :
              /\ i + 1 \in DOMAIN queue[r] /\ i + 1 # 1 /\ i \in Nat
              /\ queue'[r][i] = queue[r][i + 1]
      BY <3>2, <3>3
    <3>5. \A i \in DOMAIN queue'[r] : queue'[r][i] # n
      BY <3>2, <3>4 DEF IndInv, Queued
    <3>6. ASSUME NEW q \in Ranks, NEW i \in DOMAIN queue'[q]
          PROVE  phase'[q][queue'[q][i]] = "submitted"
      <4>1. CASE q = r
        BY <1>g, <2>1, <3>4, <3>5, <3>6, <4>1
      <4>2. CASE q # r
        BY <1>g, <2>1, <3>3, <3>6, <4>2
      <4> QED  BY <4>1, <4>2
    <3>7. ASSUME NEW q \in Ranks, NEW i \in DOMAIN queue'[q],
                 NEW j \in DOMAIN queue'[q], queue'[q][i] = queue'[q][j]
          PROVE  i = j
      <4>1. CASE q = r
        <5>1. i + 1 = j + 1
          BY <3>4, <3>7, <4>1 DEF IndInv, Queued
        <5> QED  BY <3>4, <4>1, <5>1
      <4>2. CASE q # r
        BY <3>3, <3>7, <4>2 DEF IndInv, Queued
      <4> QED  BY <4>1, <4>2
    <3> QED  BY <3>3, <3>6, <3>7 DEF Queued
  <2> QED  BY <2>2, <2>3
<1>1. TypeOK'
  BY <1>g, <1>o, <1>r, <1>q DEF IndInv, TypeOK
<1>2. Chain' /\ CollectivesAgree'
  BY DEF IndInv, Chain, CollectivesAgree, After
<1>3. KindOfPhase'
  BY <1>g, <1>p DEF IndInv, KindOfPhase, TwoStage
<1>4. InOrder'
  BY <1>g, <1>n, RunsAre DEF IndInv, InOrder
<1>5. Latest'
  <2> SUFFICES ASSUME NEW q \in Ranks, NEW m \in Runs, NEW j \in Runs, m < j,
                      phase'[q][m] \notin {"new"} \cup Over,
                      Program[m] \in TwoStage
               PROVE  phase'[q][j] = "new"
    BY DEF Latest, InFlight
  <2>1. phase[q][m] \notin {"new"} \cup Over
    BY <1>g, <1>p DEF Moves, Over, IsNext
  <2>2. phase[q][j] = "new"
    BY <2>1 DEF IndInv, Latest, InFlight
  <2>3. CASE q # r \/ j # n
    BY <1>g, <2>2, <2>3
  <2>4. CASE q = r /\ j = n
    <3>1. m \in InFlight(r)
      BY <2>1, <2>4 DEF InFlight
    <3> QED  BY <1>n, <2>2, <2>4, <3>1
  <2> QED  BY <2>3, <2>4
<1>6. Tip'
  <2>1. ASSUME NEW q \in Ranks, \A m \in Runs : phase'[q][m] = "new"
        PROVE  issued'[q] = <<>>
    <3>1. \A m \in Runs : phase[q][m] = "new"
      BY <1>g, <2>1
    <3> QED  BY <3>1 DEF IndInv, Tip
  <2>2. ASSUME NEW q \in Ranks, NEW m \in Runs,
               phase'[q][m] \notin {"new", "rejected", "failed"},
               \A j \in Runs : j > m => phase'[q][j] = "new"
        PROVE  /\ issued'[q] # <<>>
               /\ issued'[q][Len(issued'[q])] = <<m, StageOf(q, m)'>>
    <3>1. /\ phase[q][m] \notin {"new", "rejected", "failed"}
          /\ StageOf(q, m)' = StageOf(q, m)
      <4>1. CASE q = r /\ m = n
        BY <1>g, <1>p, <2>2, <4>1 DEF StageOf, Moves
      <4>2. CASE q # r \/ m # n
        BY <1>g, <2>2, <4>2 DEF StageOf
      <4> QED  BY <4>1, <4>2
    <3>2. \A j \in Runs : j > m => phase[q][j] = "new"
      BY <1>g, <2>2
    <3> QED  BY <3>1, <3>2 DEF IndInv, Tip
  <2> QED  BY <2>1, <2>2 DEF Tip
<1>8. WaitsForOwn'
  BY <1>g, <1>p DEF IndInv, WaitsForOwn, Moves
<1>9. ReducedOwn'
  BY <1>g, <1>r DEF IndInv, ReducedOwn
<1>10. Compared'
  <2>1. \A q \in Ranks : SchemasMatch(q)' <=> SchemasMatch(q)
    BY DEF SchemasMatch
  <2>2. label = "rejected" => ~SchemasMatch(r)
    BY DEF Moves
  <2> QED  BY <1>g, <2>1, <2>2 DEF IndInv, Compared
<1>11. OutputsCorrect'
  BY <1>g, <1>o DEF IndInv, OutputsCorrect
<1> QED
  BY <1>1, <1>2, <1>3, <1>4, <1>5, <1>6, <1>q, <1>8, <1>9, <1>10, <1>11
  DEF IndInv

\* Runs of one collective return what run n of every rank has sent.
LEMMA FinishSingleIndInv ==
    ASSUME IndInv, FullAwaited, NEW r \in Ranks, NEW n \in Runs,
           NEW kind \in {"native", "gather", "shard", "direct"},
           FinishSingle(r, n, kind)
    PROVE  IndInv'
<1>1. \A q \in Ranks : Peer(r, n, q) = <<n, 1>>
  BY ReceivedOwn DEF FinishSingle
<1>2. Received(r, n) = Expected(n)
  BY <1>1 DEF FinishSingle, Received, Expected, Contributions
<1>3. Moves(r, n, "done")
  BY DEF FinishSingle, Moves, TwoStage
<1>4. faults' \in 0 .. MaxFaults
  BY DEF FinishSingle, IndInv, TypeOK
<1> QED  BY <1>2, <1>3, <1>4, MoveIndInv DEF FinishSingle

\* A dynamic all-gather returns the payloads of its second collective.
LEMMA FinishDynamicIndInv ==
    ASSUME IndInv, FullAwaited, NEW r \in Ranks, NEW n \in Runs,
           FinishDynamic(r, n)
    PROVE  IndInv'
<1>1. \A q \in Ranks : Peer(r, n, q) = <<n, 2>>
  BY ReceivedOwn DEF FinishDynamic
<1>2. Received(r, n) = Expected(n)
  BY <1>1 DEF FinishDynamic, Received, Expected, Contributions
<1>3. Moves(r, n, "done")
  BY DEF FinishDynamic, Moves
<1>4. faults' \in 0 .. MaxFaults
  BY DEF FinishDynamic, IndInv, TypeOK
<1> QED  BY <1>2, <1>3, <1>4, MoveIndInv DEF FinishDynamic

\* A rank reduces what run n of every rank has sent.
LEMMA RequantizeIndInv ==
    ASSUME IndInv, FullAwaited, NEW r \in Ranks, NEW n \in Runs,
           Requantize(r, n)
    PROVE  IndInv'
<1>1. \A q \in Ranks : Peer(r, n, q) = <<n, 1>>
  BY ReceivedOwn DEF Requantize
<1>2. Received(r, n) = Contributions(n)
  BY <1>1 DEF Requantize, Received, Contributions
<1>3. Moves(r, n, "reduced")
  BY DEF Requantize, Moves
<1>4. faults' \in 0 .. MaxFaults
  BY DEF Requantize, IndInv, TypeOK
<1> QED  BY <1>2, <1>3, <1>4, MoveIndInv DEF Requantize

\* Every rank has put the reduced shard of run n into the gather of run n.
LEMMA WriteBackIndInv ==
    ASSUME IndInv, FullAwaited, NEW r \in Ranks, NEW n \in Runs,
           WriteBack(r, n)
    PROVE  IndInv'
<1>1. \A q \in Ranks : /\ Peer(r, n, q) = <<n, 2>>
                       /\ position[r][n] \in DOMAIN issued[q]
  BY ReceivedOwn DEF WriteBack
<1>2. \A q \in Ranks : Gathered(r, n, q) = Contributions(n)
  <2> SUFFICES ASSUME NEW q \in Ranks PROVE Gathered(r, n, q) = Contributions(n)
    OBVIOUS
  <2>1. \E i \in DOMAIN issued[q] : issued[q][i] = <<n, 2>>
    BY <1>1 DEF Peer
  <2>2. reduced[q][n] = Contributions(n)
    BY <2>1 DEF WriteBack, IndInv, ReducedOwn
  <2> QED  BY <1>1, <2>2 DEF Gathered
<1>3. [q \in Ranks |-> Gathered(r, n, q)] = Expected(n)
  BY <1>2 DEF WriteBack, Expected
<1>4. Moves(r, n, "done")
  BY DEF WriteBack, Moves
<1>5. faults' \in 0 .. MaxFaults
  BY DEF WriteBack, IndInv, TypeOK
<1> QED  BY <1>3, <1>4, <1>5, MoveIndInv DEF WriteBack

\* A pool thread takes the oldest job.
LEMMA TakeIndInv ==
    ASSUME IndInv, FullAwaited, NEW r \in Ranks, Take(r)
    PROVE  IndInv'
<1>1. queue[r] \in Seq(Runs) /\ queue[r] # <<>>
  BY DEF Take, IndInv, TypeOK
<1>2. PICK n \in Runs : n = Head(queue[r])
  BY <1>1
<1>3. 1 \in DOMAIN queue[r] /\ n = queue[r][1]
  BY <1>1, <1>2
<1>4. Moves(r, n, "first")
  BY <1>3 DEF Moves, IndInv, Queued
<1>5. faults' \in 0 .. MaxFaults
  BY DEF Take, IndInv, TypeOK
<1>6. Goto(r, n, "first")
  BY <1>2 DEF Take, Goto
<1> QED  BY <1>2, <1>4, <1>5, <1>6, MoveIndInv DEF Take

\* The headers of all ranks are compared: go on together or not at all.
LEMMA CompareHeadersIndInv ==
    ASSUME IndInv, FullAwaited, NEW r \in Ranks, NEW n \in Runs,
           CompareHeaders(r, n)
    PROVE  IndInv'
<1>1. CASE SchemasMatch(r)
  BY <1>1, SecondIndInv DEF CompareHeaders
<1>2. CASE ~SchemasMatch(r)
  <2>1. Moves(r, n, "rejected")
    BY <1>2 DEF CompareHeaders, Moves
  <2>2. faults' \in 0 .. MaxFaults
    BY DEF CompareHeaders, IndInv, TypeOK
  <2> QED  BY <1>2, <2>1, <2>2, MoveIndInv DEF CompareHeaders
<1> QED  BY <1>1, <1>2

\* An exception, before, after or between the collectives of a run.
LEMMA RaisesIndInv ==
    ASSUME IndInv, FullAwaited, NEW r \in Ranks, NEW n \in Runs,
           RunRaises(r, n) \/ FinishRaises(r, n)
    PROVE  IndInv'
<1>1. /\ faults' \in 0 .. MaxFaults
      /\ Goto(r, n, "failed") /\ UNCHANGED <<reduced, output, queue, schema>>
  BY ExecutorAssumption DEF RunRaises, FinishRaises, Raise, IndInv, TypeOK
<1>2. CASE RunRaises(r, n) /\ Issue(r, n, 1)
  BY <1>1, <1>2, StartIndInv DEF RunRaises
<1>3. CASE RunRaises(r, n) /\ UNCHANGED <<issued, position>>
  <2>1. Moves(r, n, "failed")
    BY <1>3 DEF RunRaises, Moves
  <2> QED  BY <1>1, <1>3, <2>1, MoveIndInv
<1>4. CASE FinishRaises(r, n)
  <2>1. Moves(r, n, "failed")
    BY <1>4 DEF FinishRaises, Moves
  <2> QED  BY <1>1, <1>4, <2>1, MoveIndInv DEF FinishRaises
<1> QED  BY <1>2, <1>3, <1>4 DEF RunRaises

\* All kinds of runs start alike.
LEMMA AnyStartIndInv ==
    ASSUME IndInv, FullAwaited, NEW r \in Ranks, NEW n \in Runs, Start(r, n)
    PROVE  IndInv'
<1>1. ASSUME NEW kind \in {"native", "gather", "full"}, StartPooled(r, n, kind)
      PROVE  IndInv'
  <2>1. faults' \in 0 .. MaxFaults
    BY <1>1 DEF StartPooled, IndInv, TypeOK
  <2> QED  BY <1>1, <2>1, StartIndInv DEF StartPooled
<1>2. ASSUME NEW kind \in {"shard", "direct", "dynamic"},
             StartUnpooled(r, n, kind,
                           IF kind = "dynamic" THEN "header" ELSE "first")
      PROVE  IndInv'
  <2>1. faults' \in 0 .. MaxFaults
    BY <1>2 DEF StartUnpooled, IndInv, TypeOK
  <2>2. CASE kind = "dynamic"
    BY <1>2, <2>1, <2>2, StartIndInv DEF StartUnpooled
  <2>3. CASE kind # "dynamic"
    BY <1>2, <2>1, <2>3, StartIndInv DEF StartUnpooled
  <2> QED  BY <2>2, <2>3
<1> QED
  BY <1>1, <1>2 DEF Start, StartNative, StartGather, StartFull, StartShard,
                    StartDirect, StartDynamic

\* Every step of every rank keeps the invariant.
LEMMA NextIndInv == FullAwaited /\ IndInv /\ [Next]_vars => IndInv'
<1> SUFFICES ASSUME FullAwaited, IndInv, [Next]_vars PROVE IndInv'
  OBVIOUS
<1>1. CASE UNCHANGED vars
  <2> USE <1>1 DEF vars, IndInv
  <2>1. TypeOK' /\ Chain' /\ CollectivesAgree'
    BY DEF TypeOK, Chain, CollectivesAgree
  <2>2. KindOfPhase' /\ InOrder' /\ Latest' /\ Queued' /\ WaitsForOwn'
    BY DEF KindOfPhase, InOrder, Latest, InFlight, Queued, WaitsForOwn
  <2>3. Tip'
    BY DEF Tip, StageOf
  <2>4. ReducedOwn' /\ Compared' /\ OutputsCorrect'
    BY DEF ReducedOwn, Compared, SchemasMatch, OutputsCorrect
  <2> QED  BY <2>1, <2>2, <2>3, <2>4
<1>2. ASSUME NEW r \in Ranks, NEW n \in Runs, Finish(r, n) PROVE IndInv'
  <2>1. CASE IssueGather(r, n)
    BY <2>1, SecondIndInv DEF IssueGather
  <2> QED
    BY <1>2, <2>1, FinishSingleIndInv, CompareHeadersIndInv,
       FinishDynamicIndInv, RequantizeIndInv, WriteBackIndInv
    DEF Finish, FinishNative, FinishGather, FinishShard, FinishDirect
<1> QED
  BY <1>1, <1>2, AnyStartIndInv, RaisesIndInv, TakeIndInv DEF Next

\* The invariant always holds when nothing is started behind a full run.
LEMMA AlwaysIndInv == ASSUME FullAwaited PROVE Spec => []IndInv
<1>1. IndInv /\ [Next]_vars => IndInv'
  BY NextIndInv
<1> QED  BY InitIndInv, <1>1, PTL DEF Spec

(***************************************************************************)
(* If a caller waits for a FullTensor run, then with any number of          *)
(* ranks, any program, pool size and number of runs in flight, and          *)
(* whichever rank raises when, all ranks issue the same collectives in the  *)
(* same order (executors.py, dynamic_all_gather.py, native_collectives.py). *)
(***************************************************************************)
THEOREM ExecutorsAgree == ASSUME FullAwaited PROVE Spec => []CollectivesAgree
<1>1. IndInv => CollectivesAgree
  BY DEF IndInv
<1> QED  BY AlwaysIndInv, <1>1, PTL

(***************************************************************************)
(* And every run that finishes returns the reduction of its own inputs from *)
(* all ranks, and of no other run's.                                        *)
(***************************************************************************)
THEOREM ExecutorsOutputs ==
    ASSUME FullAwaited
    PROVE  Spec => [](TypeOK /\ OutputsCorrect)
<1>1. IndInv => TypeOK /\ OutputsCorrect
  BY DEF IndInv
<1> QED  BY AlwaysIndInv, <1>1, PTL

(***************************************************************************)
(* NFR-002 under the same condition: two ranks that finish a run return the *)
(* same.                                                                    *)
(***************************************************************************)
THEOREM ExecutorsSameOutput == ASSUME FullAwaited PROVE Spec => []OutputsAgree
<1>1. IndInv => OutputsAgree
  BY DEF IndInv, OutputsCorrect, OutputsAgree
<1> QED  BY AlwaysIndInv, <1>1, PTL

(***************************************************************************)
(* If one rank rejects the headers of a dynamic all-gather, no rank issues  *)
(* the gather of the payloads, however their comparisons interleave.        *)
(***************************************************************************)
THEOREM HeadersRejectTogether ==
    ASSUME FullAwaited
    PROVE  Spec => []RejectTogether
<1>1. ASSUME IndInv, NEW q \in Ranks, NEW r \in Ranks, NEW n \in Runs,
             phase[q][n] = "rejected",
             NEW i \in DOMAIN issued[r], issued[r][i] = <<n, 2>>
      PROVE  FALSE
  <2>1. Program[n] = "dynamic" /\ ~SchemasMatch(q)
    BY <1>1 DEF IndInv, KindOfPhase, Compared
  <2>2. SchemasMatch(r)
    BY <1>1, <2>1 DEF IndInv, Compared
  <2> QED  BY <2>1, <2>2 DEF SchemasMatch
<1>2. IndInv => RejectTogether
  BY <1>1 DEF RejectTogether
<1> QED  BY AlwaysIndInv, <1>2, PTL
=============================================================================
