--------------------------- MODULE CudaExecutors ---------------------------
(***************************************************************************)
(* backends/cuda/executors.py, dynamic_all_gather.py and                    *)
(* native_collectives.py: everything that issues collectives on the ranks   *)
(* of one process group, and the threads that issue them.                   *)
(*                                                                          *)
(*   "native"  one all-reduce, the mean taken in a pool thread              *)
(*   "gather"  one all-gather of compressed tensors, reduced in a pool      *)
(*             thread (CudaCompressedAllGatherExecutable)                   *)
(*   "shard"   one all-to-all, reduced inside wait()                        *)
(*             (CudaReducedShardExecutable)                                 *)
(*   "full"    an all-to-all issued by the caller and, from a pool thread,  *)
(*             the all-gather of the reduced shards                         *)
(*             (CudaFullTensorExecutable)                                   *)
(*   "direct"  one native collective and no postprocessing                  *)
(*             (CudaNativeCollectives)                                      *)
(*   "dynamic" a blocking all-gather of headers, a comparison of them with  *)
(*             the rank's own, and a blocking all-gather of the payloads    *)
(*             (CudaDynamicAllGather)                                       *)
(*                                                                          *)
(* A process group pairs the ranks' collectives by the order in which each  *)
(* rank issues them and by nothing else: the i-th of one rank meets the     *)
(* i-th of every other.  Tensor contents are abstracted to the collective   *)
(* they come from.                                                          *)
(***************************************************************************)
EXTENDS Naturals, Sequences, FiniteSets

CONSTANTS
    Ranks,
    Program,        \* the kinds of the runs that every rank makes, in order
    PoolSize,       \* max_workers of _COMPLETION_POOL
    MaxInFlight,    \* runs a caller has in flight at a time
    Awaited,        \* kinds that a caller waits for before its next run; the
                    \* DDP hook waits for none
    MaxFaults,      \* bound on rank-local exceptions
    Schemas         \* dtype, wire and layout generation that the ranks'
                    \* CudaDynamicAllGather objects may be built with

Kinds == {"native", "gather", "shard", "full", "direct", "dynamic"}

ASSUME ExecutorAssumption ==
    /\ Program \in Seq(Kinds)
    /\ PoolSize \in Nat \ {0}
    /\ MaxInFlight \in Nat \ {0}
    /\ Awaited \subseteq Kinds
    /\ MaxFaults \in Nat
    /\ \A s \in Schemas : DOMAIN s = Ranks

VARIABLES
    issued,     \* the collectives a rank has issued on the group, in order
    phase,      \* how far a rank is with each run
    position,   \* where in issued the collective a run waits for stands
    reduced,    \* the payloads a rank has reduced and requantized for a run
    output,     \* what a finished run returned
    queue,      \* _finish jobs submitted to the pool and not yet taken
    faults,     \* exceptions so far
    schema      \* the schema of each rank, fixed at construction

vars == <<issued, phase, position, reduced, output, queue, faults, schema>>

Runs == DOMAIN Program

\* A collective: the run it belongs to and whether it is its first or second.
Collectives == Runs \X {1, 2}

Nothing == <<>>

\* What a rank has of all ranks: the collective each part came in.
Payloads == [Ranks -> Collectives]

Phases == {"new", "submitted", "first", "reduced", "header", "second", "done",
           "rejected", "failed"}

Over == {"done", "rejected", "failed"}

\* Calls a rank has made whose Work is not finished.
InFlight(r) == {n \in Runs : phase[r][n] \notin {"new"} \cup Over}

\* Pool threads of the rank that are inside a _finish job.
Busy(r) == {n \in Runs : phase[r][n] \in {"first", "reduced", "second"}
                         /\ Program[n] \in {"native", "gather", "full"}}

TypeOK ==
    /\ issued \in [Ranks -> Seq(Collectives)]
    /\ phase \in [Ranks -> [Runs -> Phases]]
    /\ position \in [Ranks -> [Runs -> Nat]]
    /\ reduced \in [Ranks -> [Runs -> Payloads \cup {Nothing}]]
    /\ output \in [Ranks -> [Runs -> [Ranks -> Payloads] \cup Payloads
                                              \cup {Nothing}]]
    /\ queue \in [Ranks -> Seq(Runs)]
    /\ faults \in 0 .. MaxFaults
    /\ schema \in Schemas

Init ==
    /\ issued = [r \in Ranks |-> <<>>]
    /\ phase = [r \in Ranks |-> [n \in Runs |-> "new"]]
    /\ position = [r \in Ranks |-> [n \in Runs |-> 0]]
    /\ reduced = [r \in Ranks |-> [n \in Runs |-> Nothing]]
    /\ output = [r \in Ranks |-> [n \in Runs |-> Nothing]]
    /\ queue = [r \in Ranks |-> <<>>]
    /\ faults = 0
    /\ schema \in Schemas
----------------------------------------------------------------------------
(***************************************************************************)
(* The process group (torch.distributed over NCCL).                         *)
(***************************************************************************)
Issue(r, n, stage) ==
    /\ issued' = [issued EXCEPT ![r] = Append(@, <<n, stage>>)]
    /\ position' = [position EXCEPT ![r][n] = Len(issued[r]) + 1]

\* What is called and with which sizes: ranks that differ in it cannot pair.
Signature(c) == <<Program[c[1]], c[2]>>

\* The collective of rank q that this one is paired with.
Peer(r, n, q) == issued[q][position[r][n]]

(***************************************************************************)
(* Every rank has issued the collective that run n of rank r waits for.     *)
(* Calls of different kinds or sizes that are paired hang.                  *)
(***************************************************************************)
Complete(r, n) ==
    \A q \in Ranks :
        /\ Len(issued[q]) >= position[r][n]
        /\ Signature(Peer(r, n, q)) = Signature(Peer(r, n, r))

Goto(r, n, label) == phase' = [phase EXCEPT ![r][n] = label]
----------------------------------------------------------------------------
(***************************************************************************)
(* run(), in the caller's thread.  Runs start in program order; a caller    *)
(* that has seen a run fail makes no further ones; one of a kind in Awaited *)
(* may be started with others in flight, but is over before the next run is *)
(* made; run() of a dynamic all-gather blocks the caller.                   *)
(*                                                                          *)
(* The caller that the repository has, the DDP hook, makes a "full" run for *)
(* each bucket (only that executable has the reconstruct_local() it needs)  *)
(* and waits for none of them: its Awaited is {}.  Other callers are        *)
(* training loops of their own.                                             *)
(***************************************************************************)
\* Mutant: the caller does not wait for any run.
IsNext_NoWait(r, n) ==
    /\ phase[r][n] = "new"
    /\ \A m \in Runs : m < n =>
           phase[r][m] \notin {"new", "rejected", "failed"}
    /\ \A m \in InFlight(r) : Program[m] # "dynamic"
    /\ Cardinality(InFlight(r)) < MaxInFlight

IsNext(r, n) ==
    /\ phase[r][n] = "new"
    /\ \A m \in Runs : m < n =>
           phase[r][m] \notin {"new", "rejected", "failed"}
    /\ \A m \in InFlight(r) : Program[m] # "dynamic"
    /\ Cardinality(InFlight(r)) < MaxInFlight
    /\ \A m \in InFlight(r) : Program[m] \notin Awaited

\* The first collective, then a _finish job for the completion pool.
StartPooled(r, n, kind) ==
    /\ Program[n] = kind
    /\ IsNext(r, n)
    /\ Issue(r, n, 1)
    /\ queue' = [queue EXCEPT ![r] = Append(@, n)]
    /\ Goto(r, n, "submitted")
    /\ UNCHANGED <<reduced, output, faults, schema>>

StartNative(r, n) == StartPooled(r, n, "native")

StartGather(r, n) == StartPooled(r, n, "gather")

StartFull(r, n) == StartPooled(r, n, "full")

\* The collective is left to a wait(): no pool thread is involved.
StartUnpooled(r, n, kind, label) ==
    /\ Program[n] = kind
    /\ IsNext(r, n)
    /\ Issue(r, n, 1)
    /\ Goto(r, n, label)
    /\ UNCHANGED <<reduced, output, queue, faults, schema>>

StartShard(r, n) == StartUnpooled(r, n, "shard", "first")

StartDirect(r, n) == StartUnpooled(r, n, "direct", "first")

StartDynamic(r, n) == StartUnpooled(r, n, "dynamic", "header")

\* A worker of the pool takes the oldest job.
Take(r) ==
    /\ queue[r] # <<>>
    /\ Cardinality(Busy(r)) < PoolSize
    /\ queue' = [queue EXCEPT ![r] = Tail(@)]
    /\ Goto(r, Head(queue[r]), "first")
    /\ UNCHANGED <<issued, position, reduced, output, faults, schema>>

\* Mutant: one receive buffer for all runs, overwritten by the latest one.
Received_SharedBuffer(r, n) ==
    [q \in Ranks |-> issued[r][Len(issued[r])]]

\* What the first collective delivered, by sending rank.
Received(r, n) == [q \in Ranks |-> Peer(r, n, q)]

(***************************************************************************)
(* Runs of one collective: handle.wait(), then the local reduction, if any. *)
(***************************************************************************)
FinishSingle(r, n, kind) ==
    /\ Program[n] = kind
    /\ phase[r][n] = "first"
    /\ Complete(r, n)
    /\ output' = [output EXCEPT ![r][n] = Received(r, n)]
    /\ Goto(r, n, "done")
    /\ UNCHANGED <<issued, position, reduced, queue, faults, schema>>

FinishNative(r, n) == FinishSingle(r, n, "native")

FinishGather(r, n) == FinishSingle(r, n, "gather")

FinishShard(r, n) == FinishSingle(r, n, "shard")

FinishDirect(r, n) == FinishSingle(r, n, "direct")

(***************************************************************************)
(* dynamic: the headers of all ranks are there and are compared with the    *)
(* rank's own schema; if none differs the payloads are gathered, padded to  *)
(* a stride that every rank computes from the same headers.                 *)
(***************************************************************************)
\* Mutant: only the first rank's header is compared.
SchemasMatch_FirstRank(r) == schema[CHOOSE q \in Ranks : TRUE] = schema[r]

SchemasMatch(r) == \A q \in Ranks : schema[q] = schema[r]

CompareHeaders(r, n) ==
    /\ phase[r][n] = "header"
    /\ Complete(r, n)
    /\ IF SchemasMatch(r)
       THEN Issue(r, n, 2) /\ Goto(r, n, "second")
       ELSE Goto(r, n, "rejected") /\ UNCHANGED <<issued, position>>
    /\ UNCHANGED <<reduced, output, queue, faults, schema>>

FinishDynamic(r, n) ==
    /\ Program[n] = "dynamic"
    /\ phase[r][n] = "second"
    /\ Complete(r, n)
    /\ output' = [output EXCEPT ![r][n] = Received(r, n)]
    /\ Goto(r, n, "done")
    /\ UNCHANGED <<issued, position, reduced, queue, faults, schema>>

(***************************************************************************)
(* full: the pool thread reduces and requantizes its shard, issues the      *)
(* all-gather, waits for it and writes the gathered shards back.            *)
(***************************************************************************)
Requantize(r, n) ==
    /\ Program[n] = "full"
    /\ phase[r][n] = "first"
    /\ Complete(r, n)
    /\ reduced' = [reduced EXCEPT ![r][n] = Received(r, n)]
    /\ Goto(r, n, "reduced")
    /\ UNCHANGED <<issued, position, output, queue, faults, schema>>

\* Mutant: the gather is submitted to the pool and waited for in a pool thread.
IssueGather_NestedSubmit(r, n) ==
    /\ phase[r][n] = "reduced"
    /\ Cardinality(Busy(r)) < PoolSize
    /\ Issue(r, n, 2)
    /\ Goto(r, n, "second")
    /\ UNCHANGED <<reduced, output, queue, faults, schema>>

IssueGather(r, n) ==
    /\ phase[r][n] = "reduced"
    /\ Issue(r, n, 2)
    /\ Goto(r, n, "second")
    /\ UNCHANGED <<reduced, output, queue, faults, schema>>

\* The reduced shard that rank q put into the gather.
Gathered(r, n, q) == reduced[q][Peer(r, n, q)[1]]

WriteBack(r, n) ==
    /\ Program[n] = "full"
    /\ phase[r][n] = "second"
    /\ Complete(r, n)
    /\ output' = [output EXCEPT ![r][n] =
                      [q \in Ranks |-> Gathered(r, n, q)]]
    /\ Goto(r, n, "done")
    /\ UNCHANGED <<issued, position, reduced, queue, faults, schema>>

(***************************************************************************)
(* An exception on one rank: run() rejects its input before it issues       *)
(* anything, or cannot allocate its other buffers after it has (the native  *)
(* ones do neither); a kernel declines or fails, or a buffer cannot be      *)
(* allocated, once a collective is over.                                    *)
(***************************************************************************)
Raise(r, n) ==
    /\ faults < MaxFaults
    /\ faults' = faults + 1
    /\ Goto(r, n, "failed")
    /\ UNCHANGED <<reduced, output, queue, schema>>

RunRaises(r, n) ==
    /\ Program[n] \notin {"native", "direct"}
    /\ IsNext(r, n)
    /\ \/ UNCHANGED <<issued, position>>
       \/ Issue(r, n, 1)
    /\ Raise(r, n)

FinishRaises(r, n) ==
    /\ Program[n] # "direct"
    /\ phase[r][n] \in {"first", "header", "second"}
    /\ Complete(r, n)
    /\ Raise(r, n)
    /\ UNCHANGED <<issued, position>>

Finish(r, n) ==
    \/ FinishNative(r, n)
    \/ FinishGather(r, n)
    \/ FinishShard(r, n)
    \/ FinishDirect(r, n)
    \/ CompareHeaders(r, n)
    \/ FinishDynamic(r, n)
    \/ Requantize(r, n)
    \/ IssueGather(r, n)
    \/ WriteBack(r, n)

Start(r, n) ==
    \/ StartNative(r, n)
    \/ StartGather(r, n)
    \/ StartShard(r, n)
    \/ StartDirect(r, n)
    \/ StartDynamic(r, n)
    \/ StartFull(r, n)

Next ==
    \/ \E r \in Ranks, n \in Runs :
           Start(r, n) \/ Finish(r, n) \/ RunRaises(r, n) \/ FinishRaises(r, n)
    \/ \E r \in Ranks : Take(r)

(***************************************************************************)
(* Callers and pool threads keep running; a collective that every rank has  *)
(* issued completes.                                                        *)
(***************************************************************************)
Spec ==
    /\ Init /\ [][Next]_vars
    /\ \A r \in Ranks : WF_vars(Take(r))
    /\ \A r \in Ranks, n \in Runs :
           WF_vars(Start(r, n)) /\ WF_vars(Finish(r, n))
----------------------------------------------------------------------------
(***************************************************************************)
(* All ranks issue the same collectives in the same order: what the process *)
(* group needs and cannot check.                                            *)
(***************************************************************************)
CollectivesAgree ==
    \A q, r \in Ranks : \A i \in DOMAIN issued[q] \cap DOMAIN issued[r] :
        issued[q][i] = issued[r][i]

\* The payloads of a dynamic all-gather are in its second collective.
Contributions(n) ==
    [q \in Ranks |-> <<n, IF Program[n] = "dynamic" THEN 2 ELSE 1>>]

\* The output of run n made from the inputs of run n on every rank.
Expected(n) == IF Program[n] = "full" THEN [q \in Ranks |-> Contributions(n)]
                                      ELSE Contributions(n)

(***************************************************************************)
(* No result is made of another run's payloads: what a finished run returns *)
(* is the reduction of that run's own inputs, and so the same on all ranks. *)
(***************************************************************************)
OutputsCorrect ==
    \A r \in Ranks, n \in Runs :
        phase[r][n] = "done" => output[r][n] = Expected(n)

(***************************************************************************)
(* NFR-002: the FullTensor output of a run is the same on all ranks that    *)
(* have it.                                                                 *)
(***************************************************************************)
OutputsAgree ==
    \A q, r \in Ranks, n \in Runs :
        phase[q][n] = "done" /\ phase[r][n] = "done" =>
            output[q][n] = output[r][n]

(***************************************************************************)
(* Ranks validate the gathered headers on their own, between two            *)
(* collectives: when one of them raises, none has gone on to gather the     *)
(* payloads, so nobody waits in a collective that a rank never enters.      *)
(***************************************************************************)
RejectTogether ==
    \A q, r \in Ranks, n \in Runs :
        phase[q][n] = "rejected" =>
            \A i \in DOMAIN issued[r] : issued[r][i] # <<n, 2>>

(***************************************************************************)
(* Ranks that make the same runs all finish them, with more in flight than  *)
(* the pool has threads, unless one of them raises or the headers of a      *)
(* dynamic all-gather differ, which then every rank is told.                *)
(***************************************************************************)
AllFinish ==
    <>(\/ faults > 0
       \/ \A r \in Ranks, n \in Runs : phase[r][n] = "done"
       \/ \E n \in Runs : \A r \in Ranks : phase[r][n] = "rejected")
=============================================================================
