------------------------------ MODULE Compiler ------------------------------
(***************************************************************************)
(* compiler/: one call of compile() after another, from a program to a      *)
(* bound executable; with what it calls of core/, of backends/reference/    *)
(* and of backends/cuda/ (backend.py and the constructors in executors.py). *)
(*                                                                          *)
(*   program     operation, output ("full" or "shard") and its dtype, wire, *)
(*               algorithm, error_feedback                                  *)
(*   context     numel (of shape), world_size, dtype, device_type,          *)
(*               node_ids (topology_signature), extension: the symbols of   *)
(*               the CUDA extension, none when it cannot be imported        *)
(*   evidence    a BenchmarkEvidence, or NoEvidence                         *)
(*                                                                          *)
(* A wire is FullPrecisionWire's [bit |-> 0] or a QuantizedWire.            *)
(***************************************************************************)
EXTENDS Transports

CONSTANTS
    Requests,       \* [program, context, evidence] that callers may compile
    NoEvidence

FullPrecisionWire == [bit |-> 0]
Quantized(wire) == wire.bit # 0

\* capabilities() of both backends.
SupportedBits == {4, 8}
SupportedAlgorithms ==
    {"native", "compressed_all_gather", "compressed_reduce_scatter",
     "compressed_rs_ag"}

\* What CommunicationProgram and QuantizedWire let a caller build.
WireTypes ==
    {FullPrecisionWire} \cup
    [bit : {4, 8}, group_size : {16, 32, 64},
     quant_type : STRING, compact : BOOLEAN]
ProgramTypes ==
    [output : {"full", "shard"}, dtype : {DTypes[i] : i \in DOMAIN DTypes},
     wire : WireTypes, algorithm : SupportedAlgorithms \cup {"auto"},
     error_feedback : {"none", "gradient", "parameter_delta"}]

ASSUME CompilerAssumption ==
    \A q \in Requests :
        /\ q.program \in ProgramTypes
        /\ q.context.numel \in Nat
        /\ q.context.world_size \in Nat \ {0}
        /\ q.evidence # NoEvidence => q.evidence.speedup_percent \in Int

VARIABLES
    registry,       \* BackendRegistry._backends: the registered targets
    stage,          \* how far the current compile() is
    request,        \* its arguments
    effective,      \* the program after _select_effective_program
    info,           \* fallback_reason and evidence_id
    stages,         \* LoweredProgram.stages
    executable      \* what backend.compile() built

vars == <<registry, stage, request, effective, info, stages, executable>>

program == request.program
context == request.context
evidence == request.evidence

Targets == {"cuda", "reference"}
None == "none"
NoInfo == [fallback_reason |-> None, evidence_id |-> None]
Nothing == [kind |-> None]

Reasons == {None, "missing benchmark evidence", "benchmark evidence mismatch",
            "benchmark evidence shows no speedup"}

Stages == {"idle", "verify", "resolve", "select", "support", "lower", "bind",
           "bound", "raised"}

Init ==
    /\ registry = {}
    /\ stage = "idle"
    /\ request \in Requests
    /\ effective = program
    /\ info = NoInfo
    /\ stages = <<>>
    /\ executable = Nothing
----------------------------------------------------------------------------
\* register(): a target once, and only under the name of its backend.
Register(target, name) ==
    /\ stage = "idle"
    /\ target \notin registry
    /\ name = target
    /\ registry' = registry \cup {target}
    /\ UNCHANGED <<stage, request, effective, info, stages, executable>>

Call ==
    /\ stage = "idle"
    /\ stage' = "verify"
    /\ UNCHANGED <<registry, request, effective, info, stages, executable>>

\* One step of compile(): go on, or raise.
Proceed(ok, next) == stage' = IF ok THEN next ELSE "raised"

Verified(p) ==
    /\ ~(p.output = "shard" /\ p.algorithm = "compressed_rs_ag")
    /\ ~(p.output = "full" /\ p.algorithm = "compressed_reduce_scatter")
    /\ p.dtype = context.dtype
    /\ ~(p.error_feedback = "parameter_delta" /\ p.output = "full")

Verify ==
    /\ stage = "verify"
    /\ Proceed(Verified(program), "resolve")
    /\ UNCHANGED <<registry, request, effective, info, stages, executable>>

Resolve ==
    /\ stage = "resolve"
    /\ Proceed(context.device_type \in registry, "select")
    /\ UNCHANGED <<registry, request, effective, info, stages, executable>>
----------------------------------------------------------------------------
\* Mutant: evidence of any number of ranks will do.
Matches_AnyWorldSize ==
    /\ evidence.target = context.device_type
    /\ evidence.node_ids = context.node_ids

\* BenchmarkEvidence.matches
Matches ==
    /\ evidence.target = context.device_type
    /\ evidence.node_ids = context.node_ids
    /\ evidence.world_size = context.world_size

\* decide_auto: the reason not to compress, and the evidence referred to.
AutoDecision ==
    [fallback_reason |->
        IF evidence = NoEvidence THEN "missing benchmark evidence"
        ELSE IF ~Matches THEN "benchmark evidence mismatch"
        ELSE IF evidence.speedup_percent <= 0
        THEN "benchmark evidence shows no speedup"
        ELSE None,
     evidence_id |->
        IF evidence # NoEvidence /\ Matches THEN evidence.evidence_id ELSE None]

\* _select_effective_program
Select ==
    /\ stage = "select"
    /\ IF program.algorithm # "auto"
       THEN UNCHANGED <<effective, info>>
       ELSE /\ info' = AutoDecision
            /\ effective' =
                   IF AutoDecision.fallback_reason = None
                   THEN [program EXCEPT !.algorithm = "compressed_rs_ag"]
                   ELSE [program EXCEPT !.algorithm = "native",
                                        !.wire = FullPrecisionWire]
    /\ stage' = "support"
    /\ UNCHANGED <<registry, request, stages, executable>>

RequireSupported ==
    /\ stage = "support"
    /\ Proceed(/\ effective.algorithm \in SupportedAlgorithms
               /\ Quantized(effective.wire) => effective.wire.bit \in SupportedBits,
               "lower")
    /\ UNCHANGED <<registry, request, effective, info, stages, executable>>
----------------------------------------------------------------------------
Local(name) == [name |-> name, collective |-> FALSE]

Collective(name) == [name |-> name, collective |-> TRUE]

\* CudaBackend.lower, by algorithm.
CudaStages ==
    [native |-> <<Collective("native_all_reduce")>>,
     compressed_all_gather |->
         <<Local("quantize_full_contribution"),
           Collective("compressed_all_gather"),
           Local("fused_dequant_reduce_mean")>>,
     compressed_reduce_scatter |->
         <<Local("quantize_destination_chunks"),
           Collective("quantized_reduce_scatter"),
           Local("fused_dequant_reduce_mean"),
           Local("return_reduced_shard")>>,
     compressed_rs_ag |->
         <<Local("quantize_destination_chunks"),
           Collective("quantized_reduce_scatter"),
           Local("fused_dequant_reduce_mean_requantize"),
           Collective("quantized_all_gather"),
           Local("gathered_dequant_writeback")>>]

\* ReferenceBackend.lower: no stage is marked collective.
ReferenceStages ==
    [native |-> <<Local("native_all_reduce")>>,
     compressed_all_gather |-> <<Local("compressed_all_gather")>>,
     compressed_reduce_scatter |-> <<Local("quantized_reduce_scatter")>>,
     compressed_rs_ag |->
         <<Local("quantized_reduce_scatter"), Local("quantized_all_gather")>>]

Lower ==
    /\ stage = "lower"
    /\ stages' = IF context.device_type = "cuda"
                 THEN CudaStages[effective.algorithm]
                 ELSE ReferenceStages[effective.algorithm]
    /\ stage' = "bind"
    /\ UNCHANGED <<registry, request, effective, info, executable>>
----------------------------------------------------------------------------
(***************************************************************************)
(* The constructors.  An executable is its kind and the sizes it works      *)
(* with: the elements quantized at a time, the bytes they give, and the     *)
(* bytes between two ranks' payloads.                                       *)
(***************************************************************************)
Sizes(numel) ==
    LET bytes == payload_nbytes(numel, context.dtype, effective.wire)
    IN  [source |-> numel, payload |-> bytes, stride |-> AlignUp(bytes, 16)]

Has(symbols) == symbols \subseteq context.extension

NativeExecutable == [kind |-> "native"]

\* CudaCompressedAllGatherExecutable: the output type is not looked at.
GatherBinds ==
    /\ Has({"inplace_dequantize_reduce_mean"})
    /\ Quantized(effective.wire)

GatherExecutable ==
    [kind |-> "gather",
     sizes |-> [Sizes(context.numel) EXCEPT
                    !.source = AlignUp(context.numel, effective.wire.group_size)]]

ShardSizes ==
    Sizes(shard_numel(context.numel, context.world_size,
                      effective.wire.group_size))

\* CudaReducedShardExecutable
ShardBinds ==
    /\ effective.output = "shard"
    /\ Has({"inplace_dequantize_reduce_mean"})
    /\ Quantized(effective.wire)

ShardExecutable ==
    [kind |-> "shard", sizes |-> ShardSizes]

\* Mutant: the constructor relies on verify() for the output.
FullBinds_AnyOutput ==
    /\ effective.wire = [bit |-> 8, group_size |-> 64, quant_type |-> "linear",
                         compact |-> FALSE]
    /\ Has({"inplace_quantize", "inplace_dequantize_reduce_mean_requantize",
            "inplace_dequantize_gathered"})

\* CudaFullTensorExecutable
FullBinds ==
    /\ effective.output = "full"
    /\ Quantized(effective.wire)
    /\ ~effective.wire.compact
    /\ effective.wire.bit = 8
    /\ effective.wire.group_size = 64
    /\ effective.wire.quant_type = "linear"
    /\ Has({"inplace_quantize", "inplace_dequantize_reduce_mean_requantize",
            "inplace_dequantize_gathered"})

FullExecutable ==
    [kind |-> "full", sizes |-> ShardSizes]

Build(binds, built) ==
    /\ Proceed(binds, "bound")
    /\ executable' = IF binds THEN built ELSE Nothing

\* backend.compile(): CudaBackend by algorithm, ReferenceBackend always.
Bind ==
    /\ stage = "bind"
    /\ \/ /\ context.device_type # "cuda"
          /\ Build(TRUE, [kind |-> "reference"])
       \/ /\ context.device_type = "cuda"
          /\ \/ /\ effective.algorithm = "native"
                /\ Build(TRUE, NativeExecutable)
             \/ /\ effective.algorithm = "compressed_all_gather"
                /\ Build(GatherBinds, GatherExecutable)
             \/ /\ effective.algorithm = "compressed_reduce_scatter"
                /\ Build(ShardBinds, ShardExecutable)
             \/ /\ effective.algorithm = "compressed_rs_ag"
                /\ Build(FullBinds, FullExecutable)
    /\ UNCHANGED <<registry, request, effective, info, stages>>

Next ==
    \/ \E target, name \in Targets : Register(target, name)
    \/ Call
    \/ Verify
    \/ Resolve
    \/ Select
    \/ RequireSupported
    \/ Lower
    \/ Bind

Spec == Init /\ [][Next]_vars
----------------------------------------------------------------------------
TypeOK ==
    /\ registry \subseteq Targets
    /\ stage \in Stages
    /\ request \in Requests
    /\ effective \in ProgramTypes
    /\ info.fallback_reason \in Reasons
    /\ stages \in {<<>>}
                  \cup {CudaStages[a] : a \in SupportedAlgorithms}
                  \cup {ReferenceStages[a] : a \in SupportedAlgorithms}
    /\ executable.kind \in {None, "native", "gather", "shard", "full", "reference"}

Bound(kinds) == stage = "bound" /\ executable.kind \in kinds

(***************************************************************************)
(* An explicit request is executed as it stands or not at all; only "auto"  *)
(* is changed, to compression just when evidence of a speedup was measured  *)
(* on this target, topology and world size, and else, with the reason, to a *)
(* native all-reduce that quantizes nothing.  That is less than FR-012 and  *)
(* the design ask for: BenchmarkEvidence records no dtype, size, wire,      *)
(* output or error feedback, so evidence measured with others of those      *)
(* switches compression on as well.                                         *)
(***************************************************************************)
OnlyAutoFallsBack ==
    stage = "bound" =>
        IF program.algorithm # "auto"
        THEN effective = program /\ info = NoInfo
        ELSE \/ /\ effective.algorithm = "compressed_rs_ag"
                /\ effective.wire = program.wire
                /\ evidence # NoEvidence
                /\ evidence.target = context.device_type
                /\ evidence.world_size = context.world_size
                /\ evidence.node_ids = context.node_ids
                /\ evidence.speedup_percent > 0
                /\ info = [fallback_reason |-> None,
                           evidence_id |-> evidence.evidence_id]
             \/ /\ effective.algorithm = "native"
                /\ ~Quantized(effective.wire)
                /\ info.fallback_reason # None

(***************************************************************************)
(* verify() looks at the program as requested, before "auto" is replaced.   *)
(* What is bound to a CUDA executable would pass verify() all the same: no  *)
(* ReducedShard program ends up with the algorithm that restores the tensor.*)
(***************************************************************************)
BoundProgramVerifies ==
    Bound({"native", "gather", "shard", "full"}) => Verified(effective)

----------------------------------------------------------------------------
Ranks == RankIds(context.world_size)

Plan(rank) ==
    compile_shard_plan(context.numel, rank, context.world_size,
                       effective.wire.group_size)

(***************************************************************************)
(* The shards are the tensor: every element belongs to the logical range of *)
(* exactly one rank, of the plan and of the value alike, and valid_numel    *)
(* counts a rank's elements, also where trailing shards are all padding.    *)
(***************************************************************************)
ShardsTile ==
    Bound({"shard", "full"}) =>
        /\ \A i \in 0 .. context.numel - 1 :
               Cardinality({r \in Ranks : i \in Indices(value_range(Plan(r)))}) = 1
        /\ \A r \in Ranks :
               /\ Indices(plan_range(Plan(r))) = Indices(value_range(Plan(r)))
               /\ Indices(value_range(Plan(r))) \subseteq 0 .. context.numel - 1
               /\ valid_numel(Plan(r)) = Cardinality(Indices(value_range(Plan(r))))

(***************************************************************************)
(* What the kernels need: they are given whole groups, a payload fits in    *)
(* its row, rows start at multiples of 16 bytes, and the groups quantized   *)
(* on all ranks together cover the tensor.                                  *)
(***************************************************************************)
BuffersFit ==
    Bound({"gather", "shard", "full"}) =>
        LET s == executable.sizes
            groups == s.source \div effective.wire.group_size
        IN  /\ s.source % effective.wire.group_size = 0
            /\ s.payload = groups * (payload_nbytes(1, context.dtype, effective.wire))
            /\ s.payload <= s.stride
            /\ s.stride % 16 = 0
            /\ context.numel <= s.source * (IF executable.kind = "gather" THEN 1
                                            ELSE context.world_size)
----------------------------------------------------------------------------
\* The schedules depend on the context alone: look once for every request.
Untouched == stage = "idle" /\ registry = {}

(***************************************************************************)
(* The ring, run: in each step every rank takes the chunk its predecessor   *)
(* sends, adds it (reduce-scatter) or keeps it (all-gather).  A chunk is    *)
(* how often it counts each rank's contribution.                            *)
(***************************************************************************)
Contributions(world_size) ==
    [r \in RankIds(world_size) |-> [c \in RankIds(world_size) |->
        [q \in RankIds(world_size) |-> IF q = r THEN 1 ELSE 0]]]

ReduceStep(world_size, have, step) ==
    [r \in RankIds(world_size) |->
        LET p == Predecessor(world_size, r)
            sent == have[p][Ring(world_size, p, step).reduce_send]
        IN  [have[r] EXCEPT ![Ring(world_size, r, step).reduce_recv] =
                [q \in RankIds(world_size) |-> @[q] + sent[q]]]]

GatherStep(world_size, have, step) ==
    [r \in RankIds(world_size) |->
        LET p == Predecessor(world_size, r)
            sent == have[p][Ring(world_size, p, step).gather_send]
        IN  [have[r] EXCEPT ![Ring(world_size, r, step).gather_recv] = sent]]

RingRun(world_size) ==
    LET reduced[s \in 0 .. world_size - 1] ==
            IF s = 0 THEN Contributions(world_size)
            ELSE ReduceStep(world_size, reduced[s - 1], s - 1)
        gathered[s \in 0 .. world_size - 1] ==
            IF s = 0 THEN reduced[world_size - 1]
            ELSE GatherStep(world_size, gathered[s - 1], s - 1)
    IN  gathered[world_size - 1]

(***************************************************************************)
(* After the steps of compile_ring_schedule() every rank has every chunk,   *)
(* with the contribution of every rank in it exactly once.                  *)
(***************************************************************************)
RingReducesAll ==
    Untouched =>
        RingRun(context.world_size) =
            [r \in Ranks |-> [c \in Ranks |-> [q \in Ranks |-> 1]]]

(***************************************************************************)
(* compile_tree_schedule() gives one tree, whatever the root: a rank is     *)
(* among the children of its parent and of nobody else, and parents are     *)
(* closer to the root, so that every rank is reached.                       *)
(***************************************************************************)
TreeSpans ==
    Untouched =>
        \A root, r \in Ranks :
            LET ws == context.world_size
            IN  /\ {q \in Ranks : r \in Children(ws, q, root)} = Parent(ws, r, root)
                /\ Parent(ws, r, root) = {} <=> r = root
                /\ \A p \in Parent(ws, r, root) :
                       Logical(ws, p, root) < Logical(ws, r, root)

(***************************************************************************)
(* execute_hierarchical_mean() leaves the mean of all ranks on every rank,  *)
(* however the ranks are spread over nodes.                                 *)
(***************************************************************************)
HierarchyAverages ==
    Untouched /\ Parses(context.node_ids, context.world_size) =>
        execute_hierarchical_mean(context.node_ids) =
            [r \in Ranks |->
                [count |-> [q \in Ranks |-> 1], divisor |-> context.world_size]]
=============================================================================
