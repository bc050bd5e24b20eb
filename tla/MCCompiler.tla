----------------------------- MODULE MCCompiler -----------------------------
EXTENDS Compiler

Wire(bit, group_size, quant_type, compact) ==
    [bit |-> bit, group_size |-> group_size, quant_type |-> quant_type,
     compact |-> compact]

Fused == Wire(8, 64, "linear", FALSE)
Wires == {FullPrecisionWire, Fused, Wire(8, 64, "linear", TRUE),
          Wire(8, 64, "normal", FALSE), Wire(4, 16, "linear", TRUE),
          Wire(4, 64, "linear", FALSE)}

Programs ==
    [output : {"full", "shard"}, dtype : {"fp32"}, wire : Wires,
     algorithm : SupportedAlgorithms \cup {"auto"}, error_feedback : {"none"}]
    \cup
    [output : {"full", "shard"}, dtype : {"fp16", "fp32"}, wire : {Fused},
     algorithm : SupportedAlgorithms \cup {"auto"},
     error_feedback : {"none", "parameter_delta"}]

Kernels == {"inplace_quantize", "inplace_dequantize_reduce_mean",
            "inplace_dequantize_reduce_mean_requantize",
            "inplace_dequantize_gathered"}

Context(numel, node_ids, device_type, extension) ==
    [numel |-> numel, node_ids |-> node_ids, dtype |-> "fp32",
     world_size |-> Cardinality(DOMAIN node_ids), device_type |-> device_type,
     extension |-> extension]

OneNode(world_size) == [r \in RankIds(world_size) |-> 0]

MCNoEvidence == [evidence_id |-> None]

\* The signature is free text: it may be the same for another number of ranks.
Evidence ==
    {MCNoEvidence} \cup
    [evidence_id : {"e"}, target : {"cuda", "reference"},
     node_ids : {OneNode(2)}, world_size : {2, 3}, speedup_percent : {0, 1}]
    \cup
    [evidence_id : {"f"}, target : {"cuda"}, node_ids : {[r \in RankIds(2) |-> r]},
     world_size : {2}, speedup_percent : {1}]

Extensions == {{}, Kernels, Kernels \ {"inplace_dequantize_gathered"}}

\* Every program in a few contexts, the ones that evidence matters to with all.
Decisions ==
    {[program |-> p, evidence |-> e,
      context |-> Context(130, OneNode(2), device, extension)] :
        p \in {q \in Programs : q.algorithm = "auto"}, e \in Evidence,
        device \in Targets, extension \in Extensions}
    \cup
    {[program |-> p, evidence |-> MCNoEvidence,
      context |-> Context(130, OneNode(2), device, extension)] :
        p \in Programs, device \in Targets, extension \in Extensions}

\* A few programs for every layout, and every size on one node.
LayoutPrograms ==
    {p \in Programs :
        /\ p.error_feedback = "none" /\ p.dtype = "fp32"
        /\ p.wire \in {Fused, Wire(4, 16, "linear", TRUE)}
        /\ p.algorithm \in SupportedAlgorithms}

MaxRanks == 5
Layouts ==
    {Context(numel, OneNode(ws), "cuda", Kernels) :
        numel \in {0, 1, 63, 64, 65, 130, 257}, ws \in 1 .. MaxRanks}
    \cup
    {Context(65, node_ids, "cuda", Kernels) :
        node_ids \in UNION {[RankIds(ws) -> 0 .. 2] : ws \in 1 .. 4}}

MCRequests ==
    Decisions
    \cup {[program |-> p, evidence |-> MCNoEvidence, context |-> c] :
              p \in LayoutPrograms, c \in Layouts}
=============================================================================
