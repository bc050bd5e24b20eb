----------------------------- MODULE Transports -----------------------------
(***************************************************************************)
(* backends/cuda/transports/, compiler/passes/topology.py and the ranges of *)
(* core/values.py: who holds which part of a tensor, and who talks to whom. *)
(*                                                                          *)
(* All of it is arithmetic on ranks and sizes.  Arguments are assumed to    *)
(* have passed the range checks of the code (world_size > 0, 0 <= rank <    *)
(* world_size, sizes >= 0); tuples whose order is not used are sets.        *)
(***************************************************************************)
EXTENDS Packets

RankIds(world_size) == 0 .. world_size - 1
----------------------------------------------------------------------------
(***************************************************************************)
(* reduce_scatter.py: one aligned shard of the padded tensor per rank.      *)
(***************************************************************************)
\* Mutant: the shard is rounded down to whole groups.
shard_numel_RoundsDown(original_numel, world_size, group_size) ==
    (CeilDiv(original_numel, world_size) \div group_size) * group_size

shard_numel(original_numel, world_size, group_size) ==
    AlignUp(CeilDiv(original_numel, world_size), group_size)

compile_shard_plan(original_numel, rank, world_size, group_size) ==
    LET shard == shard_numel(original_numel, world_size, group_size)
    IN  [original_numel |-> original_numel, rank |-> rank,
         world_size |-> world_size, shard_numel |-> shard,
         padded_numel |-> shard * world_size]

AtMost(a, b) == IF a < b THEN a ELSE b

\* ShardPlan.logical_range: the start of a shard of padding is not clamped.
plan_range(plan) ==
    LET start == plan.rank * plan.shard_numel
    IN  <<start, AtMost(start + plan.shard_numel, plan.original_numel)>>

\* ReducedShardValue.logical_range: here it is.
value_range(plan) ==
    LET offset == plan.rank * plan.shard_numel
    IN  <<AtMost(offset, plan.original_numel),
          AtMost(offset + plan.shard_numel, plan.original_numel)>>

\* Mutant: the shard is taken to be full.
valid_numel_Unclamped(plan) == plan.shard_numel

\* ReducedShardValue.valid_numel
valid_numel(plan) ==
    LET offset == plan.rank * plan.shard_numel
        end == AtMost(offset + plan.shard_numel, plan.original_numel)
    IN  IF end > offset THEN end - offset ELSE 0

\* The indices in a half-open range.
Indices(range) == range[1] .. range[2] - 1
----------------------------------------------------------------------------
(***************************************************************************)
(* ring.py: the chunk that a rank sends to its successor, and the one it    *)
(* gets from its predecessor, in every step.                                *)
(***************************************************************************)
Successor(world_size, rank) == (rank + 1) % world_size
Predecessor(world_size, rank) == (rank - 1) % world_size

\* Mutant: the gather starts with the chunk the rank began with.
Ring_GatherOwn(world_size, rank, step) ==
    [reduce_send |-> (rank - step) % world_size,
     reduce_recv |-> (rank - step - 1) % world_size,
     gather_send |-> (rank - step) % world_size,
     gather_recv |-> (rank - step - 1) % world_size]

\* compile_ring_schedule, for one step of 0 .. world_size - 2.
Ring(world_size, rank, step) ==
    [reduce_send |-> (rank - step) % world_size,
     reduce_recv |-> (rank - step - 1) % world_size,
     gather_send |-> (rank - step + 1) % world_size,
     gather_recv |-> (rank - step) % world_size]
----------------------------------------------------------------------------
(***************************************************************************)
(* tree.py: a binary heap over the ranks, rotated so that root is its top.  *)
(***************************************************************************)
Logical(world_size, rank, root) == (rank - root) % world_size

\* The parent, as a set: the root has none.
Parent(world_size, rank, root) ==
    LET logical == Logical(world_size, rank, root)
    IN  IF logical = 0 THEN {} ELSE {((logical - 1) \div 2 + root) % world_size}

\* Mutant: the second child is lost when it is the last rank.
Children_DropsLast(world_size, rank, root) ==
    LET logical == Logical(world_size, rank, root)
    IN  {(child + root) % world_size :
            child \in {c \in {2 * logical + 1, 2 * logical + 2} :
                           c < world_size - 1}}

Children(world_size, rank, root) ==
    LET logical == Logical(world_size, rank, root)
    IN  {(child + root) % world_size :
            child \in {c \in {2 * logical + 1, 2 * logical + 2} :
                           c < world_size}}
----------------------------------------------------------------------------
(***************************************************************************)
(* topology.py and hierarchical.py.  node_ids gives the node of each rank.  *)
(***************************************************************************)
\* parse_topology_signature accepts the signature for this many ranks.
Parses(node_ids, world_size) ==
    /\ DOMAIN node_ids = RankIds(world_size)
    /\ \A r \in DOMAIN node_ids : node_ids[r] >= 0

group_for_rank(node_ids, rank) ==
    {r \in DOMAIN node_ids : node_ids[r] = node_ids[rank]}

\* compile_hierarchy: the first rank of a node leads it.
local_leader(node_ids, rank) ==
    CHOOSE r \in group_for_rank(node_ids, rank) :
        \A q \in group_for_rank(node_ids, rank) : r <= q

leader_group(node_ids) == {local_leader(node_ids, r) : r \in DOMAIN node_ids}

(***************************************************************************)
(* A tensor: how often it counts the contribution of each rank, and by what *)
(* the sum has been divided.                                                *)
(***************************************************************************)
Own(node_ids, rank) ==
    [count |-> [q \in DOMAIN node_ids |-> IF q = rank THEN 1 ELSE 0],
     divisor |-> 1]

\* The sum of counts[r] over a set of ranks.
Total(counts, ranks) ==
    LET sum[S \in SUBSET ranks] ==
            IF S = {} THEN 0
            ELSE LET r == CHOOSE r \in S : TRUE IN counts[r] + sum[S \ {r}]
    IN  sum[ranks]

SumOver(tensors, ranks) ==
    [count |-> [q \in DOMAIN tensors |->
                    Total([r \in ranks |-> tensors[r].count[q]], ranks)],
     divisor |-> 1]

\* dist.reduce leaves the tensor of a rank that is not the destination undefined.
Undefined(tensor) == [tensor EXCEPT !.divisor = 0]

\* Mutant: the mean is taken over the leaders.
InterReduce_MeanOfLeaders(node_ids, tensors) ==
    LET leaders == leader_group(node_ids)
    IN  [r \in DOMAIN node_ids |->
            IF r \in leaders
            THEN [SumOver(tensors, leaders) EXCEPT
                      !.divisor = Cardinality(leaders)]
            ELSE tensors[r]]

\* The three stages of execute_hierarchical_mean, on the tensors of all ranks.
IntraReduce(node_ids, tensors) ==
    [r \in DOMAIN node_ids |->
        IF r = local_leader(node_ids, r)
        THEN SumOver(tensors, group_for_rank(node_ids, r))
        ELSE Undefined(tensors[r])]

InterReduce(node_ids, tensors) ==
    LET leaders == leader_group(node_ids)
    IN  [r \in DOMAIN node_ids |->
            IF r \in leaders
            THEN [SumOver(tensors, leaders) EXCEPT
                      !.divisor = Cardinality(DOMAIN node_ids)]
            ELSE tensors[r]]

IntraBroadcast(node_ids, tensors) ==
    [r \in DOMAIN node_ids |-> tensors[local_leader(node_ids, r)]]

execute_hierarchical_mean(node_ids) ==
    IntraBroadcast(node_ids,
        InterReduce(node_ids,
            IntraReduce(node_ids,
                [r \in DOMAIN node_ids |-> Own(node_ids, r)])))
=============================================================================
