--------------------------- MODULE CompilerProofs ---------------------------
(***************************************************************************)
(* Compiler for all programs, contexts and evidence that can be built, and  *)
(* Transports for any number of ranks and elements.                         *)
(***************************************************************************)
EXTENDS Compiler, FiniteSetTheorems, WellFoundedInduction, TLAPS

\* The stages that come after a given one has succeeded.
AfterVerify == {"resolve", "select", "support", "lower", "bind", "bound"}
AfterSelect == {"support", "lower", "bind", "bound"}
AfterSupport == {"lower", "bind", "bound"}
AfterLower == {"bind", "bound"}

\* What "auto" becomes.
Compressed ==
    /\ effective = [program EXCEPT !.algorithm = "compressed_rs_ag"]
    /\ evidence # NoEvidence /\ Matches /\ ~(evidence.speedup_percent <= 0)
    /\ info = [fallback_reason |-> None, evidence_id |-> evidence.evidence_id]

FellBack ==
    /\ effective = [program EXCEPT !.algorithm = "native", !.wire = FullPrecisionWire]
    /\ info.fallback_reason \in Reasons \ {None}

Selected ==
    IF program.algorithm = "auto"
    THEN Compressed \/ FellBack
    ELSE effective = program /\ info = NoInfo

\* The executable that the CUDA backend binds is the one of the algorithm.
BoundAs(algorithm, binds, built) ==
    effective.algorithm = algorithm /\ binds /\ executable = built

CudaBound ==
    \/ BoundAs("native", TRUE, NativeExecutable)
    \/ BoundAs("compressed_all_gather", GatherBinds, GatherExecutable)
    \/ BoundAs("compressed_reduce_scatter", ShardBinds, ShardExecutable)
    \/ BoundAs("compressed_rs_ag", FullBinds, FullExecutable)

IndInv ==
    /\ request \in Requests
    /\ stage \in {"idle", "verify", "resolve", "select"} =>
           effective = program /\ info = NoInfo
    /\ stage \in AfterVerify => Verified(program)
    /\ stage \in AfterSelect => Selected
    /\ stage \in AfterSupport => effective.algorithm \in SupportedAlgorithms
    /\ stage \in AfterLower /\ context.device_type = "cuda" =>
           stages = CudaStages[effective.algorithm]
    /\ stage = "bound" =>
           IF context.device_type = "cuda" THEN CudaBound
           ELSE executable.kind = "reference"
----------------------------------------------------------------------------
\* The invariant holds of a compile() that has not begun.
LEMMA InitIndInv == Init => IndInv
BY DEF Init, IndInv, AfterVerify, AfterSelect, AfterSupport, AfterLower

\* "auto" is replaced by what the evidence calls for.
LEMMA SelectStep ==
    ASSUME IndInv, Select
    PROVE  Selected'
<1>1. effective = program /\ info = NoInfo /\ request' = request
  BY DEF IndInv, Select
<1>2. CASE program.algorithm # "auto"
  BY <1>1, <1>2 DEF Select, Selected, program
<1>3. CASE program.algorithm = "auto"
  <2>1. info' = AutoDecision
    BY <1>3 DEF Select
  <2>2. CASE AutoDecision.fallback_reason = None
    <3>1. evidence # NoEvidence /\ Matches /\ ~(evidence.speedup_percent <= 0)
      BY <2>2 DEF AutoDecision, None
    <3>2. AutoDecision = [fallback_reason |-> None, evidence_id |-> evidence.evidence_id]
      BY <3>1 DEF AutoDecision
    <3>3. effective' = [program EXCEPT !.algorithm = "compressed_rs_ag"]
      BY <1>3, <2>2 DEF Select
    <3>4. Compressed'
      BY <1>1, <2>1, <3>1, <3>2, <3>3 DEF Compressed, Matches, program, evidence, context
    <3> QED  BY <1>1, <1>3, <3>4 DEF Selected, program
  <2>3. CASE AutoDecision.fallback_reason # None
    <3>1. AutoDecision.fallback_reason \in Reasons \ {None}
      BY <2>3 DEF AutoDecision, Reasons
    <3>2. effective' = [program EXCEPT !.algorithm = "native", !.wire = FullPrecisionWire]
      BY <1>3, <2>3 DEF Select
    <3>3. FellBack'
      BY <1>1, <2>1, <3>1, <3>2 DEF FellBack, program, Reasons, None
    <3> QED  BY <1>1, <1>3, <3>3 DEF Selected, program
  <2> QED  BY <2>2, <2>3
<1> QED  BY <1>2, <1>3

\* What a step that changes nothing but the stage and the executable keeps.
LEMMA SelectedKept ==
    ASSUME Selected, UNCHANGED <<request, effective, info>>
    PROVE  Selected'
BY DEF Selected, Compressed, FellBack, Matches, program, evidence, context

\* backend.compile() binds the executable of the algorithm.
LEMMA BindStep ==
    ASSUME IndInv, Bind, stage' = "bound"
    PROVE  IF (context.device_type = "cuda")' THEN CudaBound'
           ELSE (executable.kind = "reference")'
<1>1. UNCHANGED <<registry, request, effective, info, stages>>
  BY DEF Bind
<1>2. CASE context.device_type # "cuda"
  <2>1. executable' = [kind |-> "reference"]
    BY <1>2 DEF Bind, Build
  <2>2. executable'.kind = "reference"
    BY <2>1
  <2> QED  BY <1>1, <1>2, <2>2 DEF context
<1>3. CASE context.device_type = "cuda"
  <2>1. \/ BoundAs("native", TRUE, NativeExecutable)'
        \/ BoundAs("compressed_all_gather", GatherBinds, GatherExecutable)'
        \/ BoundAs("compressed_reduce_scatter", ShardBinds, ShardExecutable)'
        \/ BoundAs("compressed_rs_ag", FullBinds, FullExecutable)'
    <3>1. CASE effective.algorithm = "native" /\ Build(TRUE, NativeExecutable)
      BY <1>1, <3>1 DEF Build, BoundAs, NativeExecutable
    <3>2. CASE effective.algorithm = "compressed_all_gather"
               /\ Build(GatherBinds, GatherExecutable)
      <4>1. GatherBinds /\ executable' = GatherExecutable
        BY <3>2 DEF Build, Proceed
      <4> QED  BY <1>1, <3>2, <4>1
               DEF BoundAs, GatherBinds, GatherExecutable, Has, Sizes, context
    <3>3. CASE effective.algorithm = "compressed_reduce_scatter"
               /\ Build(ShardBinds, ShardExecutable)
      <4>1. ShardBinds /\ executable' = ShardExecutable
        BY <3>3 DEF Build, Proceed
      <4> QED  BY <1>1, <3>3, <4>1
               DEF BoundAs, ShardBinds, ShardExecutable, ShardSizes, Has, Sizes, context
    <3>4. CASE effective.algorithm = "compressed_rs_ag"
               /\ Build(FullBinds, FullExecutable)
      <4>1. FullBinds /\ executable' = FullExecutable
        BY <3>4 DEF Build, Proceed
      <4> QED  BY <1>1, <3>4, <4>1
               DEF BoundAs, FullBinds, FullExecutable, ShardSizes, Has, Sizes, context
    <3> QED  BY <1>3, <3>1, <3>2, <3>3, <3>4 DEF Bind
  <2> QED  BY <1>1, <1>3, <2>1 DEF CudaBound, context
<1> QED  BY <1>2, <1>3

\* Every step of compile() keeps it.
LEMMA IndInvStep == IndInv /\ [Next]_vars => IndInv'
<1> SUFFICES ASSUME IndInv, [Next]_vars
             PROVE  IndInv'
  OBVIOUS
<1> USE DEF AfterVerify, AfterSelect, AfterSupport, AfterLower
<1>1. ASSUME NEW target \in Targets, NEW name \in Targets, Register(target, name)
      PROVE  IndInv'
  BY <1>1 DEF Register, IndInv, program, context
<1>2. CASE Call
  BY <1>2 DEF Call, IndInv, program, context
<1>3. CASE Verify
  BY <1>3 DEF Verify, Proceed, IndInv, Verified, program, context
<1>4. CASE Resolve
  BY <1>4 DEF Resolve, Proceed, IndInv, Verified, program, context
<1>5. CASE Select
  BY <1>5, SelectStep DEF Select, IndInv, Verified, program, context
<1>6. CASE RequireSupported
  BY <1>6, SelectedKept DEF RequireSupported, Proceed, IndInv, Verified, program, context
<1>7. CASE Lower
  BY <1>7, SelectedKept DEF Lower, IndInv, Verified, program, context
<1>8. CASE Bind
  <2>1. /\ UNCHANGED <<registry, request, effective, info, stages>>
        /\ stage = "bind" /\ stage' \in {"bound", "raised"}
    BY <1>8 DEF Bind, Build, Proceed
  <2> QED  BY <1>8, <2>1, SelectedKept, BindStep DEF IndInv, Verified, program, context
<1>9. CASE UNCHANGED vars
  <2>1. UNCHANGED <<stage, request, effective, info, stages, executable>>
    BY <1>9 DEF vars
  <2>2. stage = "bound" /\ context.device_type = "cuda" => CudaBound'
    BY <2>1 DEF IndInv, CudaBound, BoundAs, NativeExecutable, GatherBinds,
       GatherExecutable, ShardBinds, ShardExecutable, FullBinds, FullExecutable,
       ShardSizes, Has, Sizes, context
  <2> QED  BY <2>1, <2>2, SelectedKept DEF IndInv, Verified, program, context
<1> QED  BY <1>1, <1>2, <1>3, <1>4, <1>5, <1>6, <1>7, <1>8, <1>9 DEF Next

(***************************************************************************)
(* compile() keeps to the types of what it handles, also after it raised.   *)
(***************************************************************************)
THEOREM CompilerTypes == Spec => []TypeOK
<1>1. Init => TypeOK
  BY CompilerAssumption DEF Init, TypeOK, Stages, program, NoInfo, Nothing, Reasons, None
<1>2. IndInv /\ TypeOK /\ [Next]_vars => TypeOK'
  <2> SUFFICES ASSUME IndInv, TypeOK, [Next]_vars
               PROVE  TypeOK'
    OBVIOUS
  <2>1. ASSUME NEW target \in Targets, NEW name \in Targets, Register(target, name)
        PROVE  TypeOK'
    BY <2>1 DEF Register, TypeOK
  <2>2. CASE Call \/ Verify \/ Resolve \/ RequireSupported
    BY <2>2 DEF Call, Verify, Resolve, RequireSupported, Proceed, TypeOK, Stages
  <2>3. CASE Select
    <3>1. UNCHANGED <<registry, request, stages, executable>> /\ stage' = "support"
      BY <2>3 DEF Select
    <3>2. program \in ProgramTypes
      BY CompilerAssumption DEF IndInv, program
    <3>3. effective' \in ProgramTypes /\ info'.fallback_reason \in Reasons
      <4>1. CASE program.algorithm # "auto"
        BY <2>3, <4>1 DEF Select, TypeOK
      <4>2. CASE program.algorithm = "auto"
        <5>1. FullPrecisionWire \in WireTypes
          BY DEF WireTypes
        <5>2. effective' \in ProgramTypes
          BY <2>3, <3>2, <4>2, <5>1 DEF Select, ProgramTypes, SupportedAlgorithms
        <5>3. info' = AutoDecision
          BY <2>3, <4>2 DEF Select
        <5> QED  BY <5>2, <5>3 DEF AutoDecision, Reasons
      <4> QED  BY <4>1, <4>2
    <3> QED  BY <3>1, <3>3 DEF TypeOK, Stages
  <2>4. CASE Lower
    <3>1. effective.algorithm \in SupportedAlgorithms
      BY <2>4 DEF Lower, IndInv, AfterSupport
    <3> QED  BY <2>4, <3>1 DEF Lower, TypeOK, Stages
  <2>5. CASE Bind
    <3>1. UNCHANGED <<registry, request, effective, info, stages>>
      BY <2>5 DEF Bind
    <3>2. stage' \in Stages
      BY <2>5 DEF Bind, Build, Proceed, Stages
    <3>3. executable' \in {Nothing, NativeExecutable, GatherExecutable, ShardExecutable,
                           FullExecutable, [kind |-> "reference"]}
      BY <2>5 DEF Bind, Build
    <3>4. executable'.kind \in {None, "native", "gather", "shard", "full", "reference"}
      BY <3>3 DEF Nothing, NativeExecutable, GatherExecutable, ShardExecutable,
         FullExecutable
    <3> QED  BY <3>1, <3>2, <3>4 DEF TypeOK
  <2>6. CASE UNCHANGED vars
    BY <2>6 DEF vars, TypeOK
  <2> QED  BY <2>1, <2>2, <2>3, <2>4, <2>5, <2>6 DEF Next
<1> QED  BY <1>1, <1>2, InitIndInv, IndInvStep, PTL DEF Spec

\* What becomes of "auto" keeps all else of the program.
LEMMA Fields ==
    ASSUME IndInv, stage \in AfterSelect
    PROVE  /\ program \in ProgramTypes /\ effective \in ProgramTypes
           /\ effective.output = program.output
           /\ effective.dtype = program.dtype
           /\ effective.error_feedback = program.error_feedback
           /\ program.algorithm = "auto" =>
                  \/ /\ Compressed
                     /\ effective.algorithm = "compressed_rs_ag"
                     /\ effective.wire = program.wire
                  \/ /\ FellBack
                     /\ effective.algorithm = "native"
                     /\ effective.wire = FullPrecisionWire
<1>1. program \in ProgramTypes /\ Selected
  BY CompilerAssumption DEF IndInv, program
<1>2. CASE program.algorithm # "auto"
  BY <1>1, <1>2 DEF Selected
<1>3. CASE program.algorithm = "auto" /\ Compressed
  <2>1. effective = [program EXCEPT !.algorithm = "compressed_rs_ag"]
    BY <1>3 DEF Compressed
  <2> QED  BY <1>1, <1>3, <2>1 DEF ProgramTypes, SupportedAlgorithms
<1>4. CASE program.algorithm = "auto" /\ FellBack
  <2>1. effective = [program EXCEPT !.algorithm = "native", !.wire = FullPrecisionWire]
    BY <1>4 DEF FellBack
  <2>2. FullPrecisionWire \in WireTypes
    BY DEF WireTypes
  <2> QED  BY <1>1, <1>4, <2>1, <2>2 DEF ProgramTypes, SupportedAlgorithms
<1> QED  BY <1>1, <1>2, <1>3, <1>4 DEF Selected

\* So it always holds.
LEMMA AlwaysIndInv == Spec => []IndInv
BY InitIndInv, IndInvStep, PTL DEF Spec

(***************************************************************************)
(* compile() leaves an explicit request alone.  "auto" is compressed only   *)
(* on evidence of a speedup for this target, topology and number of ranks   *)
(* (of which dtype, size and wire it was measured with, nothing is known),  *)
(* and falls back, with a reason, to an all-reduce that quantizes nothing.  *)
(***************************************************************************)
THEOREM FallbackIsExplicit == Spec => []OnlyAutoFallsBack
<1>1. ASSUME IndInv, stage = "bound"
      PROVE  OnlyAutoFallsBack
  <2>0. "bound" \in AfterSelect /\ request \in Requests /\ Selected
    BY <1>1 DEF AfterSelect, IndInv
  <2>1. CASE program.algorithm # "auto"
    BY <2>0, <2>1 DEF OnlyAutoFallsBack, Selected
  <2>2. CASE program.algorithm = "auto" /\ Compressed /\ effective.algorithm = "compressed_rs_ag"
             /\ effective.wire = program.wire
    <3>1. evidence # NoEvidence /\ Matches /\ ~(evidence.speedup_percent <= 0)
      BY <2>2 DEF Compressed
    <3>2. evidence.speedup_percent > 0
      <4>1. evidence.speedup_percent \in Int
        BY <2>0, <3>1, CompilerAssumption DEF evidence
      <4> QED  BY <3>1, <4>1
    <3>3. /\ evidence.target = context.device_type
          /\ evidence.node_ids = context.node_ids
          /\ evidence.world_size = context.world_size
      BY <3>1 DEF Matches
    <3>4. info = [fallback_reason |-> None, evidence_id |-> evidence.evidence_id]
      BY <2>2 DEF Compressed
    <3> QED  BY <2>2, <3>1, <3>2, <3>3, <3>4 DEF OnlyAutoFallsBack
  <2>3. CASE program.algorithm = "auto" /\ FellBack /\ effective.algorithm = "native"
             /\ effective.wire = FullPrecisionWire
    <3>1. ~Quantized(effective.wire)
      BY <2>3 DEF Quantized, FullPrecisionWire
    <3>2. info.fallback_reason # None
      BY <2>3 DEF FellBack
    <3> QED  BY <2>3, <3>1, <3>2 DEF OnlyAutoFallsBack
  <2> QED  BY <1>1, <2>0, <2>1, <2>2, <2>3, Fields
<1>2. stage # "bound" => OnlyAutoFallsBack
  BY DEF OnlyAutoFallsBack
<1>3. IndInv => OnlyAutoFallsBack
  BY <1>1, <1>2
<1> QED  BY <1>3, AlwaysIndInv, PTL

\* Only the CUDA backend binds an executable of these kinds.
LEMMA CudaKinds ==
    ASSUME IndInv, Bound({"native", "gather", "shard", "full"})
    PROVE  /\ "bound" \in AfterSelect /\ stage = "bound"
           /\ context.device_type = "cuda" /\ CudaBound
           /\ stages = CudaStages[effective.algorithm]
<1>1. stage = "bound" /\ executable.kind # "reference"
  BY DEF Bound
<1> QED  BY <1>1 DEF IndInv, AfterSelect, AfterLower

(***************************************************************************)
(* verify() is passed by the program that was requested, the constructors   *)
(* see the one that was selected.  What they bind would pass verify() too.  *)
(***************************************************************************)
THEOREM SelectionKeepsProgramsValid == Spec => []BoundProgramVerifies
<1>1. IndInv => BoundProgramVerifies
  <2> SUFFICES ASSUME IndInv, Bound({"native", "gather", "shard", "full"})
               PROVE  Verified(effective)
    BY DEF BoundProgramVerifies
  <2>1. /\ "bound" \in AfterSelect /\ stage = "bound" /\ CudaBound
        /\ Verified(program) /\ Selected
    BY CudaKinds DEF IndInv, AfterVerify, AfterSelect
  <2>2. CASE program.algorithm # "auto"
    BY <2>1, <2>2 DEF Selected
  <2>3. CASE program.algorithm = "auto"
    <3>1. /\ effective.output = program.output
          /\ effective.dtype = program.dtype
          /\ effective.error_feedback = program.error_feedback
          /\ effective.algorithm \in {"compressed_rs_ag", "native"}
      BY <2>1, <2>3, Fields
    <3>2. effective.algorithm = "compressed_rs_ag" => effective.output = "full"
      BY <2>1 DEF CudaBound, BoundAs, FullBinds
    <3> QED  BY <2>1, <3>1, <3>2 DEF Verified
  <2> QED  BY <2>2, <2>3
<1> QED  BY <1>1, AlwaysIndInv, PTL
----------------------------------------------------------------------------
(***************************************************************************)
(* Arithmetic.                                                              *)
(***************************************************************************)
LEMMA DivMod ==
    ASSUME NEW a \in Int, NEW b \in Nat \ {0}
    PROVE  /\ a \div b \in Int /\ a % b \in 0 .. b - 1
           /\ a = b * (a \div b) + (a % b)
OBVIOUS

\* A quotient and a remainder are what they are by their ranges.
LEMMA DivModUnique ==
    ASSUME NEW b \in Nat \ {0}, NEW q \in Int, NEW r \in 0 .. b - 1
    PROVE  (b * q + r) \div b = q /\ (b * q + r) % b = r
OBVIOUS

\* CeilDiv rounds up, by less than one.
LEMMA CeilDivBounds ==
    ASSUME NEW a \in Nat, NEW b \in Nat \ {0}
    PROVE  /\ CeilDiv(a, b) \in Nat
           /\ a <= CeilDiv(a, b) * b
           /\ CeilDiv(a, b) * b <= a + b - 1
BY DivMod DEF CeilDiv

\* Whole groups stay whole.
LEMMA WholeGroups ==
    ASSUME NEW g \in {16, 32, 64}, NEW m \in Nat
    PROVE  /\ CeilDiv(m * g, g) = m
           /\ (m * g) \div g = m
           /\ (m * g) % g = 0
           /\ CeilDiv(1, g) = 1
<1>1. CASE g = 16
  BY <1>1 DEF CeilDiv
<1>2. CASE g = 32
  BY <1>2 DEF CeilDiv
<1>3. CASE g = 64
  BY <1>3 DEF CeilDiv
<1> QED  BY <1>1, <1>2, <1>3

\* AlignUp gives the next multiple.
LEMMA Aligned ==
    ASSUME NEW a \in Nat
    PROVE  a <= AlignUp(a, 16) /\ AlignUp(a, 16) % 16 = 0 /\ AlignUp(a, 16) \in Nat
BY DEF AlignUp, CeilDiv

\* The bytes of one group, and of m groups.
LEMMA PayloadOfGroups ==
    ASSUME NEW wire \in WireTypes, Quantized(wire), NEW dtype, NEW m \in Nat
    PROVE  /\ wire.group_size \in {16, 32, 64}
           /\ payload_nbytes(1, dtype, wire) \in Nat
           /\ \A n \in Nat : CeilDiv(n, wire.group_size) = m =>
                  payload_nbytes(n, dtype, wire) = m * payload_nbytes(1, dtype, wire)
<1>1. wire.group_size \in {16, 32, 64} /\ wire.bit \in {4, 8}
  BY DEF WireTypes, Quantized, FullPrecisionWire
<1>2. PICK k \in Nat : k = (wire.group_size * wire.bit) \div 8 + DTypeBytes(dtype)
  BY <1>1 DEF DTypeBytes
<1>3. payload_nbytes(1, dtype, wire) = k
  BY <1>1, <1>2, WholeGroups DEF payload_nbytes
<1> QED  BY <1>1, <1>2, <1>3 DEF payload_nbytes

\* The context and the wire of a bound executable that compresses.
LEMMA CompressedBound ==
    ASSUME IndInv, Bound({"gather", "shard", "full"})
    PROVE  /\ effective.wire \in WireTypes /\ Quantized(effective.wire)
           /\ context.numel \in Nat /\ context.world_size \in Nat \ {0}
           /\ \/ executable = GatherExecutable
              \/ executable = ShardExecutable
              \/ executable = FullExecutable
<1>1. CudaBound /\ "bound" \in AfterSelect /\ stage = "bound"
  <2>1. Bound({"native", "gather", "shard", "full"})
    BY DEF Bound
  <2> QED  BY <2>1, CudaKinds
<1>2. effective.wire \in WireTypes
  BY <1>1, Fields DEF ProgramTypes
<1>3. context.numel \in Nat /\ context.world_size \in Nat \ {0}
  BY CompilerAssumption DEF IndInv, context
<1>4. executable # NativeExecutable
  BY DEF Bound, NativeExecutable
<1> QED
  BY <1>1, <1>2, <1>3, <1>4 DEF CudaBound, BoundAs, GatherBinds, ShardBinds, FullBinds

\* m groups of g elements and their payload of b bytes a group.
LEMMA SizesFit ==
    ASSUME NEW g \in {16, 32, 64}, NEW m \in Nat, NEW b \in Nat,
           NEW s, s = [source |-> m * g, payload |-> m * b, stride |-> AlignUp(m * b, 16)]
    PROVE  /\ s.source % g = 0
           /\ s.payload = (s.source \div g) * b
           /\ s.payload <= s.stride
           /\ s.stride % 16 = 0
<1>1. m * b \in Nat
  OBVIOUS
<1>2. s.source = m * g /\ s.payload = m * b /\ s.stride = AlignUp(m * b, 16)
  OBVIOUS
<1>3. (m * g) % g = 0 /\ (m * g) \div g = m
  BY WholeGroups
<1>4. m * b <= AlignUp(m * b, 16) /\ AlignUp(m * b, 16) % 16 = 0
  <2>1. PICK x \in Nat : x = m * b
    BY <1>1
  <2>2. x <= AlignUp(x, 16) /\ AlignUp(x, 16) % 16 = 0
    BY Aligned
  <2> QED  BY <2>1, <2>2
<1> QED  BY <1>2, <1>3, <1>4

(***************************************************************************)
(* The sizes that the constructors compute fit together: whole groups, rows *)
(* aligned to 16 bytes that hold their payload, and room for all elements.  *)
(***************************************************************************)
THEOREM SizesAreConsistent == Spec => []BuffersFit
<1>1. IndInv => BuffersFit
  <2> SUFFICES ASSUME IndInv, Bound({"gather", "shard", "full"})
               PROVE  LET s == executable.sizes
                          groups == s.source \div effective.wire.group_size
                      IN  /\ s.source % effective.wire.group_size = 0
                          /\ s.payload = groups * (payload_nbytes(1, context.dtype, effective.wire))
                          /\ s.payload <= s.stride
                          /\ s.stride % 16 = 0
                          /\ context.numel <= s.source *
                                 (IF executable.kind = "gather" THEN 1
                                  ELSE context.world_size)
    BY DEF BuffersFit
  <2>0. /\ effective.wire \in WireTypes /\ Quantized(effective.wire)
        /\ context.numel \in Nat /\ context.world_size \in Nat \ {0}
        /\ \/ executable = GatherExecutable
           \/ executable = ShardExecutable
           \/ executable = FullExecutable
    BY CompressedBound
  <2>1. PICK g \in {16, 32, 64}, b \in Nat, n \in Nat, ws \in Nat \ {0} :
            /\ g = effective.wire.group_size
            /\ b = payload_nbytes(1, context.dtype, effective.wire)
            /\ n = context.numel /\ ws = context.world_size
    <3>1. 0 \in Nat
      OBVIOUS
    <3>2. /\ effective.wire.group_size \in {16, 32, 64}
          /\ payload_nbytes(1, context.dtype, effective.wire) \in Nat
      BY <2>0, <3>1, PayloadOfGroups
    <3> QED  BY <2>0, <3>2
  <2>2. ASSUME NEW m \in Nat, NEW k \in Nat, CeilDiv(k, g) = m
        PROVE  payload_nbytes(k, context.dtype, effective.wire) = m * b
    BY <2>0, <2>1, <2>2, PayloadOfGroups
  <2>3. CASE executable = GatherExecutable
    <3>1. PICK m \in Nat : m = CeilDiv(n, g) /\ n <= m * g
      <4>1. g \in Nat \ {0}
        OBVIOUS
      <4> QED  BY <4>1, CeilDivBounds
    <3>2. executable.kind = "gather"
      BY <2>3 DEF GatherExecutable
    <3>3. executable.sizes = [source |-> m * g, payload |-> m * b,
                              stride |-> AlignUp(m * b, 16)]
      <4>1. executable.sizes = [Sizes(n) EXCEPT !.source = AlignUp(n, g)]
        BY <2>1, <2>3 DEF GatherExecutable
      <4>2. AlignUp(n, g) = m * g
        BY <3>1 DEF AlignUp
      <4>3. payload_nbytes(n, context.dtype, effective.wire) = m * b
        BY <2>2, <3>1
      <4> QED  BY <4>1, <4>2, <4>3 DEF Sizes
    <3>4. executable.sizes.source = m * g /\ n <= (m * g) * 1
      BY <3>1, <3>3
    <3> QED  BY <2>1, <3>2, <3>3, <3>4, SizesFit
  <2>4. CASE executable = ShardExecutable \/ executable = FullExecutable
    <3>1. PICK c \in Nat : c = CeilDiv(n, ws) /\ n <= c * ws
      BY CeilDivBounds
    <3>2. PICK m \in Nat : m = CeilDiv(c, g) /\ c <= m * g
      <4>1. g \in Nat \ {0}
        OBVIOUS
      <4> QED  BY <4>1, CeilDivBounds
    <3>3. executable.kind # "gather" /\ executable.sizes = ShardSizes
      BY <2>4 DEF ShardExecutable, FullExecutable
    <3>4. executable.sizes = [source |-> m * g, payload |-> m * b,
                              stride |-> AlignUp(m * b, 16)]
      <4>1. shard_numel(n, ws, g) = m * g
        BY <3>1, <3>2 DEF shard_numel, AlignUp
      <4>2. m * g \in Nat /\ CeilDiv(m * g, g) = m
        BY WholeGroups
      <4>3. payload_nbytes(m * g, context.dtype, effective.wire) = m * b
        BY <2>2, <4>2
      <4> QED  BY <2>1, <3>3, <4>1, <4>3 DEF ShardSizes, Sizes
    <3>5. n <= (m * g) * ws
      <4>1. PICK x \in Nat : x = m * g /\ c <= x
        BY <3>2
      <4>2. c * ws <= x * ws
        BY <4>1
      <4> QED  BY <3>1, <4>1, <4>2
    <3>6. executable.sizes.source = m * g
      BY <3>4
    <3> QED  BY <2>1, <3>3, <3>4, <3>5, <3>6, SizesFit
  <2> QED  BY <2>0, <2>3, <2>4
<1> QED  BY <1>1, AlwaysIndInv, PTL
----------------------------------------------------------------------------
(***************************************************************************)
(* Shards.                                                                  *)
(***************************************************************************)
\* Of ws shards of S elements, element i is in shard q and no other.
OnlyIn(q, i, S, ws) ==
    \A r \in 0 .. ws - 1 : (r * S <= i /\ i < r * S + S) <=> r = q

\* Shards that cover the tensor: an element is in the shard of its quotient.
LEMMA OneShard ==
    ASSUME NEW n \in Nat, NEW ws \in Nat \ {0}, NEW S \in Nat, n <= S * ws,
           NEW i \in 0 .. n - 1
    PROVE  \E q \in 0 .. ws - 1 : OnlyIn(q, i, S, ws)
<1>1. S \in Nat \ {0}
  <2>1. S = 0 => S * ws = 0
    OBVIOUS
  <2> QED  BY <2>1
<1>2. PICK q \in Int, t \in 0 .. S - 1 : i = S * q + t
  <2>1. /\ i \div S \in Int /\ i % S \in 0 .. S - 1
        /\ i = S * (i \div S) + (i % S)
    BY <1>1, DivMod
  <2> QED  BY <2>1
<1>3. q >= 0
  <2>1. ASSUME q <= -1 PROVE FALSE
    <3>1. S * q <= S * (-1)
      BY <1>1, <2>1
    <3> QED  BY <1>1, <1>2, <3>1
  <2> QED  BY <2>1
<1>4. q < ws
  <2>1. ASSUME ws <= q PROVE FALSE
    <3>1. S * ws <= S * q
      BY <1>1, <2>1
    <3> QED  BY <1>1, <1>2, <3>1
  <2> QED  BY <2>1
<1>5. ASSUME NEW r \in 0 .. ws - 1
      PROVE  (r * S <= i /\ i < r * S + S) <=> r = q
  <2>1. CASE r = q
    BY <1>2, <2>1
  <2>2. CASE r < q
    <3>1. S * (r + 1) <= S * q
      BY <1>1, <2>2
    <3>2. r * S + S <= S * q
      BY <1>1, <3>1
    <3> QED  BY <1>1, <1>2, <2>2, <3>2
  <2>3. CASE q < r
    <3>1. S * (q + 1) <= S * r
      BY <1>1, <2>3
    <3>2. S * q + S <= r * S
      BY <1>1, <3>1
    <3> QED  BY <1>1, <1>2, <2>3, <3>2
  <2> QED  BY <2>1, <2>2, <2>3
<1>6. q \in 0 .. ws - 1
  BY <1>3, <1>4
<1> QED  BY <1>5, <1>6 DEF OnlyIn

\* The range of a shard that begins at x, with its padding cut off.
LEMMA ShardRange ==
    ASSUME NEW n \in Nat, NEW S \in Nat, NEW x \in Nat
    PROVE  LET a == AtMost(x, n)
               b == AtMost(x + S, n)
           IN  /\ a .. b - 1 \subseteq 0 .. n - 1
               /\ x .. b - 1 = a .. b - 1
               /\ \A i \in 0 .. n - 1 : i \in a .. b - 1 <=> x <= i /\ i < x + S
               /\ Cardinality(a .. b - 1) = IF b > x THEN b - x ELSE 0
<1> DEFINE a == AtMost(x, n)
           b == AtMost(x + S, n)
<1>1. /\ a \in Nat /\ b \in Nat
      /\ a = IF x < n THEN x ELSE n
      /\ b = IF x + S < n THEN x + S ELSE n
  BY DEF AtMost
<1> HIDE DEF a, b
<1>2. a .. b - 1 \subseteq 0 .. n - 1
  BY <1>1
<1>3. x .. b - 1 = a .. b - 1
  <2>1. CASE x < n
    BY <1>1, <2>1
  <2>2. CASE ~(x < n)
    <3>1. x .. b - 1 = {} /\ a .. b - 1 = {}
      BY <1>1, <2>2
    <3> QED  BY <3>1
  <2> QED  BY <2>1, <2>2
<1>4. \A i \in 0 .. n - 1 : i \in a .. b - 1 <=> x <= i /\ i < x + S
  BY <1>1
<1>5. Cardinality(a .. b - 1) = IF b > x THEN b - x ELSE 0
  <2>1. b - 1 \in Int
    BY <1>1
  <2>2. Cardinality(a .. b - 1) = IF a > b - 1 THEN 0 ELSE (b - 1) - a + 1
    BY <1>1, <2>1, FS_Interval
  <2> QED  BY <1>1, <2>2
<1> QED  BY <1>2, <1>3, <1>4, <1>5 DEF a, b

(***************************************************************************)
(* The shards of all ranks are the tensor, for every size and number of     *)
(* ranks: each element is in one of them, and what ReducedShardValue says   *)
(* of a shard is what its plan says, when padding is all it holds, too.     *)
(***************************************************************************)
THEOREM ShardsAreThePartition == Spec => []ShardsTile
<1>1. IndInv => ShardsTile
  <2> SUFFICES ASSUME IndInv, Bound({"shard", "full"})
               PROVE  /\ \A i \in 0 .. context.numel - 1 :
                             Cardinality({r \in Ranks : i \in Indices(value_range(Plan(r)))}) = 1
                      /\ \A r \in Ranks :
                             /\ Indices(plan_range(Plan(r))) = Indices(value_range(Plan(r)))
                             /\ Indices(value_range(Plan(r))) \subseteq 0 .. context.numel - 1
                             /\ valid_numel(Plan(r)) =
                                    Cardinality(Indices(value_range(Plan(r))))
    BY DEF ShardsTile
  <2>0. /\ effective.wire \in WireTypes /\ Quantized(effective.wire)
        /\ context.numel \in Nat /\ context.world_size \in Nat \ {0}
    <3>1. Bound({"gather", "shard", "full"})
      BY DEF Bound
    <3> QED  BY <3>1, CompressedBound
  <2>1. PICK g \in Nat \ {0}, n \in Nat, ws \in Nat \ {0} :
            /\ g = effective.wire.group_size
            /\ n = context.numel /\ ws = context.world_size
    <3>1. effective.wire.group_size \in {16, 32, 64}
      BY <2>0, PayloadOfGroups
    <3>2. effective.wire.group_size \in Nat \ {0}
      BY <3>1
    <3> QED  BY <2>0, <3>2
  <2>2. PICK S \in Nat : S = shard_numel(n, ws, g) /\ n <= S * ws
    <3>1. PICK c \in Nat : c = CeilDiv(n, ws) /\ n <= c * ws
      BY CeilDivBounds
    <3>2. PICK m \in Nat : m = CeilDiv(c, g) /\ c <= m * g
      BY CeilDivBounds
    <3>3. PICK x \in Nat : x = m * g /\ c <= x
      BY <3>2
    <3>4. c * ws <= x * ws
      BY <3>3
    <3>5. shard_numel(n, ws, g) = x
      BY <3>1, <3>2, <3>3 DEF shard_numel, AlignUp
    <3> QED  BY <3>1, <3>3, <3>4, <3>5
  <2>3. ASSUME NEW r \in Ranks
        PROVE  /\ r \in 0 .. ws - 1 /\ r * S \in Nat
               /\ Plan(r).rank = r /\ Plan(r).shard_numel = S
               /\ Plan(r).original_numel = n
    BY <2>1, <2>2 DEF Ranks, RankIds, Plan, compile_shard_plan
  <2>4. ASSUME NEW r \in Ranks
        PROVE  /\ Indices(value_range(Plan(r))) = AtMost(r * S, n) .. AtMost(r * S + S, n) - 1
               /\ Indices(plan_range(Plan(r))) = r * S .. AtMost(r * S + S, n) - 1
               /\ valid_numel(Plan(r)) =
                      IF AtMost(r * S + S, n) > r * S
                      THEN AtMost(r * S + S, n) - r * S ELSE 0
    <3> DEFINE p == Plan(r)
    <3>1. p.rank = r /\ p.shard_numel = S /\ p.original_numel = n
      BY <2>3
    <3> HIDE DEF p
    <3>2. /\ Indices(value_range(p)) = AtMost(r * S, n) .. AtMost(r * S + S, n) - 1
          /\ Indices(plan_range(p)) = r * S .. AtMost(r * S + S, n) - 1
      BY <3>1 DEF Indices, value_range, plan_range
    <3>3. valid_numel(p) = IF AtMost(r * S + S, n) > r * S
                           THEN AtMost(r * S + S, n) - r * S ELSE 0
      BY <3>1 DEF valid_numel
    <3> QED  BY <3>2, <3>3 DEF p
  <2>5. ASSUME NEW i \in 0 .. n - 1
        PROVE  Cardinality({r \in Ranks : i \in Indices(value_range(Plan(r)))}) = 1
    <3>1. PICK q \in 0 .. ws - 1 : OnlyIn(q, i, S, ws)
      <4>1. /\ n \in Nat /\ ws \in Nat \ {0} /\ S \in Nat /\ n <= S * ws
        BY <2>1, <2>2
      <4> QED  BY <4>1, OneShard
    <3>2. ASSUME NEW r \in Ranks
          PROVE  i \in Indices(value_range(Plan(r))) <=> r = q
      <4>1. r * S \in Nat /\ r \in 0 .. ws - 1
        BY <2>3
      <4>2. i \in AtMost(r * S, n) .. AtMost(r * S + S, n) - 1 <=>
                r * S <= i /\ i < r * S + S
        BY <4>1, ShardRange
      <4> QED  BY <2>4, <3>1, <4>1, <4>2 DEF OnlyIn
    <3>3. q \in Ranks
      BY <2>1 DEF Ranks, RankIds
    <3>4. {r \in Ranks : i \in Indices(value_range(Plan(r)))} = {q}
      BY <3>2, <3>3
    <3> QED  BY <3>4, FS_Singleton
  <2>6. ASSUME NEW r \in Ranks
        PROVE  /\ Indices(plan_range(Plan(r))) = Indices(value_range(Plan(r)))
               /\ Indices(value_range(Plan(r))) \subseteq 0 .. n - 1
               /\ valid_numel(Plan(r)) = Cardinality(Indices(value_range(Plan(r))))
    <3>1. PICK x \in Nat : x = r * S
      BY <2>3
    <3>2. PICK a, b : a = AtMost(x, n) /\ b = AtMost(x + S, n)
      OBVIOUS
    <3>3. /\ a .. b - 1 \subseteq 0 .. n - 1
          /\ x .. b - 1 = a .. b - 1
          /\ Cardinality(a .. b - 1) = IF b > x THEN b - x ELSE 0
      BY <3>2, ShardRange
    <3>4. /\ Indices(value_range(Plan(r))) = a .. b - 1
          /\ Indices(plan_range(Plan(r))) = x .. b - 1
          /\ valid_numel(Plan(r)) = IF b > x THEN b - x ELSE 0
      BY <2>4, <3>1, <3>2
    <3> QED  BY <3>3, <3>4
  <2> QED  BY <2>1, <2>5, <2>6
<1> QED  BY <1>1, AlwaysIndInv, PTL
----------------------------------------------------------------------------
(***************************************************************************)
(* The tree.                                                                *)
(***************************************************************************)
\* The rank at a place of the heap.
Physical(ws, l, root) == (l + root) % ws

\* Ranks and places of the heap are the same thing, rotated.
LEMMA Rotation ==
    ASSUME NEW ws \in Nat \ {0}, NEW root \in 0 .. ws - 1
    PROVE  /\ \A r \in 0 .. ws - 1 :
                  /\ Logical(ws, r, root) \in 0 .. ws - 1
                  /\ Physical(ws, Logical(ws, r, root), root) = r
                  /\ Logical(ws, r, root) = 0 <=> r = root
           /\ \A l \in 0 .. ws - 1 :
                  /\ Physical(ws, l, root) \in 0 .. ws - 1
                  /\ Logical(ws, Physical(ws, l, root), root) = l
<1>1. ASSUME NEW r \in 0 .. ws - 1
      PROVE  Logical(ws, r, root) = IF r >= root THEN r - root ELSE r - root + ws
  <2>1. CASE r >= root
    <3>1. r - root \in 0 .. ws - 1 /\ r - root = ws * 0 + (r - root)
      BY <2>1
    <3> QED  BY <2>1, <3>1, DivModUnique DEF Logical
  <2>2. CASE ~(r >= root)
    <3>1. r - root + ws \in 0 .. ws - 1 /\ r - root = ws * (-1) + (r - root + ws)
      BY <2>2
    <3> QED  BY <2>2, <3>1, DivModUnique DEF Logical
  <2> QED  BY <2>1, <2>2
<1>2. ASSUME NEW l \in 0 .. ws - 1
      PROVE  Physical(ws, l, root) = IF l + root < ws THEN l + root ELSE l + root - ws
  <2>1. CASE l + root < ws
    <3>1. l + root \in 0 .. ws - 1 /\ l + root = ws * 0 + (l + root)
      BY <2>1
    <3> QED  BY <2>1, <3>1, DivModUnique DEF Physical
  <2>2. CASE ~(l + root < ws)
    <3>1. l + root - ws \in 0 .. ws - 1 /\ l + root = ws * 1 + (l + root - ws)
      BY <2>2
    <3> QED  BY <2>2, <3>1, DivModUnique DEF Physical
  <2> QED  BY <2>1, <2>2
<1> QED  BY <1>1, <1>2

\* The place above a place of the heap.
LEMMA Above ==
    ASSUME NEW l \in Nat, NEW k \in Nat
    PROVE  /\ l \in {2 * k + 1, 2 * k + 2} <=> l # 0 /\ k = (l - 1) \div 2
           /\ l # 0 => (l - 1) \div 2 \in Nat /\ (l - 1) \div 2 < l
OBVIOUS

\* Who has whom for a child.
LEMMA ChildOf ==
    ASSUME NEW ws \in Nat \ {0}, NEW root \in 0 .. ws - 1,
           NEW r \in 0 .. ws - 1, NEW q \in 0 .. ws - 1
    PROVE  r \in Children(ws, q, root) <=>
               Logical(ws, r, root) \in {2 * Logical(ws, q, root) + 1,
                                         2 * Logical(ws, q, root) + 2}
<1>1. PICK l \in 0 .. ws - 1, k \in 0 .. ws - 1 :
          l = Logical(ws, r, root) /\ k = Logical(ws, q, root)
  BY Rotation
<1>2. Children(ws, q, root) =
          {Physical(ws, c, root) : c \in {d \in {2 * k + 1, 2 * k + 2} : d < ws}}
  BY <1>1 DEF Children, Physical
<1>3. ASSUME r \in Children(ws, q, root)
      PROVE  l \in {2 * k + 1, 2 * k + 2}
  <2>1. PICK c \in {2 * k + 1, 2 * k + 2} : c < ws /\ r = Physical(ws, c, root)
    BY <1>2, <1>3
  <2>2. c \in 0 .. ws - 1
    BY <2>1
  <2>3. l = c
    BY <1>1, <2>1, <2>2, Rotation
  <2> QED  BY <2>3
<1>4. ASSUME l \in {2 * k + 1, 2 * k + 2}
      PROVE  r \in Children(ws, q, root)
  <2>1. r = Physical(ws, l, root) /\ l < ws
    BY <1>1, Rotation
  <2> QED  BY <1>2, <1>4, <2>1
<1> QED  BY <1>1, <1>3, <1>4

(***************************************************************************)
(* compile_tree_schedule() describes one tree for every number of ranks and *)
(* every root: parents and children agree, and a parent is closer to the    *)
(* root.                                                                    *)
(***************************************************************************)
THEOREM ScheduleIsATree == Spec => []TreeSpans
<1>1. IndInv => TreeSpans
  <2> SUFFICES ASSUME IndInv, NEW root \in Ranks, NEW r \in Ranks
               PROVE  LET ws == context.world_size
                      IN  /\ {q \in Ranks : r \in Children(ws, q, root)} = Parent(ws, r, root)
                          /\ Parent(ws, r, root) = {} <=> r = root
                          /\ \A p \in Parent(ws, r, root) :
                                 Logical(ws, p, root) < Logical(ws, r, root)
    BY DEF TreeSpans
  <2>1. PICK ws \in Nat \ {0} : ws = context.world_size /\ Ranks = 0 .. ws - 1
    BY CompilerAssumption DEF IndInv, context, Ranks, RankIds
  <2>R. /\ \A q \in 0 .. ws - 1 :
               /\ Logical(ws, q, root) \in 0 .. ws - 1
               /\ Physical(ws, Logical(ws, q, root), root) = q
               /\ Logical(ws, q, root) = 0 <=> q = root
        /\ \A l \in 0 .. ws - 1 :
               /\ Physical(ws, l, root) \in 0 .. ws - 1
               /\ Logical(ws, Physical(ws, l, root), root) = l
    BY <2>1, Rotation
  <2>2. PICK l \in 0 .. ws - 1 : l = Logical(ws, r, root)
    BY <2>1, <2>R
  <2>3. CASE l = 0
    <3>1. Parent(ws, r, root) = {}
      BY <2>2, <2>3 DEF Parent
    <3>2. r = root
      BY <2>1, <2>2, <2>3, <2>R
    <3>3. ASSUME NEW q \in Ranks
          PROVE  r \notin Children(ws, q, root)
      <4>1. PICK k \in Nat : k = Logical(ws, q, root)
        BY <2>1, <2>R
      <4>2. l \notin {2 * k + 1, 2 * k + 2}
        BY <2>3, <4>1
      <4> QED  BY <2>1, <2>2, <4>1, <4>2, ChildOf
    <3> QED  BY <2>1, <3>1, <3>2, <3>3
  <2>4. CASE l # 0
    <3>1. PICK k \in 0 .. ws - 1 : k = (l - 1) \div 2 /\ k < l
      BY <2>4
    <3>2. PICK p \in 0 .. ws - 1 : p = Physical(ws, k, root) /\ Logical(ws, p, root) = k
      BY <2>1, <2>R
    <3>3. Parent(ws, r, root) = {p}
      BY <2>2, <2>4, <3>1, <3>2 DEF Parent, Physical
    <3>4. r # root
      BY <2>1, <2>2, <2>4, <2>R
    <3>5. ASSUME NEW q \in Ranks
          PROVE  r \in Children(ws, q, root) <=> q = p
      <4>1. PICK j \in Nat : j = Logical(ws, q, root)
        BY <2>1, <2>R
      <4>2. r \in Children(ws, q, root) <=> l \in {2 * j + 1, 2 * j + 2}
        BY <2>1, <2>2, <4>1, ChildOf
      <4>3. l \in {2 * j + 1, 2 * j + 2} <=> j = k
        BY <2>4, <3>1, Above
      <4>4. j = k <=> q = p
        <5>1. q = Physical(ws, j, root)
          BY <2>1, <4>1, <2>R
        <5> QED  BY <3>2, <4>1, <5>1
      <4> QED  BY <4>2, <4>3, <4>4
    <3>6. {q \in Ranks : r \in Children(ws, q, root)} = {p}
      BY <2>1, <3>2, <3>5
    <3> QED  BY <2>1, <2>2, <3>1, <3>2, <3>3, <3>4, <3>6
  <2> QED  BY <2>3, <2>4
<1> QED  BY <1>1, AlwaysIndInv, PTL
----------------------------------------------------------------------------
(***************************************************************************)
(* The ring.                                                                *)
(***************************************************************************)
\* A number that leaves the range of ranks by less than one round.
LEMMA Wrapped ==
    ASSUME NEW n \in Nat \ {0}, NEW x \in Int, -n <= x, x < 2 * n
    PROVE  x % n = IF x < 0 THEN x + n ELSE IF x < n THEN x ELSE x - n
<1>1. CASE x < 0
  <2>1. x + n \in 0 .. n - 1 /\ x = n * (-1) + (x + n)
    BY <1>1
  <2> QED  BY <1>1, <2>1, DivModUnique
<1>2. CASE 0 <= x /\ x < n
  <2>1. x \in 0 .. n - 1 /\ x = n * 0 + x
    BY <1>2
  <2> QED  BY <1>2, <2>1, DivModUnique
<1>3. CASE n <= x
  <2>1. x - n \in 0 .. n - 1 /\ x = n * 1 + (x - n)
    BY <1>3
  <2> QED  BY <1>3, <2>1, DivModUnique
<1> QED  BY <1>1, <1>2, <1>3

(***************************************************************************)
(* How far rank r is past rank c.  In step s a rank gets the chunk s + 1    *)
(* behind it to reduce and the chunk s behind it to keep, and these are the *)
(* ones its predecessor sends.                                              *)
(***************************************************************************)
LEMMA RingSteps ==
    ASSUME NEW n \in Nat \ {0}, NEW r \in 0 .. n - 1, NEW c \in 0 .. n - 1
    PROVE  /\ Predecessor(n, r) \in 0 .. n - 1
           /\ Logical(n, r, c) \in 0 .. n - 1
           /\ Logical(n, r, c) = 0 <=> r = c
           /\ Logical(n, Predecessor(n, r), c) =
                  IF Logical(n, r, c) = 0 THEN n - 1 ELSE Logical(n, r, c) - 1
           /\ \A s \in 0 .. n - 2 :
                  /\ Ring(n, r, s).reduce_recv \in 0 .. n - 1
                  /\ Ring(n, r, s).gather_recv \in 0 .. n - 1
                  /\ Ring(n, Predecessor(n, r), s).reduce_send = Ring(n, r, s).reduce_recv
                  /\ Ring(n, Predecessor(n, r), s).gather_send = Ring(n, r, s).gather_recv
                  /\ c = Ring(n, r, s).reduce_recv <=> Logical(n, r, c) = s + 1
                  /\ c = Ring(n, r, s).gather_recv <=> Logical(n, r, c) = s
<1>1. PICK p \in 0 .. n - 1 : /\ p = Predecessor(n, r)
                              /\ p = IF r = 0 THEN n - 1 ELSE r - 1
  <2>1. (r - 1) % n = IF r - 1 < 0 THEN r - 1 + n ELSE r - 1
    <3>1. PICK x \in Int : x = r - 1 /\ -n <= x /\ x < 2 * n
      OBVIOUS
    <3>2. x % n = IF x < 0 THEN x + n ELSE IF x < n THEN x ELSE x - n
      BY <3>1, Wrapped
    <3> QED  BY <3>1, <3>2
  <2> QED  BY <2>1 DEF Predecessor
<1>2. \A q \in 0 .. n - 1 : Logical(n, q, c) = IF q < c THEN q - c + n ELSE q - c
  <2> TAKE q \in 0 .. n - 1
  <2>1. (q - c) % n = IF q - c < 0 THEN q - c + n ELSE q - c
    <3>1. PICK x \in Int : x = q - c /\ -n <= x /\ x < 2 * n
      OBVIOUS
    <3>2. x % n = IF x < 0 THEN x + n ELSE IF x < n THEN x ELSE x - n
      BY <3>1, Wrapped
    <3> QED  BY <3>1, <3>2
  <2> QED  BY <2>1 DEF Logical
<1>3. ASSUME NEW s \in 0 .. n - 2
      PROVE  /\ Ring(n, r, s).reduce_recv = IF r < s + 1 THEN r - s - 1 + n ELSE r - s - 1
             /\ Ring(n, r, s).gather_recv = IF r < s THEN r - s + n ELSE r - s
             /\ Ring(n, p, s).reduce_send = IF p < s THEN p - s + n ELSE p - s
             /\ Ring(n, p, s).gather_send =
                    IF p - s + 1 < 0 THEN p - s + 1 + n
                    ELSE IF p - s + 1 < n THEN p - s + 1 ELSE p - s + 1 - n
  <2>1. (r - s - 1) % n = IF r < s + 1 THEN r - s - 1 + n ELSE r - s - 1
    <3>1. PICK x \in Int : x = r - s - 1 /\ -n <= x /\ x < 2 * n
      OBVIOUS
    <3>2. x % n = IF x < 0 THEN x + n ELSE IF x < n THEN x ELSE x - n
      BY <3>1, Wrapped
    <3> QED  BY <3>1, <3>2
  <2>2. (r - s) % n = IF r < s THEN r - s + n ELSE r - s
    <3>1. PICK x \in Int : x = r - s /\ -n <= x /\ x < 2 * n
      OBVIOUS
    <3>2. x % n = IF x < 0 THEN x + n ELSE IF x < n THEN x ELSE x - n
      BY <3>1, Wrapped
    <3> QED  BY <3>1, <3>2
  <2>3. (p - s) % n = IF p < s THEN p - s + n ELSE p - s
    <3>1. PICK x \in Int : x = p - s /\ -n <= x /\ x < 2 * n
      OBVIOUS
    <3>2. x % n = IF x < 0 THEN x + n ELSE IF x < n THEN x ELSE x - n
      BY <3>1, Wrapped
    <3> QED  BY <3>1, <3>2
  <2>4. (p - s + 1) % n = IF p - s + 1 < 0 THEN p - s + 1 + n
                          ELSE IF p - s + 1 < n THEN p - s + 1 ELSE p - s + 1 - n
    <3>1. PICK x \in Int : x = p - s + 1 /\ -n <= x /\ x < 2 * n
      OBVIOUS
    <3>2. x % n = IF x < 0 THEN x + n ELSE IF x < n THEN x ELSE x - n
      BY <3>1, Wrapped
    <3> QED  BY <3>1, <3>2
  <2> QED  BY <2>1, <2>2, <2>3, <2>4 DEF Ring
<1>4. /\ Logical(n, r, c) \in 0 .. n - 1
      /\ Logical(n, r, c) = 0 <=> r = c
      /\ Logical(n, p, c) = IF Logical(n, r, c) = 0 THEN n - 1 ELSE Logical(n, r, c) - 1
  BY <1>1, <1>2
<1>5. ASSUME NEW s \in 0 .. n - 2
      PROVE  /\ Ring(n, r, s).reduce_recv \in 0 .. n - 1
             /\ Ring(n, r, s).gather_recv \in 0 .. n - 1
             /\ Ring(n, p, s).reduce_send = Ring(n, r, s).reduce_recv
             /\ Ring(n, p, s).gather_send = Ring(n, r, s).gather_recv
             /\ c = Ring(n, r, s).reduce_recv <=> Logical(n, r, c) = s + 1
             /\ c = Ring(n, r, s).gather_recv <=> Logical(n, r, c) = s
  <2>1. PICK rr, gr, rs, gs, d :
            /\ rr = Ring(n, r, s).reduce_recv /\ gr = Ring(n, r, s).gather_recv
            /\ rs = Ring(n, p, s).reduce_send /\ gs = Ring(n, p, s).gather_send
            /\ d = Logical(n, r, c)
    OBVIOUS
  <2>2. /\ rr = IF r < s + 1 THEN r - s - 1 + n ELSE r - s - 1
        /\ gr = IF r < s THEN r - s + n ELSE r - s
        /\ rs = IF p < s THEN p - s + n ELSE p - s
        /\ gs = IF p - s + 1 < 0 THEN p - s + 1 + n
                ELSE IF p - s + 1 < n THEN p - s + 1 ELSE p - s + 1 - n
        /\ d = IF r < c THEN r - c + n ELSE r - c
    BY <1>2, <1>3, <2>1
  <2>3. /\ rr \in 0 .. n - 1 /\ gr \in 0 .. n - 1
        /\ rs = rr /\ gs = gr
        /\ c = rr <=> d = s + 1
        /\ c = gr <=> d = s
    BY <1>1, <2>2
  <2> QED  BY <2>1, <2>3
<1> QED  BY <1>1, <1>4, <1>5

\* The same for one step.
LEMMA RingChunks ==
    ASSUME NEW n \in Nat \ {0}, NEW r \in 0 .. n - 1, NEW c \in 0 .. n - 1,
           NEW s \in 0 .. n - 2
    PROVE  /\ Ring(n, r, s).reduce_recv \in 0 .. n - 1
           /\ Ring(n, r, s).gather_recv \in 0 .. n - 1
           /\ Ring(n, Predecessor(n, r), s).reduce_send = Ring(n, r, s).reduce_recv
           /\ Ring(n, Predecessor(n, r), s).gather_send = Ring(n, r, s).gather_recv
           /\ c = Ring(n, r, s).reduce_recv <=> Logical(n, r, c) = s + 1
           /\ c = Ring(n, r, s).gather_recv <=> Logical(n, r, c) = s
<1>1. \A t \in 0 .. n - 2 :
          /\ Ring(n, r, t).reduce_recv \in 0 .. n - 1
          /\ Ring(n, r, t).gather_recv \in 0 .. n - 1
          /\ Ring(n, Predecessor(n, r), t).reduce_send = Ring(n, r, t).reduce_recv
          /\ Ring(n, Predecessor(n, r), t).gather_send = Ring(n, r, t).gather_recv
          /\ c = Ring(n, r, t).reduce_recv <=> Logical(n, r, c) = t + 1
          /\ c = Ring(n, r, t).gather_recv <=> Logical(n, r, c) = t
  BY RingSteps
<1> QED  BY <1>1

\* No two ranks are as far past the same rank.
LEMMA LogicalInjective ==
    ASSUME NEW n \in Nat \ {0}, NEW q \in 0 .. n - 1, NEW r \in 0 .. n - 1,
           NEW c \in 0 .. n - 1, Logical(n, q, c) = Logical(n, r, c)
    PROVE  q = r
<1>1. \A a \in 0 .. n - 1 : Logical(n, a, c) = IF a < c THEN a - c + n ELSE a - c
  <2> TAKE a \in 0 .. n - 1
  <2>1. PICK x \in Int : x = a - c /\ -n <= x /\ x < 2 * n
    OBVIOUS
  <2>2. x % n = IF x < 0 THEN x + n ELSE IF x < n THEN x ELSE x - n
    BY <2>1, Wrapped
  <2> QED  BY <2>1, <2>2 DEF Logical
<1> QED  BY <1>1

(***************************************************************************)
(* What the ranks hold, in closed form.  A chunk that has come round to     *)
(* rank r holds what the ranks from its own rank c to r have contributed.   *)
(* After s steps of the reduction that is so as far as s ranks past c;      *)
(* after s steps of the gathering the chunk is whole on the last of them    *)
(* and on the first s.                                                      *)
(***************************************************************************)
OwnChunk(n, r) == [q \in RankIds(n) |-> IF q = r THEN 1 ELSE 0]
Window(n, r, c) ==
    [q \in RankIds(n) |-> IF Logical(n, q, c) <= Logical(n, r, c) THEN 1 ELSE 0]
Whole(n) == [q \in RankIds(n) |-> 1]

Reduced(n, s) ==
    [r \in RankIds(n) |-> [c \in RankIds(n) |->
        IF Logical(n, r, c) <= s THEN Window(n, r, c) ELSE OwnChunk(n, r)]]
Gathered(n, s) ==
    [r \in RankIds(n) |-> [c \in RankIds(n) |->
        IF Logical(n, r, c) < s \/ Logical(n, r, c) = n - 1
        THEN Whole(n) ELSE Window(n, r, c)]]

\* A window of one rank is what that rank contributes, and the widest is whole.
LEMMA Windows ==
    ASSUME NEW n \in Nat \ {0}, NEW r \in 0 .. n - 1, NEW c \in 0 .. n - 1
    PROVE  /\ Logical(n, r, c) = 0 => Window(n, r, c) = OwnChunk(n, r)
           /\ Logical(n, r, c) = n - 1 => Window(n, r, c) = Whole(n)
           /\ Logical(n, r, c) # 0 =>
                  Window(n, r, c) =
                      [q \in RankIds(n) |->
                          OwnChunk(n, r)[q] + Window(n, Predecessor(n, r), c)[q]]
<1>1. \A q \in 0 .. n - 1 : /\ Logical(n, q, c) \in 0 .. n - 1
                            /\ Logical(n, q, c) = Logical(n, r, c) => q = r
  BY RingSteps, LogicalInjective
<1>2. PICK d \in 0 .. n - 1 : d = Logical(n, r, c)
  BY <1>1
<1>3. ASSUME d = 0 PROVE Window(n, r, c) = OwnChunk(n, r)
  <2>1. ASSUME NEW q \in RankIds(n) PROVE Logical(n, q, c) <= Logical(n, r, c) <=> q = r
    <3>1. PICK e \in 0 .. n - 1 : e = Logical(n, q, c) /\ (e = d => q = r)
      BY <1>1, <1>2 DEF RankIds
    <3>2. q = r => e = d
      BY <1>2, <3>1
    <3> QED  BY <1>2, <1>3, <3>1, <3>2
  <2> QED  BY <2>1, Zenon DEF Window, OwnChunk
<1>4. d = n - 1 => Window(n, r, c) = Whole(n)
  BY <1>1, <1>2 DEF Window, Whole, RankIds
<1>5. ASSUME d # 0
      PROVE  Window(n, r, c) =
                 [q \in RankIds(n) |-> OwnChunk(n, r)[q] + Window(n, Predecessor(n, r), c)[q]]
  <2>1. PICK p \in 0 .. n - 1 : p = Predecessor(n, r) /\ Logical(n, p, c) = d - 1
    BY <1>2, <1>5, RingSteps
  <2>2. ASSUME NEW q \in RankIds(n)
        PROVE  Window(n, r, c)[q] = OwnChunk(n, r)[q] + Window(n, p, c)[q]
    <3>1. PICK e \in 0 .. n - 1 : e = Logical(n, q, c) /\ (e = d <=> q = r)
      BY <1>1, <1>2, <2>2 DEF RankIds
    <3>2. /\ Window(n, r, c)[q] = IF e <= d THEN 1 ELSE 0
          /\ Window(n, p, c)[q] = IF e <= d - 1 THEN 1 ELSE 0
          /\ OwnChunk(n, r)[q] = IF q = r THEN 1 ELSE 0
      BY <1>2, <2>1, <3>1 DEF Window, OwnChunk
    <3>3. (e <= d <=> e <= d - 1 \/ e = d) /\ ~(e <= d - 1 /\ e = d)
      OBVIOUS
    <3> QED  BY <3>1, <3>2, <3>3
  <2>3. Window(n, r, c) = [q \in RankIds(n) |-> Window(n, r, c)[q]]
    BY DEF Window
  <2> QED  BY <2>1, <2>2, <2>3
<1> QED  BY <1>2, <1>3, <1>4, <1>5

\* A table of ranks and chunks is what it holds.
LEMMA SameTable ==
    ASSUME NEW N, NEW f, NEW g,
           f = [r \in N |-> f[r]], g = [r \in N |-> g[r]],
           \A r \in N : f[r] = [c \in N |-> f[r][c]],
           \A r \in N : g[r] = [c \in N |-> g[r][c]],
           \A r \in N : \A c \in N : f[r][c] = g[r][c]
    PROVE  f = g
<1>1. ASSUME NEW r \in N PROVE f[r] = g[r]
  BY <1>1, Zenon
<1> QED  BY <1>1, Zenon

\* One step of the reduction.
LEMMA ReductionStep ==
    ASSUME NEW n \in Nat \ {0}, NEW s \in 0 .. n - 2
    PROVE  ReduceStep(n, Reduced(n, s), s) = Reduced(n, s + 1)
<1> DEFINE N == RankIds(n)
           before == Reduced(n, s)
           after == ReduceStep(n, before, s)
<1>1. ASSUME NEW r \in N, NEW c \in N
      PROVE  /\ after[r] = [k \in N |-> after[r][k]]
             /\ after[r][c] = Reduced(n, s + 1)[r][c]
  <2>1. r \in 0 .. n - 1 /\ c \in 0 .. n - 1
    BY DEF RankIds
  <2>2. PICK p, k, d :
            /\ p = Predecessor(n, r) /\ p \in N
            /\ k = Ring(n, r, s).reduce_recv /\ k \in N
            /\ k = Ring(n, p, s).reduce_send
            /\ d = Logical(n, r, c) /\ d \in 0 .. n - 1
            /\ c = k <=> d = s + 1
            /\ Logical(n, p, c) = IF d = 0 THEN n - 1 ELSE d - 1
    <3>1. /\ Predecessor(n, r) \in 0 .. n - 1 /\ Logical(n, r, c) \in 0 .. n - 1
          /\ Logical(n, Predecessor(n, r), c) =
                 IF Logical(n, r, c) = 0 THEN n - 1 ELSE Logical(n, r, c) - 1
      BY <2>1, RingSteps
    <3>2. /\ Ring(n, r, s).reduce_recv \in 0 .. n - 1
          /\ Ring(n, Predecessor(n, r), s).reduce_send = Ring(n, r, s).reduce_recv
          /\ c = Ring(n, r, s).reduce_recv <=> Logical(n, r, c) = s + 1
      BY <2>1, RingChunks
    <3> QED  BY <3>1, <3>2 DEF RankIds
  <2>3. after[r] = [before[r] EXCEPT ![k] = [q \in N |-> @[q] + before[p][k][q]]]
    BY <2>2 DEF ReduceStep
  <2>4. /\ before[r] = [x \in N |-> before[r][x]]
        /\ before[r][c] = IF d <= s THEN Window(n, r, c) ELSE OwnChunk(n, r)
        /\ before[p][c] = IF Logical(n, p, c) <= s THEN Window(n, p, c) ELSE OwnChunk(n, p)
        /\ Reduced(n, s + 1)[r][c] = IF d <= s + 1 THEN Window(n, r, c) ELSE OwnChunk(n, r)
    BY <2>2 DEF Reduced
  <2> HIDE DEF before, after
  <2>5. after[r] = [x \in N |-> after[r][x]]
    BY <2>3, <2>4, <2>2
  <2>6. CASE c # k
    <3>1. after[r][c] = before[r][c]
      BY <2>2, <2>3, <2>4, <2>6
    <3>2. d <= s <=> d <= s + 1
      BY <2>2, <2>6
    <3> QED  BY <2>4, <2>5, <3>1, <3>2
  <2>7. CASE c = k
    <3>1. after[r][c] = [q \in N |-> before[r][c][q] + before[p][c][q]]
      BY <2>2, <2>3, <2>4, <2>7
    <3>2. d = s + 1 /\ d # 0 /\ ~(d <= s) /\ Logical(n, p, c) = s /\ s <= s /\ d <= s + 1
      BY <2>2, <2>7
    <3>3. Window(n, r, c) = [q \in N |-> OwnChunk(n, r)[q] + Window(n, p, c)[q]]
      <4>1. Logical(n, r, c) # 0 =>
                Window(n, r, c) =
                    [q \in N |-> OwnChunk(n, r)[q] + Window(n, Predecessor(n, r), c)[q]]
        BY <2>1, Windows
      <4> QED  BY <2>2, <3>2, <4>1
    <3> QED  BY <2>4, <2>5, <3>1, <3>2, <3>3
  <2> QED  BY <2>6, <2>7
<1>2. /\ after = [r \in N |-> after[r]]
      /\ Reduced(n, s + 1) = [r \in N |-> Reduced(n, s + 1)[r]]
      /\ \A r \in N : Reduced(n, s + 1)[r] = [c \in N |-> Reduced(n, s + 1)[r][c]]
  BY DEF ReduceStep, Reduced
<1> HIDE DEF N, before, after
<1> QED  BY <1>1, <1>2, SameTable DEF after, before

\* One step of the gathering.
LEMMA GatheringStep ==
    ASSUME NEW n \in Nat \ {0}, NEW s \in 0 .. n - 2
    PROVE  GatherStep(n, Gathered(n, s), s) = Gathered(n, s + 1)
<1> DEFINE N == RankIds(n)
           before == Gathered(n, s)
           after == GatherStep(n, before, s)
<1>1. ASSUME NEW r \in N, NEW c \in N
      PROVE  /\ after[r] = [k \in N |-> after[r][k]]
             /\ after[r][c] = Gathered(n, s + 1)[r][c]
  <2>1. r \in 0 .. n - 1 /\ c \in 0 .. n - 1
    BY DEF RankIds
  <2>2. PICK p, k, d :
            /\ p = Predecessor(n, r) /\ p \in N
            /\ k = Ring(n, r, s).gather_recv /\ k \in N
            /\ k = Ring(n, p, s).gather_send
            /\ d = Logical(n, r, c) /\ d \in 0 .. n - 1
            /\ c = k <=> d = s
            /\ Logical(n, p, c) = IF d = 0 THEN n - 1 ELSE d - 1
    <3>1. /\ Predecessor(n, r) \in 0 .. n - 1 /\ Logical(n, r, c) \in 0 .. n - 1
          /\ Logical(n, Predecessor(n, r), c) =
                 IF Logical(n, r, c) = 0 THEN n - 1 ELSE Logical(n, r, c) - 1
      BY <2>1, RingSteps
    <3>2. /\ Ring(n, r, s).gather_recv \in 0 .. n - 1
          /\ Ring(n, Predecessor(n, r), s).gather_send = Ring(n, r, s).gather_recv
          /\ c = Ring(n, r, s).gather_recv <=> Logical(n, r, c) = s
      BY <2>1, RingChunks
    <3> QED  BY <3>1, <3>2 DEF RankIds
  <2>3. after[r] = [before[r] EXCEPT ![k] = before[p][k]]
    BY <2>2 DEF GatherStep
  <2>4. /\ before[r] = [x \in N |-> before[r][x]]
        /\ before[r][c] = IF d < s \/ d = n - 1 THEN Whole(n) ELSE Window(n, r, c)
        /\ before[p][c] = IF Logical(n, p, c) < s \/ Logical(n, p, c) = n - 1
                          THEN Whole(n) ELSE Window(n, p, c)
        /\ Gathered(n, s + 1)[r][c] =
               IF d < s + 1 \/ d = n - 1 THEN Whole(n) ELSE Window(n, r, c)
    BY <2>2 DEF Gathered
  <2> HIDE DEF before, after
  <2>5. after[r] = [x \in N |-> after[r][x]]
    BY <2>3, <2>4, <2>2
  <2>6. CASE c # k
    <3>1. after[r][c] = before[r][c]
      BY <2>2, <2>3, <2>4, <2>6
    <3>2. d < s <=> d < s + 1
      BY <2>2, <2>6
    <3> QED  BY <2>4, <2>5, <3>1, <3>2
  <2>7. CASE c = k
    <3>1. after[r][c] = before[p][c]
      BY <2>2, <2>3, <2>4, <2>7
    <3>2. d < s + 1 /\ (Logical(n, p, c) < s \/ Logical(n, p, c) = n - 1)
      BY <2>2, <2>7
    <3> QED  BY <2>4, <2>5, <3>1, <3>2
  <2> QED  BY <2>6, <2>7
<1>2. /\ after = [r \in N |-> after[r]]
      /\ Gathered(n, s + 1) = [r \in N |-> Gathered(n, s + 1)[r]]
      /\ \A r \in N : Gathered(n, s + 1)[r] = [c \in N |-> Gathered(n, s + 1)[r][c]]
  BY DEF GatherStep, Gathered
<1> HIDE DEF N, before, after
<1> QED  BY <1>1, <1>2, SameTable DEF after, before

\* The ends of the two passes.
LEMMA RingEnds ==
    ASSUME NEW n \in Nat \ {0}
    PROVE  /\ Reduced(n, 0) = Contributions(n)
           /\ Gathered(n, 0) = Reduced(n, n - 1)
           /\ Gathered(n, n - 1) =
                  [r \in RankIds(n) |-> [c \in RankIds(n) |-> Whole(n)]]
<1> DEFINE N == RankIds(n)
<1>1. ASSUME NEW r \in N, NEW c \in N
      PROVE  /\ Logical(n, r, c) \in 0 .. n - 1
             /\ Logical(n, r, c) = 0 => Window(n, r, c) = OwnChunk(n, r)
             /\ Logical(n, r, c) = n - 1 => Window(n, r, c) = Whole(n)
  <2>1. r \in 0 .. n - 1 /\ c \in 0 .. n - 1
    BY DEF RankIds
  <2> QED  BY <2>1, Windows, RingSteps
<1>2. ASSUME NEW r \in N, NEW c \in N
      PROVE  /\ Reduced(n, 0)[r][c] = OwnChunk(n, r)
             /\ Gathered(n, 0)[r][c] = Window(n, r, c)
             /\ Reduced(n, n - 1)[r][c] = Window(n, r, c)
             /\ Gathered(n, n - 1)[r][c] = Whole(n)
  <2>1. PICK d \in 0 .. n - 1 : d = Logical(n, r, c)
    BY <1>1
  <2>2. /\ d <= n - 1 /\ ~(d < 0) /\ (d <= 0 <=> d = 0)
        /\ d < n - 1 \/ d = n - 1
    BY <2>1
  <2> QED  BY <1>1, <2>1, <2>2 DEF Reduced, Gathered
<1>3. Contributions(n) = [r \in N |-> [c \in N |-> OwnChunk(n, r)]]
  BY DEF Contributions, OwnChunk
<1>4. \A s : /\ Reduced(n, s) = [r \in N |-> [c \in N |-> Reduced(n, s)[r][c]]]
             /\ Gathered(n, s) = [r \in N |-> [c \in N |-> Gathered(n, s)[r][c]]]
  BY DEF Reduced, Gathered
<1> HIDE DEF N
<1>5. Reduced(n, 0) = [r \in N |-> [c \in N |-> OwnChunk(n, r)]]
  <2>1. Reduced(n, 0) = [r \in N |-> [c \in N |-> Reduced(n, 0)[r][c]]]
    BY <1>4
  <2> QED  BY <1>2, <2>1
<1>6. Gathered(n, 0) = Reduced(n, n - 1)
  <2>1. /\ Gathered(n, 0) = [r \in N |-> [c \in N |-> Gathered(n, 0)[r][c]]]
        /\ Reduced(n, n - 1) = [r \in N |-> [c \in N |-> Reduced(n, n - 1)[r][c]]]
    BY <1>4
  <2>2. \A r \in N : \A c \in N : Gathered(n, 0)[r][c] = Reduced(n, n - 1)[r][c]
    BY <1>2
  <2> QED  BY <2>1, <2>2
<1>7. Gathered(n, n - 1) = [r \in N |-> [c \in N |-> Whole(n)]]
  <2>1. Gathered(n, n - 1) = [r \in N |-> [c \in N |-> Gathered(n, n - 1)[r][c]]]
    BY <1>4
  <2> QED  BY <1>2, <2>1
<1> QED  BY <1>3, <1>5, <1>6, <1>7 DEF N

\* The recursive functions of RingRun, as what they must satisfy.
Reduces(f, n) ==
    f = [s \in 0 .. n - 1 |->
            IF s = 0 THEN Contributions(n) ELSE ReduceStep(n, f[s - 1], s - 1)]
Gathers(f, n, first) ==
    f = [s \in 0 .. n - 1 |->
            IF s = 0 THEN first ELSE GatherStep(n, f[s - 1], s - 1)]

\* Every set of numbers has a least one,
LEMMA LeastNumber ==
    ASSUME NEW T, T \subseteq Nat, T # {}
    PROVE  \E x \in T : \A y \in T : x <= y
<1> DEFINE R == {p \in Nat \X Nat : p[1] < p[2]}
<1>1. IsWellFoundedOn(R, Nat)
  BY NatLessThanWellFounded DEF OpToRel
<1> HIDE DEF R
<1>2. PICK x \in T : \A y \in T : <<y, x>> \notin R
  BY <1>1, WFMin
<1>3. \A y \in T : ~(y < x)
  BY <1>2 DEF R
<1> QED  BY <1>3

\* so two functions that start alike on 0 .. m and go on alike are the same there.
LEMMA AgreeThroughout ==
    ASSUME NEW m \in Nat, NEW f, NEW g,
           f[0] = g[0],
           \A s \in 0 .. m : s # 0 /\ f[s - 1] = g[s - 1] => f[s] = g[s]
    PROVE  \A s \in 0 .. m : f[s] = g[s]
<1> DEFINE T == {s \in 0 .. m : f[s] # g[s]}
<1> SUFFICES ASSUME T # {} PROVE FALSE
  OBVIOUS
<1>1. T \subseteq Nat
  OBVIOUS
<1>2. PICK x \in T : \A y \in T : x <= y
  <2> HIDE DEF T
  <2> QED  BY <1>1, LeastNumber
<1>3. x \in 0 .. m /\ x # 0 /\ f[x] # g[x]
  OBVIOUS
<1>4. x - 1 \in 0 .. m /\ ~(x <= x - 1)
  BY <1>3
<1>5. f[x - 1] = g[x - 1]
  BY <1>2, <1>4
<1> QED  BY <1>3, <1>5

\* The reduction computes Reduced.
LEMMA ReductionRuns ==
    ASSUME NEW n \in Nat \ {0}
    PROVE  (CHOOSE f : Reduces(f, n))[n - 1] = Reduced(n, n - 1)
<1> DEFINE g == [s \in 0 .. n - 1 |-> Reduced(n, s)]
           f == CHOOSE h : Reduces(h, n)
<1>1. \A s \in 0 .. n - 1 : s # 0 =>
          /\ s - 1 \in 0 .. n - 1
          /\ g[s] = ReduceStep(n, g[s - 1], s - 1)
  <2> SUFFICES ASSUME NEW s \in 0 .. n - 1, s # 0
               PROVE  /\ s - 1 \in 0 .. n - 1
                      /\ g[s] = ReduceStep(n, g[s - 1], s - 1)
    OBVIOUS
  <2>1. PICK t \in 0 .. n - 2 : t = s - 1 /\ s = t + 1 /\ t \in 0 .. n - 1
    OBVIOUS
  <2>2. ReduceStep(n, Reduced(n, t), t) = Reduced(n, t + 1)
    BY ReductionStep
  <2> QED  BY <2>1, <2>2
<1>2. g[0] = Contributions(n)
  <2>1. 0 \in 0 .. n - 1
    OBVIOUS
  <2> QED  BY <2>1, RingEnds
<1>3. g = [s \in 0 .. n - 1 |-> g[s]]
  OBVIOUS
<1>4. n - 1 \in 0 .. n - 1 /\ 0 \in 0 .. n - 1 /\ n - 1 \in Nat
  OBVIOUS
<1>5. g[n - 1] = Reduced(n, n - 1)
  BY <1>4
<1> HIDE DEF g
<1>6. Reduces(g, n)
  <2>1. \A s \in 0 .. n - 1 :
            g[s] = IF s = 0 THEN Contributions(n) ELSE ReduceStep(n, g[s - 1], s - 1)
    BY <1>1, <1>2, Zenon
  <2> QED  BY <1>3, <2>1, Zenon DEF Reduces
<1>7. Reduces(f, n)
  BY <1>6
<1> HIDE DEF f
<1>8. /\ f[0] = g[0]
      /\ \A s \in 0 .. n - 1 : s # 0 => f[s] = ReduceStep(n, f[s - 1], s - 1)
  BY <1>2, <1>4, <1>7 DEF Reduces
<1>9. \A s \in 0 .. n - 1 : s # 0 /\ f[s - 1] = g[s - 1] => f[s] = g[s]
  BY <1>1, <1>8
<1>10. \A s \in 0 .. n - 1 : f[s] = g[s]
  BY <1>4, <1>8, <1>9, AgreeThroughout
<1> QED  BY <1>4, <1>5, <1>10 DEF f

\* The gathering computes Gathered.
LEMMA GatheringRuns ==
    ASSUME NEW n \in Nat \ {0}
    PROVE  (CHOOSE f : Gathers(f, n, Reduced(n, n - 1)))[n - 1] = Gathered(n, n - 1)
<1> DEFINE first == Reduced(n, n - 1)
           g == [s \in 0 .. n - 1 |-> Gathered(n, s)]
           f == CHOOSE h : Gathers(h, n, first)
<1>1. \A s \in 0 .. n - 1 : s # 0 =>
          /\ s - 1 \in 0 .. n - 1
          /\ g[s] = GatherStep(n, g[s - 1], s - 1)
  <2> SUFFICES ASSUME NEW s \in 0 .. n - 1, s # 0
               PROVE  /\ s - 1 \in 0 .. n - 1
                      /\ g[s] = GatherStep(n, g[s - 1], s - 1)
    OBVIOUS
  <2>1. PICK t \in 0 .. n - 2 : t = s - 1 /\ s = t + 1 /\ t \in 0 .. n - 1
    OBVIOUS
  <2>2. GatherStep(n, Gathered(n, t), t) = Gathered(n, t + 1)
    BY GatheringStep
  <2> QED  BY <2>1, <2>2
<1>2. g[0] = first
  <2>1. 0 \in 0 .. n - 1
    OBVIOUS
  <2> QED  BY <2>1, RingEnds
<1>3. g = [s \in 0 .. n - 1 |-> g[s]]
  OBVIOUS
<1>4. n - 1 \in 0 .. n - 1 /\ 0 \in 0 .. n - 1 /\ n - 1 \in Nat
  OBVIOUS
<1>5. g[n - 1] = Gathered(n, n - 1)
  BY <1>4
<1> HIDE DEF g, first
<1>6. Gathers(g, n, first)
  <2>1. \A s \in 0 .. n - 1 :
            g[s] = IF s = 0 THEN first ELSE GatherStep(n, g[s - 1], s - 1)
    BY <1>1, <1>2, Zenon
  <2> QED  BY <1>3, <2>1, Zenon DEF Gathers
<1>7. Gathers(f, n, first)
  BY <1>6
<1> HIDE DEF f
<1>8. /\ f[0] = g[0]
      /\ \A s \in 0 .. n - 1 : s # 0 => f[s] = GatherStep(n, f[s - 1], s - 1)
  BY <1>2, <1>4, <1>7 DEF Gathers
<1>9. \A s \in 0 .. n - 1 : s # 0 /\ f[s - 1] = g[s - 1] => f[s] = g[s]
  BY <1>1, <1>8
<1>10. \A s \in 0 .. n - 1 : f[s] = g[s]
  BY <1>4, <1>8, <1>9, AgreeThroughout
<1> QED  BY <1>4, <1>5, <1>10 DEF f, first

(***************************************************************************)
(* compile_ring_schedule() is an all-reduce for every number of ranks:      *)
(* after its 2 (n - 1) steps every rank holds every chunk, with what every  *)
(* rank contributed in it exactly once.                                     *)
(***************************************************************************)
THEOREM RingIsComplete == Spec => []RingReducesAll
<1>1. ASSUME NEW n \in Nat \ {0}
      PROVE  RingRun(n) = [r \in RankIds(n) |-> [c \in RankIds(n) |-> Whole(n)]]
  <2>1. RingRun(n) = (CHOOSE f : Gathers(f, n, (CHOOSE h : Reduces(h, n))[n - 1]))[n - 1]
    BY DEF RingRun, Gathers, Reduces
  <2> QED  BY <2>1, ReductionRuns, GatheringRuns, RingEnds
<1>2. IndInv => RingReducesAll
  <2> SUFFICES ASSUME IndInv
               PROVE  RingRun(context.world_size) =
                          [r \in Ranks |-> [c \in Ranks |-> [q \in Ranks |-> 1]]]
    BY DEF RingReducesAll
  <2>1. PICK n \in Nat \ {0} : n = context.world_size /\ Ranks = RankIds(n)
    BY CompilerAssumption DEF IndInv, context, Ranks
  <2> QED  BY <1>1, <2>1 DEF Whole
<1> QED  BY <1>2, AlwaysIndInv, PTL
----------------------------------------------------------------------------
(***************************************************************************)
(* The hierarchy.                                                           *)
(***************************************************************************)
\* What the recursive function of Total must satisfy.
Sums(f, counts, ranks) ==
    f = [S \in SUBSET ranks |->
            IF S = {} THEN 0
            ELSE LET r == CHOOSE r \in S : TRUE IN counts[r] + f[S \ {r}]]

\* A sum in which one rank counts once, and the others do not.
LEMMA TotalOfOne ==
    ASSUME NEW ranks, IsFiniteSet(ranks), NEW x, NEW counts,
           \A r \in ranks : counts[r] = IF r = x THEN 1 ELSE 0
    PROVE  Total(counts, ranks) = IF x \in ranks THEN 1 ELSE 0
<1> DEFINE g == [S \in SUBSET ranks |-> IF x \in S THEN 1 ELSE 0]
           f == CHOOSE h : Sums(h, counts, ranks)
           Pick(S) == CHOOSE r \in S : TRUE
<1>1. ASSUME NEW S \in SUBSET ranks, S # {}
      PROVE  /\ Pick(S) \in S
             /\ S \ {Pick(S)} \in SUBSET ranks
             /\ g[S] = counts[Pick(S)] + g[S \ {Pick(S)}]
  <2>1. PICK r \in S : r = Pick(S)
    BY <1>1
  <2>2. counts[r] = (IF r = x THEN 1 ELSE 0) /\ S \ {r} \in SUBSET ranks
    OBVIOUS
  <2>3. g[S] = (IF x \in S THEN 1 ELSE 0) /\ g[S \ {r}] = IF x \in S \ {r} THEN 1 ELSE 0
    BY <2>2
  <2>4. x \in S \ {r} <=> x \in S /\ x # r
    OBVIOUS
  <2>5. g[S] = counts[r] + g[S \ {r}]
    BY <2>1, <2>2, <2>3, <2>4
  <2> QED  BY <2>1, <2>2, <2>5
<1>2. g = [S \in SUBSET ranks |-> g[S]] /\ g[{}] = 0
  OBVIOUS
<1>3. g[ranks] = IF x \in ranks THEN 1 ELSE 0
  OBVIOUS
<1>4. Total(counts, ranks) = f[ranks]
  BY DEF Total, Sums
<1> HIDE DEF g
<1>5. Sums(g, counts, ranks)
  BY <1>1, <1>2, Zenon DEF Sums
<1>6. Sums(f, counts, ranks)
  BY <1>5
<1> HIDE DEF f
<1>7. /\ f[{}] = 0
      /\ \A S \in SUBSET ranks : S # {} => f[S] = counts[Pick(S)] + f[S \ {Pick(S)}]
  BY <1>6 DEF Sums
<1> HIDE DEF Pick
<1> DEFINE T == {S \in SUBSET ranks : f[S] # g[S]}
<1>8. T = {}
  <2> SUFFICES ASSUME T # {} PROVE FALSE
    OBVIOUS
  <2>1. IsWellFoundedOn(StrictSubsetOrdering(ranks), SUBSET ranks)
    BY FS_StrictSubsetOrderingWellFounded, FS_FiniteSubsetsOfFinite
  <2>2. T \subseteq SUBSET ranks
    OBVIOUS
  <2>3. PICK S \in T : \A U \in T : <<U, S>> \notin StrictSubsetOrdering(ranks)
    <3> HIDE DEF T
    <3> QED  BY <2>1, <2>2, WFMin
  <2>4. S \in SUBSET ranks /\ f[S] # g[S] /\ S # {}
    BY <1>2, <1>7
  <2>5. PICK U \in SUBSET ranks : U = S \ {Pick(S)} /\ U # S
    <3>1. Pick(S) \in S /\ S \ {Pick(S)} \in SUBSET ranks
      BY <1>1, <2>4
    <3>2. S \ {Pick(S)} # S
      BY <3>1
    <3> QED  BY <3>1, <3>2
  <2>6. <<U, S>> \in StrictSubsetOrdering(ranks)
    BY <2>4, <2>5 DEF StrictSubsetOrdering
  <2>7. f[U] = g[U]
    BY <2>3, <2>5, <2>6
  <2>8. g[S] = counts[Pick(S)] + g[U]
    BY <1>1, <2>4, <2>5
  <2>9. f[S] = counts[Pick(S)] + f[U]
    BY <1>7, <2>4, <2>5
  <2> QED  BY <2>4, <2>7, <2>8, <2>9
<1>9. f[ranks] = g[ranks]
  BY <1>8
<1> QED  BY <1>3, <1>4, <1>9

\* The leader of a node is one of its ranks, and leads all of them.
LEMMA Leaders ==
    ASSUME NEW n \in Nat, NEW nodes, DOMAIN nodes = RankIds(n), NEW r \in RankIds(n)
    PROVE  /\ local_leader(nodes, r) \in RankIds(n)
           /\ nodes[local_leader(nodes, r)] = nodes[r]
           /\ \A q \in RankIds(n) :
                  nodes[q] = nodes[r] => local_leader(nodes, q) = local_leader(nodes, r)
<1> DEFINE G == group_for_rank(nodes, r)
<1>1. r \in G /\ G \subseteq RankIds(n) /\ G \subseteq Nat
  BY DEF group_for_rank, RankIds
<1>2. \E l \in G : \A q \in G : l <= q
  <2> HIDE DEF G
  <2> QED  BY <1>1, LeastNumber
<1>3. local_leader(nodes, r) \in G
  BY <1>2 DEF local_leader
<1>4. \A q \in RankIds(n) : nodes[q] = nodes[r] =>
          group_for_rank(nodes, q) = group_for_rank(nodes, r)
  BY DEF group_for_rank
<1>5. \A q \in RankIds(n) : nodes[q] = nodes[r] =>
          local_leader(nodes, q) = local_leader(nodes, r)
  BY <1>4, Zenon DEF local_leader
<1>6. local_leader(nodes, r) \in RankIds(n) /\ nodes[local_leader(nodes, r)] = nodes[r]
  BY <1>3 DEF group_for_rank
<1> QED  BY <1>5, <1>6

\* The three stages, for every layout of n ranks over nodes.
LEMMA HierarchicalMean ==
    ASSUME NEW n \in Nat \ {0}, NEW nodes, DOMAIN nodes = RankIds(n)
    PROVE  execute_hierarchical_mean(nodes) =
               [r \in RankIds(n) |-> [count |-> [q \in RankIds(n) |-> 1], divisor |-> n]]
<1> DEFINE N == RankIds(n)
           own == [r \in N |-> Own(nodes, r)]
           intra == IntraReduce(nodes, own)
           inter == InterReduce(nodes, intra)
           leaders == leader_group(nodes)
           mean == [count |-> [q \in N |-> 1], divisor |-> n]
<1>1. IsFiniteSet(N) /\ Cardinality(N) = n
  BY FS_Interval DEF RankIds
<1>2. \A r \in N : local_leader(nodes, r) \in N /\ local_leader(nodes, r) \in leaders
  BY Leaders DEF leader_group
<1>3. \A l \in leaders : l \in N /\ l = local_leader(nodes, l)
  <2> SUFFICES ASSUME NEW l \in leaders PROVE l \in N /\ l = local_leader(nodes, l)
    OBVIOUS
  <2>1. PICK r \in N : l = local_leader(nodes, r)
    BY DEF leader_group
  <2>2. l \in N /\ nodes[l] = nodes[r]
    BY <2>1, Leaders
  <2> QED  BY <2>1, <2>2, Leaders
<1>4. ASSUME NEW l \in leaders, NEW q \in N
      PROVE  intra[l].count[q] = IF l = local_leader(nodes, q) THEN 1 ELSE 0
  <2> DEFINE G == group_for_rank(nodes, l)
             ones == [r \in G |-> own[r].count[q]]
  <2>1. l \in N /\ l = local_leader(nodes, l)
    BY <1>3
  <2>2. G \subseteq N /\ (q \in G <=> nodes[q] = nodes[l]) /\ DOMAIN own = N
    BY DEF group_for_rank
  <2>3. intra[l].count[q] = Total(ones, G)
    <3>1. intra[l] = SumOver(own, G)
      BY <2>1 DEF IntraReduce
    <3>2. SumOver(own, G).count[q] = Total(ones, G)
      BY <2>2 DEF SumOver
    <3> QED  BY <3>1, <3>2
  <2>4. \A r \in G : ones[r] = IF r = q THEN 1 ELSE 0
    BY <2>2 DEF Own
  <2>5. IsFiniteSet(G)
    BY <1>1, <2>2, FS_Subset
  <2> HIDE DEF G, ones
  <2>6. Total(ones, G) = IF q \in G THEN 1 ELSE 0
    BY <2>4, <2>5, TotalOfOne
  <2>7. nodes[q] = nodes[l] <=> l = local_leader(nodes, q)
    BY <2>1, Leaders
  <2> QED  BY <2>2, <2>3, <2>6, <2>7
<1>5. ASSUME NEW l \in leaders
      PROVE  inter[l] = mean
  <2>1. l \in N /\ DOMAIN intra = N
    BY <1>3 DEF IntraReduce
  <2>2. inter[l] = [SumOver(intra, leaders) EXCEPT !.divisor = n]
    BY <1>1, <2>1 DEF InterReduce
  <2>3. inter[l] = [count |-> [q \in N |->
                        Total([r \in leaders |-> intra[r].count[q]], leaders)],
                    divisor |-> n]
    BY <2>1, <2>2 DEF SumOver
  <2>4. ASSUME NEW q \in N
        PROVE  Total([r \in leaders |-> intra[r].count[q]], leaders) = 1
    <3> DEFINE ones == [r \in leaders |-> intra[r].count[q]]
    <3>1. PICK x \in leaders : x = local_leader(nodes, q)
      BY <1>2
    <3>2. \A r \in leaders : ones[r] = IF r = x THEN 1 ELSE 0
      BY <1>4, <3>1
    <3>3. IsFiniteSet(leaders)
      <4>1. leaders \subseteq N
        BY <1>3
      <4> QED  BY <1>1, <4>1, FS_Subset
    <3> HIDE DEF ones, leaders
    <3>4. Total(ones, leaders) = IF x \in leaders THEN 1 ELSE 0
      BY <3>2, <3>3, TotalOfOne
    <3> QED  BY <3>4 DEF ones
  <2> QED  BY <2>3, <2>4
<1>6. execute_hierarchical_mean(nodes) = [r \in N |-> inter[local_leader(nodes, r)]]
  BY DEF execute_hierarchical_mean, IntraBroadcast
<1> HIDE DEF inter, leaders, mean, N
<1>7. [r \in N |-> inter[local_leader(nodes, r)]] = [r \in N |-> mean]
  BY <1>2, <1>5
<1> QED  BY <1>6, <1>7 DEF mean, N

(***************************************************************************)
(* execute_hierarchical_mean() gives every rank the mean over all ranks,    *)
(* for every number of ranks and every way to spread them over nodes, also  *)
(* an uneven one: each contribution is counted once and divided by the      *)
(* number of ranks.                                                         *)
(***************************************************************************)
THEOREM HierarchyIsTheMean == Spec => []HierarchyAverages
<1>1. IndInv => HierarchyAverages
  <2> SUFFICES ASSUME IndInv, Parses(context.node_ids, context.world_size)
               PROVE  execute_hierarchical_mean(context.node_ids) =
                          [r \in Ranks |-> [count |-> [q \in Ranks |-> 1],
                                            divisor |-> context.world_size]]
    BY DEF HierarchyAverages
  <2>1. PICK n \in Nat \ {0} : n = context.world_size /\ Ranks = RankIds(n)
    BY CompilerAssumption DEF IndInv, context, Ranks
  <2>2. DOMAIN context.node_ids = RankIds(n)
    BY <2>1 DEF Parses
  <2> QED  BY <2>1, <2>2, HierarchicalMean
<1> QED  BY <1>1, AlwaysIndInv, PTL
=============================================================================
