------------------------- MODULE ShardedMasterProofs -------------------------
(***************************************************************************)
(* ShardedMaster for every number of ranks, every layout, gradient, policy  *)
(* and sequence of faults.                                                  *)
(*                                                                          *)
(* InStep: how far two ranks can be from each other, and that they owe a    *)
(* refresh together, so that they decide alike.  Stored: the padding of a   *)
(* checkpoint that can be loaded.  Replayed: a state, and such a            *)
(* checkpoint, is what its steps give if the caller writes all entries.     *)
(* Copied: what two copies of a parameter have in common, also while one of *)
(* them has applied a round and the other has not.                          *)
(*                                                                          *)
(* Replay is a recursive function.  That it exists, and what it computes,   *)
(* is proved by induction over sets of numbers (SetInduction).              *)
(***************************************************************************)
EXTENDS ShardedMaster, FiniteSetTheorems, WellFoundedInduction, TLAPS

Shard == shard_numel(original_numel, world_size, group_size)

\* Stepped and Replay, for an optimizer that is a parameter.
SteppedBy(o, r, s) ==
    LET g == Gradient[r][s.step + 1]
    IN  IF o = "sgd" THEN sgd_step(r, s, g) ELSE adamw_step(r, s, g)

ReplayBy(o, r, step) ==
    LET after[n \in 0 .. step] ==
            IF n = 0 THEN NewState(r) ELSE SteppedBy(o, r, after[n - 1])
    IN  after[step]

Clean(s) == [s EXCEPT !.requires_fp_refresh = FALSE]

\* The state in a checkpoint.
Restored(c) ==
    [master |-> c.master, step |-> c.step, exp_avg |-> c.exp_avg,
     exp_avg_sq |-> c.exp_avg_sq, requires_fp_refresh |-> FALSE]

Owes(r) == state[r].requires_fp_refresh

Decision(r) ==
    IF Owes(r) THEN "fp_refresh" ELSE decide(state[r].step, inputs[state[r].step])

Before == {"apply", "step"}         \* the next step is still to be made
After == {"decide", "gather"}       \* it has been made

Resumed == IF "step" \in kept THEN target ELSE 0       \* the step after a load

InStep ==
    /\ \A r \in Ranks :
           /\ pc[r] = "step" => ~Owes(r)
           /\ pc[r] = "gather" => mode[r] = Decision(r)
           /\ pc[r] = "apply" => mode[r] # "none"
           /\ pc[r] = "apply" /\ mode[r] = "qwd" => ~Owes(r)
    /\ \A r, q \in Ranks :
           /\ pc[r] \in Before /\ pc[q] \in Before => state[r].step = state[q].step
           /\ pc[r] \in Before /\ pc[q] \in After =>
                  state[q].step = state[r].step + 1 /\ ~Owes(q)
           /\ pc[r] \in After /\ pc[q] \in After =>
                  state[q].step = state[r].step /\ (Owes(q) <=> Owes(r))
           /\ pc[r] = "load" => pc[q] \notin Before
           /\ pc[r] = "load" /\ pc[q] \in After =>
                  state[q].step = Resumed /\ Owes(q)

\* The shard of rank r, in a state or a checkpoint, behind the parameters.
Padded(r, s) ==
    \A i \in Elements :
        r * Cardinality(Elements) + i >= original_numel =>
            /\ s.master[i] = Initial[r][i]
            /\ s.exp_avg[i] = 0
            /\ s.exp_avg_sq[i] = 0

Stored ==
    \A r \in Ranks : \A c \in saved : Loadable(r, c) =>
        c.step \in 0 .. MaxStep /\ Padded(r, c)

Replayed ==
    kept = Entries =>
        /\ \A r \in Ranks : pc[r] # "load" =>
               Clean(state[r]) = ReplayBy(optimizer, r, state[r].step)
        /\ \A r \in Ranks : \A c \in saved : Loadable(r, c) =>
               Restored(c) = ReplayBy(optimizer, r, c.step)

\* The copy of rank r is that of the round before the one it is in.
Fresh(r) == pc[r] \in {"step", "decide", "gather"} /\ ~Owes(r)

SameCopy(r, q) ==
    \A o \in Ranks : \A i \in Valid(o) : model[r][o][i] = model[q][o][i]

\* What element i of o's shard is in a copy that has the round r is to apply.
Applied(r, o, i) ==
    IF mode[r] = "qwd" THEN Half(model[r][o][i] + received[r][o][i])
                       ELSE Half(received[r][o][i])

Copied ==
    \A r, q \in Ranks :
        /\ Fresh(r) /\ Fresh(q) => SameCopy(r, q)
        /\ pc[r] = "apply" /\ pc[q] = "apply" =>
               /\ mode[r] = mode[q]
               /\ received[r] = received[q]
               /\ mode[r] = "qwd" => SameCopy(r, q)
        /\ pc[r] = "apply" /\ Fresh(q) =>
               \A o \in Ranks : \A i \in Valid(o) :
                   model[q][o][i] = Applied(r, o, i)

IndInv ==
    /\ TypeOK
    /\ InStep
    /\ Stored
    /\ Replayed
    /\ PaddingUntouched
    /\ Copied

\* The masters are what AdamW, like sgd_step, makes of integers.
AdamWOnIntegers ==
    \A parameter, first, second \in Int, step \in Nat :
        AdamW(parameter, first, second, step) \in Int

Near(x, o, step, i) ==
    \E e \in Errors, rounding \in -1 .. 1 :
        x = ReplayBy(optimizer, o, step).master[i] + e + rounding

\* How far what is sent, and received, is from the master.
Bounded ==
    /\ \A r, o \in Ranks : \A i \in Valid(o) :
           /\ Fresh(r) => model[r][o][i] \in Int
           /\ pc[r] = "step" => Near(model[r][o][i], o, state[r].step, i)
           /\ pc[r] = "apply" /\ mode[r] = "fp_refresh" =>
                  received[r][o][i] =
                      ReplayBy(optimizer, o, state[r].step).master[i]
           /\ pc[r] = "apply" /\ mode[r] = "qwd" =>
                  /\ model[r][o][i] \in Int
                  /\ \E e \in Errors : received[r][o][i] =
                         e + (ReplayBy(optimizer, o, state[r].step).master[i]
                                  - model[r][o][i])
    /\ \A o \in Ranks : \A i \in Valid(o) :
           /\ pc[o] = "gather" /\ mode[o] = "fp_refresh" =>
                  sent[o][i] = state[o].master[i]
           /\ pc[o] = "gather" /\ mode[o] = "qwd" =>
                  \E e \in Errors :
                      sent[o][i] = e + (state[o].master[i] - model[o][o][i])
----------------------------------------------------------------------------
(***************************************************************************)
(* Numbers.                                                                 *)
(***************************************************************************)
\* A set of naturals that is not empty has a least element.
LEMMA LeastElement ==
    ASSUME NEW T, T \subseteq Nat, T # {}
    PROVE  \E x \in T : \A y \in T : x <= y
<1> DEFINE R == {p \in Nat \X Nat : p[1] < p[2]}
<1>1. IsWellFoundedOn(R, Nat)
  BY NatLessThanWellFounded DEF OpToRel
<1> HIDE DEF R
<1>2. PICK x \in T : \A y \in T : <<y, x>> \notin R
  BY <1>1, WFMin
<1>3. \A y \in T : ~(y < x)
  BY <1>2 DEF R
<1> QED  BY <1>3

\* Induction, with a set for the predicate.
LEMMA SetInduction ==
    ASSUME NEW S, 0 \in S, \A n \in Nat : n \in S => n + 1 \in S
    PROVE  Nat \subseteq S
<1> DEFINE T == Nat \ S
<1> SUFFICES ASSUME T # {} PROVE FALSE
  OBVIOUS
<1>1. PICK x \in T : \A y \in T : x <= y
  <2>1. T \subseteq Nat
    OBVIOUS
  <2> HIDE DEF T
  <2> QED  BY <2>1, LeastElement
<1>2. x \in Nat /\ x # 0
  OBVIOUS
<1>3. x - 1 \in Nat /\ x - 1 \notin T
  BY <1>1, <1>2
<1>4. (x - 1) + 1 \in S
  BY <1>3
<1> QED  BY <1>2, <1>4

\* A shard has a size.
LEMMA ShardSize ==
    /\ Shard \in Nat
    /\ Elements = 0 .. Shard - 1
    /\ Cardinality(Elements) = Shard
<1> DEFINE each == (original_numel + world_size - 1) \div world_size
           groups == (each + group_size - 1) \div group_size
<1>1. original_numel \in Nat /\ world_size \in Nat \ {0} /\ group_size \in Nat \ {0}
  BY ShardedMasterAssumption
<1>2. each \in Nat
  BY <1>1
<1> HIDE DEF each
<1>3. groups \in Nat
  BY <1>1, <1>2
<1>4. Shard = groups * group_size
  BY DEF Shard, shard_numel, AlignUp, CeilDiv, each
<1> HIDE DEF groups
<1>5. Shard \in Nat
  BY <1>1, <1>3, <1>4
<1>6. Elements = 0 .. Shard - 1
  BY DEF Elements, Shard
<1>7. Cardinality(0 .. Shard - 1) = Shard
  <2> HIDE DEF Shard
  <2>1. 0 \in Int /\ Shard - 1 \in Int
    BY <1>5
  <2>2. Cardinality(0 .. Shard - 1) =
            IF 0 > Shard - 1 THEN 0 ELSE Shard - 1 - 0 + 1
    BY <2>1, FS_Interval
  <2> QED  BY <1>5, <2>2
<1> QED  BY <1>5, <1>6, <1>7

\* The valid elements of a shard are the parameters in it.
LEMMA ValidElements ==
    ASSUME NEW r \in Ranks
    PROVE  \A i \in Valid(r) : i \in Elements /\ r * Shard + i < original_numel
<1> DEFINE offset == r * Shard
           end == IF offset + Shard < original_numel THEN offset + Shard
                                                     ELSE original_numel
<1>1. Valid(r) = 0 .. (IF end > offset THEN end - offset ELSE 0) - 1
  BY DEF Valid, valid_numel, compile_shard_plan, AtMost, Shard
<1>2. r \in Nat /\ original_numel \in Nat
  BY ShardedMasterAssumption DEF Ranks, RankIds
<1>3. offset \in Int
  BY <1>2, ShardSize
<1> HIDE DEF offset
<1>4. \A i \in Valid(r) : i \in 0 .. Shard - 1 /\ offset + i < original_numel
  BY <1>1, <1>2, <1>3, ShardSize
<1> QED  BY <1>4, ShardSize DEF offset

\* Half rounds to an even number that is at most one away.
LEMMA HalfNear ==
    ASSUME NEW x \in Int
    PROVE  Half(x) \in Int /\ \E rounding \in -1 .. 1 : Half(x) = x + rounding
<1>1. Half(x) = x \/ Half(x) = x + 1
  BY DEF Half
<1> QED  BY <1>1
----------------------------------------------------------------------------
(***************************************************************************)
(* A step of the optimizer.                                                 *)
(***************************************************************************)
\* A record with the fields of a state, whatever they hold.
Fields(s) ==
    s = [master |-> s.master, step |-> s.step, exp_avg |-> s.exp_avg,
         exp_avg_sq |-> s.exp_avg_sq,
         requires_fp_refresh |-> s.requires_fp_refresh]

\* A write reaches the valid elements.
LEMMA WrittenElement ==
    ASSUME NEW r, NEW old, NEW new(_), NEW i \in Elements
    PROVE  Written(r, old, new)[i] = IF i \in Valid(r) THEN new(i) ELSE old[i]
BY DEF Written

\* A record is known by its fields.
LEMMA OneRecord ==
    ASSUME NEW m, NEW n, NEW a, NEW b, NEW f,
           NEW u \in [master : {m}, step : {n}, exp_avg : {a}, exp_avg_sq : {b},
                      requires_fp_refresh : {f}]
    PROVE  u = [master |-> m, step |-> n, exp_avg |-> a, exp_avg_sq |-> b,
                requires_fp_refresh |-> f]
OBVIOUS

\* EXCEPT on such a record, as sgd_step uses it,
LEMMA SgdFields ==
    ASSUME NEW s, Fields(s), NEW m, NEW n
    PROVE  [s EXCEPT !.master = m, !.step = n] =
               [master |-> m, step |-> n, exp_avg |-> s.exp_avg,
                exp_avg_sq |-> s.exp_avg_sq, requires_fp_refresh |-> s.requires_fp_refresh]
<1>1. PICK m0, n0, a0, b0, f0 :
          s = [master |-> m0, step |-> n0, exp_avg |-> a0, exp_avg_sq |-> b0,
               requires_fp_refresh |-> f0]
  BY DEF Fields
<1>2. [s EXCEPT !.master = m, !.step = n] \in
          [master : {m}, step : {n}, exp_avg : {a0},
           exp_avg_sq : {b0}, requires_fp_refresh : {f0}]
  BY <1>1
<1>3. [s EXCEPT !.master = m, !.step = n] =
          [master |-> m, step |-> n, exp_avg |-> a0, exp_avg_sq |-> b0,
           requires_fp_refresh |-> f0]
  BY <1>2, OneRecord
<1> QED  BY <1>1, <1>3

\* and as Clean uses it.
LEMMA CleanFields ==
    ASSUME NEW s, Fields(s)
    PROVE  Clean(s) =
               [master |-> s.master, step |-> s.step, exp_avg |-> s.exp_avg,
                exp_avg_sq |-> s.exp_avg_sq, requires_fp_refresh |-> FALSE]
<1>1. PICK m0, n0, a0, b0, f0 :
          s = [master |-> m0, step |-> n0, exp_avg |-> a0, exp_avg_sq |-> b0,
               requires_fp_refresh |-> f0]
  BY DEF Fields
<1>2. Clean(s) \in
          [master : {m0}, step : {n0}, exp_avg : {a0},
           exp_avg_sq : {b0}, requires_fp_refresh : {FALSE}]
  BY <1>1 DEF Clean
<1>3. Clean(s) =
          [master |-> m0, step |-> n0, exp_avg |-> a0, exp_avg_sq |-> b0,
           requires_fp_refresh |-> FALSE]
  BY <1>2, OneRecord
<1> QED  BY <1>1, <1>3

\* The fields that the two optimizers write.
SgdMaster(r, s, g) == Written(r, s.master, LAMBDA i : s.master[i] - g[i])

First(r, s, g) == Written(r, s.exp_avg, LAMBDA i : s.exp_avg[i] + g[i])

Second(r, s, g) ==
    Written(r, s.exp_avg_sq, LAMBDA i : s.exp_avg_sq[i] + g[i] * g[i])

AdamWMaster(r, s, g) ==
    Written(r, s.master, LAMBDA i :
        AdamW(s.master[i], First(r, s, g)[i], Second(r, s, g)[i], s.step + 1))

\* sgd_step, field by field.
LEMMA SgdRecord ==
    ASSUME NEW r, NEW s, NEW g, Fields(s)
    PROVE  sgd_step(r, s, g) =
               [master |-> SgdMaster(r, s, g), step |-> s.step + 1,
                exp_avg |-> s.exp_avg, exp_avg_sq |-> s.exp_avg_sq,
                requires_fp_refresh |-> s.requires_fp_refresh]
<1>1. sgd_step(r, s, g) =
          [s EXCEPT !.master = SgdMaster(r, s, g), !.step = s.step + 1]
  BY DEF sgd_step, SgdMaster
<1> QED  BY <1>1, SgdFields

\* adamw_step, field by field.
LEMMA AdamWRecord ==
    ASSUME NEW r, NEW s, NEW g, Fields(s)
    PROVE  adamw_step(r, s, g) =
               [master |-> AdamWMaster(r, s, g), step |-> s.step + 1,
                exp_avg |-> First(r, s, g), exp_avg_sq |-> Second(r, s, g),
                requires_fp_refresh |-> s.requires_fp_refresh]
<1>1. adamw_step(r, s, g) =
          [s EXCEPT !.step = s.step + 1, !.exp_avg = First(r, s, g),
                    !.exp_avg_sq = Second(r, s, g), !.master = AdamWMaster(r, s, g)]
  BY DEF adamw_step, First, Second, AdamWMaster
<1> DEFINE m == AdamWMaster(r, s, g)
           n == s.step + 1
           a == First(r, s, g)
           b == Second(r, s, g)
<1> HIDE DEF m, n, a, b
<1>2. [s EXCEPT !.step = n, !.exp_avg = a, !.exp_avg_sq = b, !.master = m] =
          [master |-> m, step |-> n, exp_avg |-> a, exp_avg_sq |-> b,
           requires_fp_refresh |-> s.requires_fp_refresh]
  <2>1. PICK m0, n0, a0, b0, f0 :
            s = [master |-> m0, step |-> n0, exp_avg |-> a0, exp_avg_sq |-> b0,
                 requires_fp_refresh |-> f0]
    BY DEF Fields
  <2>2. [s EXCEPT !.step = n, !.exp_avg = a, !.exp_avg_sq = b, !.master = m] \in
            [master : {m}, step : {n}, exp_avg : {a}, exp_avg_sq : {b},
             requires_fp_refresh : {f0}]
    BY <2>1
  <2>3. [s EXCEPT !.step = n, !.exp_avg = a, !.exp_avg_sq = b, !.master = m] =
            [master |-> m, step |-> n, exp_avg |-> a, exp_avg_sq |-> b,
             requires_fp_refresh |-> f0]
    BY <2>2, OneRecord
  <2> QED  BY <2>1, <2>3
<1> QED  BY <1>1, <1>2 DEF m, n, a, b

\* What a step makes of a state.
LEMMA StepFields ==
    ASSUME NEW o, NEW r, NEW s, Fields(s)
    PROVE  LET t == SteppedBy(o, r, s)
           IN  /\ Fields(t)
               /\ t.step = s.step + 1
               /\ t.requires_fp_refresh = s.requires_fp_refresh
               /\ \A i \in Elements \ Valid(r) :
                      /\ t.master[i] = s.master[i]
                      /\ t.exp_avg[i] = s.exp_avg[i]
                      /\ t.exp_avg_sq[i] = s.exp_avg_sq[i]
<1> DEFINE g == Gradient[r][s.step + 1]
<1>1. CASE o = "sgd"
  <2>1. SteppedBy(o, r, s) = sgd_step(r, s, g)
    BY <1>1 DEF SteppedBy
  <2>2. \A i \in Elements \ Valid(r) : SgdMaster(r, s, g)[i] = s.master[i]
    BY DEF SgdMaster, Written
  <2> QED  BY <2>1, <2>2, SgdRecord DEF Fields
<1>2. CASE o # "sgd"
  <2>1. SteppedBy(o, r, s) = adamw_step(r, s, g)
    BY <1>2 DEF SteppedBy
  <2>2. \A i \in Elements \ Valid(r) :
            /\ AdamWMaster(r, s, g)[i] = s.master[i]
            /\ First(r, s, g)[i] = s.exp_avg[i]
            /\ Second(r, s, g)[i] = s.exp_avg_sq[i]
    BY DEF AdamWMaster, First, Second, Written
  <2> QED  BY <2>1, <2>2, AdamWRecord DEF Fields
<1> QED  BY <1>1, <1>2

\* A step does not look at requires_fp_refresh.
LEMMA CleanStep ==
    ASSUME NEW o, NEW r, NEW s, Fields(s)
    PROVE  /\ Fields(Clean(s))
           /\ Clean(SteppedBy(o, r, s)) = SteppedBy(o, r, Clean(s))
<1> DEFINE c == Clean(s)
           g == Gradient[r][s.step + 1]
<1>1. c = [master |-> s.master, step |-> s.step, exp_avg |-> s.exp_avg,
           exp_avg_sq |-> s.exp_avg_sq, requires_fp_refresh |-> FALSE]
  BY CleanFields
<1> HIDE DEF c
<1>2. /\ Fields(c)
      /\ c.master = s.master /\ c.step = s.step
      /\ c.exp_avg = s.exp_avg /\ c.exp_avg_sq = s.exp_avg_sq
      /\ c.requires_fp_refresh = FALSE
  BY <1>1 DEF Fields
<1>3. Fields(SteppedBy(o, r, s)) /\ Fields(SteppedBy(o, r, c))
  BY <1>2, StepFields
<1>4. /\ SteppedBy(o, r, c).master = SteppedBy(o, r, s).master
      /\ SteppedBy(o, r, c).step = SteppedBy(o, r, s).step
      /\ SteppedBy(o, r, c).exp_avg = SteppedBy(o, r, s).exp_avg
      /\ SteppedBy(o, r, c).exp_avg_sq = SteppedBy(o, r, s).exp_avg_sq
  <2>1. CASE o = "sgd"
    <3>1. /\ SteppedBy(o, r, s) = sgd_step(r, s, g)
          /\ SteppedBy(o, r, c) = sgd_step(r, c, g)
      BY <1>2, <2>1 DEF SteppedBy
    <3>2. SgdMaster(r, c, g) = SgdMaster(r, s, g)
      BY <1>2 DEF SgdMaster, Written
    <3> HIDE DEF g
    <3> QED  BY <1>2, <3>1, <3>2, SgdRecord
  <2>2. CASE o # "sgd"
    <3>1. /\ SteppedBy(o, r, s) = adamw_step(r, s, g)
          /\ SteppedBy(o, r, c) = adamw_step(r, c, g)
      BY <1>2, <2>2 DEF SteppedBy
    <3>2. First(r, c, g) = First(r, s, g) /\ Second(r, c, g) = Second(r, s, g)
      BY <1>2 DEF First, Second, Written
    <3>3. AdamWMaster(r, c, g) = AdamWMaster(r, s, g)
      BY <1>2, <3>2 DEF AdamWMaster, Written
    <3> HIDE DEF g
    <3> QED  BY <1>2, <3>1, <3>2, <3>3, AdamWRecord
  <2> QED  BY <2>1, <2>2
<1>5. Clean(SteppedBy(o, r, s)) =
          [master |-> SteppedBy(o, r, s).master, step |-> SteppedBy(o, r, s).step,
           exp_avg |-> SteppedBy(o, r, s).exp_avg,
           exp_avg_sq |-> SteppedBy(o, r, s).exp_avg_sq,
           requires_fp_refresh |-> FALSE]
  BY <1>3, CleanFields
<1>6. SteppedBy(o, r, c).requires_fp_refresh = FALSE
  BY <1>2, StepFields
<1> QED  BY <1>2, <1>3, <1>4, <1>5, <1>6 DEF Fields, c
----------------------------------------------------------------------------
(***************************************************************************)
(* Replay.                                                                  *)
(***************************************************************************)
\* f is what the recursive definition of Replay asks for.
Computes(f, o, r, n) ==
    f = [k \in 0 .. n |-> IF k = 0 THEN NewState(r) ELSE SteppedBy(o, r, f[k - 1])]

\* There is such a function,
LEMMA ReplayExists ==
    ASSUME NEW o, NEW r, NEW n \in Nat
    PROVE  \E f : Computes(f, o, r, n)
<1> DEFINE S == {k \in Nat : \E f : Computes(f, o, r, k)}
<1>1. 0 \in S
  <2>1. Computes([k \in 0 .. 0 |-> NewState(r)], o, r, 0)
    BY DEF Computes
  <2> QED  BY <2>1
<1>2. ASSUME NEW m \in Nat, m \in S PROVE m + 1 \in S
  <2>1. PICK f : Computes(f, o, r, m)
    BY <1>2
  <2> DEFINE g == [k \in 0 .. m + 1 |->
                      IF k = 0 THEN NewState(r) ELSE SteppedBy(o, r, f[k - 1])]
  <2>2. \A k \in 0 .. m : g[k] = f[k]
    BY <2>1 DEF Computes
  <2>3. \A k \in 0 .. m + 1 : k # 0 => k - 1 \in 0 .. m
    OBVIOUS
  <2>4. \A k \in 0 .. m + 1 : k # 0 => g[k - 1] = f[k - 1]
    BY <2>2, <2>3
  <2>5. g = [k \in 0 .. m + 1 |->
                IF k = 0 THEN NewState(r) ELSE SteppedBy(o, r, g[k - 1])]
    BY <2>4, Zenon
  <2>6. Computes(g, o, r, m + 1)
    BY <2>5 DEF Computes
  <2> QED  BY <2>6
<1> HIDE DEF S
<1>3. Nat \subseteq S
  BY <1>1, <1>2, SetInduction
<1> QED  BY <1>3 DEF S

\* and two of them agree as far as both go.
LEMMA ReplayUnique ==
    ASSUME NEW o, NEW r, NEW m \in Nat, NEW n \in Nat, NEW f, NEW g,
           Computes(f, o, r, m), Computes(g, o, r, n)
    PROVE  \A k \in Nat : k <= m /\ k <= n => f[k] = g[k]
<1> DEFINE S == {k \in Nat : k <= m /\ k <= n => f[k] = g[k]}
<1>1. 0 \in S
  <2>1. 0 \in 0 .. m /\ 0 \in 0 .. n
    OBVIOUS
  <2> QED  BY <2>1 DEF Computes
<1>2. ASSUME NEW k \in Nat, k \in S PROVE k + 1 \in S
  <2> SUFFICES ASSUME k + 1 <= m, k + 1 <= n PROVE f[k + 1] = g[k + 1]
    OBVIOUS
  <2>1. f[k] = g[k]
    BY <1>2
  <2>2. /\ k + 1 \in 0 .. m /\ k + 1 \in 0 .. n
        /\ k + 1 # 0 /\ (k + 1) - 1 = k
    OBVIOUS
  <2>3. f[k + 1] = SteppedBy(o, r, f[k]) /\ g[k + 1] = SteppedBy(o, r, g[k])
    BY <2>2 DEF Computes
  <2> QED  BY <2>1, <2>3
<1> HIDE DEF S
<1>3. Nat \subseteq S
  BY <1>1, <1>2, SetInduction
<1> QED  BY <1>3 DEF S

\* So Replay is the initial state, then one step after the other.
LEMMA ReplayUnfolds ==
    ASSUME NEW o, NEW r
    PROVE  /\ ReplayBy(o, r, 0) = NewState(r)
           /\ \A n \in Nat :
                  ReplayBy(o, r, n + 1) = SteppedBy(o, r, ReplayBy(o, r, n))
<1> DEFINE F(n) == CHOOSE f : Computes(f, o, r, n)
<1>1. \A n : ReplayBy(o, r, n) = F(n)[n]
  BY DEF ReplayBy, Computes
<1>2. \A n \in Nat : Computes(F(n), o, r, n)
  BY ReplayExists
<1> HIDE DEF F
<1>3. F(0)[0] = NewState(r)
  <2>1. 0 \in Nat /\ 0 \in 0 .. 0
    OBVIOUS
  <2> QED  BY <1>2, <2>1 DEF Computes
<1>4. ASSUME NEW n \in Nat
      PROVE  F(n + 1)[n + 1] = SteppedBy(o, r, F(n)[n])
  <2>1. /\ n + 1 \in Nat /\ n + 1 \in 0 .. n + 1 /\ n + 1 # 0
        /\ (n + 1) - 1 = n /\ n <= n /\ n <= n + 1
    OBVIOUS
  <2>2. Computes(F(n + 1), o, r, n + 1) /\ Computes(F(n), o, r, n)
    BY <1>2, <2>1
  <2>3. F(n + 1)[n] = F(n)[n]
    BY <2>1, <2>2, ReplayUnique
  <2>4. F(n + 1)[n + 1] = SteppedBy(o, r, F(n + 1)[n])
    BY <2>1, <2>2 DEF Computes
  <2> QED  BY <2>3, <2>4
<1> QED  BY <1>1, <1>3, <1>4

\* It counts its steps.
LEMMA ReplayFields ==
    ASSUME NEW o, NEW r, NEW n \in Nat
    PROVE  Fields(ReplayBy(o, r, n)) /\ ReplayBy(o, r, n).step = n
<1> DEFINE P(s, k) == Fields(s) /\ s.step = k
           S == {k \in Nat : P(ReplayBy(o, r, k), k)}
<1>1. 0 \in S
  <2>1. P(NewState(r), 0)
    BY DEF NewState, Fields
  <2> HIDE DEF P
  <2> QED  BY <2>1, ReplayUnfolds
<1>2. ASSUME NEW k \in Nat, k \in S PROVE k + 1 \in S
  <2>1. P(ReplayBy(o, r, k), k)
    BY <1>2
  <2>2. \A s : P(s, k) => P(SteppedBy(o, r, s), k + 1)
    BY StepFields
  <2> HIDE DEF P
  <2>3. P(ReplayBy(o, r, k + 1), k + 1)
    BY <2>1, <2>2, ReplayUnfolds
  <2> QED  BY <2>3
<1> HIDE DEF S
<1>3. Nat \subseteq S
  BY <1>1, <1>2, SetInduction
<1> QED  BY <1>3 DEF S
----------------------------------------------------------------------------
(***************************************************************************)
(* Padding.                                                                 *)
(***************************************************************************)
\* The elements behind the parameters are not valid,
LEMMA PaddingInvalid ==
    ASSUME NEW r \in Ranks, NEW i \in Elements,
           r * Cardinality(Elements) + i >= original_numel
    PROVE  i \in Elements \ Valid(r)
<1>1. r * Shard + i >= original_numel
  BY ShardSize
<1>2. i \in Int /\ r \in Int /\ original_numel \in Int /\ r * Shard \in Int
  BY ShardSize, ShardedMasterAssumption DEF Ranks, RankIds
<1>3. ~(r * Shard + i < original_numel)
  BY <1>1, <1>2
<1> QED  BY <1>3, ValidElements

\* so a step leaves them alone.
LEMMA StepPadded ==
    ASSUME NEW o, NEW r \in Ranks, NEW s, Fields(s), Padded(r, s)
    PROVE  Padded(r, SteppedBy(o, r, s))
<1> DEFINE t == SteppedBy(o, r, s)
<1>1. \A i \in Elements \ Valid(r) :
          /\ t.master[i] = s.master[i]
          /\ t.exp_avg[i] = s.exp_avg[i]
          /\ t.exp_avg_sq[i] = s.exp_avg_sq[i]
  BY StepFields
<1> HIDE DEF t
<1>2. Padded(r, t)
  BY <1>1, PaddingInvalid DEF Padded
<1> QED  BY <1>2 DEF t

\* PaddingUntouched, rank by rank.
LEMMA PaddingByRank ==
    PaddingUntouched <=> \A r \in Ranks : Padded(r, state[r])
BY DEF PaddingUntouched, Padded
----------------------------------------------------------------------------
(***************************************************************************)
(* The invariant, action by action.                                         *)
(***************************************************************************)
\* Types of what the arithmetic needs.
LEMMA StateFields ==
    ASSUME TypeOK, NEW r \in Ranks
    PROVE  /\ Fields(state[r])
           /\ state[r].step \in Nat /\ state[r].step <= MaxStep
           /\ state[r].requires_fp_refresh \in BOOLEAN
BY ShardedMasterAssumption DEF TypeOK, IsState, Fields

\* The invariant holds of new states.
LEMMA InitIndInv == Init => IndInv
<1> SUFFICES ASSUME Init PROVE IndInv
  OBVIOUS
<1>1. TypeOK
  <2>1. \A r \in Ranks : IsState(NewState(r))
    BY ShardedMasterAssumption DEF IsState, NewState
  <2>2. /\ DOMAIN state = Ranks /\ \A r \in Ranks : IsState(state[r])
        /\ DOMAIN model = Ranks /\ DOMAIN sent = Ranks /\ DOMAIN received = Ranks
    BY <2>1 DEF Init, NoShards
  <2>3. kept \subseteq Entries
    BY ShardedMasterAssumption DEF Init
  <2> QED  BY <2>2, <2>3 DEF Init, TypeOK
<1>2. InStep
  BY DEF Init, InStep, Owes, NewState, Before, After
<1>0. \A r \in Ranks : \A c \in saved : ~Loadable(r, c)
  BY ShardedMasterAssumption DEF Init, Loadable
<1>6. Stored
  BY <1>0 DEF Stored
<1>3. Replayed
  <2>1. ASSUME NEW r \in Ranks PROVE Clean(state[r]) = ReplayBy(optimizer, r, state[r].step)
    <3>1. state[r] = NewState(r) /\ Fields(state[r]) /\ state[r].step = 0
      BY DEF Init, NewState, Fields
    <3>2. Clean(state[r]) = NewState(r)
      <4>1. Clean(state[r]) =
                [master |-> state[r].master, step |-> state[r].step,
                 exp_avg |-> state[r].exp_avg, exp_avg_sq |-> state[r].exp_avg_sq,
                 requires_fp_refresh |-> FALSE]
        BY <3>1, CleanFields
      <4>2. /\ state[r].master = Initial[r] /\ state[r].exp_avg = Zeros
            /\ state[r].exp_avg_sq = Zeros
        BY <3>1 DEF NewState
      <4> QED  BY <3>1, <4>1, <4>2 DEF NewState
    <3> QED  BY <3>1, <3>2, ReplayUnfolds
  <2> QED  BY <1>0, <2>1 DEF Replayed
<1>4. PaddingUntouched
  BY DEF Init, PaddingUntouched, NewState, Zeros
<1>5. Copied
  BY DEF Init, Copied, SameCopy, Fresh
<1> QED  BY <1>1, <1>2, <1>3, <1>4, <1>5, <1>6 DEF IndInv

\* sgd_step and adamw_step.
LEMMA OptimizerStepIndInv ==
    ASSUME IndInv, NEW r \in Ranks, OptimizerStep(r)
    PROVE  IndInv'
<1> DEFINE new == SteppedBy(optimizer, r, state[r])
<1>1. /\ pc[r] = "step" /\ state[r].step < MaxStep
      /\ DOMAIN state' = Ranks /\ DOMAIN pc' = Ranks
      /\ state'[r] = new /\ pc'[r] = "decide"
      /\ \A q \in Ranks : q # r => state'[q] = state[q] /\ pc'[q] = pc[q]
      /\ UNCHANGED <<optimizer, inputs, kept, model, mode, sent, received, saved,
                     target>>
  BY DEF OptimizerStep, IndInv, TypeOK, Stepped, SteppedBy
<1>2. /\ Fields(new)
      /\ new.step = state[r].step + 1
      /\ new.requires_fp_refresh = state[r].requires_fp_refresh
  BY StateFields, StepFields DEF IndInv
<1> HIDE DEF new
<1>3. TypeOK'
  <2>1. IsState(new)
    <3>1. new.step \in 0 .. MaxStep
      BY <1>1, <1>2, StateFields, ShardedMasterAssumption DEF IndInv
    <3>2. new.requires_fp_refresh \in BOOLEAN
      BY <1>2, StateFields DEF IndInv
    <3> QED  BY <1>2, <3>1, <3>2 DEF IsState, Fields
  <2>2. \A q \in Ranks : IsState(state'[q])
    BY <1>1, <2>1 DEF IndInv, TypeOK
  <2>3. pc' \in [Ranks -> {"step", "decide", "gather", "apply", "load"}]
    BY DEF OptimizerStep, IndInv, TypeOK
  <2> QED  BY <1>1, <2>2, <2>3 DEF IndInv, TypeOK
<1>4. InStep'
  BY <1>1, <1>2, StateFields
     DEF IndInv, InStep, Owes, Before, After, Decision, Resumed, TypeOK
<1>5. Replayed'
  <2> SUFFICES ASSUME kept = Entries
               PROVE  Clean(new) = ReplayBy(optimizer, r, new.step)
    BY <1>1 DEF IndInv, Replayed, Loadable
  <2>1. Clean(new) = SteppedBy(optimizer, r, Clean(state[r]))
    BY StateFields, CleanStep DEF IndInv, new
  <2>2. Clean(state[r]) = ReplayBy(optimizer, r, state[r].step)
    BY <1>1 DEF IndInv, Replayed
  <2> QED  BY <1>2, <2>1, <2>2, StateFields, ReplayUnfolds DEF IndInv
<1>6. PaddingUntouched' /\ Stored'
  <2>1. \A q \in Ranks : Padded(q, state[q])
    BY PaddingByRank DEF IndInv
  <2>2. Padded(r, new)
    BY <2>1, StateFields, StepPadded DEF IndInv, new
  <2>3. \A q \in Ranks : Padded(q, state'[q])
    BY <1>1, <2>1, <2>2
  <2>4. PaddingUntouched'
    BY <2>3 DEF PaddingUntouched, Padded
  <2> QED  BY <1>1, <2>4 DEF IndInv, Stored, Loadable, Padded
<1>7. Copied'
  <2>1. \A q \in Ranks : (Fresh(q))' <=> Fresh(q)
    BY <1>1, <1>2 DEF Fresh, Owes
  <2>2. \A q \in Ranks : pc'[q] = "apply" <=> pc[q] = "apply"
    BY <1>1
  <2> QED  BY <1>1, <2>1, <2>2 DEF IndInv, Copied, SameCopy, Applied
<1> QED  BY <1>3, <1>4, <1>5, <1>6, <1>7 DEF IndInv

\* SafeInt8QWDPolicy.decide, and the start of the all-gather.
LEMMA DecideIndInv ==
    ASSUME IndInv, NEW r \in Ranks, Decide(r)
    PROVE  IndInv'
<1>1. /\ pc[r] = "decide" /\ pc'[r] = "gather"
      /\ mode'[r] = Decision(r)
      /\ \A q \in Ranks : q # r => mode'[q] = mode[q] /\ pc'[q] = pc[q]
      /\ DOMAIN sent' = Ranks
      /\ UNCHANGED <<optimizer, inputs, kept, state, model, received, saved,
                     target>>
  BY DEF Decide, Decision, Owes, IndInv, TypeOK
<1>2. TypeOK'
  <2>1. pc' \in [Ranks -> {"step", "decide", "gather", "apply", "load"}]
    BY DEF Decide, IndInv, TypeOK
  <2>2. mode' \in [Ranks -> {"none", "fp_refresh", "qwd"}]
    BY DEF Decide, decide, IndInv, TypeOK
  <2> QED  BY <1>1, <2>1, <2>2 DEF IndInv, TypeOK
<1>3. InStep'
  BY <1>1 DEF IndInv, InStep, Owes, Before, After, Decision, Resumed
<1>4. Replayed' /\ Stored'
  BY <1>1 DEF IndInv, Replayed, Stored, Loadable, Padded
<1>5. PaddingUntouched'
  BY <1>1 DEF IndInv, PaddingUntouched
<1>6. Copied'
  <2>1. \A q \in Ranks : (Fresh(q))' <=> Fresh(q)
    BY <1>1 DEF Fresh, Owes
  <2>2. \A q \in Ranks : /\ pc'[q] = "apply" <=> pc[q] = "apply"
                         /\ pc[q] = "apply" => mode'[q] = mode[q]
    BY <1>1
  <2> QED  BY <1>1, <2>1, <2>2 DEF IndInv, Copied, SameCopy, Applied
<1> QED  BY <1>2, <1>3, <1>4, <1>5, <1>6 DEF IndInv

\* The end of the all-gather.
LEMMA AllGatherIndInv ==
    ASSUME IndInv, AllGather
    PROVE  IndInv'
<1>1. /\ \A r \in Ranks : pc[r] = "gather" /\ pc'[r] = "apply" /\ received'[r] = sent
      /\ \A r, q \in Ranks : mode[r] = mode[q]
      /\ DOMAIN sent' = Ranks /\ DOMAIN received' = Ranks
      /\ UNCHANGED <<optimizer, inputs, kept, state, model, mode, saved, target>>
  BY DEF AllGather, NoShards
<1>2. TypeOK'
  <2>1. pc' \in [Ranks -> {"step", "decide", "gather", "apply", "load"}]
    BY DEF AllGather
  <2> QED  BY <1>1, <2>1 DEF IndInv, TypeOK
<1>3. InStep'
  <2>1. \A r \in Ranks : mode[r] = Decision(r) /\ Decision(r) \in {"fp_refresh", "qwd"}
    BY <1>1 DEF IndInv, InStep, Decision, decide
  <2> QED  BY <1>1, <2>1 DEF IndInv, InStep, Owes, Before, After, Decision, Resumed
<1>4. Replayed' /\ Stored'
  BY <1>1 DEF IndInv, Replayed, Stored, Loadable, Padded
<1>5. PaddingUntouched'
  BY <1>1 DEF IndInv, PaddingUntouched
<1>6. Copied'
  <2>1. \A r \in Ranks : ~(Fresh(r))'
    BY <1>1 DEF Fresh
  <2>2. ASSUME NEW r \in Ranks, NEW q \in Ranks, mode[r] = "qwd"
        PROVE  SameCopy(r, q)
    <3>1. ~Owes(r) /\ ~Owes(q)
      BY <1>1, <2>2 DEF IndInv, InStep, Decision
    <3> QED  BY <1>1, <3>1 DEF IndInv, Copied, Fresh
  <2>3. \A r, q \in Ranks : (SameCopy(r, q))' <=> SameCopy(r, q)
    BY <1>1 DEF SameCopy
  <2> QED  BY <1>1, <2>1, <2>2, <2>3 DEF Copied
<1> QED  BY <1>2, <1>3, <1>4, <1>5, <1>6 DEF IndInv

\* A rank writes the result to its copy.
LEMMA ApplyIndInv ==
    ASSUME IndInv, NEW r \in Ranks, Apply(r)
    PROVE  IndInv'
<1>1. /\ pc[r] = "apply" /\ pc'[r] = "step" /\ mode[r] \in {"fp_refresh", "qwd"}
      /\ \A q \in Ranks : q # r =>
             /\ mode'[q] = mode[q] /\ pc'[q] = pc[q]
             /\ received'[q] = received[q] /\ model'[q] = model[q]
      /\ DOMAIN model' = Ranks /\ DOMAIN received' = Ranks
      /\ UNCHANGED <<optimizer, inputs, kept, sent, saved, target>>
  BY DEF Apply, IndInv, TypeOK
<1>2. /\ DOMAIN state' = Ranks
      /\ \A q \in Ranks : q # r => state'[q] = state[q]
      /\ state'[r] = Clean(state[r])
  <2>1. CASE mode[r] = "fp_refresh"
    BY <2>1 DEF Apply, IndInv, TypeOK, Clean
  <2>2. CASE mode[r] = "qwd"
    <3>1. state' = state /\ ~Owes(r)
      BY <1>1, <2>2 DEF Apply, IndInv, InStep
    <3>2. Fields(state[r]) /\ state[r].requires_fp_refresh = FALSE
      BY <3>1, StateFields DEF IndInv, Owes
    <3>3. Clean(state[r]) = state[r]
      BY <3>2, CleanFields DEF Fields
    <3> QED  BY <3>1, <3>3 DEF IndInv, TypeOK
  <2> QED  BY <1>1, <2>1, <2>2
<1>3. /\ Fields(state'[r])
      /\ state'[r].step = state[r].step
      /\ state'[r].master = state[r].master
      /\ state'[r].exp_avg = state[r].exp_avg
      /\ state'[r].exp_avg_sq = state[r].exp_avg_sq
      /\ state'[r].requires_fp_refresh = FALSE
  <2>1. state'[r] =
            [master |-> state[r].master, step |-> state[r].step,
             exp_avg |-> state[r].exp_avg, exp_avg_sq |-> state[r].exp_avg_sq,
             requires_fp_refresh |-> FALSE]
    BY <1>2, StateFields, CleanFields DEF IndInv
  <2> QED  BY <2>1 DEF Fields
<1>4. Clean(state'[r]) = Clean(state[r])
  BY <1>3, StateFields, CleanFields DEF IndInv
<1>5. \A o \in Ranks : \A i \in Valid(o) : model'[r][o][i] = Applied(r, o, i)
  <2>1. CASE mode[r] = "fp_refresh"
    <3>1. \A o \in Ranks : model'[r][o] =
              full_precision_refresh(o, model[r][o], received[r][o])
      BY <2>1 DEF Apply, IndInv, TypeOK
    <3> QED  BY <2>1, <3>1, ValidElements
             DEF full_precision_refresh, Written, Applied
  <2>2. CASE mode[r] = "qwd"
    <3>1. \A o \in Ranks : model'[r][o] =
              apply_quantized_weight_difference(o, model[r][o], received[r][o])
      BY <2>2 DEF Apply, IndInv, TypeOK
    <3> QED  BY <2>2, <3>1, ValidElements
             DEF apply_quantized_weight_difference, Written, Applied
  <2> QED  BY <1>1, <2>1, <2>2
<1>6. TypeOK'
  <2>1. IsState(state'[r])
    BY <1>3 DEF IndInv, TypeOK, IsState, Fields
  <2>2. \A q \in Ranks : IsState(state'[q])
    BY <1>2, <2>1 DEF IndInv, TypeOK
  <2>3. /\ pc' \in [Ranks -> {"step", "decide", "gather", "apply", "load"}]
        /\ mode' \in [Ranks -> {"none", "fp_refresh", "qwd"}]
    BY DEF Apply, IndInv, TypeOK
  <2> QED  BY <1>1, <1>2, <2>2, <2>3 DEF IndInv, TypeOK
<1>7. InStep'
  BY <1>1, <1>2, <1>3 DEF IndInv, InStep, Owes, Before, After, Decision, Resumed
<1>8. Replayed' /\ Stored'
  <2>1. Replayed'
    BY <1>1, <1>2, <1>3, <1>4 DEF IndInv, Replayed, Loadable
  <2>2. Stored'
    BY <1>1 DEF IndInv, Stored, Loadable, Padded
  <2> QED  BY <2>1, <2>2
<1>9. PaddingUntouched'
  BY <1>2, <1>3 DEF IndInv, PaddingUntouched
<1>10. Copied'
  <2>1. /\ (Fresh(r))'
        /\ \A q \in Ranks : q # r => ((Fresh(q))' <=> Fresh(q))
    BY <1>1, <1>2, <1>3 DEF Fresh, Owes
  <2>2. ASSUME NEW q \in Ranks, q # r, Fresh(q)
        PROVE  (SameCopy(r, q))' /\ (SameCopy(q, r))'
    BY <1>1, <1>5, <2>2 DEF IndInv, Copied, SameCopy
  <2>3. ASSUME NEW q \in Ranks, q # r, pc[q] = "apply"
        PROVE  \A o \in Ranks : \A i \in Valid(o) : model'[r][o][i] = (Applied(q, o, i))'
    <3>1. \A o \in Ranks : \A i \in Valid(o) : (Applied(q, o, i))' = Applied(q, o, i)
      BY <1>1, <2>3 DEF Applied
    <3>2. \A o \in Ranks : \A i \in Valid(o) : Applied(q, o, i) = Applied(r, o, i)
      BY <1>1, <2>3 DEF IndInv, Copied, SameCopy, Applied
    <3> QED  BY <1>5, <3>1, <3>2
  <2>4. \A p, q \in Ranks : p # r /\ q # r => ((SameCopy(p, q))' <=> SameCopy(p, q))
    BY <1>1 DEF SameCopy
  <2>5. \A p, q \in Ranks : p # r /\ q # r /\ pc[p] = "apply" /\ Fresh(q) =>
            \A o \in Ranks : \A i \in Valid(o) : model'[q][o][i] = (Applied(p, o, i))'
    BY <1>1 DEF IndInv, Copied, Applied
  <2>6. (SameCopy(r, r))'
    BY DEF SameCopy
  <2> QED  BY <1>1, <2>1, <2>2, <2>3, <2>4, <2>5, <2>6 DEF IndInv, Copied
<1> QED  BY <1>6, <1>7, <1>8, <1>9, <1>10 DEF IndInv

\* state_dict(), written to disk.
LEMMA SaveIndInv ==
    ASSUME IndInv, NEW r \in Ranks, Save(r)
    PROVE  IndInv'
<1>1. /\ pc[r] = "step"
      /\ saved' \subseteq saved \cup {state_dict(r)}
      /\ UNCHANGED <<optimizer, inputs, kept, state, model, pc, mode, sent,
                     received, target>>
  BY DEF Save
<1>2. TypeOK'
  BY <1>1 DEF IndInv, TypeOK
<1>3. InStep'
  BY <1>1 DEF IndInv, InStep, Owes, Before, After, Decision, Resumed
<1>4. Replayed' /\ Stored'
  <2> DEFINE c == state_dict(r)
  <2>1. /\ c.step = state[r].step /\ c.rank = r /\ c.master = state[r].master
        /\ c.exp_avg = state[r].exp_avg /\ c.exp_avg_sq = state[r].exp_avg_sq
    BY DEF state_dict
  <2> HIDE DEF c
  <2>2. Restored(c) = Clean(state[r])
    BY <2>1, StateFields, CleanFields DEF IndInv, Restored
  <2>3. c.step \in 0 .. MaxStep
    BY <2>1 DEF IndInv, TypeOK, IsState
  <2>4. Padded(r, c)
    <3>1. Padded(r, state[r])
      BY PaddingByRank DEF IndInv
    <3> QED  BY <2>1, <3>1 DEF Padded
  <2>5. \A q \in Ranks : Loadable(q, c) => q = r
    BY <2>1 DEF Loadable
  <2>6. \A q \in Ranks : \A d \in saved' : (Loadable(q, d))' <=> Loadable(q, d)
    BY DEF Loadable
  <2>7. \A d \in saved' : d \in saved \/ d = c
    BY <1>1 DEF c
  <2>8. \A q \in Ranks : \A d \in saved' : Loadable(q, d) =>
            d.step \in 0 .. MaxStep /\ Padded(q, d)
    BY <2>3, <2>4, <2>5, <2>7 DEF IndInv, Stored
  <2>9. Stored'
    BY <2>6, <2>8 DEF Stored, Padded
  <2>10. Replayed'
    <3> SUFFICES ASSUME kept = Entries PROVE Replayed'
      BY <1>1 DEF Replayed
    <3>1. Restored(c) = ReplayBy(optimizer, r, c.step)
      BY <1>1, <2>1, <2>2 DEF IndInv, Replayed
    <3>2. \A q \in Ranks : \A d \in saved' : Loadable(q, d) =>
              Restored(d) = ReplayBy(optimizer, q, d.step)
      BY <2>5, <2>7, <3>1 DEF IndInv, Replayed
    <3> QED  BY <1>1, <2>6, <3>2 DEF IndInv, Replayed
  <2> QED  BY <2>9, <2>10
<1>5. PaddingUntouched'
  BY <1>1 DEF IndInv, PaddingUntouched
<1>6. Copied'
  BY <1>1 DEF IndInv, Copied, SameCopy, Fresh, Owes, Applied
<1> QED  BY <1>2, <1>3, <1>4, <1>5, <1>6 DEF IndInv

\* The ranks are to load a checkpoint.
LEMMA RestoreIndInv ==
    ASSUME IndInv, NEW models, NEW states, Restore(states, models),
           DOMAIN states = Ranks, DOMAIN models = Ranks,
           \A r \in Ranks :
               /\ IsState(states[r])
               /\ Padded(r, states[r])
    PROVE  IndInv'
<1>1. /\ \A r \in Ranks : pc'[r] = "load"
      /\ state' = states /\ model' = models
      /\ DOMAIN sent' = Ranks /\ DOMAIN received' = Ranks
      /\ UNCHANGED <<optimizer, kept, saved>>
  BY DEF Restore, NoShards
<1>2. TypeOK'
  <2>1. /\ pc' \in [Ranks -> {"step", "decide", "gather", "apply", "load"}]
        /\ mode' \in [Ranks -> {"none", "fp_refresh", "qwd"}]
    BY DEF Restore
  <2> QED  BY <1>1, <2>1 DEF IndInv, TypeOK
<1>3. InStep'
  BY <1>1 DEF InStep, Before, After
<1>4. Replayed' /\ Stored'
  BY <1>1 DEF IndInv, Replayed, Stored, Loadable, Padded
<1>5. PaddingUntouched'
  BY <1>1 DEF PaddingUntouched, Padded
<1>6. Copied'
  BY <1>1 DEF Copied, Fresh
<1> QED  BY <1>2, <1>3, <1>4, <1>5, <1>6 DEF IndInv

\* A crash, or the caller's rollback.
LEMMA CrashIndInv ==
    ASSUME IndInv, Crash
    PROVE  IndInv'
<1> DEFINE states == [r \in Ranks |-> NewState(r)]
<1>1. PICK models \in NewModels : Restore(states, models)
  BY DEF Crash
<1>2. \A r \in Ranks : IsState(states[r])
  <2>1. \A r \in Ranks : IsState(NewState(r))
    BY ShardedMasterAssumption DEF IsState, NewState
  <2> QED  BY <2>1
<1>3. \A r \in Ranks : Padded(r, states[r])
  BY DEF NewState, Zeros, Padded
<1>4. DOMAIN states = Ranks /\ DOMAIN models = Ranks
  BY ShardedMasterAssumption
<1> HIDE DEF states
<1> QED  BY <1>1, <1>2, <1>3, <1>4, RestoreIndInv

\* A restore of the newest common checkpoint keeps the invariant.
LEMMA RollbackIndInv ==
    ASSUME IndInv, Rollback
    PROVE  IndInv'
<1>1. PICK states, models :
          states = state /\ models = model /\ Restore(states, models)
  BY DEF Rollback
<1>2. \A r \in Ranks :
          IsState(states[r]) /\ Padded(r, states[r])
  BY <1>1, PaddingByRank DEF IndInv, TypeOK
<1>3. DOMAIN states = Ranks /\ DOMAIN models = Ranks
  BY <1>1 DEF IndInv, TypeOK
<1> QED  BY <1>1, <1>2, <1>3, RestoreIndInv

\* load_state_dict()
LEMMA LoadIndInv ==
    ASSUME IndInv, NEW r \in Ranks, Load(r)
    PROVE  IndInv'
<1>1. PICK c \in saved :
          /\ c.step = target
          /\ Loadable(r, c)
          /\ state' = [state EXCEPT ![r] = Loaded(state[r], c)]
  BY DEF Load
<1> DEFINE new == Loaded(state[r], c)
<1>2. /\ pc[r] = "load" /\ pc'[r] = "decide"
      /\ state'[r] = new
      /\ \A q \in Ranks : q # r => state'[q] = state[q] /\ pc'[q] = pc[q]
      /\ DOMAIN state' = Ranks
      /\ UNCHANGED <<optimizer, inputs, kept, model, mode, sent, received, saved,
                     target>>
  BY <1>1 DEF Load, IndInv, TypeOK
<1>3. /\ new.master = c.master /\ new.step = Resumed
      /\ new.exp_avg \in {c.exp_avg, state[r].exp_avg}
      /\ new.exp_avg_sq \in {c.exp_avg_sq, state[r].exp_avg_sq}
      /\ new.requires_fp_refresh
      /\ Fields(new)
  BY <1>1 DEF Loaded, LoadedStep, LoadedMoment, Resumed, Fields
<1>4. new.step \in 0 .. MaxStep /\ new.requires_fp_refresh \in BOOLEAN
  <2>1. target \in 0 .. MaxStep
    BY <1>1 DEF IndInv, Stored
  <2> QED  BY <1>3, <2>1, ShardedMasterAssumption DEF Loaded, Resumed
<1>5. kept = Entries => Clean(new) = Restored(c) /\ new.step = c.step
  <2>1. kept = Entries => /\ new.exp_avg = c.exp_avg
                          /\ new.exp_avg_sq = c.exp_avg_sq
                          /\ new.step = c.step
    BY DEF Loaded, LoadedStep, LoadedMoment, Entries
  <2> QED  BY <1>1, <1>3, <2>1, CleanFields DEF Restored
<1> HIDE DEF new
<1>6. TypeOK'
  <2>1. IsState(new)
    BY <1>3, <1>4 DEF IsState, Fields
  <2>2. \A q \in Ranks : IsState(state'[q])
    BY <1>2, <2>1 DEF IndInv, TypeOK
  <2>3. pc' \in [Ranks -> {"step", "decide", "gather", "apply", "load"}]
    BY DEF Load, IndInv, TypeOK
  <2> QED  BY <1>2, <2>2, <2>3 DEF IndInv, TypeOK
<1>7. InStep'
  BY <1>2, <1>3
     DEF IndInv, InStep, Owes, Before, After, Decision, Resumed, TypeOK
<1>8. Replayed' /\ Stored'
  <2>1. kept = Entries => Clean(new) = ReplayBy(optimizer, r, new.step)
    BY <1>1, <1>5 DEF IndInv, Replayed
  <2>2. Replayed'
    BY <1>2, <2>1 DEF IndInv, Replayed, Loadable
  <2>3. Stored'
    BY <1>2 DEF IndInv, Stored, Loadable, Padded
  <2> QED  BY <2>2, <2>3
<1>9. PaddingUntouched'
  <2>1. \A q \in Ranks : Padded(q, state[q])
    BY PaddingByRank DEF IndInv
  <2>2. Padded(r, c)
    BY <1>1 DEF IndInv, Stored
  <2>3. Padded(r, new)
    BY <1>3, <2>1, <2>2 DEF Padded
  <2>4. \A q \in Ranks : Padded(q, state'[q])
    BY <1>2, <2>1, <2>3
  <2> QED  BY <2>4 DEF PaddingUntouched, Padded
<1>10. Copied'
  <2>1. \A q \in Ranks : (Fresh(q))' <=> Fresh(q)
    BY <1>2, <1>3 DEF Fresh, Owes
  <2>2. \A q \in Ranks : pc'[q] = "apply" <=> pc[q] = "apply"
    BY <1>2
  <2> QED  BY <1>2, <2>1, <2>2 DEF IndInv, Copied, SameCopy, Applied
<1> QED  BY <1>6, <1>7, <1>8, <1>9, <1>10 DEF IndInv

\* load_state_dict() raises half way.
LEMMA LoadFailsIndInv ==
    ASSUME IndInv, NEW r \in Ranks, LoadFails(r)
    PROVE  IndInv'
<1>1. PICK c \in saved, entry \in kept :
          /\ c.step = target
          /\ Loadable(r, c)
          /\ state' = [state EXCEPT ![r] = PartlyLoaded(state[r], c, entry)]
  BY DEF LoadFails
<1>2. /\ pc[r] = "load"
      /\ UNCHANGED <<optimizer, inputs, kept, model, pc, mode, sent, received,
                     saved, target>>
  BY DEF LoadFails
<1>3. /\ DOMAIN state' = Ranks
      /\ \A q \in Ranks : q # r => state'[q] = state[q]
  BY <1>1 DEF IndInv, TypeOK
<1>4. /\ Fields(state'[r])
      /\ state'[r].step \in {0, c.step, state[r].step}
      /\ state'[r].master = c.master
      /\ state'[r].exp_avg \in {c.exp_avg, state[r].exp_avg}
      /\ state'[r].exp_avg_sq = state[r].exp_avg_sq
      /\ state'[r].requires_fp_refresh = state[r].requires_fp_refresh
  <2>1. state'[r] = PartlyLoaded(state[r], c, entry)
    BY <1>1 DEF IndInv, TypeOK
  <2> QED  BY <2>1 DEF PartlyLoaded, LoadedStep, LoadedMoment, Fields
<1>5. TypeOK'
  <2>1. IsState(state'[r])
    <3>1. state'[r].step \in 0 .. MaxStep
      BY <1>1, <1>4, ShardedMasterAssumption DEF IndInv, TypeOK, IsState, Stored
    <3>2. state'[r].requires_fp_refresh \in BOOLEAN
      BY <1>4, StateFields DEF IndInv
    <3> QED  BY <1>4, <3>1, <3>2 DEF IsState, Fields
  <2>2. \A q \in Ranks : IsState(state'[q])
    BY <1>3, <2>1 DEF IndInv, TypeOK
  <2> QED  BY <1>2, <1>3, <2>2 DEF IndInv, TypeOK
<1>6. InStep'
  BY <1>2, <1>3 DEF IndInv, InStep, Owes, Before, After, Decision, Resumed
<1>7. Replayed' /\ Stored'
  BY <1>2, <1>3 DEF IndInv, Replayed, Stored, Loadable, Padded
<1>8. PaddingUntouched'
  <2>1. \A q \in Ranks : Padded(q, state[q])
    BY PaddingByRank DEF IndInv
  <2>2. Padded(r, c)
    BY <1>1 DEF IndInv, Stored
  <2>3. Padded(r, state'[r])
    BY <1>4, <2>1, <2>2 DEF Padded
  <2>4. \A q \in Ranks : Padded(q, state'[q])
    BY <1>3, <2>1, <2>3
  <2> QED  BY <2>4 DEF PaddingUntouched, Padded
<1>9. Copied'
  <2>1. \A q \in Ranks : (Fresh(q))' <=> Fresh(q)
    BY <1>2, <1>3 DEF Fresh, Owes
  <2> QED  BY <1>2, <2>1 DEF IndInv, Copied, SameCopy, Applied
<1> QED  BY <1>5, <1>6, <1>7, <1>8, <1>9 DEF IndInv

\* Every step keeps the invariant,
LEMMA NextIndInv == IndInv /\ [Next]_vars => IndInv'
<1> SUFFICES ASSUME IndInv, [Next]_vars PROVE IndInv'
  OBVIOUS
<1>1. CASE UNCHANGED vars
  <2> USE <1>1 DEF vars
  <2>1. TypeOK'
    BY DEF IndInv, TypeOK
  <2>2. InStep'
    BY DEF IndInv, InStep, Owes, Before, After, Decision, Resumed
  <2>3. Replayed' /\ Stored' /\ PaddingUntouched'
    BY DEF IndInv, Replayed, Stored, Loadable, Padded, PaddingUntouched
  <2>4. Copied'
    BY DEF IndInv, Copied, SameCopy, Fresh, Owes, Applied
  <2> QED  BY <2>1, <2>2, <2>3, <2>4 DEF IndInv
<1>2. CASE Next
  BY <1>2, OptimizerStepIndInv, DecideIndInv, ApplyIndInv, SaveIndInv, LoadIndInv,
     LoadFailsIndInv, AllGatherIndInv, CrashIndInv, RollbackIndInv DEF Next
<1> QED  BY <1>1, <1>2

\* so it always holds.
LEMMA AlwaysIndInv == Spec => []IndInv
BY InitIndInv, NextIndInv, PTL DEF Spec

(***************************************************************************)
(* On any number of ranks, after any crashes, rollbacks and half-made       *)
(* loads, the ranks that wait in an all-gather have decided on the same one *)
(* (SafeInt8QWDPolicy.decide and requires_fp_refresh).                      *)
(***************************************************************************)
THEOREM RanksDecideAlike == Spec => []DecisionsAgree
<1>1. IndInv => DecisionsAgree
  BY DEF IndInv, InStep, DecisionsAgree, Decision, After
<1> QED  BY <1>1, AlwaysIndInv, PTL

(***************************************************************************)
(* The elements of a shard behind the last parameter are never written,     *)
(* whatever the sizes of the tensor, the group and the world.               *)
(***************************************************************************)
THEOREM PaddingIsInert == Spec => [](TypeOK /\ PaddingUntouched)
<1>1. IndInv => TypeOK /\ PaddingUntouched
  BY DEF IndInv
<1> QED  BY <1>1, AlwaysIndInv, PTL

(***************************************************************************)
(* For a caller that writes all of state_dict() and repeats a load that     *)
(* raised, a ShardedMasterState that is not being loaded is what its steps  *)
(* give, with either optimizer.                                             *)
(***************************************************************************)
THEOREM CompleteCheckpointsRestore == Spec => []StateIsReplay
<1>1. ASSUME IndInv PROVE StateIsReplay
  <2>1. \A r, n : Replay(r, n) = ReplayBy(optimizer, r, n)
    BY DEF Replay, ReplayBy, Stepped, SteppedBy
  <2> QED  BY <1>1, <2>1 DEF IndInv, Replayed, StateIsReplay, Clean
<1> QED  BY <1>1, AlwaysIndInv, PTL

(***************************************************************************)
(* Ranks between the same rounds hold the same parameters, although a rank  *)
(* applies quantized differences at its own time.                           *)
(***************************************************************************)
THEOREM CopiesStayEqual == Spec => []CopiesAgree
<1>1. IndInv => CopiesAgree
  BY DEF IndInv, InStep, Copied, CopiesAgree, SameCopy, Fresh
<1> QED  BY <1>1, AlwaysIndInv, PTL
----------------------------------------------------------------------------
(***************************************************************************)
(* The error of a copy.                                                     *)
(***************************************************************************)
\* The numbers of a state.
Integral(s) ==
    \A i \in Elements :
        s.master[i] \in Int /\ s.exp_avg[i] \in Int /\ s.exp_avg_sq[i] \in Int

\* A step makes integers of integers.
LEMMA StepIntegral ==
    ASSUME AdamWOnIntegers, NEW o, NEW r \in Ranks, NEW s, Fields(s), Integral(s),
           s.step \in Nat, s.step < MaxStep
    PROVE  Integral(SteppedBy(o, r, s))
<1> DEFINE g == Gradient[r][s.step + 1]
<1>1. \A i \in Elements : g[i] \in Int
  BY ShardedMasterAssumption
<1>2. CASE o = "sgd"
  <2>1. SteppedBy(o, r, s) = sgd_step(r, s, g)
    BY <1>2 DEF SteppedBy
  <2> HIDE DEF g
  <2>2. \A i \in Elements : SgdMaster(r, s, g)[i] \in Int
    BY <1>1 DEF SgdMaster, Written, Integral
  <2> QED  BY <2>1, <2>2, SgdRecord DEF Integral
<1>3. CASE o # "sgd"
  <2>1. SteppedBy(o, r, s) = adamw_step(r, s, g)
    BY <1>3 DEF SteppedBy
  <2> HIDE DEF g
  <2>2. \A i \in Elements : First(r, s, g)[i] \in Int /\ Second(r, s, g)[i] \in Int
    BY <1>1 DEF First, Second, Written, Integral
  <2>3. \A i \in Elements : AdamWMaster(r, s, g)[i] \in Int
    <3>1. s.step + 1 \in Nat
      OBVIOUS
    <3> QED  BY <2>2, <3>1 DEF AdamWMaster, Written, Integral, AdamWOnIntegers
  <2> QED  BY <2>1, <2>2, <2>3, AdamWRecord DEF Integral
<1> QED  BY <1>2, <1>3

\* Replayed masters are integers.
LEMMA ReplayIntegral ==
    ASSUME AdamWOnIntegers, NEW o, NEW r \in Ranks, NEW n \in Nat, n <= MaxStep
    PROVE  Integral(ReplayBy(o, r, n))
<1> DEFINE S == {k \in Nat : k <= MaxStep => Integral(ReplayBy(o, r, k))}
<1>0. MaxStep \in Nat
  BY ShardedMasterAssumption
<1>1. 0 \in S
  <2>1. Integral(NewState(r))
    BY ShardedMasterAssumption DEF Integral, NewState, Zeros
  <2> QED  BY <2>1, ReplayUnfolds
<1>2. ASSUME NEW k \in Nat, k \in S PROVE k + 1 \in S
  <2> SUFFICES ASSUME k + 1 <= MaxStep PROVE Integral(ReplayBy(o, r, k + 1))
    OBVIOUS
  <2> DEFINE s == ReplayBy(o, r, k)
  <2>1. Fields(s) /\ s.step = k /\ Integral(s)
    BY <1>0, <1>2, ReplayFields
  <2>2. ReplayBy(o, r, k + 1) = SteppedBy(o, r, s)
    BY ReplayUnfolds
  <2> HIDE DEF s
  <2> QED  BY <1>0, <2>1, <2>2, StepIntegral
<1> HIDE DEF S
<1>3. Nat \subseteq S
  BY <1>1, <1>2, SetInduction
<1> QED  BY <1>3 DEF S

\* A master that is replayed is integral, and its step that of the replay.
LEMMA MasterReplayed ==
    ASSUME IndInv, kept = Entries, NEW r \in Ranks, pc[r] # "load"
    PROVE  state[r].master = ReplayBy(optimizer, r, state[r].step).master
<1>1. Clean(state[r]) = ReplayBy(optimizer, r, state[r].step)
  BY DEF IndInv, Replayed
<1>2. Clean(state[r]).master = state[r].master
  BY StateFields, CleanFields DEF IndInv
<1> QED  BY <1>1, <1>2

\* Half of a number that is near, for one and for no error.
LEMMA HalfIsNear ==
    ASSUME AdamWOnIntegers, IndInv, NEW r \in Ranks, NEW o \in Ranks,
           NEW i \in Valid(o), NEW e \in Errors
    PROVE  LET x == ReplayBy(optimizer, o, state[r].step).master[i]
           IN  /\ x \in Int
               /\ Half(x + e) \in Int
               /\ Near(Half(x + e), o, state[r].step, i)
<1> DEFINE x == ReplayBy(optimizer, o, state[r].step).master[i]
<1>1. x \in Int
  BY StateFields, ReplayIntegral, ValidElements DEF IndInv, Integral
<1>2. e \in Int
  BY ShardedMasterAssumption
<1>3. PICK rounding \in -1 .. 1 : Half(x + e) = (x + e) + rounding
  <2> HIDE DEF x
  <2> QED  BY <1>1, <1>2, HalfNear
<1>4. Half(x + e) \in Int
  <2> HIDE DEF x
  <2> QED  BY <1>1, <1>2, <1>3
<1> QED  BY <1>1, <1>3, <1>4 DEF Near

\* Fresh copies are near their masters.
LEMMA InitBounded == Init => Bounded
<1> SUFFICES ASSUME Init PROVE Bounded
  OBVIOUS
<1>1. ASSUME NEW r \in Ranks, NEW o \in Ranks, NEW i \in Valid(o)
      PROVE  model[r][o][i] \in Int /\ Near(model[r][o][i], o, state[r].step, i)
  <2>1. /\ i \in Elements /\ Initial[o][i] \in Int
        /\ 0 \in Errors
    BY ValidElements, ShardedMasterAssumption
  <2>2. model[r][o][i] = Half(Initial[o][i])
    BY <2>1 DEF Init, InitialModel
  <2>3. state[r].step = 0 /\ ReplayBy(optimizer, o, 0).master[i] = Initial[o][i]
    BY ReplayUnfolds DEF Init, NewState
  <2>4. PICK rounding \in -1 .. 1 : Half(Initial[o][i]) = Initial[o][i] + rounding
    BY <2>1, HalfNear
  <2>5. /\ Half(Initial[o][i]) \in Int
        /\ Half(Initial[o][i]) = Initial[o][i] + 0 + rounding
    BY <2>1, <2>4
  <2> QED  BY <2>1, <2>2, <2>3, <2>5 DEF Near
<1>2. \A r \in Ranks : pc[r] = "step"
  BY DEF Init
<1> QED  BY <1>1, <1>2 DEF Bounded

\* The bound, action by action.
LEMMA StepBounded ==
    ASSUME IndInv, Bounded, NEW r \in Ranks, OptimizerStep(r)
    PROVE  Bounded'
<1>1. /\ pc[r] = "step" /\ pc'[r] = "decide"
      /\ state'[r] = SteppedBy(optimizer, r, state[r])
      /\ \A q \in Ranks : q # r => state'[q] = state[q] /\ pc'[q] = pc[q]
      /\ UNCHANGED <<optimizer, model, mode, sent, received>>
  BY DEF OptimizerStep, IndInv, TypeOK, Stepped, SteppedBy
<1>2. Owes(r)' <=> Owes(r)
  BY <1>1, StateFields, StepFields DEF IndInv, Owes
<1>3. \A q \in Ranks : (Fresh(q))' <=> Fresh(q)
  BY <1>1, <1>2 DEF Fresh, Owes
<1> QED  BY <1>1, <1>3 DEF Bounded, Near

\* Deciding moves no weight.
LEMMA DecideBounded ==
    ASSUME IndInv, Bounded, NEW r \in Ranks, Decide(r)
    PROVE  Bounded'
<1>1. /\ pc[r] = "decide" /\ pc'[r] = "gather"
      /\ \A q \in Ranks : q # r =>
             mode'[q] = mode[q] /\ pc'[q] = pc[q] /\ sent'[q] = sent[q]
      /\ UNCHANGED <<optimizer, inputs, kept, state, model, received>>
  BY DEF Decide, IndInv, TypeOK
<1>2. \A q \in Ranks : (Fresh(q))' <=> Fresh(q)
  BY <1>1 DEF Fresh, Owes
<1>3. ASSUME mode'[r] = "fp_refresh"
      PROVE  sent'[r] = state[r].master
  BY <1>3 DEF Decide, IndInv, TypeOK
<1>4. ASSUME mode'[r] = "qwd"
      PROVE  \E e \in Errors : \A i \in Valid(r) :
                 sent'[r][i] = e + (state[r].master[i] - model[r][r][i])
  <2>1. PICK e \in Errors :
            sent'[r] = [i \in Elements |-> e +
                prepare_parameter_delta(r, state[r].master, model[r][r])[i]]
    BY <1>4 DEF Decide, IndInv, TypeOK
  <2> QED  BY <2>1, ValidElements DEF prepare_parameter_delta
<1> QED  BY <1>1, <1>2, <1>3, <1>4 DEF Bounded, Near

\* What is gathered comes from one rank's master.
LEMMA AllGatherBounded ==
    ASSUME IndInv, kept = Entries, Bounded, AllGather
    PROVE  Bounded'
<1>1. /\ \A r \in Ranks : pc[r] = "gather" /\ pc'[r] = "apply" /\ received'[r] = sent
      /\ \A r, q \in Ranks : mode[r] = mode[q]
      /\ UNCHANGED <<optimizer, inputs, kept, state, model, mode>>
  BY DEF AllGather
<1>2. ASSUME NEW r \in Ranks, NEW o \in Ranks, NEW i \in Valid(o)
      PROVE  /\ state[o].master = ReplayBy(optimizer, o, state[r].step).master
             /\ mode[r] = "qwd" =>
                    model[o][o][i] = model[r][o][i] /\ model[r][o][i] \in Int
  <2>1. state[o].step = state[r].step
    BY <1>1 DEF IndInv, InStep, After
  <2>2. state[o].master = ReplayBy(optimizer, o, state[o].step).master
    BY <1>1, MasterReplayed
  <2>3. ASSUME mode[r] = "qwd" PROVE Fresh(r) /\ Fresh(o)
    BY <1>1, <2>3 DEF IndInv, InStep, Decision, Fresh
  <2> QED  BY <2>1, <2>2, <2>3 DEF IndInv, Copied, SameCopy, Bounded
<1> QED  BY <1>1, <1>2 DEF Bounded, Fresh

\* A refresh copies the master, a difference misses it by one error.
LEMMA ApplyBounded ==
    ASSUME AdamWOnIntegers, IndInv, Bounded, NEW r \in Ranks, Apply(r)
    PROVE  Bounded'
<1>1. /\ pc[r] = "apply" /\ pc'[r] = "step" /\ mode[r] \in {"fp_refresh", "qwd"}
      /\ \A q \in Ranks : q # r =>
             /\ mode'[q] = mode[q] /\ pc'[q] = pc[q] /\ state'[q] = state[q]
             /\ received'[q] = received[q] /\ model'[q] = model[q]
      /\ UNCHANGED <<optimizer, sent>>
  BY DEF Apply, IndInv, TypeOK
<1>2. state'[r].step = state[r].step
  <2>1. Fields(state[r]) /\ DOMAIN state = Ranks
    BY StateFields DEF IndInv, TypeOK
  <2>2. CASE state' = state
    BY <2>2
  <2>3. CASE state' = [state EXCEPT ![r].requires_fp_refresh = FALSE]
    BY <2>1, <2>3 DEF Fields
  <2> QED  BY <2>2, <2>3 DEF Apply
<1>3. ASSUME NEW o \in Ranks, NEW i \in Valid(o)
      PROVE  /\ model'[r][o][i] \in Int
             /\ Near(model'[r][o][i], o, state[r].step, i)
  <2> DEFINE x == ReplayBy(optimizer, o, state[r].step).master[i]
  <2>0. i \in Elements
    BY ValidElements
  <2>1. CASE mode[r] = "fp_refresh"
    <3>1. model'[r][o] = full_precision_refresh(o, model[r][o], received[r][o])
      BY <2>1 DEF Apply, IndInv, TypeOK
    <3>2. model'[r][o][i] = Half(received[r][o][i])
      BY <2>0, <3>1 DEF full_precision_refresh, Written
    <3>3. received[r][o][i] = x
      BY <1>1, <2>1 DEF Bounded
    <3>4. 0 \in Errors
      BY ShardedMasterAssumption
    <3>5. x \in Int /\ Half(x + 0) \in Int /\ Near(Half(x + 0), o, state[r].step, i)
      BY <3>4, HalfIsNear
    <3>6. x + 0 = x
      BY <3>5
    <3> QED  BY <3>2, <3>3, <3>5, <3>6
  <2>2. CASE mode[r] = "qwd"
    <3>1. model'[r][o] =
              apply_quantized_weight_difference(o, model[r][o], received[r][o])
      BY <2>2 DEF Apply, IndInv, TypeOK
    <3>2. model'[r][o][i] = Half(model[r][o][i] + received[r][o][i])
      BY <2>0, <3>1 DEF apply_quantized_weight_difference, Written
    <3>3. PICK e \in Errors : received[r][o][i] = e + (x - model[r][o][i])
      BY <1>1, <2>2 DEF Bounded
    <3>4. model[r][o][i] \in Int
      BY <1>1, <2>2 DEF Bounded
    <3>5. x \in Int /\ Half(x + e) \in Int /\ Near(Half(x + e), o, state[r].step, i)
      BY HalfIsNear
    <3>6. e \in Int
      BY ShardedMasterAssumption
    <3>7. model[r][o][i] + received[r][o][i] = x + e
      <4> HIDE DEF x
      <4> QED  BY <3>3, <3>4, <3>5, <3>6
    <3> QED  BY <3>2, <3>5, <3>7
  <2> QED  BY <1>1, <2>1, <2>2
<1>4. \A q \in Ranks : q # r => ((Fresh(q))' <=> Fresh(q))
  BY <1>1 DEF Fresh, Owes
<1>5. ASSUME NEW o \in Ranks, NEW i \in Valid(o)
      PROVE  (Near(model[r][o][i], o, state[r].step, i))'
  BY <1>1, <1>2, <1>3 DEF Near
<1>6. ASSUME NEW q \in Ranks, q # r, NEW o \in Ranks, NEW i \in Valid(o)
      PROVE  (Near(model[q][o][i], o, state[q].step, i))'
                 <=> Near(model[q][o][i], o, state[q].step, i)
  BY <1>1, <1>6 DEF Near
<1> QED  BY <1>1, <1>3, <1>4, <1>5, <1>6 DEF Bounded

\* Loading a state leaves the copies to a refresh.
LEMMA LoadBounded ==
    ASSUME IndInv, Bounded, NEW r \in Ranks, Load(r) \/ LoadFails(r)
    PROVE  Bounded'
<1>1. /\ pc[r] = "load" /\ pc'[r] \in {"load", "decide"}
      /\ \A q \in Ranks : q # r => state'[q] = state[q] /\ pc'[q] = pc[q]
      /\ UNCHANGED <<optimizer, model, mode, sent, received>>
  BY DEF Load, LoadFails, IndInv, TypeOK
<1>2. pc'[r] = "decide" => state'[r].requires_fp_refresh
  <2> SUFFICES ASSUME Load(r) PROVE state'[r].requires_fp_refresh
    BY <1>1 DEF LoadFails
  <2>1. PICK c : state'[r] = Loaded(state[r], c)
    BY DEF Load, IndInv, TypeOK
  <2> QED  BY <2>1 DEF Loaded
<1>3. \A q \in Ranks : (Fresh(q))' <=> Fresh(q)
  BY <1>1, <1>2 DEF Fresh, Owes
<1> QED  BY <1>1, <1>3 DEF Bounded, Near

\* Every step keeps the bound.
LEMMA NextBounded ==
    ASSUME AdamWOnIntegers, IndInv, kept = Entries, Bounded, [Next]_vars
    PROVE  Bounded'
<1>1. CASE UNCHANGED vars \/ \E r \in Ranks : Save(r)
  <2>1. UNCHANGED <<optimizer, state, model, pc, mode, sent, received>>
    BY <1>1 DEF vars, Save
  <2> QED  BY <2>1 DEF Bounded, Near, Fresh, Owes
<1>2. CASE Crash \/ Rollback
  <2>1. \A r \in Ranks : pc'[r] = "load"
    BY <1>2 DEF Crash, Rollback, Restore
  <2> QED  BY <2>1 DEF Bounded, Fresh
<1> QED  BY <1>1, <1>2, StepBounded, DecideBounded, AllGatherBounded, ApplyBounded,
            LoadBounded DEF Next

(***************************************************************************)
(* However many lossy rounds there were, every copy of every parameter is   *)
(* within one quantization error and one rounding of its master at that     *)
(* step: the next delta is taken from the copy, so it carries the error of  *)
(* the last (prepare_parameter_delta).  For a caller that writes all of     *)
(* state_dict(); numbers are integers here, so the theorem assumes that     *)
(* AdamW makes integers of integers.                                        *)
(***************************************************************************)
THEOREM ErrorsStayBounded == AdamWOnIntegers => (Spec => []ErrorsDoNotAccumulate)
<1> SUFFICES ASSUME AdamWOnIntegers PROVE Spec => []ErrorsDoNotAccumulate
  OBVIOUS
<1> DEFINE Inv == kept = Entries => Bounded
<1>1. IndInv /\ Inv /\ [Next]_vars => Inv'
  <2>1. [Next]_vars => kept' = kept
    BY DEF Next, vars, OptimizerStep, Decide, Apply, Save, Load, LoadFails,
           AllGather, Crash, Rollback, Restore
  <2> QED  BY <2>1, NextBounded
<1>2. ASSUME Inv PROVE ErrorsDoNotAccumulate
  <2>1. \A r, n : Replay(r, n) = ReplayBy(optimizer, r, n)
    BY DEF Replay, ReplayBy, Stepped, SteppedBy
  <2> QED  BY <1>2, <2>1 DEF Bounded, Near, ErrorsDoNotAccumulate
<1>3. Init => Inv
  BY InitBounded
<1> HIDE DEF Inv
<1> QED  BY <1>1, <1>2, <1>3, AlwaysIndInv, PTL DEF Spec
=============================================================================
