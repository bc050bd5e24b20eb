---------------------------- MODULE ShardedMaster ----------------------------
(***************************************************************************)
(* adapters/sharded/: every rank owns one FP32 shard of the parameters      *)
(* (ShardedMasterState) and has a copy of all of them in the model's dtype. *)
(* In a round it steps its shard, decides with SafeInt8QWDPolicy how to     *)
(* bring the copies up to date, takes part in an all-gather of the masters  *)
(* or of quantized differences, and writes the result to its copy.          *)
(*                                                                          *)
(* The loop around these calls is the caller's, modelled as the repository  *)
(* uses them (tests/v03/distributed/qwd_oracle.py).  It keeps checkpoints,  *)
(* restores all ranks from the newest step that every rank has saved,       *)
(* repeats a load that raised, and refreshes the copies while               *)
(* requires_fp_refresh is set.  load_state_dict() takes a checkpoint        *)
(* without the step or a moment, so the caller may write such ones.         *)
(*                                                                          *)
(* Numbers are integers: an FP32 value is exact, a value of the model's     *)
(* dtype is even.  exp_avg and exp_avg_sq grow by the gradient and by its   *)
(* square; what AdamW makes of them is the constant AdamW.                  *)
(***************************************************************************)
EXTENDS Transports

CONSTANTS
    original_numel, world_size, group_size,
    Initial,                \* the master of each rank before the first step
    Gradient,               \* the reduced gradient of each rank and step
    AdamW(_, _, _, _),      \* new parameter from the old, the moments, the step
    Inputs,                 \* what decide() may be told: functions of the step
    Errors,                 \* errors of a quantized difference
    NewModels,              \* the copies that new processes may begin with
    OldCheckpoints,         \* checkpoints of another layout
    Kept,                   \* which entries a caller may write
    warmup_steps, refresh_interval, layout_version,
    MaxStep, SaveSteps, MaxRestores, MaxFailures       \* bounds; of the restores,
                                                       \* one for each kept

Ranks == RankIds(world_size)
Elements == 0 .. shard_numel(original_numel, world_size, group_size) - 1

\* The entries of state_dict() that load_state_dict() can do without.
Entries == {"step", "exp_avg", "exp_avg_sq"}

ASSUME ShardedMasterAssumption ==
    /\ {original_numel, layout_version, warmup_steps, MaxStep} \subseteq Nat
    /\ {world_size, group_size, refresh_interval} \subseteq Nat \ {0}
    /\ \A r \in Ranks, i \in Elements :
           /\ Initial[r][i] \in Int
           /\ \A s \in 1 .. MaxStep : Gradient[r][s][i] \in Int
    /\ Errors \subseteq Int /\ 0 \in Errors
    /\ \A c \in OldCheckpoints :
           \/ c.layout_version # layout_version
           \/ c.world_size # world_size
    /\ \A models \in NewModels : DOMAIN models = Ranks
    /\ Kept \subseteq SUBSET Entries

Valid(r) ==
    0 .. valid_numel(compile_shard_plan(original_numel, r, world_size,
                                        group_size)) - 1
Zeros == [i \in Elements |-> 0]
NoShards == [r \in Ranks |-> Zeros]

VARIABLES
    optimizer,      \* whether the caller calls sgd_step or adamw_step
    inputs,         \* relative_error, capability and sensitive of each step
    kept,           \* the entries in this caller's checkpoints
    state,          \* ShardedMasterState of each rank
    model,          \* each rank's copy of each shard
    pc,             \* where the caller's loop is
    mode,           \* ParameterCommunicationDecision.mode of this round
    sent,           \* what a rank puts in the all-gather, until it ends
    received,       \* what it gets, until it is applied
    saved,          \* checkpoints on disk
    target,         \* the step being restored
    restores, failures

vars == <<optimizer, inputs, kept, state, model, pc, mode, sent, received,
          saved, target, restores, failures>>

\* ShardedMasterState.__init__
NewState(r) ==
    [master |-> Initial[r], step |-> 0, exp_avg |-> Zeros, exp_avg_sq |-> Zeros,
     requires_fp_refresh |-> FALSE]

\* The nearest value of the model's dtype.
Half(x) == 2 * ((x + 1) \div 2)

InitialModel == [r \in Ranks |-> [i \in Elements |-> Half(Initial[r][i])]]

Init ==
    /\ optimizer \in {"sgd", "adamw"}
    /\ inputs \in Inputs
    /\ kept \in Kept
    /\ state = [r \in Ranks |-> NewState(r)]
    /\ model = [r \in Ranks |-> InitialModel]
    /\ pc = [r \in Ranks |-> "step"]
    /\ mode = [r \in Ranks |-> "none"]
    /\ sent = NoShards
    /\ received = [r \in Ranks |-> NoShards]
    /\ saved = OldCheckpoints
    /\ target = 0
    /\ restores = 0
    /\ failures = 0

\* A record with the fields of ShardedMasterState.
IsState(s) ==
    /\ s = [master |-> s.master, step |-> s.step, exp_avg |-> s.exp_avg,
            exp_avg_sq |-> s.exp_avg_sq,
            requires_fp_refresh |-> s.requires_fp_refresh]
    /\ s.step \in 0 .. MaxStep
    /\ s.requires_fp_refresh \in BOOLEAN

TypeOK ==
    /\ kept \subseteq Entries
    /\ DOMAIN state = Ranks /\ \A r \in Ranks : IsState(state[r])
    /\ {DOMAIN model, DOMAIN sent, DOMAIN received} = {Ranks}
    /\ pc \in [Ranks -> {"step", "decide", "gather", "apply", "load"}]
    /\ mode \in [Ranks -> {"none", "fp_refresh", "qwd"}]

\* Elements i of a shard, changed where they are valid.
Written(r, old, new(_)) ==
    [i \in Elements |-> IF i \in Valid(r) THEN new(i) ELSE old[i]]
----------------------------------------------------------------------------
\* Mutant: a gradient has to fill the shard.
Accepts_OnlyFull(r, gradient) == Valid(r) = DOMAIN gradient

\* The check of the size in sgd_step and _validate_gradient.  (Every gradient
\* of this loop is made for the layout and the rank that it is given to.)
Accepts(r, gradient) == DOMAIN gradient = DOMAIN state[r].master

sgd_step(r, s, g) ==
    [s EXCEPT !.master = Written(r, s.master, LAMBDA i : s.master[i] - g[i]),
              !.step = s.step + 1]

adamw_step(r, s, g) ==
    LET first == Written(r, s.exp_avg, LAMBDA i : s.exp_avg[i] + g[i])
        second == Written(r, s.exp_avg_sq, LAMBDA i : s.exp_avg_sq[i] + g[i] * g[i])
    IN  [s EXCEPT !.step = s.step + 1, !.exp_avg = first, !.exp_avg_sq = second,
                  !.master = Written(r, s.master, LAMBDA i :
                      AdamW(s.master[i], first[i], second[i], s.step + 1))]

Stepped(r, s) ==
    LET g == Gradient[r][s.step + 1]
    IN  IF optimizer = "sgd" THEN sgd_step(r, s, g) ELSE adamw_step(r, s, g)

OptimizerStep(r) ==
    /\ pc[r] = "step"
    /\ state[r].step < MaxStep
    /\ Accepts(r, Gradient[r][state[r].step + 1])
    /\ state' = [state EXCEPT ![r] = Stepped(r, @)]
    /\ pc' = [pc EXCEPT ![r] = "decide"]
    /\ UNCHANGED <<optimizer, inputs, kept, model, mode, sent, received, saved,
                   target, restores, failures>>
----------------------------------------------------------------------------
\* SafeInt8QWDPolicy.decide
decide(step, told) ==
    IF \/ step <= warmup_steps
       \/ told.sensitive
       \/ ~told.capability
       \/ told.error_above_threshold
       \/ step % refresh_interval = 0
    THEN "fp_refresh"
    ELSE "qwd"

prepare_parameter_delta(r, master, model_shard) ==
    [i \in Elements |-> IF i \in Valid(r) THEN master[i] - model_shard[i] ELSE 0]

\* Decide, and start the all-gather of the master or of a quantized delta.
Decide(r) ==
    /\ pc[r] = "decide"
    /\ LET s == state[r]
           decision == IF s.requires_fp_refresh THEN "fp_refresh"
                       ELSE decide(s.step, inputs[s.step])
       IN  /\ mode' = [mode EXCEPT ![r] = decision]
           /\ \/ /\ decision = "fp_refresh"
                 /\ sent' = [sent EXCEPT ![r] = s.master]
              \/ /\ decision = "qwd"
                 /\ \E e \in Errors :
                        sent' = [sent EXCEPT ![r] = [i \in Elements |-> e +
                            prepare_parameter_delta(r, s.master, model[r][r])[i]]]
    /\ pc' = [pc EXCEPT ![r] = "gather"]
    /\ UNCHANGED <<optimizer, inputs, kept, state, model, received, saved,
                   target, restores, failures>>

\* The all-gather ends when every rank takes part in the same one.
AllGather ==
    /\ \A r \in Ranks : pc[r] = "gather"
    /\ \A r, q \in Ranks : mode[r] = mode[q]
    /\ received' = [r \in Ranks |-> sent]
    /\ sent' = NoShards
    /\ pc' = [r \in Ranks |-> "apply"]
    /\ UNCHANGED <<optimizer, inputs, kept, state, model, mode, saved, target,
                   restores, failures>>

\* Mutant: the difference replaces the parameter.
apply_quantized_weight_difference_Copies(q, model_shard, delta) ==
    Written(q, model_shard, LAMBDA i : Half(delta[i]))

apply_quantized_weight_difference(q, model_shard, delta) ==
    Written(q, model_shard, LAMBDA i : Half(model_shard[i] + delta[i]))

full_precision_refresh(q, model_shard, master) ==
    Written(q, model_shard, LAMBDA i : Half(master[i]))

\* Mutant: the owner of a shard takes its own master instead of the difference.
Apply_OwnExact(r) ==
    /\ pc[r] = "apply"
    /\ model' = [model EXCEPT ![r] = [q \in Ranks |->
           CASE q = r -> full_precision_refresh(q, @[q], state[r].master)
             [] q # r /\ mode[r] = "fp_refresh" ->
                    full_precision_refresh(q, @[q], received[r][q])
             [] q # r /\ mode[r] = "qwd" ->
                    apply_quantized_weight_difference(q, @[q], received[r][q])]]
    /\ state' = [state EXCEPT ![r].requires_fp_refresh =
                                 @ /\ mode[r] # "fp_refresh"]
    /\ received' = [received EXCEPT ![r] = NoShards]
    /\ mode' = [mode EXCEPT ![r] = "none"]
    /\ pc' = [pc EXCEPT ![r] = "step"]
    /\ UNCHANGED <<optimizer, inputs, kept, sent, saved, target, restores,
                   failures>>

\* Every shard of the copy, with mark_fp_refreshed() after a refresh.
Apply(r) ==
    /\ pc[r] = "apply"
    /\ \/ /\ mode[r] = "fp_refresh"
          /\ model' = [model EXCEPT ![r] = [q \in Ranks |->
                 full_precision_refresh(q, @[q], received[r][q])]]
          /\ state' = [state EXCEPT ![r].requires_fp_refresh = FALSE]
       \/ /\ mode[r] = "qwd"
          /\ model' = [model EXCEPT ![r] = [q \in Ranks |->
                 apply_quantized_weight_difference(q, @[q], received[r][q])]]
          /\ UNCHANGED state
    /\ received' = [received EXCEPT ![r] = NoShards]
    /\ mode' = [mode EXCEPT ![r] = "none"]
    /\ pc' = [pc EXCEPT ![r] = "step"]
    /\ UNCHANGED <<optimizer, inputs, kept, sent, saved, target, restores,
                   failures>>
----------------------------------------------------------------------------
\* What the caller writes: the entries outside kept are in the record too, but
\* not in the file, and nothing below reads them.
state_dict(r) ==
    [rank |-> r, layout_version |-> layout_version, world_size |-> world_size,
     master |-> state[r].master, step |-> state[r].step,
     exp_avg |-> state[r].exp_avg, exp_avg_sq |-> state[r].exp_avg_sq]

\* What load_state_dict() checks before it changes anything.
Loadable(r, c) ==
    /\ c.layout_version = layout_version
    /\ c.world_size = world_size
    /\ c.rank = r
    /\ DOMAIN c.master = Elements

\* A checkpoint replaces the rank's last one of the same step.
Save(r) ==
    /\ pc[r] = "step"
    /\ state[r].step \in SaveSteps
    /\ saved' = {c \in saved : ~Loadable(r, c) \/ c.step # state[r].step}
                    \cup {state_dict(r)}
    /\ UNCHANGED <<optimizer, inputs, kept, state, model, pc, mode, sent,
                   received, target, restores, failures>>

\* The newest step that every rank can load, or 0.
Newest ==
    LET steps == {c.step : c \in saved}
        complete == {s \in steps : \A r \in Ranks :
                        \E c \in saved : c.step = s /\ Loadable(r, c)}
    IN  CHOOSE s \in complete \cup {0} : \A t \in complete : t <= s

\* New processes, or the same ones, are to load a checkpoint.  (With none to
\* load, a restart is the initial state again.)
Restore(states, models) ==
    /\ restores < MaxRestores[kept]
    /\ restores' = restores + 1
    /\ Newest > 0
    /\ target' = Newest
    /\ state' = states
    /\ model' = models
    /\ pc' = [r \in Ranks |-> "load"]
    /\ mode' = [r \in Ranks |-> "none"]
    /\ sent' = NoShards
    /\ received' = [r \in Ranks |-> NoShards]
    /\ UNCHANGED <<optimizer, inputs, kept, saved, failures>>

\* A rank dies, wherever it is, and the job is started anew.
Crash ==
    \E models \in NewModels :
        Restore([r \in Ranks |-> NewState(r)], models)

\* Between two rounds the caller goes back to the checkpoint.
Rollback ==
    /\ \A r \in Ranks : pc[r] = "step"
    /\ \A r, q \in Ranks : state[r].step = state[q].step
    /\ Restore(state, model)

\* A missing step is 0, a missing moment is left as it is.
LoadedStep(c) == IF "step" \in kept THEN c.step ELSE 0
LoadedMoment(name, old, new) == IF name \in kept THEN new ELSE old

\* Mutant: a master that is as it was needs no refresh.
Loaded_IfChanged(s, c) ==
    [master |-> c.master, step |-> LoadedStep(c),
     exp_avg |-> LoadedMoment("exp_avg", s.exp_avg, c.exp_avg),
     exp_avg_sq |-> LoadedMoment("exp_avg_sq", s.exp_avg_sq, c.exp_avg_sq),
     requires_fp_refresh |-> c.master # s.master]

\* Mutant: the second moment is left as it is.
Loaded_OneMoment(s, c) ==
    [master |-> c.master, step |-> LoadedStep(c),
     exp_avg |-> LoadedMoment("exp_avg", s.exp_avg, c.exp_avg),
     exp_avg_sq |-> s.exp_avg_sq, requires_fp_refresh |-> TRUE]

Loaded(s, c) ==
    [master |-> c.master, step |-> LoadedStep(c),
     exp_avg |-> LoadedMoment("exp_avg", s.exp_avg, c.exp_avg),
     exp_avg_sq |-> LoadedMoment("exp_avg_sq", s.exp_avg_sq, c.exp_avg_sq),
     requires_fp_refresh |-> TRUE]

\* load_state_dict()
Load(r) ==
    /\ pc[r] = "load"
    /\ \E c \in saved :
           /\ c.step = target
           /\ Loadable(r, c)
           /\ state' = [state EXCEPT ![r] = Loaded(@, c)]
    /\ pc' = [pc EXCEPT ![r] = "decide"]
    /\ UNCHANGED <<optimizer, inputs, kept, model, mode, sent, received, saved,
                   target, restores, failures>>

\* The state when load_state_dict() raises at an entry.
PartlyLoaded(s, c, entry) ==
    [master |-> c.master,
     step |-> IF entry = "step" THEN s.step ELSE LoadedStep(c),
     exp_avg |-> IF entry # "exp_avg_sq" THEN s.exp_avg
                 ELSE LoadedMoment("exp_avg", s.exp_avg, c.exp_avg),
     exp_avg_sq |-> s.exp_avg_sq, requires_fp_refresh |-> s.requires_fp_refresh]

\* It raises at an entry that it finds; the caller catches that and tries again.
LoadFails(r) ==
    /\ pc[r] = "load"
    /\ failures < MaxFailures
    /\ failures' = failures + 1
    /\ \E c \in saved :
           /\ c.step = target
           /\ Loadable(r, c)
           /\ \E entry \in kept :
                  state' = [state EXCEPT ![r] = PartlyLoaded(@, c, entry)]
    /\ UNCHANGED <<optimizer, inputs, kept, model, pc, mode, sent, received,
                   saved, target, restores>>

Next ==
    \/ \E r \in Ranks : \/ OptimizerStep(r)
                        \/ Decide(r)
                        \/ Apply(r)
                        \/ Save(r)
                        \/ Load(r)
                        \/ LoadFails(r)
    \/ AllGather
    \/ Crash
    \/ Rollback

\* The caller's loop goes on; it need not save, and nothing need fail.
Fairness ==
    /\ \A r \in Ranks :
           WF_vars(OptimizerStep(r) \/ Decide(r) \/ Apply(r) \/ Load(r))
    /\ WF_vars(AllGather)

Spec == Init /\ [][Next]_vars /\ Fairness
----------------------------------------------------------------------------
\* The state of rank r after so many steps and no fault.
Replay(r, step) ==
    LET after[n \in 0 .. step] ==
            IF n = 0 THEN NewState(r) ELSE Stepped(r, after[n - 1])
    IN  after[step]

(***************************************************************************)
(* The padding behind the last parameter takes no part: no step, restore or *)
(* write-back reaches it in a master or a moment.                           *)
(***************************************************************************)
PaddingUntouched ==
    \A r \in Ranks, i \in Elements :
        r * Cardinality(Elements) + i >= original_numel =>
            /\ state[r].master[i] = Initial[r][i]
            /\ state[r].exp_avg[i] = 0
            /\ state[r].exp_avg_sq[i] = 0

(***************************************************************************)
(* If the caller writes all of state_dict() and repeats a load that raised  *)
(* until it succeeds, then the master and both moments of every rank that   *)
(* trains are what the steps that it counts give, through crashes,          *)
(* rollbacks, torn sets of checkpoints and loads that raised half way.      *)
(* Both conditions are needed: after a load of less the new master stands   *)
(* with the old moments, or with step 0 (consumer.py:106 and 109), and a    *)
(* state whose load raised (pc = "load") is such a mixture until the load   *)
(* is repeated.                                                             *)
(***************************************************************************)
StateIsReplay ==
    kept = Entries =>
        \A r \in Ranks :
            pc[r] # "load" =>
                [state[r] EXCEPT !.requires_fp_refresh = FALSE]
                    = Replay(r, state[r].step)

(***************************************************************************)
(* Ranks decide alone and yet alike: no two take part in different          *)
(* collectives, or in the collective of different steps.                    *)
(***************************************************************************)
DecisionsAgree ==
    \A r, q \in Ranks :
        pc[r] = "gather" /\ pc[q] = "gather" =>
            mode[r] = mode[q] /\ state[r].step = state[q].step

(***************************************************************************)
(* The oracle's rank_gap == 0: two ranks that are between the same rounds   *)
(* have the same parameters.                                                *)
(***************************************************************************)
CopiesAgree ==
    \A r, q, owner \in Ranks :
        /\ pc[r] = "step" /\ pc[q] = "step"
        /\ state[r].step = state[q].step
        => \A i \in Valid(owner) : model[r][owner][i] = model[q][owner][i]

(***************************************************************************)
(* The next delta carries the error of the last: however many lossy         *)
(* write-backs there were, every copy of every parameter is within one      *)
(* quantization error and one rounding of the owner's master at that step,  *)
(* for a caller that writes all of state_dict().                            *)
(***************************************************************************)
ErrorsDoNotAccumulate ==
    kept = Entries =>
        \A r, owner \in Ranks :
            pc[r] = "step" =>
                \A i \in Valid(owner) : \E e \in Errors, rounding \in -1 .. 1 :
                    model[r][owner][i] =
                        Replay(owner, state[r].step).master[i] + e + rounding

(***************************************************************************)
(* The training ends: no rank waits for ever in a collective that others    *)
(* do not join, nor for a gradient or a checkpoint that it can take.        *)
(***************************************************************************)
TrainingEnds ==
    <>[](\A r \in Ranks : pc[r] = "step" /\ state[r].step = MaxStep)
=============================================================================
