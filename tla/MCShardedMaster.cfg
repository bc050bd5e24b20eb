CONSTANTS
    original_numel = 3
    world_size = 2
    group_size = 2
    Initial <- MCInitial
    Gradient <- MCGradient
    AdamW <- MCAdamW
    Inputs <- MCInputs
    Errors <- MCErrors
    NewModels <- MCNewModels
    OldCheckpoints <- MCOldCheckpoints
    Kept <- MCKept
    warmup_steps = 1
    refresh_interval = 4
    layout_version = 1
    MaxStep = 4
    SaveSteps = {2, 3}
    MaxRestores <- MCMaxRestores
    MaxFailures = 1
SPECIFICATION Spec
CHECK_DEADLOCK FALSE
INVARIANTS
    PaddingUntouched
    StateIsReplay
    DecisionsAgree
    CopiesAgree
    ErrorsDoNotAccumulate
PROPERTY TrainingEnds
