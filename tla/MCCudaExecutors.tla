-------------------------- MODULE MCCudaExecutors --------------------------
(* Programs for TLC: the runs that a training step makes.                    *)
EXTENDS CudaExecutors

AllKinds == <<"native", "dynamic", "gather", "shard", "full", "direct">>
TwoFull == <<"full", "full">>

\* All ranks alike, or one of them built differently.
MCSchemas ==
    {[r \in Ranks |-> "s"],
     [r \in Ranks |-> IF r = CHOOSE q \in Ranks : TRUE THEN "t" ELSE "s"]}
=============================================================================
