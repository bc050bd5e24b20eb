--------------------------- MODULE MCShardedMaster ---------------------------
EXTENDS ShardedMaster

Pair(a, b) == [i \in 0 .. 1 |-> IF i = 0 THEN a ELSE b]

\* Three parameters on two ranks: the last element of rank 1 is padding.
MCInitial == Pair(Pair(4, -3), Pair(7, 0))

\* Rank 1 has no gradient in step 3; its padding always has one.
MCGradient ==
    Pair(<<Pair(3, -2), Pair(1, 5), Pair(-4, 2), Pair(2, 1)>>,
         <<Pair(-5, 9), Pair(2, 9), Pair(0, 9), Pair(3, 9)>>)

MCAdamW(parameter, first, second, step) == parameter - first - second + step

Usual == [sensitive |-> FALSE, capability |-> TRUE, error_above_threshold |-> FALSE]
MCInputs ==
    {[s \in 1 .. MaxStep |-> Usual],
     [s \in 1 .. MaxStep |->
        CASE s = 2 -> [Usual EXCEPT !.sensitive = TRUE]
          [] s = 3 -> [Usual EXCEPT !.error_above_threshold = TRUE]
          [] OTHER -> Usual],
     [s \in 1 .. MaxStep |-> [Usual EXCEPT !.capability = s # 2]]}

MCErrors == {0, 3}

\* A new process does not begin with the parameters that another one does.
MCNewModels == {Pair(Pair(Pair(0, 0), Pair(0, 0)), Pair(Pair(20, 20), Pair(20, 20)))}

MCOldCheckpoints ==
    {[rank |-> r, layout_version |-> layout_version - 1, world_size |-> world_size,
      master |-> Pair(9, 9), step |-> 2, exp_avg |-> Pair(9, 9),
      exp_avg_sq |-> Pair(9, 9)] : r \in Ranks}

\* All of state_dict(); no moments; neither the step nor the second moment.
MCKept == {Entries, {"step"}, {"exp_avg"}}

\* The state after one incomplete restore is new, and so is all that follows.
MCMaxRestores == [entries \in MCKept |-> IF entries = Entries THEN 2 ELSE 1]
=============================================================================
