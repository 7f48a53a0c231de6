-------------------------- MODULE MCDownloadSlots --------------------------
(* Three tasks share a slot for two, or two of them a slot for one next to the third. *)
EXTENDS DownloadSlots

CONSTANTS k1, k2, t1, t2, t3

MCKeys == {k1, k2}

MCTasks == {t1, t2, t3}

MCLayouts == {[t \in MCTasks |-> k1], [t \in MCTasks |-> IF t = t3 THEN k1 ELSE k2]}

MCConcurrency == [k \in MCKeys |-> IF k = k1 THEN 2 ELSE 1]

MCDelay == [k \in MCKeys |-> 2]

MCRandomize == [k \in MCKeys |-> k = k2]

MCLatencies == {0, 2}

MCEngines == {"native", "python"}
=============================================================================
