------------------------- MODULE MCCrawlCoordinator -------------------------
(***************************************************************************)
(* Instance of CrawlCoordinator for TLC: two workers, two fingerprints,    *)
(* a job directory that may come from a schema migration, and requests     *)
(* that differ in storage, heap, priority and filtering.                   *)
(***************************************************************************)
EXTENDS CrawlCoordinator, TLC

CONSTANTS w1, w2, f1, f2

MCCallers == {w1, w2}

MCFingerprints == {f1, f2}

MCPriorities == {0, 1}

MCImportedRows ==
    {[id |-> 0, fp |-> f1, filter |-> TRUE, priority |-> 0, start |-> TRUE,
      persistent |-> TRUE]}

Request(f, filtered, p, isStart, stored) ==
    [fp |-> f, filter |-> filtered, priority |-> p, start |-> isStart,
     persistent |-> stored]

MCRequests ==
    {Request(f1, TRUE, 0, FALSE, TRUE), Request(f2, TRUE, 1, TRUE, FALSE),
     Request(f2, FALSE, 0, TRUE, TRUE), Request(f2, TRUE, 0, FALSE, FALSE)}

MCSymmetry == Permutations(MCCallers)
=============================================================================
