--------------------------- MODULE MCRobotsPolicy ---------------------------
(* Two origins, a worker, and two callers that compete for one permit. *)
EXTENDS RobotsPolicy

CONSTANTS w1, c1, c2, o1, o2, p1, p2, p3

MCWorkers == {w1}

MCCallers == {c1, c2}

MCOrigins == {o1, o2}

MCPages == {p1, p2, p3}

MCOriginOf == [p \in MCPages |-> IF p = p2 THEN o2 ELSE o1]

MCExempt == {p3}
=============================================================================
