---------------------------- MODULE SlotSettings ----------------------------
(***************************************************************************)
(* What both implementations of download slots are given, and the          *)
(* arithmetic of delays, which is the same in slots.rs and operational.py. *)
(* Times are whole numbers of some unit; halves round down.  A latency     *)
(* stands for latency / AUTOTHROTTLE_TARGET_CONCURRENCY.                   *)
(***************************************************************************)
EXTENDS Integers, FiniteSets

CONSTANTS
    Keys,           \* slot keys: host names, or the download_slot of a request
    Tasks,
    Layouts,        \* which slot keys the tasks' requests may have
    Concurrency,    \* per key: CONCURRENT_REQUESTS_PER_DOMAIN or its option
    Delay,          \* per key: the delay a new slot starts with
    Randomize,      \* per key: RANDOMIZE_DOWNLOAD_DELAY or randomize_delay
    MinDelay,       \* DOWNLOAD_DELAY
    MaxDelay,       \* AUTOTHROTTLE_MAX_DELAY
    Latencies,      \* latencies that AutoThrottle is told of; {} when it is off
    MaxIdle,        \* the native slots forget a slot after so long (60 seconds)
    Horizon         \* bound on the ages

ASSUME SlotAssumption ==
    /\ IsFiniteSet(Tasks)
    /\ Layouts \subseteq [Tasks -> Keys]
    /\ Concurrency \in [Keys -> Nat \ {0}]
    /\ Delay \in [Keys -> Nat]
    /\ Randomize \in [Keys -> BOOLEAN]
    /\ {MinDelay, MaxDelay} \subseteq Nat
    /\ MinDelay <= MaxDelay
    /\ Latencies \subseteq Nat
    /\ {MaxIdle, Horizon} \subseteq Nat
    /\ MaxIdle < Horizon

Larger(a, b) == IF a > b THEN a ELSE b

Smaller(a, b) == IF a < b THEN a ELSE b

\* sample_delay: the delay itself, or anything from half of it up to 3/2 of it.
Samples(k, delay) ==
    IF Randomize[k] /\ delay > 0 THEN delay \div 2 .. (3 * delay - 1) \div 2 ELSE {delay}

Clamped(d) == Smaller(Larger(d, MinDelay), MaxDelay)

Throttled(delay, latency) == Clamped(Larger(latency, (delay + latency) \div 2))

\* A response other than 200 never makes the delay smaller.
Ignored(delay, latency, ok) == ~ok /\ Throttled(delay, latency) <= delay
=============================================================================
