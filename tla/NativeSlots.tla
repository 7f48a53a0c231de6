---------------------------- MODULE NativeSlots ----------------------------
(***************************************************************************)
(* The download slots of the native engine (slots.rs, native_slots.py).    *)
(*                                                                         *)
(* acquire is a future on the Tokio runtime: it looks at the slot of its   *)
(* key under a mutex, and unless it is granted a lease it sleeps until the *)
(* shared Notify wakes it or until the slot's delay has passed.  The lease *)
(* then travels to the event loop, where the task transfers and releases;  *)
(* a task that is cancelled drops its future or its lease.                 *)
(*                                                                         *)
(* Time is a Tick that all ages and alarms share; ages stop at Horizon.  A *)
(* lease is known by the task it was granted to.                           *)
(***************************************************************************)
EXTENDS SlotSettings, Functions

VARIABLES
    keyOf,      \* per task: the slot key of its requests
    task,       \* per task: where its request is
    alarm,      \* per task: time until its timer rings, or NoAlarm
    since,      \* per key: time since a lease was last granted
    slots,      \* the slots that exist
    closed

nativeVars == <<keyOf, task, alarm, since, slots, closed>>

NoAlarm == -1

NativeStates == {"idle", "looking", "asleep", "leased", "transferring"}

Slot ==
    [active : SUBSET Tasks, waiting : Nat, started : BOOLEAN,
     idle : Nat, delay : Nat, next : Nat]

NewSlot(k) ==
    [active |-> {}, waiting |-> 0, started |-> FALSE,
     idle |-> 0, delay |-> Delay[k], next |-> 0]

NativeInit ==
    /\ keyOf \in Layouts
    /\ task = [t \in Tasks |-> "idle"]
    /\ alarm = [t \in Tasks |-> NoAlarm]
    /\ since = [k \in Keys |-> Horizon]
    /\ slots = <<>>
    /\ closed = FALSE

Of(k) == {t \in Tasks : keyOf[t] = k}

Remaining(s, k) == IF s.started /\ s.next > since[k] THEN s.next - since[k] ELSE 0

-----------------------------------------------------------------------------

PrunedIdle(held) ==
    Restrict(held, {k \in DOMAIN held : held[k].active # {} \/ held[k].idle <= MaxIdle})

Pruned(held) ==
    Restrict(held, {k \in DOMAIN held :
                      held[k].active # {} \/ held[k].waiting > 0 \/ held[k].idle <= MaxIdle})

\* The slots as a look finds them: pruned, with a slot for the task's key, and with the
\* task counted as a waiter.
Found(t) ==
    LET k == keyOf[t]
        kept == Pruned(slots)
        held == [j \in DOMAIN kept \cup {k} |->
                   IF j \in DOMAIN kept THEN kept[j] ELSE NewSlot(k)]
    IN  IF task[t] = "idle" THEN [held EXCEPT ![k].waiting = @ + 1] ELSE held

Looks(t) == task[t] \in {"idle", "looking"} /\ ~closed

Grant(t) ==
    /\ Looks(t)
    /\ LET k == keyOf[t]
           s == Found(t)[k]
       IN  /\ Cardinality(s.active) < Concurrency[k]
           /\ Remaining(s, k) = 0
           /\ \E d \in Samples(k, s.delay) :
                 slots' = [Found(t) EXCEPT ![k] =
                             [s EXCEPT !.waiting = @ - 1, !.active = @ \cup {t},
                                       !.started = TRUE, !.idle = 0, !.next = d]]
           /\ since' = [since EXCEPT ![k] = 0]
    /\ task' = [task EXCEPT ![t] = "leased"]
    /\ UNCHANGED <<keyOf, alarm, closed>>

DozeAlways(t) ==
    /\ Looks(t)
    /\ LET s == Found(t)[keyOf[t]]
       IN  Cardinality(s.active) >= Concurrency[keyOf[t]] \/ Remaining(s, keyOf[t]) > 0
    /\ slots' = Found(t)
    /\ task' = [task EXCEPT ![t] = "asleep"]
    /\ UNCHANGED <<keyOf, alarm, since, closed>>

\* A full slot is waited for on the Notify alone, a delay on the Notify and a timer.
Doze(t) ==
    /\ Looks(t)
    /\ LET k == keyOf[t]
           s == Found(t)[k]
       IN  IF Cardinality(s.active) < Concurrency[k]
           THEN /\ Remaining(s, k) > 0
                /\ alarm' = [alarm EXCEPT ![t] = Remaining(s, k)]
           ELSE UNCHANGED alarm
    /\ slots' = Found(t)
    /\ task' = [task EXCEPT ![t] = "asleep"]
    /\ UNCHANGED <<keyOf, since, closed>>

\* The manager is closed: acquire raises.
Refuse(t) ==
    /\ task[t] = "looking"
    /\ closed
    /\ task' = [task EXCEPT ![t] = "idle"]
    /\ UNCHANGED <<keyOf, alarm, since, slots, closed>>

Ring(t) ==
    /\ task[t] = "asleep"
    /\ alarm[t] = 0
    /\ task' = [task EXCEPT ![t] = "looking"]
    /\ alarm' = [alarm EXCEPT ![t] = NoAlarm]
    /\ UNCHANGED <<keyOf, since, slots, closed>>

-----------------------------------------------------------------------------

NotifyNobody(after) ==
    /\ task' = after
    /\ alarm' = [t \in Tasks |-> IF after[t] = "asleep" THEN alarm[t] ELSE NoAlarm]

\* notify_waiters, at the end of a step that leaves tasks as in after.
NotifyAll(after) ==
    /\ task' = [t \in Tasks |-> IF after[t] = "asleep" THEN "looking" ELSE after[t]]
    /\ alarm' = [t \in Tasks |-> NoAlarm]

Gone(t) == [task EXCEPT ![t] = "idle"]

\* The lease reaches the event loop, which starts the transfer.
TakeLease(t) ==
    /\ task[t] = "leased"
    /\ task' = [task EXCEPT ![t] = "transferring"]
    /\ UNCHANGED <<keyOf, alarm, since, slots, closed>>

Without(t) == [slots EXCEPT ![keyOf[t]].active = @ \ {t}, ![keyOf[t]].idle = 0]

\* release without a latency: the transfer failed or was cancelled.  After close the slot
\* is unknown: release raises, and the lease is dropped without effect.
Release(t) ==
    /\ task[t] = "transferring"
    /\ slots' = IF closed THEN slots ELSE Pruned(Without(t))
    /\ NotifyAll(Gone(t))
    /\ UNCHANGED <<keyOf, since, closed>>

ReleaseThrottled(t, latency, ok) ==
    /\ task[t] = "transferring"
    /\ ~closed
    /\ LET k == keyOf[t]
           s == Without(t)[k]
           new == Throttled(s.delay, latency)
       IN  IF Ignored(s.delay, latency, ok)
           THEN slots' = Pruned(Without(t))
           ELSE \E d \in Samples(k, new) :
                  slots' = Pruned([Without(t) EXCEPT ![k] =
                                     [s EXCEPT !.delay = new, !.next = d]])
    /\ NotifyAll(Gone(t))
    /\ UNCHANGED <<keyOf, since, closed>>

\* The task is cancelled and its future dropped, or the lease on its way to it.
DropWaiter(t) ==
    /\ task[t] \in {"looking", "asleep"}
    /\ slots' = IF closed THEN slots
                ELSE [slots EXCEPT ![keyOf[t]].waiting = @ - 1, ![keyOf[t]].idle = 0]
    /\ NotifyAll(Gone(t))
    /\ UNCHANGED <<keyOf, since, closed>>

DropLease(t) ==
    /\ task[t] = "leased"
    /\ slots' = IF closed THEN slots ELSE Without(t)
    /\ NotifyAll(Gone(t))
    /\ UNCHANGED <<keyOf, since, closed>>

Close ==
    /\ ~closed
    /\ closed' = TRUE
    /\ slots' = <<>>
    /\ NotifyAll(task)
    /\ UNCHANGED <<keyOf, since>>

Older(age) == IF age < Horizon THEN age + 1 ELSE age

NativeTick ==
    /\ since' = [k \in Keys |-> Older(since[k])]
    /\ slots' = [k \in DOMAIN slots |-> [slots[k] EXCEPT !.idle = Older(@)]]
    /\ alarm' = [t \in Tasks |-> IF alarm[t] > 0 THEN alarm[t] - 1 ELSE alarm[t]]
    /\ UNCHANGED <<keyOf, task, closed>>

Look(t) == Grant(t) \/ Doze(t) \/ Refuse(t)

NativeNext ==
    \/ \E t \in Tasks :
          \/ Look(t) \/ Ring(t) \/ TakeLease(t)
          \/ Release(t) \/ DropWaiter(t) \/ DropLease(t)
          \/ \E latency \in Latencies, ok \in BOOLEAN : ReleaseThrottled(t, latency, ok)
    \/ Close
    \/ NativeTick

-----------------------------------------------------------------------------

NativeRunning == [k \in Keys |-> {t \in Of(k) : task[t] \in {"leased", "transferring"}}]

NativeWaiting(k) == {t \in Of(k) : task[t] \in {"looking", "asleep"}}

NativeTypeOK ==
    /\ keyOf \in Layouts
    /\ task \in [Tasks -> NativeStates]
    /\ alarm \in [Tasks -> {NoAlarm} \cup Nat]
    /\ since \in [Keys -> 0 .. Horizon]
    /\ DOMAIN slots \subseteq Keys
    /\ \A k \in DOMAIN slots : slots[k] \in Slot
    /\ closed \in BOOLEAN

\* What the slots count is what the tasks do, whichever of them were cancelled where.
NativeCountsMatch ==
    IF closed THEN slots = <<>>
    ELSE \A k \in Keys :
            IF k \in DOMAIN slots
            THEN /\ slots[k].active = NativeRunning[k]
                 /\ slots[k].waiting = Cardinality(NativeWaiting(k))
            ELSE NativeRunning[k] = {} /\ NativeWaiting(k) = {}

\* Nobody sleeps past the moment its slot could be had.
NativeNoOversleep ==
    \A t \in Tasks : task[t] = "asleep" =>
        /\ ~closed
        /\ keyOf[t] \in DOMAIN slots
        /\ LET s == slots[keyOf[t]]
           IN  Cardinality(s.active) < Concurrency[keyOf[t]] =>
                  alarm[t] \in 0 .. Remaining(s, keyOf[t])
=============================================================================
