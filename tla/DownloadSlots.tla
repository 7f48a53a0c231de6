--------------------------- MODULE DownloadSlots ---------------------------
(***************************************************************************)
(* Download slots as a crawl meets them.  The class of the engine decides  *)
(* once which implementation it has; both are to keep the promise of       *)
(* Throttle, and both serve the same tasks.                                *)
(***************************************************************************)
EXTENDS SlotSettings

CONSTANT Engines     \* which of "native" and "python" are considered

VARIABLES
    engine, keyOf, task, alarm, since,
    slots, closed,
    line, delay, due

vars == <<engine, keyOf, task, alarm, since, slots, closed, line, delay, due>>

N == INSTANCE NativeSlots
P == INSTANCE PythonSlots

Init ==
    /\ engine \in Engines
    /\ N!NativeInit
    /\ P!PythonInit

NativeStep(A) == engine = "native" /\ A /\ UNCHANGED <<engine, line, delay, due>>

PythonStep(A) == engine = "python" /\ A /\ UNCHANGED <<engine, slots, closed>>

Next == NativeStep(N!NativeNext) \/ PythonStep(P!PythonNext)

\* Tokio polls what is woken and fires its timers, the event loop takes its results and
\* runs what is ready, and transfers end (download timeouts see to it).  Nobody has to
\* ask, give up or close.
Fairness ==
    /\ \A t \in Tasks :
          /\ WF_vars(NativeStep(task[t] = "looking" /\ N!Look(t)))
          /\ WF_vars(NativeStep(N!Ring(t) \/ N!TakeLease(t) \/ N!Release(t)))
          /\ WF_vars(PythonStep(P!StartTransfer(t) \/ P!EndTransfer(t)))
    /\ WF_vars(NativeStep(N!NativeTick) \/ PythonStep(P!PythonTick))

Spec == Init /\ [][Next]_vars /\ Fairness

-----------------------------------------------------------------------------

Running == IF engine = "native" THEN N!NativeRunning ELSE P!PythonRunning

Waiting(k) == IF engine = "native" THEN N!NativeWaiting(k) ELSE P!PythonWaiting(k)

\* The least time between two starts that the settings of a slot allow.
Spacing == [k \in Keys |->
    LET least == IF MinDelay < Delay[k] THEN MinDelay ELSE Delay[k]
    IN  IF Randomize[k] THEN least \div 2 ELSE least]

\* The shape of the state of either implementation.
SlotsTypeOK == IF engine = "native" THEN N!NativeTypeOK ELSE P!PythonTypeOK

\* The counters of the native slots and the queues of the Python slots agree with what
\* the tasks are doing, however they were cancelled, pruned, refused or closed down: no
\* slot is leaked, none is given twice, and no slot with a waiter is forgotten.
CountsMatchTasks == IF engine = "native" THEN N!NativeCountsMatch ELSE P!PythonCountsMatch

\* A task that sleeps for a slot is woken no later than the slot can be had: by its own
\* timer, or by the task that ends a transfer, gives up or closes the slots.
NoOversleep == IF engine = "native" THEN N!NativeNoOversleep ELSE P!PythonNoOversleep

\* Both implementations keep the concurrency of each slot and the interval between the
\* starts of its transfers.
T == INSTANCE Throttle WITH
       Transfers <- Tasks,
       Limit <- Concurrency,
       running <- Running,
       since <- [k \in Keys |-> IF since[k] < Spacing[k] THEN since[k] ELSE Spacing[k]]

ImplementsThrottle == T!Spec

GivesUp(t) ==
    \/ engine = "native" /\ (N!DropWaiter(t) \/ N!DropLease(t))
    \/ engine = "python" /\ P!LeaveLine(t)

\* Unless tasks are cancelled for ever, a slot that is waited for starts a transfer sooner
\* or later: between wakeups, timers, pruning and changed delays no waiter is stranded.
SlotNeverWedges ==
    <>[][\A t \in Tasks : ~GivesUp(t)]_vars =>
        \A k \in Keys : Waiting(k) # {} ~> (Waiting(k) = {} \/ since[k] = 0)
=============================================================================
