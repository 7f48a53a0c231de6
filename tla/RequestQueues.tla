--------------------------- MODULE RequestQueues ---------------------------
(***************************************************************************)
(* The order in which queued requests leave the scheduler.                 *)
(*                                                                         *)
(* Both engines keep priority heaps: the native coordinator one pair of    *)
(* heaps (ordinary requests, start requests) in memory and one for         *)
(* persistent requests, the Python scheduler a single pair in memory.  A   *)
(* heap is a set of entries here and its top the entry no other beats.     *)
(* An entry's number is both its request id and its sequence: the two      *)
(* counters start at one past the largest stored value and advance in      *)
(* lockstep, and an imported job directory numbers both alike.             *)
(***************************************************************************)
EXTENDS Integers

CONSTANTS
    MemoryOrder,       \* "fifo" or "lifo": ordinary requests in memory
    DiskOrder,         \* "fifo" or "lifo": ordinary persistent requests
    StartMemoryOrder,  \* the same for start requests, or "none": no heap of their own
    StartDiskOrder

Orders == {"fifo", "lifo"}

\* What SchedulerQueueConfig accepts of the four settings: a queue class stands for its order.
Resolves(order, optional) == order \in Orders \/ (optional /\ order = "none")

QueueConfig ==
    /\ Resolves(MemoryOrder, FALSE) /\ Resolves(DiskOrder, FALSE)
    /\ Resolves(StartMemoryOrder, TRUE) /\ Resolves(StartDiskOrder, TRUE)

ASSUME OrderAssumption == QueueConfig

(***************************************************************************)
(* A heap compares priorities first, then the rank its order gives to the  *)
(* sequence number (u64::MAX - sequence for fifo).                         *)
(***************************************************************************)
StartOrder(e) == IF e.persistent THEN StartDiskOrder ELSE StartMemoryOrder

NormalOrder(e) == IF e.persistent THEN DiskOrder ELSE MemoryOrder

InStartHeap(e) == e.start /\ StartOrder(e) # "none"

OrderOf(e) == IF InStartHeap(e) THEN StartOrder(e) ELSE NormalOrder(e)

Rank(e) == IF OrderOf(e) = "fifo" THEN -e.id ELSE e.id

SameHeap(e, f) ==
    /\ e.persistent = f.persistent
    /\ InStartHeap(e) = InStartHeap(f)

Beats(e, f) ==
    \/ e.priority > f.priority
    \/ e.priority = f.priority /\ Rank(e) > Rank(f)

IsTop(e, queue) == \A f \in queue \ {e} : SameHeap(e, f) => Beats(e, f)

(***************************************************************************)
(* PriorityQueues::pop takes the ordinary top when its priority is at      *)
(* least that of the start top, the start top otherwise.  Among entries of *)
(* one heap the top has the largest priority, so comparing with every      *)
(* entry of the other heap compares with its top.                          *)
(***************************************************************************)
TiesGoToStart(e, queue) ==
    \A f \in queue : f.persistent = e.persistent =>
        /\ InStartHeap(e) /\ ~InStartHeap(f) => e.priority >= f.priority
        /\ ~InStartHeap(e) /\ InStartHeap(f) => e.priority > f.priority

WinsPair(e, queue) ==
    \A f \in queue : f.persistent = e.persistent =>
        /\ InStartHeap(e) /\ ~InStartHeap(f) => e.priority > f.priority
        /\ ~InStartHeap(e) /\ InStartHeap(f) => e.priority >= f.priority

\* CoordinatorQueues::pop asks the memory pair first, the disk pair when it is empty.
StoragesBefore(e, queue) == e.persistent => \A f \in queue : f.persistent

IsNext(e, queue) ==
    /\ e \in queue
    /\ StoragesBefore(e, queue)
    /\ IsTop(e, queue)
    /\ WinsPair(e, queue)

(***************************************************************************)
(* The flat order a reader of the settings expects: memory before disk,    *)
(* then priority, then ordinary before start requests, then age.           *)
(***************************************************************************)
Outranks(e, f) ==
    \/ ~e.persistent /\ f.persistent
    \/ /\ e.persistent = f.persistent
       /\ \/ e.priority > f.priority
          \/ /\ e.priority = f.priority
             /\ \/ ~InStartHeap(e) /\ InStartHeap(f)
                \/ InStartHeap(e) = InStartHeap(f) /\ Rank(e) > Rank(f)
=============================================================================
