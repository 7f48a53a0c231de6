-------------------------- MODULE CrawlCoordinator --------------------------
(***************************************************************************)
(* The native crawl coordinator (engine.rs) on top of its job store.       *)
(*                                                                         *)
(* The coordinator is one object behind a mutex.  The event-loop thread    *)
(* calls schedule, activate, complete, release, close_input, abort and     *)
(* close; next_request and wait_for_pending_slot run on the Tokio threads  *)
(* and sleep on a Notify between two looks at the state.  Each action is   *)
(* one critical section together with the notify_waiters that follows it.  *)
(*                                                                         *)
(* An entry stands for a request: its number, its fingerprint, whether     *)
(* duplicates of it are filtered, its priority, whether it is a start      *)
(* request, and whether a row of the store holds it.                       *)
(***************************************************************************)
EXTENDS JobStore, FiniteSets

CONSTANTS
    Callers,        \* the worker tasks that call next_request
    Fingerprints,   \* what requests are told apart by
    Priorities,     \* the priorities requests are given
    Concurrency,    \* CONCURRENT_REQUESTS
    PendingLimit,   \* ENGINE_MAX_PENDING
    Persistent,     \* JOBDIR is set
    Requests,       \* what the spider schedules: an entry without its number
    ImportedRows,   \* rows a migrated directory starts with, its fingerprints dropped
    MaxRequests     \* bound on the numbers handed out

Entries ==
    [id : Nat, fp : Fingerprints, filter : BOOLEAN, priority : Priorities,
     start : BOOLEAN, persistent : BOOLEAN]

Numbered(r, n) ==
    [id |-> n, fp |-> r.fp, filter |-> r.filter, priority |-> r.priority,
     start |-> r.start, persistent |-> r.persistent]

ASSUME CoordinatorAssumption ==
    /\ Priorities \subseteq Int
    /\ Concurrency \in Nat \ {0}
    /\ PendingLimit \in Nat \ {0}
    /\ Persistent \in BOOLEAN
    /\ MaxRequests \in Nat
    /\ Requests \subseteq [fp : Fingerprints, filter : BOOLEAN, priority : Priorities,
                            start : BOOLEAN, persistent : BOOLEAN]
    /\ \A r \in Requests : r.persistent => Persistent
    /\ ImportedRows \subseteq {e \in Entries : e.persistent}
    /\ IsFiniteSet(ImportedRows)
    /\ ImportedRows # {} => Persistent
    /\ \A e, f \in ImportedRows :
          \/ e = f
          \/ e.id # f.id /\ ~(e.filter /\ f.filter /\ e.fp = f.fp)

VARIABLES
    up,             \* a process holds the job directory and has a coordinator
    seen,           \* fingerprints of the requests accepted so far
    staged,         \* accepted, not yet visible to next_request
    queued,         \* the four heaps
    active,         \* ids handed to a worker
    persistentIds,  \* ids that a row of the store stands for
    nextId,         \* next request id and sequence number
    inputClosed, emptyReported, aborted

VARIABLES
    call,           \* per worker: its next_request call
    got,            \* per worker: the id that call returned, or NoRequest
    slotCall        \* the start producer's wait_for_pending_slot call

coordinatorVars ==
    <<up, seen, staged, queued, active, persistentIds, nextId, inputClosed,
      emptyReported, aborted>>

callVars == <<call, got, slotCall>>

vars == <<storeVars, coordinatorVars, callVars>>

NoRequest == -1

\* "free": no call, or one that has (again) to look at the state.
CallStates == {"free", "asleep", "returned"}

SlotStates == {"free", "asleep", "granted", "refused"}

Pending == staged \cup queued

OneTooMany == Cardinality(active) <= Concurrency /\ queued # {}

CanPop == Cardinality(active) < Concurrency /\ queued # {}

Drained == inputClosed /\ staged = {} /\ queued = {} /\ active = {}

HasSlotWhenFull == Cardinality(queued) + Cardinality(staged) <= PendingLimit

HasSlot == Cardinality(queued) + Cardinality(staged) < PendingLimit

-----------------------------------------------------------------------------

(***************************************************************************)
(* notify_waiters wakes every future that sleeps.  A future registers with *)
(* the Notify before it looks at the state, so a notification that comes   *)
(* between its look and its sleep is not lost: looking and falling asleep  *)
(* are one step.                                                           *)
(***************************************************************************)
Woken(c) == IF c = "asleep" THEN "free" ELSE c

NotifyWaiters ==
    /\ call' = [c \in Callers |-> Woken(call[c])]
    /\ slotCall' = Woken(slotCall)
    /\ UNCHANGED got

Volatile(open, known, queue, first) ==
    /\ up' = open
    /\ seen' = known
    /\ staged' = {}
    /\ queued' = queue
    /\ active' = {}
    /\ persistentIds' = Ids(queue)
    /\ nextId' = first
    /\ inputClosed' = FALSE
    /\ emptyReported' = FALSE
    /\ aborted' = FALSE
    /\ call' = [c \in Callers |-> "free"]
    /\ got' = [c \in Callers |-> NoRequest]
    /\ slotCall' = "free"

Init ==
    /\ rows \in {{}, ImportedRows}
    /\ fps = {}
    /\ up = FALSE
    /\ seen = {} /\ staged = {} /\ queued = {} /\ active = {}
    /\ persistentIds = {}
    /\ nextId = 0
    /\ inputClosed = FALSE /\ emptyReported = FALSE /\ aborted = FALSE
    /\ call = [c \in Callers |-> "free"]
    /\ got = [c \in Callers |-> NoRequest]
    /\ slotCall = "free"

LargestIds == {n \in {-1} \cup Ids(rows) : \A r \in rows : r.id <= n}

\* Zero, or one past the largest number among the rows.
FirstFreeIds == {n \in {0} \cup {r.id + 1 : r \in rows} : \A r \in rows : r.id < n}

OpenTaking ==
    /\ ~up
    /\ \E n \in FirstFreeIds : Volatile(TRUE, fps \cup RecoveredFps, rows, n)
    /\ fps' = fps \cup RecoveredFps
    /\ rows' = {}

OpenUnqueued ==
    /\ ~up
    /\ \E n \in FirstFreeIds : Volatile(TRUE, fps \cup RecoveredFps, {}, n)
    /\ fps' = fps \cup RecoveredFps
    /\ UNCHANGED rows

(***************************************************************************)
(* Opening a job: every row goes to the disk heaps with its stored number. *)
(* The engine then takes the recovered requests and restores, in memory    *)
(* and in the store, the fingerprints of those that are filtered.          *)
(***************************************************************************)
Open ==
    /\ ~up
    /\ \E n \in FirstFreeIds : Volatile(TRUE, fps \cup RecoveredFps, rows, n)
    /\ fps' = fps \cup RecoveredFps
    /\ UNCHANGED rows

\* The coordinator goes away: close() gives the store back, or the process dies.
Leave ==
    /\ up
    /\ Volatile(FALSE, {}, {}, 0)
    /\ UNCHANGED storeVars

-----------------------------------------------------------------------------

Accepts(e) == up /\ ~aborted /\ ~(e.filter /\ e.fp \in seen)

(***************************************************************************)
(* schedule: the numbers are drawn first, the store commits the row and    *)
(* the fingerprint, and only then the in-memory sets change.               *)
(***************************************************************************)
Schedule(e) ==
    /\ Accepts(e)
    /\ e.id = nextId
    /\ nextId' = nextId + 1
    /\ IF Persistent THEN StoreSchedule(e) ELSE UNCHANGED storeVars
    /\ seen' = IF e.filter THEN seen \cup {e.fp} ELSE seen
    /\ persistentIds' = IF e.persistent THEN persistentIds \cup {e.id} ELSE persistentIds
    /\ staged' = staged \cup {e}
    /\ UNCHANGED <<up, queued, active, inputClosed, emptyReported, aborted, callVars>>

ScheduleFailsRemembering(e) ==
    /\ Persistent
    /\ Accepts(e)
    /\ e.id = nextId
    /\ nextId' = nextId + 1
    /\ seen' = seen \cup {e.fp}
    /\ UNCHANGED <<storeVars, up, staged, queued, active, persistentIds,
                   inputClosed, emptyReported, aborted, callVars>>

\* The transaction fails and is rolled back: schedule raises, its number is spent.
ScheduleFails(e) ==
    /\ Persistent
    /\ Accepts(e)
    /\ e.id = nextId
    /\ nextId' = nextId + 1
    /\ UNCHANGED <<storeVars, up, seen, staged, queued, active, persistentIds,
                   inputClosed, emptyReported, aborted, callVars>>

Activate(e) ==
    /\ up
    /\ e \in staged
    /\ staged' = staged \ {e}
    /\ queued' = queued \cup {e}
    /\ emptyReported' = FALSE
    /\ NotifyWaiters
    /\ UNCHANGED <<storeVars, up, seen, active, persistentIds, nextId, inputClosed, aborted>>

CompleteQuietly(id) ==
    /\ up
    /\ id \in active
    /\ IF Persistent THEN StoreComplete(id) ELSE UNCHANGED storeVars
    /\ active' = active \ {id}
    /\ persistentIds' = persistentIds \ {id}
    /\ UNCHANGED <<up, seen, staged, queued, nextId, inputClosed, emptyReported, aborted,
                   callVars>>

Complete(id) ==
    /\ up
    /\ id \in active
    /\ IF Persistent THEN StoreComplete(id) ELSE UNCHANGED storeVars
    /\ active' = active \ {id}
    /\ persistentIds' = persistentIds \ {id}
    /\ NotifyWaiters
    /\ UNCHANGED <<up, seen, staged, queued, nextId, inputClosed, emptyReported, aborted>>

ReleaseDeleting(id) ==
    /\ up
    /\ id \in active
    /\ IF Persistent THEN StoreComplete(id) ELSE UNCHANGED storeVars
    /\ active' = active \ {id}
    /\ NotifyWaiters
    /\ UNCHANGED <<up, seen, staged, queued, persistentIds, nextId,
                   inputClosed, emptyReported, aborted>>

\* The row stays: the request is recovered by the next run of the job.
Release(id) ==
    /\ up
    /\ id \in active
    /\ active' = active \ {id}
    /\ NotifyWaiters
    /\ UNCHANGED <<storeVars, up, seen, staged, queued, persistentIds, nextId,
                   inputClosed, emptyReported, aborted>>

CloseInputQuietly ==
    /\ up
    /\ ~inputClosed
    /\ inputClosed' = TRUE
    /\ UNCHANGED <<storeVars, up, seen, staged, queued, active, persistentIds, nextId,
                   emptyReported, aborted, callVars>>

CloseInput ==
    /\ up
    /\ ~inputClosed
    /\ inputClosed' = TRUE
    /\ NotifyWaiters
    /\ UNCHANGED <<storeVars, up, seen, staged, queued, active, persistentIds, nextId,
                   emptyReported, aborted>>

Abort ==
    /\ up
    /\ ~aborted
    /\ aborted' = TRUE
    /\ staged' = {}
    /\ queued' = {}
    /\ NotifyWaiters
    /\ UNCHANGED <<storeVars, up, seen, active, persistentIds, nextId, inputClosed,
                   emptyReported>>
-----------------------------------------------------------------------------

(***************************************************************************)
(* next_request.  Calling it changes nothing that others see, so the call  *)
(* and its first look at the state are one step.                           *)
(***************************************************************************)
Answer(c, id) ==
    /\ call' = [d \in Callers |->
                  IF d = c THEN "returned"
                  ELSE IF id = NoRequest THEN call[d] ELSE Woken(call[d])]
    /\ got' = [got EXCEPT ![c] = id]

PopRequest(c) ==
    /\ up /\ call[c] = "free"
    /\ ~aborted
    /\ CanPop
    /\ \E e \in queued :
          /\ IsNext(e, queued)
          /\ queued' = queued \ {e}
          /\ active' = active \cup {e.id}
          /\ Answer(c, e.id)
    /\ slotCall' = Woken(slotCall)
    /\ UNCHANGED <<storeVars, up, seen, staged, persistentIds, nextId, inputClosed,
                   emptyReported, aborted>>

\* None: the coordinator was aborted, or everything is done, or this is the first
\* look since the last activation that finds nothing to hand out.
AnswerNone(c) ==
    /\ up /\ call[c] = "free"
    /\ aborted \/ (~CanPop /\ (Drained \/ ~emptyReported))
    /\ emptyReported' = (emptyReported \/ (~aborted /\ ~Drained))
    /\ Answer(c, NoRequest)
    /\ UNCHANGED <<storeVars, up, seen, staged, queued, active, persistentIds, nextId,
                   inputClosed, aborted, slotCall>>

Sleep(c) ==
    /\ up /\ call[c] = "free"
    /\ ~aborted
    /\ ~CanPop
    /\ ~Drained
    /\ emptyReported
    /\ call' = [call EXCEPT ![c] = "asleep"]
    /\ UNCHANGED <<storeVars, coordinatorVars, got, slotCall>>

\* The answer reaches the event loop.
TakeAnswer(c) ==
    /\ call[c] = "returned"
    /\ call' = [call EXCEPT ![c] = "free"]
    /\ got' = [got EXCEPT ![c] = NoRequest]
    /\ UNCHANGED <<storeVars, coordinatorVars, slotCall>>

\* A worker task is cancelled, which the engine does only after abort: its future is
\* dropped, and an id it had been given stays active.
CancelCall(c) ==
    /\ aborted
    /\ call[c] # "free"
    /\ call' = [call EXCEPT ![c] = "free"]
    /\ got' = [got EXCEPT ![c] = NoRequest]
    /\ UNCHANGED <<storeVars, coordinatorVars, slotCall>>

\* wait_for_pending_slot.
AnswerSlot ==
    /\ up /\ slotCall = "free"
    /\ aborted \/ HasSlot
    /\ slotCall' = IF aborted THEN "refused" ELSE "granted"
    /\ UNCHANGED <<storeVars, coordinatorVars, call, got>>

SleepForSlot ==
    /\ up /\ slotCall = "free"
    /\ ~aborted
    /\ ~HasSlot
    /\ slotCall' = "asleep"
    /\ UNCHANGED <<storeVars, coordinatorVars, call, got>>

TakeSlot ==
    /\ slotCall \in {"granted", "refused"}
    /\ slotCall' = "free"
    /\ UNCHANGED <<storeVars, coordinatorVars, call, got>>

-----------------------------------------------------------------------------

Offers == {Numbered(r, nextId) : r \in {s \in Requests : nextId < MaxRequests}}

LoopStep ==
    \/ Open \/ Leave
    \/ \E e \in Offers : Schedule(e) \/ ScheduleFails(e)
    \/ \E e \in staged : Activate(e)
    \/ \E id \in active : Complete(id) \/ Release(id)
    \/ CloseInput \/ Abort
    \/ \E c \in Callers : TakeAnswer(c) \/ CancelCall(c)
    \/ TakeSlot

RuntimeStep ==
    \/ \E c \in Callers : PopRequest(c) \/ AnswerNone(c) \/ Sleep(c)
    \/ AnswerSlot \/ SleepForSlot

Next == LoopStep \/ RuntimeStep

Spec == Init /\ [][Next]_vars

-----------------------------------------------------------------------------

\* The shape of the coordinator's state, of its store and of the calls in flight.
TypeOK ==
    /\ rows \subseteq Entries /\ fps \subseteq Fingerprints
    /\ up \in BOOLEAN /\ inputClosed \in BOOLEAN
    /\ emptyReported \in BOOLEAN /\ aborted \in BOOLEAN
    /\ seen \subseteq Fingerprints
    /\ staged \subseteq Entries /\ queued \subseteq Entries
    /\ active \subseteq Nat /\ persistentIds \subseteq Nat
    /\ nextId \in Nat
    /\ call \in [Callers -> CallStates]
    /\ got \in [Callers -> Nat \cup {NoRequest}]
    /\ slotCall \in SlotStates

\* A request number names one request and has one home: numbers are handed out again
\* after a restart, yet never one that a stored, staged, queued or active request has.
OneHome ==
    /\ \A e, f \in Pending \cup rows : e.id = f.id => e = f
    /\ Ids(staged) \cap Ids(queued) = {}
    /\ Ids(Pending) \cap active = {}
    /\ up => \A id \in Ids(Pending \cup rows) \cup active : id < nextId

\* While a process runs the job, what memory believes about persistence is what the
\* store would give back after a crash: the same fingerprints, the same ids, and a row
\* for every pending request that counts as persistent.
MemoryMirrorsStore ==
    up => /\ Persistent => seen = fps
          /\ persistentIds = Ids(rows)
          /\ \A e \in Pending : e.persistent => e \in rows

\* Two requests for the same thing, neither exempt from filtering, are never both
\* outstanding, whatever mixture of memory and store they are in.
NoDuplicateWork ==
    \A e, f \in Pending \cup rows :
        e.filter /\ f.filter /\ e.fp = f.fp => e = f

\* No future sleeps through the event it waits for: a sleeping next_request has nothing
\* to return, and a sleeping wait_for_pending_slot no slot to grant.
NoMissedWakeup ==
    /\ \A c \in Callers :
          call[c] = "asleep" => ~aborted /\ ~CanPop /\ ~Drained /\ emptyReported
    /\ slotCall = "asleep" => ~aborted /\ ~HasSlot

\* next_request hands out the request that outranks all others that are queued: memory
\* before disk, priority, ordinary before start requests, then the configured order of
\* arrival, also across a restart.
PopsInOrder ==
    [][\A c \in Callers : PopRequest(c) =>
          \A e \in queued \ queued', f \in queued' : Outranks(e, f)]_vars

\* At most CONCURRENT_REQUESTS requests are active.
ActiveWithinLimit == Cardinality(active) <= Concurrency
=============================================================================
