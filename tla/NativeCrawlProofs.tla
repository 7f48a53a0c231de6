------------------------- MODULE NativeCrawlProofs -------------------------
(***************************************************************************)
(* What holds of the native engine and of the coordinator and store that   *)
(* it drives.  The first part is about the coordinator alone, for every    *)
(* set of workers, requests and limits: the inductive invariant Inv adds   *)
(* to the safety properties of CrawlCoordinator the three facts they lean  *)
(* on: the store is untouched without a job directory, every outstanding   *)
(* request that is filtered has its fingerprint in memory, and all         *)
(* collections are finite.  The second part is about the engine, for every *)
(* site, every number of workers and every sequence of crashes,            *)
(* cancellations and restarts of a job that has a directory.               *)
(***************************************************************************)
EXTENDS NativeCrawl, FiniteSetTheorems, SequenceTheorems, TLAPS

(* The coordinator. *)

StoreIsOptional == ~Persistent => rows = {} /\ fps = {}

OutstandingIsSeen ==
    up => \A e \in Pending \cup rows : e.filter => e.fp \in seen

AllFinite ==
    /\ IsFiniteSet(rows) /\ IsFiniteSet(staged) /\ IsFiniteSet(queued)
    /\ IsFiniteSet(active)

Inv ==
    /\ TypeOK
    /\ StoreIsOptional
    /\ OneHome
    /\ MemoryMirrorsStore
    /\ OutstandingIsSeen
    /\ NoDuplicateWork
    /\ AllFinite
    /\ ActiveWithinLimit
    /\ NoMissedWakeup

USE DEF NoRequest, CallStates, SlotStates

(***************************************************************************)
(* The lemmas are about every use of the coordinator, not only the         *)
(* requests that Next offers it: AnyStep lets a caller schedule any entry  *)
(* it may have, and lets an engine that fails to start restore some of the *)
(* fingerprints of the stored requests.                                    *)
(***************************************************************************)
Acceptable == {e \in Entries : e.persistent => Persistent}

RestoreSome ==
    /\ ~up
    /\ \E some \in SUBSET RecoveredFps : fps' = fps \cup some
    /\ UNCHANGED <<rows, coordinatorVars, callVars>>

AnyStep ==
    \/ Open \/ Leave \/ RestoreSome
    \/ \E e \in Acceptable : Schedule(e) \/ ScheduleFails(e)
    \/ \E e \in staged : Activate(e)
    \/ \E id \in active : Complete(id) \/ Release(id)
    \/ CloseInput \/ Abort
    \/ \E c \in Callers : TakeAnswer(c) \/ CancelCall(c)
    \/ TakeSlot
    \/ \E c \in Callers : PopRequest(c) \/ AnswerNone(c) \/ Sleep(c)
    \/ AnswerSlot \/ SleepForSlot
    \/ UNCHANGED vars

-----------------------------------------------------------------------------

\* A request offered to the coordinator is an entry under the next number, and counts
\* as persistent only if there is a job directory.
LEMMA OfferIsAcceptable ==
    ASSUME NEW e \in Offers, nextId \in Nat
    PROVE  e \in Acceptable
  <1>1. PICK r \in Requests : e = Numbered(r, nextId)
    BY DEF Offers
  <1>2. r \in [fp : Fingerprints, filter : BOOLEAN, priority : Priorities,
               start : BOOLEAN, persistent : BOOLEAN]
    BY CoordinatorAssumption
  <1>3. r.persistent => Persistent
    BY CoordinatorAssumption
  <1>. QED
    BY <1>1, <1>2, <1>3 DEF Numbered, Entries, Acceptable

\* What the model's own callers do is among the steps the lemmas are about.
LEMMA NextIsAnyStep == TypeOK /\ [Next]_vars => AnyStep
  BY OfferIsAcceptable DEF TypeOK, Next, LoopStep, RuntimeStep, AnyStep

\* The numbers a run may start with are natural and larger than every stored one.
LEMMA FirstFreeIdIsFresh ==
    ASSUME NEW n \in FirstFreeIds, rows \subseteq Entries
    PROVE  n \in Nat /\ \A r \in rows : r.id < n
  BY DEF FirstFreeIds, Entries

LEMMA WokenIsACall ==
    ASSUME NEW c \in CallStates
    PROVE  Woken(c) \in CallStates /\ Woken(c) # "asleep"
  BY DEF Woken

LEMMA WokenIsASlotCall ==
    ASSUME NEW c \in SlotStates
    PROVE  Woken(c) \in SlotStates /\ Woken(c) # "asleep"
  BY DEF Woken

-----------------------------------------------------------------------------

LEMMA TypeInit == Init => TypeOK
  <1>. SUFFICES ASSUME Init PROVE TypeOK
    OBVIOUS
  <1>1. rows \subseteq Entries
    BY CoordinatorAssumption DEF Init
  <1>. QED
    BY <1>1 DEF Init, TypeOK

\* Every step of the coordinator keeps its state in shape.
LEMMA TypeStep == TypeOK /\ AnyStep => TypeOK'
  <1>. SUFFICES ASSUME TypeOK, AnyStep PROVE TypeOK'
    OBVIOUS
  <1>. USE DEF TypeOK
  <1>1. CASE Open
    <2>1. PICK n \in FirstFreeIds : Volatile(TRUE, fps \cup RecoveredFps, rows, n)
      BY <1>1 DEF Open
    <2>2. n \in Nat
      BY FirstFreeIdIsFresh
    <2>3. RecoveredFps \subseteq Fingerprints
      BY DEF RecoveredFps, Entries
    <2>4. Ids(rows) \subseteq Nat
      BY DEF Ids, Entries
    <2>. QED
      BY <1>1, <2>1, <2>2, <2>3, <2>4 DEF Open, Volatile
  <1>2. CASE Leave
    BY <1>2 DEF Leave, Volatile, storeVars, Ids
  <1>3. ASSUME NEW e \in Acceptable, Schedule(e) PROVE TypeOK'
    <2>1. e \in Entries
      BY DEF Acceptable
    <2>. QED
      BY <1>3, <2>1 DEF Schedule, StoreSchedule, storeVars, callVars, Entries
  <1>4. ASSUME NEW e \in Acceptable, ScheduleFails(e) PROVE TypeOK'
    BY <1>4 DEF ScheduleFails, storeVars, callVars
  <1>5. ASSUME NEW e \in staged, Activate(e) PROVE TypeOK'
    BY <1>5, WokenIsACall, WokenIsASlotCall DEF Activate, NotifyWaiters, storeVars
  <1>6. ASSUME NEW id \in active, Complete(id) PROVE TypeOK'
    BY <1>6, WokenIsACall, WokenIsASlotCall
    DEF Complete, StoreComplete, NotifyWaiters, storeVars
  <1>7. ASSUME NEW id \in active, Release(id) PROVE TypeOK'
    BY <1>7, WokenIsACall, WokenIsASlotCall DEF Release, NotifyWaiters, storeVars
  <1>8. CASE CloseInput
    BY <1>8, WokenIsACall, WokenIsASlotCall DEF CloseInput, NotifyWaiters, storeVars
  <1>9. CASE Abort
    BY <1>9, WokenIsACall, WokenIsASlotCall DEF Abort, NotifyWaiters, storeVars
  <1>10. ASSUME NEW c \in Callers, TakeAnswer(c) PROVE TypeOK'
    BY <1>10 DEF TakeAnswer, storeVars, coordinatorVars
  <1>11. ASSUME NEW c \in Callers, CancelCall(c) PROVE TypeOK'
    BY <1>11 DEF CancelCall, storeVars, coordinatorVars
  <1>12. CASE TakeSlot
    BY <1>12 DEF TakeSlot, storeVars, coordinatorVars
  <1>13. ASSUME NEW c \in Callers, PopRequest(c) PROVE TypeOK'
    <2>1. PICK e \in queued : queued' = queued \ {e} /\ active' = active \cup {e.id}
                              /\ Answer(c, e.id)
      BY <1>13 DEF PopRequest
    <2>2. e.id \in Nat
      BY DEF Entries
    <2>. QED
      BY <1>13, <2>1, <2>2, WokenIsACall, WokenIsASlotCall DEF PopRequest, Answer, storeVars
  <1>14. ASSUME NEW c \in Callers, AnswerNone(c) PROVE TypeOK'
    BY <1>14, WokenIsACall DEF AnswerNone, Answer, storeVars
  <1>15. ASSUME NEW c \in Callers, Sleep(c) PROVE TypeOK'
    BY <1>15 DEF Sleep, storeVars, coordinatorVars
  <1>16. CASE AnswerSlot
    BY <1>16 DEF AnswerSlot, storeVars, coordinatorVars
  <1>17. CASE SleepForSlot
    BY <1>17 DEF SleepForSlot, storeVars, coordinatorVars
  <1>18. CASE RestoreSome
    <2>1. RecoveredFps \subseteq Fingerprints
      BY DEF RecoveredFps, Entries
    <2>. QED
      BY <1>18, <2>1 DEF RestoreSome, coordinatorVars, callVars
  <1>19. CASE UNCHANGED vars
    BY <1>19 DEF vars, storeVars, coordinatorVars, callVars
  <1>. QED
    BY <1>1, <1>2, <1>3, <1>4, <1>5, <1>6, <1>7, <1>8, <1>9, <1>10, <1>11, <1>12, <1>13,
       <1>14, <1>15, <1>16, <1>17, <1>18, <1>19
    DEF AnyStep

\* The coordinator's state, its store and its calls always have their declared shape.
THEOREM TypeCorrect == Spec => []TypeOK
  <1>1. TypeOK /\ [Next]_vars => TypeOK'
    BY TypeStep, NextIsAnyStep
  <1>. QED
    BY <1>1, TypeInit, PTL DEF Spec

-----------------------------------------------------------------------------

\* What the bookkeeping invariants speak of.  The steps that only answer, park or take
\* an answer, and the closing of the input, leave all of it alone.
books == <<storeVars, up, seen, staged, queued, active, persistentIds, nextId>>

LEMMA StepCases ==
    ASSUME AnyStep
    PROVE  \/ Open \/ Leave \/ Abort \/ RestoreSome
           \/ \E e \in Acceptable : Schedule(e) \/ ScheduleFails(e)
           \/ \E e \in staged : Activate(e)
           \/ \E id \in active : Complete(id) \/ Release(id)
           \/ \E c \in Callers : PopRequest(c)
           \/ UNCHANGED books
  <1>1. CASE UNCHANGED vars
    BY <1>1 DEF vars, books, storeVars, coordinatorVars
  <1>2. CASE CloseInput
    BY <1>2 DEF CloseInput, books
  <1>3. ASSUME NEW c \in Callers, TakeAnswer(c) \/ CancelCall(c)
        PROVE  UNCHANGED books
    BY <1>3 DEF TakeAnswer, CancelCall, books, coordinatorVars
  <1>4. CASE TakeSlot \/ AnswerSlot \/ SleepForSlot
    BY <1>4 DEF TakeSlot, AnswerSlot, SleepForSlot, books, coordinatorVars
  <1>5. ASSUME NEW c \in Callers, AnswerNone(c) \/ Sleep(c)
        PROVE  UNCHANGED books
    BY <1>5 DEF AnswerNone, Sleep, books, coordinatorVars
  <1>. QED
    BY <1>1, <1>2, <1>3, <1>4, <1>5 DEF AnyStep

LEMMA StoreIsOptionalInit == Init => StoreIsOptional
  BY CoordinatorAssumption DEF Init, StoreIsOptional

\* Without a job directory nothing is ever stored.
LEMMA StoreIsOptionalStep ==
    StoreIsOptional /\ AnyStep => StoreIsOptional'
  <1>. SUFFICES ASSUME StoreIsOptional, AnyStep, ~Persistent
                PROVE  rows' = {} /\ fps' = {}
    BY DEF StoreIsOptional
  <1>1. rows = {} /\ fps = {}
    BY DEF StoreIsOptional
  <1>2. CASE Open
    BY <1>1, <1>2 DEF Open, RecoveredFps
  <1>3. CASE Leave \/ Abort
    BY <1>1, <1>3 DEF Leave, Abort, storeVars
  <1>4. ASSUME NEW e \in Acceptable, Schedule(e) \/ ScheduleFails(e)
        PROVE  rows' = {} /\ fps' = {}
    BY <1>1, <1>4 DEF Schedule, ScheduleFails, storeVars
  <1>5. ASSUME NEW e \in staged, Activate(e) PROVE rows' = {} /\ fps' = {}
    BY <1>1, <1>5 DEF Activate, storeVars
  <1>6. ASSUME NEW id \in active, Complete(id) \/ Release(id)
        PROVE  rows' = {} /\ fps' = {}
    BY <1>1, <1>6 DEF Complete, Release, storeVars
  <1>7. ASSUME NEW c \in Callers, PopRequest(c) PROVE rows' = {} /\ fps' = {}
    BY <1>1, <1>7 DEF PopRequest, storeVars
  <1>8. CASE RestoreSome
    BY <1>1, <1>8 DEF RestoreSome, coordinatorVars, RecoveredFps
  <1>9. CASE UNCHANGED books
    BY <1>1, <1>9 DEF books, storeVars
  <1>. QED
    BY <1>2, <1>3, <1>4, <1>5, <1>6, <1>7, <1>8, <1>9, StepCases

-----------------------------------------------------------------------------

LEMMA OneHomeInit == Init => OneHome
  BY CoordinatorAssumption DEF Init, OneHome, Pending, Ids

\* Every home of a number stays the only one: new numbers are larger than all that are
\* in use, and a popped entry takes its number with it.
LEMMA OneHomeStep == TypeOK /\ OneHome /\ AnyStep => OneHome'
  <1>. SUFFICES ASSUME TypeOK, OneHome, AnyStep PROVE OneHome'
    OBVIOUS
  <1>. USE DEF OneHome, Pending, Ids
  <1>1. CASE Open
    <2>1. PICK n \in FirstFreeIds : Volatile(TRUE, fps \cup RecoveredFps, rows, n)
      BY <1>1 DEF Open
    <2>2. \A r \in rows : r.id < n
      BY FirstFreeIdIsFresh DEF TypeOK
    <2>. QED
      BY <1>1, <2>1, <2>2 DEF Open, Volatile
  <1>2. CASE Leave
    BY <1>2 DEF Leave, Volatile, storeVars
  <1>3. CASE Abort
    BY <1>3 DEF Abort, storeVars
  <1>4. ASSUME NEW e \in Acceptable, Schedule(e) PROVE OneHome'
    <2>1. up /\ e.id = nextId /\ nextId \in Nat
      BY <1>4 DEF Schedule, Accepts, TypeOK
    <2>2. \A f \in Pending \cup rows : f.id \in Nat /\ f.id < nextId
      BY <2>1 DEF TypeOK, Entries
    <2>3. \A id \in active : id \in Nat /\ id < nextId
      BY <2>1 DEF TypeOK
    <2>4. /\ rows' \subseteq rows \cup {e} /\ staged' = staged \cup {e}
          /\ queued' = queued /\ active' = active /\ nextId' = nextId + 1
      BY <1>4 DEF Schedule, StoreSchedule, storeVars
    <2>5. \A f, g \in (Pending \cup rows)' : f.id = g.id => f = g
      BY <2>1, <2>2, <2>4
    <2>6. (Ids(staged) \cap Ids(queued) = {})'
      BY <2>1, <2>2, <2>4
    <2>7. (Ids(Pending) \cap active = {})'
      BY <2>1, <2>2, <2>3, <2>4
    <2>8. \A id \in (Ids(Pending \cup rows) \cup active)' : id < nextId'
      BY <2>1, <2>2, <2>3, <2>4
    <2>. QED
      BY <2>5, <2>6, <2>7, <2>8
  <1>5. ASSUME NEW e \in Acceptable, ScheduleFails(e) PROVE OneHome'
    <2>1. /\ nextId \in Nat /\ nextId' = nextId + 1 /\ up
          /\ UNCHANGED <<rows, staged, queued, active>>
      BY <1>5 DEF ScheduleFails, Accepts, TypeOK, storeVars
    <2>2. \A id \in Ids(Pending \cup rows) \cup active : id \in Nat /\ id < nextId
      BY <2>1 DEF TypeOK, Entries
    <2>3. \A id \in (Ids(Pending \cup rows) \cup active)' : id < nextId'
      BY <2>1, <2>2
    <2>. QED
      BY <2>1, <2>3
  <1>6. ASSUME NEW e \in staged, Activate(e) PROVE OneHome'
    <2>1. /\ staged' = staged \ {e} /\ queued' = queued \cup {e}
          /\ UNCHANGED <<rows, up, active, nextId>>
      BY <1>6 DEF Activate, storeVars
    <2>2. (Pending \cup rows)' = Pending \cup rows
      BY <2>1
    <2>3. (Ids(staged) \cap Ids(queued) = {})'
      BY <2>1
    <2>. QED
      BY <2>1, <2>2, <2>3
  <1>7. ASSUME NEW id \in active, Complete(id) PROVE OneHome'
    BY <1>7 DEF Complete, StoreComplete, storeVars
  <1>8. ASSUME NEW id \in active, Release(id) PROVE OneHome'
    BY <1>8 DEF Release, storeVars
  <1>9. ASSUME NEW c \in Callers, PopRequest(c) PROVE OneHome'
    <2>1. PICK e \in queued : queued' = queued \ {e} /\ active' = active \cup {e.id}
      BY <1>9 DEF PopRequest
    <2>2. UNCHANGED <<rows, up, staged, nextId>>
      BY <1>9 DEF PopRequest, storeVars
    <2>3. e.id \notin Ids((queued \ {e}) \cup staged)
      OBVIOUS
    <2>. QED
      BY <2>1, <2>2, <2>3
  <1>10. CASE RestoreSome
    BY <1>10 DEF RestoreSome, coordinatorVars
  <1>11. CASE UNCHANGED books
    BY <1>11 DEF books, storeVars
  <1>. QED
    BY <1>1, <1>2, <1>3, <1>4, <1>5, <1>6, <1>7, <1>8, <1>9, <1>10, <1>11, StepCases

-----------------------------------------------------------------------------

LEMMA MirrorInit == Init => MemoryMirrorsStore
  BY DEF Init, MemoryMirrorsStore

\* Scheduling adds to memory what its transaction adds to the store, and completing an
\* id removes from the store only the row of that id, which no pending request has.
LEMMA MirrorStep ==
    TypeOK /\ StoreIsOptional /\ OneHome /\ MemoryMirrorsStore /\ AnyStep
        => MemoryMirrorsStore'
  <1>. SUFFICES ASSUME TypeOK, StoreIsOptional, OneHome, MemoryMirrorsStore, AnyStep
                PROVE  MemoryMirrorsStore'
    OBVIOUS
  <1>. USE DEF MemoryMirrorsStore, Pending
  <1>1. CASE Open
    BY <1>1 DEF Open, Volatile
  <1>2. CASE Leave
    BY <1>2 DEF Leave, Volatile
  <1>3. CASE Abort
    BY <1>3 DEF Abort, storeVars
  <1>4. ASSUME NEW e \in Acceptable, Schedule(e) PROVE MemoryMirrorsStore'
    <2>1. up /\ up' = up /\ staged' = staged \cup {e} /\ queued' = queued
      BY <1>4 DEF Schedule, Accepts
    <2>2. e.persistent => Persistent
      BY DEF Acceptable
    <2>3. Persistent => seen' = fps'
      BY <1>4, <2>1 DEF Schedule, StoreSchedule
    <2>4. rows' = IF e.persistent THEN rows \cup {e} ELSE rows
      BY <1>4, <2>2 DEF Schedule, StoreSchedule, storeVars
    <2>5. persistentIds' = Ids(rows')
      BY <1>4, <2>1, <2>4 DEF Schedule, Ids
    <2>6. \A f \in Pending' : f.persistent => f \in rows'
      BY <2>1, <2>4
    <2>. QED
      BY <2>3, <2>5, <2>6
  <1>5. ASSUME NEW e \in Acceptable, ScheduleFails(e) PROVE MemoryMirrorsStore'
    BY <1>5 DEF ScheduleFails, storeVars
  <1>6. ASSUME NEW e \in staged, Activate(e) PROVE MemoryMirrorsStore'
    BY <1>6 DEF Activate, storeVars
  <1>7. ASSUME NEW id \in active, Complete(id) PROVE MemoryMirrorsStore'
    <2>1. /\ up /\ UNCHANGED <<fps, seen, staged, queued>>
          /\ persistentIds' = persistentIds \ {id}
      BY <1>7 DEF Complete, StoreComplete, storeVars
    <2>2. rows' = {r \in rows : r.id # id}
      BY <1>7 DEF Complete, StoreComplete, storeVars, StoreIsOptional
    <2>3. persistentIds' = Ids(rows')
      BY <2>1, <2>2 DEF Ids
    <2>4. \A e \in Pending : e.id # id
      BY DEF OneHome, Ids
    <2>. QED
      BY <2>1, <2>2, <2>3, <2>4
  <1>8. ASSUME NEW id \in active, Release(id) PROVE MemoryMirrorsStore'
    BY <1>8 DEF Release, storeVars
  <1>9. ASSUME NEW c \in Callers, PopRequest(c) PROVE MemoryMirrorsStore'
    BY <1>9 DEF PopRequest, storeVars
  <1>10. CASE RestoreSome
    BY <1>10 DEF RestoreSome, coordinatorVars
  <1>11. CASE UNCHANGED books
    BY <1>11 DEF books, storeVars
  <1>. QED
    BY <1>1, <1>2, <1>3, <1>4, <1>5, <1>6, <1>7, <1>8, <1>9, <1>10, <1>11, StepCases

-----------------------------------------------------------------------------

LEMMA OutstandingInit == Init => OutstandingIsSeen
  BY DEF Init, OutstandingIsSeen

\* A request enters memory together with its fingerprint, and fingerprints stay.
LEMMA OutstandingStep == OutstandingIsSeen /\ AnyStep => OutstandingIsSeen'
  <1>. SUFFICES ASSUME OutstandingIsSeen, AnyStep PROVE OutstandingIsSeen'
    OBVIOUS
  <1>. USE DEF OutstandingIsSeen, Pending
  <1>1. CASE Open
    BY <1>1 DEF Open, Volatile, RecoveredFps
  <1>2. CASE Leave
    BY <1>2 DEF Leave, Volatile
  <1>3. CASE Abort
    BY <1>3 DEF Abort, storeVars
  <1>4. ASSUME NEW e \in Acceptable, Schedule(e) PROVE OutstandingIsSeen'
    BY <1>4 DEF Schedule, Accepts, StoreSchedule, storeVars
  <1>5. ASSUME NEW e \in Acceptable, ScheduleFails(e) PROVE OutstandingIsSeen'
    BY <1>5 DEF ScheduleFails, storeVars
  <1>6. ASSUME NEW e \in staged, Activate(e) PROVE OutstandingIsSeen'
    BY <1>6 DEF Activate, storeVars
  <1>7. ASSUME NEW id \in active, Complete(id) \/ Release(id)
        PROVE  OutstandingIsSeen'
    BY <1>7 DEF Complete, StoreComplete, Release, storeVars
  <1>8. ASSUME NEW c \in Callers, PopRequest(c) PROVE OutstandingIsSeen'
    BY <1>8 DEF PopRequest, storeVars
  <1>9. CASE RestoreSome
    BY <1>9 DEF RestoreSome, coordinatorVars
  <1>10. CASE UNCHANGED books
    BY <1>10 DEF books, storeVars
  <1>. QED
    BY <1>1, <1>2, <1>3, <1>4, <1>5, <1>6, <1>7, <1>8, <1>9, <1>10, StepCases

LEMMA NoDuplicateInit == Init => NoDuplicateWork
  BY CoordinatorAssumption DEF Init, NoDuplicateWork, Pending

\* Only Schedule adds a request, and what it adds is filtered against the fingerprints
\* of everything outstanding; Open turns rows into queued requests one for one.
LEMMA NoDuplicateStep ==
    OutstandingIsSeen /\ NoDuplicateWork /\ AnyStep => NoDuplicateWork'
  <1>. SUFFICES ASSUME OutstandingIsSeen, NoDuplicateWork, AnyStep
                PROVE  NoDuplicateWork'
    OBVIOUS
  <1>. USE DEF NoDuplicateWork, Pending
  <1>1. CASE Open
    BY <1>1 DEF Open, Volatile
  <1>2. CASE Leave
    BY <1>2 DEF Leave, Volatile, storeVars
  <1>3. CASE Abort
    BY <1>3 DEF Abort, storeVars
  <1>4. ASSUME NEW e \in Acceptable, Schedule(e) PROVE NoDuplicateWork'
    <2>1. (Pending \cup rows)' \subseteq Pending \cup rows \cup {e}
      BY <1>4 DEF Schedule, StoreSchedule, storeVars
    <2>2. \A f \in Pending \cup rows : e.filter /\ f.filter => e.fp # f.fp
      BY <1>4 DEF Schedule, Accepts, OutstandingIsSeen
    <2>. QED
      BY <2>1, <2>2
  <1>5. ASSUME NEW e \in Acceptable, ScheduleFails(e) PROVE NoDuplicateWork'
    BY <1>5 DEF ScheduleFails, storeVars
  <1>6. ASSUME NEW e \in staged, Activate(e) PROVE NoDuplicateWork'
    BY <1>6 DEF Activate, storeVars
  <1>7. ASSUME NEW id \in active, Complete(id) \/ Release(id)
        PROVE  NoDuplicateWork'
    BY <1>7 DEF Complete, StoreComplete, Release, storeVars
  <1>8. ASSUME NEW c \in Callers, PopRequest(c) PROVE NoDuplicateWork'
    BY <1>8 DEF PopRequest, storeVars
  <1>9. CASE RestoreSome
    BY <1>9 DEF RestoreSome, coordinatorVars
  <1>10. CASE UNCHANGED books
    BY <1>10 DEF books, storeVars
  <1>. QED
    BY <1>1, <1>2, <1>3, <1>4, <1>5, <1>6, <1>7, <1>8, <1>9, <1>10, StepCases

-----------------------------------------------------------------------------

\* Adding an element to a finite set makes it at most one larger, and never smaller.
LEMMA AddGrowsByOne ==
    ASSUME NEW S, NEW x, IsFiniteSet(S)
    PROVE  /\ Cardinality(S) \in Nat
           /\ Cardinality(S \cup {x}) \in Cardinality(S) .. (Cardinality(S) + 1)
  <1>1. Cardinality(S) \in Nat
    BY FS_CardinalityType
  <1>2. Cardinality(S \cup {x}) = IF x \in S THEN Cardinality(S) ELSE Cardinality(S) + 1
    BY FS_AddElement, Zenon
  <1>. QED
    BY <1>1, <1>2

LEMMA FiniteInit == Init => AllFinite /\ ActiveWithinLimit
  BY FS_EmptySet, CoordinatorAssumption DEF Init, AllFinite, ActiveWithinLimit

LEMMA FiniteStep == AllFinite /\ AnyStep => AllFinite'
  <1>. SUFFICES ASSUME AllFinite, AnyStep PROVE AllFinite'
    OBVIOUS
  <1>. USE DEF AllFinite
  <1>1. CASE Open
    BY <1>1, FS_EmptySet DEF Open, Volatile
  <1>2. CASE Leave
    BY <1>2, FS_EmptySet DEF Leave, Volatile, storeVars
  <1>3. CASE Abort
    BY <1>3, FS_EmptySet DEF Abort, storeVars
  <1>4. ASSUME NEW e \in Acceptable, Schedule(e) PROVE AllFinite'
    <2>1. IsFiniteSet(rows \cup {e}) /\ IsFiniteSet(staged \cup {e})
      BY FS_AddElement
    <2>. QED
      BY <1>4, <2>1 DEF Schedule, StoreSchedule, storeVars
  <1>5. ASSUME NEW e \in Acceptable, ScheduleFails(e) PROVE AllFinite'
    BY <1>5 DEF ScheduleFails, storeVars
  <1>6. ASSUME NEW e \in staged, Activate(e) PROVE AllFinite'
    <2>1. IsFiniteSet(staged \ {e}) /\ IsFiniteSet(queued \cup {e})
      BY FS_AddElement, FS_RemoveElement
    <2>. QED
      BY <1>6, <2>1 DEF Activate, storeVars
  <1>7. ASSUME NEW id \in active, Complete(id) \/ Release(id) PROVE AllFinite'
    <2>1. rows' \in SUBSET rows
      BY <1>7 DEF Complete, StoreComplete, Release, storeVars
    <2>2. IsFiniteSet(rows') /\ IsFiniteSet(active \ {id})
      BY <2>1, FS_Subset, FS_RemoveElement
    <2>. QED
      BY <1>7, <2>2 DEF Complete, Release
  <1>8. ASSUME NEW c \in Callers, PopRequest(c) PROVE AllFinite'
    <2>1. PICK e \in queued : queued' = queued \ {e} /\ active' = active \cup {e.id}
      BY <1>8 DEF PopRequest
    <2>2. IsFiniteSet(queued \ {e}) /\ IsFiniteSet(active \cup {e.id})
      BY FS_AddElement, FS_RemoveElement
    <2>. QED
      BY <1>8, <2>1, <2>2 DEF PopRequest, storeVars
  <1>9. CASE RestoreSome
    BY <1>9 DEF RestoreSome, coordinatorVars
  <1>10. CASE UNCHANGED books
    BY <1>10 DEF books, storeVars
  <1>. QED
    BY <1>1, <1>2, <1>3, <1>4, <1>5, <1>6, <1>7, <1>8, <1>9, <1>10, StepCases

\* Only PopRequest adds to the active ids, one at a time and below the limit.
LEMMA LimitStep ==
    AllFinite /\ ActiveWithinLimit /\ AnyStep => ActiveWithinLimit'
  <1>. SUFFICES ASSUME AllFinite, ActiveWithinLimit, AnyStep
                PROVE  ActiveWithinLimit'
    OBVIOUS
  <1>. USE CoordinatorAssumption DEF ActiveWithinLimit
  <1>0. Cardinality(active) \in Nat
    BY FS_CardinalityType DEF AllFinite
  <1>1. ASSUME active' \in SUBSET active PROVE ActiveWithinLimit'
    <2>1. Cardinality(active') \in Nat /\ Cardinality(active') <= Cardinality(active)
      BY <1>1, FS_Subset, FS_CardinalityType DEF AllFinite
    <2>. QED
      BY <1>0, <2>1
  <1>2. CASE Open \/ Leave
    BY <1>1, <1>2 DEF Open, Leave, Volatile
  <1>3. CASE Abort
    BY <1>1, <1>3 DEF Abort
  <1>4. ASSUME NEW e \in Acceptable, Schedule(e) \/ ScheduleFails(e)
        PROVE  ActiveWithinLimit'
    BY <1>1, <1>4 DEF Schedule, ScheduleFails
  <1>5. ASSUME NEW e \in staged, Activate(e) PROVE ActiveWithinLimit'
    BY <1>1, <1>5 DEF Activate
  <1>6. ASSUME NEW id \in active, Complete(id) \/ Release(id)
        PROVE  ActiveWithinLimit'
    BY <1>1, <1>6 DEF Complete, Release
  <1>7. ASSUME NEW c \in Callers, PopRequest(c) PROVE ActiveWithinLimit'
    <2>1. PICK e \in queued : active' = active \cup {e.id}
      BY <1>7 DEF PopRequest
    <2>2. Cardinality(active) < Concurrency
      BY <1>7 DEF PopRequest, CanPop
    <2>3. Cardinality(active') \in Cardinality(active) .. (Cardinality(active) + 1)
      BY <2>1, AddGrowsByOne DEF AllFinite
    <2>. QED
      BY <1>0, <2>2, <2>3
  <1>8. CASE RestoreSome
    BY <1>1, <1>8 DEF RestoreSome, coordinatorVars
  <1>9. CASE UNCHANGED books
    BY <1>1, <1>9 DEF books
  <1>. QED
    BY <1>2, <1>3, <1>4, <1>5, <1>6, <1>7, <1>8, <1>9, StepCases

-----------------------------------------------------------------------------

LEMMA WakeupInit == Init => NoMissedWakeup
  BY DEF Init, NoMissedWakeup

\* A step that could give a sleeper what it waits for also wakes it; every other step
\* leaves the reasons of those who sleep as they were.
LEMMA WakeupStep ==
    TypeOK /\ AllFinite /\ NoMissedWakeup /\ AnyStep => NoMissedWakeup'
  <1>. SUFFICES ASSUME TypeOK, AllFinite, NoMissedWakeup, AnyStep
                PROVE  NoMissedWakeup'
    OBVIOUS
  <1>. USE DEF NoMissedWakeup
  <1>1. ASSUME NotifyWaiters PROVE NoMissedWakeup'
    BY <1>1, WokenIsACall, WokenIsASlotCall DEF NotifyWaiters, TypeOK
  <1>2. CASE Open \/ Leave
    BY <1>2 DEF Open, Leave, Volatile
  <1>3. CASE CloseInput \/ Abort
    BY <1>1, <1>3 DEF CloseInput, Abort
  <1>4. ASSUME NEW e \in Acceptable, Schedule(e) PROVE NoMissedWakeup'
    <2>1. /\ staged' = staged \cup {e}
          /\ UNCHANGED <<queued, active, inputClosed, emptyReported, aborted, callVars>>
      BY <1>4 DEF Schedule
    <2>2. /\ Cardinality(staged) \in Nat
          /\ Cardinality(staged') \in Cardinality(staged) .. (Cardinality(staged) + 1)
      BY <2>1, AddGrowsByOne DEF AllFinite
    <2>3. Cardinality(queued) \in Nat
      BY FS_CardinalityType DEF AllFinite
    <2>4. HasSlot' => HasSlot
      BY <2>1, <2>2, <2>3, CoordinatorAssumption DEF HasSlot
    <2>. QED
      BY <2>1, <2>4 DEF CanPop, Drained, callVars
  <1>5. ASSUME NEW e \in Acceptable, ScheduleFails(e) PROVE NoMissedWakeup'
    BY <1>5 DEF ScheduleFails, CanPop, Drained, HasSlot, callVars
  <1>6. ASSUME NEW e \in staged, Activate(e) PROVE NoMissedWakeup'
    BY <1>1, <1>6 DEF Activate
  <1>7. ASSUME NEW id \in active, Complete(id) \/ Release(id) PROVE NoMissedWakeup'
    BY <1>1, <1>7 DEF Complete, Release
  <1>8. ASSUME NEW c \in Callers, TakeAnswer(c) \/ CancelCall(c) PROVE NoMissedWakeup'
    BY <1>8 DEF TakeAnswer, CancelCall, coordinatorVars, CanPop, Drained, HasSlot, TypeOK
  <1>9. CASE TakeSlot \/ AnswerSlot \/ SleepForSlot
    BY <1>9 DEF TakeSlot, AnswerSlot, SleepForSlot, coordinatorVars, CanPop, Drained,
                HasSlot
  <1>10. ASSUME NEW c \in Callers, PopRequest(c) PROVE NoMissedWakeup'
    <2>1. PICK e \in queued : Answer(c, e.id)
      BY <1>10 DEF PopRequest
    <2>2. e.id # NoRequest
      BY DEF TypeOK, Entries
    <2>3. \A d \in Callers : call'[d] # "asleep"
      BY <2>1, <2>2, WokenIsACall DEF Answer, TypeOK
    <2>4. slotCall' # "asleep"
      BY <1>10, WokenIsASlotCall DEF PopRequest, TypeOK
    <2>. QED
      BY <2>3, <2>4
  <1>11. ASSUME NEW c \in Callers, AnswerNone(c) PROVE NoMissedWakeup'
    BY <1>11 DEF AnswerNone, Answer, CanPop, Drained, HasSlot, TypeOK
  <1>12. ASSUME NEW c \in Callers, Sleep(c) PROVE NoMissedWakeup'
    BY <1>12 DEF Sleep, coordinatorVars, CanPop, Drained, HasSlot, TypeOK
  <1>13. CASE RestoreSome \/ UNCHANGED vars
    BY <1>13 DEF RestoreSome, vars, coordinatorVars, callVars, CanPop, Drained, HasSlot
  <1>. QED
    BY <1>2, <1>3, <1>4, <1>5, <1>6, <1>7, <1>8, <1>9, <1>10, <1>11, <1>12, <1>13
    DEF AnyStep

-----------------------------------------------------------------------------

\* Inv holds at the start, and every use of the coordinator keeps it.
LEMMA InvInit == Init => Inv
  BY TypeInit, StoreIsOptionalInit, OneHomeInit, MirrorInit, OutstandingInit,
     NoDuplicateInit, FiniteInit, WakeupInit DEF Inv

LEMMA InvStep == Inv /\ AnyStep => Inv'
  BY TypeStep, StoreIsOptionalStep, OneHomeStep, MirrorStep, OutstandingStep,
     NoDuplicateStep, FiniteStep, LimitStep, WakeupStep DEF Inv

\* The coordinator's books agree with each other and with the store at all times.
THEOREM Invariant == Spec => []Inv
  <1>1. Inv /\ [Next]_vars => Inv'
    BY InvStep, NextIsAnyStep DEF Inv
  <1>. QED
    BY <1>1, InvInit, PTL DEF Spec

\* No two requests ever share a number, across restarts too.
THEOREM NumbersHaveOneHome == Spec => []OneHome
  BY Invariant, PTL DEF Inv

\* At every moment of a run the store holds what a crash would have to give back.
THEOREM StoreIsMirrored == Spec => []MemoryMirrorsStore
  BY Invariant, PTL DEF Inv

\* Filtered requests with one fingerprint are never outstanding twice.
THEOREM WorkIsUnique == Spec => []NoDuplicateWork
  BY Invariant, PTL DEF Inv

\* No worker and no start producer sleeps although it could be answered.
THEOREM WakeupsArrive == Spec => []NoMissedWakeup
  BY Invariant, PTL DEF Inv

\* Workers never hold more requests than CONCURRENT_REQUESTS.
THEOREM ConcurrencyIsBounded == Spec => []ActiveWithinLimit
  BY Invariant, PTL DEF Inv

\* Two comparisons of heap tops add up to the flat order: what is next outranks every
\* other queued entry.
LEMMA NextOutranks ==
    ASSUME NEW queue \in SUBSET Entries, NEW e \in queue, IsNext(e, queue),
           NEW f \in queue \ {e}
    PROVE  Outranks(e, f)
  <1>1. e.priority \in Int /\ f.priority \in Int
    BY CoordinatorAssumption DEF Entries
  <1>2. e.persistent \in BOOLEAN /\ f.persistent \in BOOLEAN
    BY DEF Entries
  <1>3. CASE e.persistent # f.persistent
    BY <1>2, <1>3 DEF IsNext, StoragesBefore, Outranks
  <1>4. CASE e.persistent = f.persistent /\ InStartHeap(e) = InStartHeap(f)
    BY <1>4 DEF IsNext, IsTop, SameHeap, Beats, Outranks
  <1>5. CASE e.persistent = f.persistent /\ InStartHeap(e) # InStartHeap(f)
    <2>1. InStartHeap(e) \in BOOLEAN /\ InStartHeap(f) \in BOOLEAN
      BY DEF InStartHeap, Entries
    <2>2. CASE InStartHeap(e) /\ ~InStartHeap(f)
      BY <1>5, <2>2 DEF IsNext, WinsPair, Outranks
    <2>3. CASE ~InStartHeap(e) /\ InStartHeap(f)
      <3>1. e.priority >= f.priority
        BY <1>5, <2>3 DEF IsNext, WinsPair
      <3>2. e.priority > f.priority \/ e.priority = f.priority
        BY <1>1, <3>1
      <3>. QED
        BY <1>5, <2>3, <3>2 DEF Outranks
    <2>. QED
      BY <1>5, <2>1, <2>2, <2>3
  <1>. QED
    BY <1>3, <1>4, <1>5

\* Requests leave in the flat order of the settings, whatever the orders configured.
THEOREM OrderIsKept == Spec => PopsInOrder
  <1>. DEFINE InOrder ==
         \A c \in Callers : PopRequest(c) =>
            \A e \in queued \ queued', f \in queued' : Outranks(e, f)
  <1>1. Inv => InOrder
    <2>. SUFFICES ASSUME Inv, NEW c \in Callers, PopRequest(c),
                         NEW e \in queued \ queued', NEW f \in queued'
                  PROVE  Outranks(e, f)
      OBVIOUS
    <2>1. PICK g \in queued : IsNext(g, queued) /\ queued' = queued \ {g}
      BY DEF PopRequest
    <2>2. queued \in SUBSET Entries /\ g = e /\ f \in queued \ {g}
      BY <2>1 DEF Inv, TypeOK
    <2>. QED
      BY <2>1, <2>2, NextOutranks
  <1>. HIDE DEF InOrder
  <1>2. Inv /\ [Next]_vars => [InOrder]_vars
    BY <1>1
  <1>3. Spec => [][InOrder]_vars
    BY <1>2, Invariant, PTL DEF Spec
  <1>. QED
    BY <1>3 DEF InOrder, PopsInOrder

HIDE DEF NoRequest, CallStates, SlotStates

-----------------------------------------------------------------------------
(* The engine. *)

Repeatable == ExemptStarts \cup ExemptLinks

\* A request is written to the store if it can be, and is filtered unless it is a retry or
\* was yielded with dont_filter.
Proper(r) ==
    /\ r.persistent <=> (Persistent /\ r.fp \notin Unserializable)
    /\ FirstAttempt(r) => r.filter \/ r.fp \in Repeatable

TodoProper == \A w \in Callers : \A i \in DOMAIN todo[w] : Proper(todo[w][i])

Held == {work[w] : w \in Callers} \ {NoEntry}

\* Every request that is somewhere: in the store, in the coordinator, in the registry, or
\* in the hands of a worker.
Known == rows \cup staged \cup queued \cup registered \cup Held

KnownProper == \A e \in Known : Proper(e)

\* A process has the job exactly while crawl() runs, and leaves nothing in memory.
UpOrGone ==
    /\ up <=> phase \notin {"down", "ended"}
    /\ ~up => registered = {} /\ staged = {} /\ queued = {}
    /\ ~up => \A w \in Callers : work[w] = NoEntry

\* Who works on a request has it.
WorkersHaveWork ==
    \A w \in Callers : pc[w] \in {"handling", "output"} => work[w] \in Entries

\* The producer that was granted a slot has a start request to schedule.
GrantIsForARequest ==
    /\ producer = "iterating" /\ slotCall # "free" => startLeft # <<>>
    /\ producer = "granted" => startLeft # <<>> /\ slotCall = "free"

\* A number names one request, wherever it is, and a process hands out larger ones only.
OneName ==
    /\ \A e, f \in Known : e.id = f.id => e = f
    /\ up => \A e \in Known : e.id < nextId

\* A request in a worker's hands is in nobody else's, and no longer in the registry.
HeldOnce ==
    /\ \A w \in Callers : \A e \in registered \cup staged : e.id # work[w].id
    /\ \A v, w \in Callers : v # w /\ work[v] = work[w] => work[v] = NoEntry

\* With a job directory: what is somewhere was asked for, and nothing refuses it; the store
\* remembers the filtered ones.
KnownIsAsked ==
    \A e \in Known : e.fp \in asked \ Rejected /\ (e.filter => e.fp \in fps)

AskedIsRemembered == fps \subseteq asked /\ asked \subseteq fps \cup Repeatable

KnownIsStored == \A e \in Known : e.persistent => e \in rows

\* While a worker processes the outputs of a callback, each link was asked for, is
\* refused, or has still to be scheduled.
LinksInProgress(w) ==
    /\ \A j \in DOMAIN todo[w] : FirstAttempt(todo[w][j])
    /\ \A i \in DOMAIN Links[work[w].fp] :
          \/ Links[work[w].fp][i] \in asked \cup Rejected
          \/ \E j \in DOMAIN todo[w] : todo[w][j].fp = Links[work[w].fp][i]

\* What becomes of a page whose request was retried: its next attempt has a row, or came
\* to its own end already, or lives in memory only.
Retried ==
    handled \cup gaveUp \cup Unserializable \cup PagesOf({r \in rows : ~FirstAttempt(r)})

\* A retry is for a first attempt, and is scheduled before that one's row goes.
RetryInProgress(w) ==
    /\ FirstAttempt(work[w])
    /\ todo[w] = <<RetryOf(work[w])>> \/ (todo[w] = <<>> /\ work[w].fp \in Retried)

OutputsInProgress ==
    \A w \in Callers : pc[w] = "output" =>
        /\ verdict[w] = "ok" => LinksInProgress(w)
        /\ verdict[w] = "retry" => RetryInProgress(w)
        /\ verdict[w] = "give_up" => todo[w] = <<>>

\* What the books of the engine are at any time.
BooksInv ==
    /\ Inv /\ CrawlTypeOK /\ UpOrGone /\ GrantIsForARequest /\ WorkersHaveWork
    /\ KnownProper /\ TodoProper /\ OneName /\ HeldOnce

\* And of the job, if it has a directory.
JobInv ==
    /\ BooksInv
    /\ KnownIsAsked /\ AskedIsRemembered /\ KnownIsStored /\ OutputsInProgress
    /\ NothingIsLost

AtWork == phase \in {"crawl", "idle", "waiting"}

AllExited == \A w \in Callers : pc[w] = "exited"

\* As long as no worker task failed, each row is of a request that is pending or active.
RowsAreInWork ==
    AtWork /\ (\A w \in Callers : pc[w] # "failed") =>
        \A r \in rows : r \in Pending \/ r.id \in active

\* Workers leave when the input is closed, which the producer does at its end, and nothing
\* is left to do; after the last has left only an extension can add something.
ExitsAreFinal ==
    /\ (\E w \in Callers : pc[w] = "exited") => inputClosed
    /\ inputClosed => producer \in {"done", "failed"}
    /\ AtWork /\ AllExited => active = {} /\ PagesOf(Pending) \subseteq Extras

Resting == phase \in {"idle", "waiting"} => AllExited /\ producer = "done"

\* What start() has yielded so far was asked for, or is refused.
StartsAreAsked ==
    /\ producer \in {"iterating", "granted"} =>
          \A i \in DOMAIN StartPages :
             \/ StartPages[i] \in asked \cup Rejected
             \/ \E j \in DOMAIN startLeft : startLeft[j] = StartPages[i]
    /\ producer = "done" => \A i \in DOMAIN StartPages : StartPages[i] \in asked \cup Rejected

\* The end has been decided on, and the tasks are being cancelled.
FinishedStays ==
    phase \in {"stopping", "ended"} /\ reason = "finished" =>
        /\ \A i \in DOMAIN StartPages : StartPages[i] \in asked \cup Rejected
        /\ PagesOf(rows) \subseteq Extras

EndInv ==
    /\ JobInv
    /\ RowsAreInWork /\ ExitsAreFinal /\ Resting /\ StartsAreAsked /\ FinishedStays

StartsOf(entries) == {e \in entries : e.start /\ FirstAttempt(e)}

\* A worker has an answer while it asks, and a request when it has stopped asking.
CallsAreAsked ==
    \A w \in Callers :
        /\ call[w] # "returned" => got[w] = NoRequest
        /\ got[w] # NoRequest => pc[w] = "asking"
        /\ pc[w] \in {"none", "asking", "exited"} => work[w] = NoEntry

\* The number a worker has, or that of its request, or neither.
InHands(w) == IF got[w] # NoRequest THEN got[w] ELSE work[w].id

Live == up /\ ~aborted

ActiveIsInHands == Live => \A id \in active : \E w \in Callers : InHands(w) = id

\* The workers that have a request, and those that failed and released theirs, whose rows
\* are loose: neither pending nor active until the next run.
Busy == {w \in Callers : InHands(w) # NoRequest}

Broken == {w \in Callers : pc[w] = "failed" /\ work[w] = NoEntry}

Loose == {r \in rows : r \notin Pending /\ r.id \notin active}

LooseIsBroken == Live => Cardinality(Loose) <= Cardinality(Broken)

\* Only the producer schedules first attempts of start requests.
OutputsAreNoStarts ==
    \A w \in Callers : \A i \in DOMAIN todo[w] : FirstAttempt(todo[w][i]) => ~todo[w][i].start

\* A slot that was granted is still free of start requests when it is used.
GrantHolds ==
    producer = "granted" \/ slotCall = "granted"
        => Cardinality(StartsOf(Pending)) < PendingLimit

StartRowsBounded == Cardinality(StartsOf(rows)) <= PendingLimit + Concurrency

FirstRunIsEmpty == runs = 0 => rows = {} /\ ~up

BacklogInv ==
    /\ BooksInv
    /\ CallsAreAsked /\ ActiveIsInHands /\ LooseIsBroken
    /\ OutputsAreNoStarts /\ GrantHolds /\ StartRowsBounded /\ FirstRunIsEmpty
    /\ Resting /\ StartBacklogBounded

-----------------------------------------------------------------------------

\* The first element of a sequence and the rest of it are all there is.
LEMMA HeadAndTail ==
    ASSUME NEW S, NEW s \in Seq(S), s # <<>>
    PROVE  /\ Head(s) \in S /\ Tail(s) \in Seq(S)
           /\ \A i \in DOMAIN s :
                 s[i] = Head(s) \/ \E j \in DOMAIN Tail(s) : Tail(s)[j] = s[i]
           /\ \A j \in DOMAIN Tail(s) : \E i \in DOMAIN s : Tail(s)[j] = s[i]
           /\ \E i \in DOMAIN s : Head(s) = s[i]
  <1>1. /\ Head(s) \in S /\ Tail(s) \in Seq(S)
        /\ Len(Tail(s)) = Len(s) - 1
        /\ \A i \in 1 .. Len(Tail(s)) : Tail(s)[i] = s[i + 1]
    BY HeadTailProperties
  <1>2. Len(s) \in Nat \ {0} /\ DOMAIN s = 1 .. Len(s) /\ DOMAIN Tail(s) = 1 .. Len(Tail(s))
    BY <1>1, EmptySeq, LenProperties
  <1>3. Head(s) = s[1]
    OBVIOUS
  <1>4. ASSUME NEW i \in DOMAIN s, i # 1
        PROVE  i - 1 \in DOMAIN Tail(s) /\ Tail(s)[i - 1] = s[i]
    BY <1>1, <1>2, <1>4
  <1>5. ASSUME NEW j \in DOMAIN Tail(s) PROVE j + 1 \in DOMAIN s /\ Tail(s)[j] = s[j + 1]
    BY <1>1, <1>2
  <1>6. \A i \in DOMAIN s :
           s[i] = Head(s) \/ \E j \in DOMAIN Tail(s) : Tail(s)[j] = s[i]
    BY <1>3, <1>4
  <1>7. 1 \in DOMAIN s
    BY <1>2
  <1>. QED
    BY <1>1, <1>3, <1>5, <1>6, <1>7

\* What a callback yields becomes a request to each of its pages, in their order.
LEMMA RequestsToPages ==
    ASSUME NEW pages \in Seq(Fingerprints)
    PROVE  /\ RequestsTo(pages) \in Seq(RequestShapes)
           /\ DOMAIN RequestsTo(pages) = DOMAIN pages
           /\ \A i \in DOMAIN pages :
                 /\ RequestsTo(pages)[i].fp = pages[i]
                 /\ FirstAttempt(RequestsTo(pages)[i]) /\ ~RequestsTo(pages)[i].start
                 /\ Proper(RequestsTo(pages)[i])
  <1>1. 0 \in Priorities
    BY CrawlAssumption
  <1>2. DOMAIN pages = 1 .. Len(pages) /\ Len(pages) \in Nat
    BY LenProperties
  <1>3. \A i \in DOMAIN pages : RequestOf(pages[i], FALSE) \in RequestShapes
    BY <1>1, <1>2, CoordinatorAssumption DEF RequestOf, Exempt, RequestShapes
  <1>4. RequestsTo(pages) \in [1 .. Len(pages) -> RequestShapes]
    BY <1>2, <1>3 DEF RequestsTo
  <1>5. RequestsTo(pages) \in Seq(RequestShapes)
    BY <1>2, <1>4
  <1>. QED
    BY <1>5 DEF RequestsTo, RequestOf, Exempt, FirstAttempt, Repeatable, Proper

\* The request of a page is proper, and so is the retry of a first attempt.
LEMMA RequestIsProper ==
    ASSUME NEW page \in Fingerprints, NEW isStart \in BOOLEAN
    PROVE  RequestOf(page, isStart) \in RequestShapes /\ Proper(RequestOf(page, isStart))
  BY CoordinatorAssumption, CrawlAssumption DEF RequestOf, Exempt, Repeatable, RequestShapes, Proper

LEMMA RetryIsProper ==
    ASSUME NEW e \in Entries, Proper(e), FirstAttempt(e)
    PROVE  /\ RetryOf(e) \in RequestShapes /\ Proper(RetryOf(e))
           /\ RetryOf(e).fp = e.fp /\ ~FirstAttempt(RetryOf(e))
  BY CoordinatorAssumption, CrawlAssumption
  DEF RetryOf, FirstAttempt, RequestShapes, Proper, Entries

\* A proper request under the next number is one the coordinator may be offered.
LEMMA NumberedIsAcceptable ==
    ASSUME NEW r \in RequestShapes, Proper(r), nextId \in Nat
    PROVE  /\ Numbered(r, nextId) \in Acceptable
           /\ Proper(Numbered(r, nextId))
  BY DEF Numbered, RequestShapes, Acceptable, Entries, Proper, FirstAttempt

LEMMA TryIsAnyStep ==
    ASSUME NEW r \in RequestShapes, Proper(r), nextId \in Nat,
           TrySchedule(r) \/ ScheduleRaises(r)
    PROVE  AnyStep
  <1>1. Numbered(r, nextId) \in Acceptable
    BY NumberedIsAcceptable
  <1>. QED
    BY <1>1 DEF TrySchedule, ScheduleRaises, AnyStep

LEMMA NoEntryIsNone == NoEntry \notin Entries
  BY DEF NoEntry, Entries

-----------------------------------------------------------------------------

\* Head of what a worker has still to schedule.
LEMMA TodoHeadIsProper ==
    ASSUME CrawlTypeOK, TodoProper, NEW w \in Callers, todo[w] # <<>>
    PROVE  Head(todo[w]) \in RequestShapes /\ Proper(Head(todo[w]))
  <1>1. todo[w] \in Seq(RequestShapes)
    BY DEF CrawlTypeOK, TaskVarsOK
  <1>. QED
    BY <1>1, HeadAndTail DEF TodoProper

LEMMA StartHeadIsProper ==
    ASSUME CrawlTypeOK, startLeft # <<>>
    PROVE  /\ RequestOf(Head(startLeft), TRUE) \in RequestShapes
           /\ Proper(RequestOf(Head(startLeft), TRUE))
  <1>1. Head(startLeft) \in Fingerprints
    BY HeadAndTail DEF CrawlTypeOK, ProducerVarsOK
  <1>. QED
    BY <1>1, RequestIsProper

\* Whatever the engine does, the coordinator takes a step of those its own invariant is
\* proved for.
LEMMA EngineUsesCoordinator ==
    CrawlTypeOK /\ TodoProper /\ UpOrGone /\ GrantIsForARequest /\ [CrawlNext]_allVars
        => AnyStep
  <1>. SUFFICES ASSUME CrawlTypeOK, TodoProper, UpOrGone, GrantIsForARequest,
                       [CrawlNext]_allVars
                PROVE  AnyStep
    OBVIOUS
  <1>0. nextId \in Nat
    BY DEF CrawlTypeOK, TypeOK
  <1>1. CASE StartRun
    BY <1>1 DEF StartRun, AnyStep
  <1>2. CASE StartFails
    <2>1. ~up
      BY <1>2 DEF StartFails, UpOrGone
    <2>2. PICK missing \in {Callbacks[e.fp] : e \in rows} :
            fps' = fps \cup PagesOf({e \in rows :
                       e.filter /\ \A u \in Unresolved(missing) : e.id < u.id})
      BY <1>2 DEF StartFails
    <2>3. PagesOf({e \in rows : e.filter /\ \A u \in Unresolved(missing) : e.id < u.id})
             \in SUBSET RecoveredFps
      BY DEF PagesOf, RecoveredFps
    <2>4. RestoreSome
      BY <1>2, <2>1, <2>2, <2>3 DEF StartFails, RestoreSome
    <2>. QED
      BY <2>4 DEF AnyStep
  <1>3. CASE Crash \/ RunEnds
    BY <1>3 DEF Crash, RunEnds, AnyStep
  <1>4. CASE ExtraSchedules
    <2>1. PICK x \in extrasLeft : TrySchedule(RequestOf(x, FALSE))
      BY <1>4 DEF ExtraSchedules
    <2>2. x \in Fingerprints
      BY CrawlAssumption DEF CrawlTypeOK, EnvVarsOK
    <2>. QED
      BY <1>0, <2>1, <2>2, RequestIsProper, TryIsAnyStep
  <1>5. ASSUME NEW w \in Callers, WorkerSchedules(w) \/ WorkerScheduleRaises(w)
        PROVE  AnyStep
    BY <1>0, <1>5, TodoHeadIsProper, TryIsAnyStep DEF WorkerSchedules, WorkerScheduleRaises
  <1>6. CASE ProducerSchedules
    BY <1>0, <1>6, StartHeadIsProper, TryIsAnyStep DEF ProducerSchedules, GrantIsForARequest
  <1>7. CASE ProducerRaises
    <2>1. CASE UNCHANGED vars
      BY <2>1 DEF AnyStep
    <2>2. CASE producer = "granted" /\ ScheduleRaises(RequestOf(Head(startLeft), TRUE))
      BY <1>0, <2>2, StartHeadIsProper, TryIsAnyStep DEF GrantIsForARequest
    <2>. QED
      BY <1>7, <2>1, <2>2 DEF ProducerRaises
  <1>8. CASE FinishSchedule
    BY <1>8 DEF FinishSchedule, AnyStep
  <1>9. ASSUME NEW w \in Callers, WorkerTakes(w) \/ WorkerToldNone(w) PROVE AnyStep
    BY <1>9 DEF WorkerTakes, WorkerToldNone, AnyStep
  <1>10. ASSUME NEW w \in Callers,
                CallbackReturns(w) \/ DownloadFails(w) \/ DownloadRetried(w)
         PROVE  AnyStep
    BY <1>10 DEF CallbackReturns, DownloadFails, DownloadRetried, Handled, AnyStep
  <1>11. ASSUME NEW w \in Callers, WorkerCompletes(w) \/ WorkerReleases(w) PROVE AnyStep
    <2>1. work[w].id \in active /\ (Complete(work[w].id) \/ Release(work[w].id))
      BY <1>11 DEF WorkerCompletes, WorkerReleases, Complete, Release
    <2>. QED
      BY <2>1 DEF AnyStep
  <1>12. ASSUME NEW w \in Callers,
                \/ HandlerRaises(w) \/ CompleteRaises(w)
                \/ WaitingWorkerCancelled(w) \/ BusyWorkerCancelled(w)
         PROVE  AnyStep
    BY <1>12 DEF HandlerRaises, CompleteRaises, WaitingWorkerCancelled,
                 BusyWorkerCancelled, AnyStep
  <1>13. CASE ProducerTold \/ ProducerEnds \/ ProducerCancelled
    BY <1>13 DEF ProducerTold, ProducerEnds, ProducerCancelled, AnyStep
  <1>14. CASE PassEnds \/ IdleKeepsAlive \/ Woke \/ CloseWhileIdle
    BY <1>14 DEF PassEnds, IdleKeepsAlive, Woke, CloseWhileIdle, AnyStep
  <1>15. CASE IdleEnds \/ CloseWhileBusy \/ ClosedEarlier \/ TaskFailed
    BY <1>15 DEF IdleEnds, CloseWhileBusy, ClosedEarlier, TaskFailed, Teardown, AnyStep
  <1>16. ASSUME NEW w \in Callers, WorkerLooks(w) PROVE AnyStep
    BY <1>16 DEF WorkerLooks, AnyStep
  <1>17. CASE ProducerLooks
    BY <1>17 DEF ProducerLooks, AnyStep
  <1>18. CASE NothingToDo \/ UNCHANGED allVars
    BY <1>18 DEF NothingToDo, allVars, AnyStep
  <1>. QED
    BY <1>1, <1>2, <1>3, <1>4, <1>5, <1>6, <1>7, <1>8, <1>9, <1>10, <1>11, <1>12, <1>13,
       <1>14, <1>15, <1>16, <1>17, <1>18
    DEF CrawlNext, OrderlyStep, FaultStep, WorkerStep, ProducerStep, EngineStep

-----------------------------------------------------------------------------

LEMMA CrawlTypeInit == CrawlInit => CrawlTypeOK
  <1>. SUFFICES ASSUME CrawlInit PROVE CrawlTypeOK
    OBVIOUS
  <1>1. TypeOK
    BY TypeInit DEF CrawlInit
  <1>2. CrawlVarsOK /\ ProducerVarsOK
    BY EmptySeq DEF CrawlInit, CrawlVarsOK, ProducerVarsOK, Phases, ProducerStates
  <1>3. TaskVarsOK
    BY EmptySeq DEF CrawlInit, TaskVarsOK, WorkerStates, Verdicts
  <1>4. EnvVarsOK
    BY CrawlAssumption DEF CrawlInit, EnvVarsOK
  <1>. QED
    BY <1>1, <1>2, <1>3, <1>4 DEF CrawlTypeOK

LEMMA CrawlVarsStep ==
    CrawlVarsOK /\ TypeOK /\ [CrawlNext]_allVars => CrawlVarsOK'
  <1>. SUFFICES ASSUME CrawlVarsOK, TypeOK, [CrawlNext]_allVars PROVE CrawlVarsOK'
    OBVIOUS
  <1>. USE DEF CrawlVarsOK, Phases
  <1>1. CASE UNCHANGED crawlVars
    BY <1>1 DEF crawlVars
  <1>2. CASE StartRun
    BY <1>2 DEF StartRun, TypeOK
  <1>3. CASE StartFails
    BY <1>3 DEF StartFails
  <1>4. CASE Crash \/ RunEnds
    BY <1>4 DEF Crash, RunEnds, Forget
  <1>5. CASE FinishSchedule
    <2>1. PICK e \in staged : registered' = registered \cup {e}
      BY <1>5 DEF FinishSchedule
    <2>. QED
      BY <1>5, <2>1 DEF FinishSchedule, TypeOK
  <1>6. ASSUME NEW w \in Callers, WorkerTakes(w) PROVE CrawlVarsOK'
    BY <1>6 DEF WorkerTakes
  <1>7. CASE PassEnds \/ CloseWhileIdle
    BY <1>7 DEF PassEnds, CloseWhileIdle
  <1>8. CASE IdleKeepsAlive \/ Woke
    BY <1>8 DEF IdleKeepsAlive, Woke, NewPass
  <1>9. ASSUME NEW why \in {"finished", "shutdown", "error"}, Teardown(why)
        PROVE  CrawlVarsOK'
    BY <1>9 DEF Teardown
  <1>10. IdleEnds \/ CloseWhileBusy \/ ClosedEarlier \/ TaskFailed
           => \E why \in {"finished", "shutdown", "error"} : Teardown(why)
    BY DEF IdleEnds, CloseWhileBusy, ClosedEarlier, TaskFailed
  <1>11. CASE ExtraSchedules \/ ProducerStep \/ ProducerRaises \/ ProducerLooks
               \/ NothingToDo \/ UNCHANGED allVars
    BY <1>1, <1>11
    DEF ExtraSchedules, ProducerStep, ProducerTold, ProducerSchedules, ProducerEnds,
        ProducerCancelled, ProducerRaises, ProducerLooks, NothingToDo, allVars, loopVars,
        crawlVars
  <1>12. ASSUME NEW w \in Callers, WorkerStep(w), ~WorkerTakes(w) PROVE CrawlVarsOK'
    BY <1>1, <1>12
    DEF WorkerStep, WorkerToldNone, CallbackReturns, Handled, WorkerSchedules,
        WorkerCompletes, WorkerReleases, WaitingWorkerCancelled, BusyWorkerCancelled, Fails
  <1>13. ASSUME NEW w \in Callers,
                \/ WorkerLooks(w) \/ DownloadFails(w) \/ DownloadRetried(w)
                \/ HandlerRaises(w) \/ WorkerScheduleRaises(w) \/ CompleteRaises(w)
         PROVE  CrawlVarsOK'
    BY <1>1, <1>13
    DEF WorkerLooks, loopVars, crawlVars, DownloadFails, DownloadRetried, Handled,
        HandlerRaises, WorkerScheduleRaises, CompleteRaises, Fails
  <1>. QED
    BY <1>2, <1>3, <1>4, <1>5, <1>6, <1>7, <1>8, <1>9, <1>10, <1>11, <1>12, <1>13
    DEF CrawlNext, OrderlyStep, FaultStep, EngineStep

\* The steps that leave the worker tasks alone.
LEMMA TasksStay ==
    ASSUME \/ StartFails \/ ExtraSchedules \/ FinishSchedule \/ ProducerStep
           \/ ProducerRaises \/ ProducerLooks \/ PassEnds \/ CloseWhileIdle
           \/ IdleEnds \/ CloseWhileBusy \/ ClosedEarlier \/ TaskFailed
           \/ NothingToDo \/ UNCHANGED allVars
           \/ \E w \in Callers : WorkerLooks(w)
    PROVE  UNCHANGED taskVars
  <1>. USE DEF taskVars
  <1>1. CASE ProducerStep \/ ProducerRaises \/ ProducerLooks
    BY <1>1 DEF ProducerStep, ProducerTold, ProducerSchedules, ProducerEnds,
                ProducerCancelled, ProducerRaises, ProducerLooks, loopVars
  <1>2. CASE IdleEnds \/ CloseWhileBusy \/ ClosedEarlier \/ TaskFailed
    BY <1>2 DEF IdleEnds, CloseWhileBusy, ClosedEarlier, TaskFailed, Teardown
  <1>3. CASE StartFails \/ ExtraSchedules \/ FinishSchedule \/ PassEnds \/ CloseWhileIdle
    BY <1>3 DEF StartFails, ExtraSchedules, FinishSchedule, PassEnds, CloseWhileIdle,
                loopVars
  <1>4. CASE \/ NothingToDo \/ UNCHANGED allVars
             \/ \E w \in Callers : WorkerLooks(w)
    BY <1>4 DEF NothingToDo, allVars, WorkerLooks, loopVars
  <1>. QED
    BY <1>1, <1>2, <1>3, <1>4

\* The steps that only move a worker on: to another place, or all of them into a new pass.
Moves(w, state) ==
    /\ pc[w] \in {"asking", "handling", "output"}
    /\ pc' = [pc EXCEPT ![w] = state]
    /\ UNCHANGED <<work, todo, verdict>>
    /\ state = "exited" =>
          pc[w] = "asking" /\ Drained /\ UNCHANGED <<staged, queued, active, inputClosed>>

LEMMA WorkerMoves ==
    ASSUME NEW w \in Callers,
           \/ WorkerToldNone(w) \/ HandlerRaises(w) \/ WorkerScheduleRaises(w)
           \/ CompleteRaises(w) \/ WaitingWorkerCancelled(w) \/ BusyWorkerCancelled(w)
    PROVE  \/ pc' = pc /\ UNCHANGED <<work, todo, verdict>>
           \/ \E state \in {"exited", "failing", "failed"} : Moves(w, state)
  BY DEF WorkerToldNone, TakeAnswer, coordinatorVars, HandlerRaises, WorkerScheduleRaises,
         CompleteRaises, WaitingWorkerCancelled, BusyWorkerCancelled, Fails, Moves

\* All steps of the engine, by what they do to the worker tasks.
LEMMA TaskCases ==
    ASSUME [CrawlNext]_allVars
    PROVE  \/ UNCHANGED taskVars
           \/ StartRun \/ Crash \/ RunEnds \/ IdleKeepsAlive \/ Woke
           \/ \E w \in Callers :
                 \/ WorkerTakes(w) \/ WorkerSchedules(w)
                 \/ CallbackReturns(w) \/ DownloadFails(w) \/ DownloadRetried(w)
                 \/ WorkerCompletes(w) \/ WorkerReleases(w)
                 \/ \E state \in {"exited", "failing", "failed"} : Moves(w, state)
  <1>1. ASSUME NEW w \in Callers, WorkerStep(w) \/ WorkerLooks(w)
        PROVE  \/ UNCHANGED taskVars
               \/ WorkerTakes(w) \/ WorkerSchedules(w) \/ CallbackReturns(w)
               \/ WorkerCompletes(w) \/ WorkerReleases(w)
               \/ \E state \in {"exited", "failing", "failed"} : Moves(w, state)
    BY <1>1, WorkerMoves, TasksStay DEF WorkerStep, taskVars
  <1>2. ASSUME OrderlyStep,
               ~\E w \in Callers : WorkerStep(w) \/ WorkerLooks(w)
        PROVE  UNCHANGED taskVars \/ StartRun \/ RunEnds \/ IdleKeepsAlive \/ Woke
    BY <1>2, TasksStay DEF OrderlyStep, EngineStep
  <1>3. ASSUME NEW w \in Callers,
               HandlerRaises(w) \/ WorkerScheduleRaises(w) \/ CompleteRaises(w)
        PROVE  \/ UNCHANGED taskVars
               \/ \E state \in {"exited", "failing", "failed"} : Moves(w, state)
    BY <1>3, WorkerMoves DEF taskVars
  <1>4. CASE StartFails \/ CloseWhileIdle \/ CloseWhileBusy \/ ProducerRaises
    BY <1>4, TasksStay
  <1>. QED
    BY <1>1, <1>2, <1>3, <1>4, TasksStay DEF CrawlNext, FaultStep

LEMMA TaskVarsStep ==
    /\ TaskVarsOK /\ CrawlVarsOK /\ KnownProper /\ WorkersHaveWork
    /\ [CrawlNext]_allVars
    => TaskVarsOK'
  <1>. SUFFICES ASSUME TaskVarsOK, registered \subseteq Entries, KnownProper,
                       WorkersHaveWork, [CrawlNext]_allVars
                PROVE  TaskVarsOK'
    BY DEF CrawlVarsOK
  <1>. USE DEF TaskVarsOK, WorkerStates, Verdicts
  <1>0. \A S : <<>> \in Seq(S)
    BY EmptySeq
  <1>1. CASE UNCHANGED taskVars
    BY <1>1 DEF taskVars
  <1>2. CASE StartRun
    BY <1>2 DEF StartRun
  <1>3. CASE Crash \/ RunEnds
    <2>1. Forget
      BY <1>3 DEF Crash, RunEnds
    <2>2. todo' \in [Callers -> Seq(RequestShapes)]
      BY <1>0, <2>1 DEF Forget
    <2>. QED
      BY <2>1, <2>2 DEF Forget
  <1>4. CASE IdleKeepsAlive \/ Woke
    BY <1>4 DEF IdleKeepsAlive, Woke, NewPass
  <1>5. ASSUME NEW w \in Callers, WorkerTakes(w) PROVE TaskVarsOK'
    BY <1>5 DEF WorkerTakes
  <1>6. ASSUME NEW w \in Callers, WorkerSchedules(w) PROVE TaskVarsOK'
    <2>1. Tail(todo[w]) \in Seq(RequestShapes)
      BY <1>6, HeadAndTail DEF WorkerSchedules
    <2>. QED
      BY <1>6, <2>1 DEF WorkerSchedules
  <1>7. ASSUME NEW w \in Callers, NEW v \in Verdicts,
               NEW outputs \in Seq(RequestShapes), Handled(w, v, outputs)
        PROVE  TaskVarsOK'
    BY <1>7 DEF Handled
  <1>8. ASSUME NEW w \in Callers, CallbackReturns(w) PROVE TaskVarsOK'
    <2>1. work[w].fp \in Fingerprints
      BY <1>8 DEF CallbackReturns, Handled, WorkersHaveWork, Entries
    <2>2. RequestsTo(Links[work[w].fp]) \in Seq(RequestShapes)
      BY <2>1, RequestsToPages, CrawlAssumption
    <2>. QED
      BY <1>7, <1>8, <2>2 DEF CallbackReturns
  <1>9. ASSUME NEW w \in Callers, DownloadFails(w) PROVE TaskVarsOK'
    BY <1>0, <1>7, <1>9 DEF DownloadFails
  <1>10. ASSUME NEW w \in Callers, DownloadRetried(w) PROVE TaskVarsOK'
    <2>1. work[w] \in Entries /\ work[w] \in Held
      BY <1>10, NoEntryIsNone DEF DownloadRetried, WorkersHaveWork, Held
    <2>2. RetryOf(work[w]) \in RequestShapes
      BY <1>10, <2>1, RetryIsProper DEF DownloadRetried, KnownProper, Known
    <2>3. <<RetryOf(work[w])>> \in Seq(RequestShapes)
      BY <2>2
    <2>. QED
      BY <1>7, <1>10, <2>3 DEF DownloadRetried
  <1>11. ASSUME NEW w \in Callers, WorkerCompletes(w) PROVE TaskVarsOK'
    BY <1>11 DEF WorkerCompletes
  <1>12. ASSUME NEW w \in Callers, WorkerReleases(w) PROVE TaskVarsOK'
    BY <1>0, <1>12 DEF WorkerReleases
  <1>13. ASSUME NEW w \in Callers, NEW state \in WorkerStates, Moves(w, state)
         PROVE  TaskVarsOK'
    BY <1>13 DEF Moves
  <1>. QED
    BY <1>1, <1>2, <1>3, <1>4, <1>5, <1>6, <1>8, <1>9, <1>10, <1>11, <1>12, <1>13, TaskCases

\* All steps of the engine, by what they do to the start producer.
LEMMA ProducerCases ==
    ASSUME [CrawlNext]_allVars
    PROVE  \/ UNCHANGED producerVars
           \/ StartRun \/ Crash \/ RunEnds
           \/ ProducerTold \/ ProducerSchedules \/ ProducerEnds \/ ProducerCancelled
           \/ ProducerRaises
  <1>. USE DEF producerVars
  <1>1. ASSUME NEW w \in Callers, WorkerStep(w) \/ WorkerLooks(w)
        PROVE  UNCHANGED producerVars
    BY <1>1 DEF WorkerStep, WorkerTakes, WorkerToldNone, CallbackReturns, Handled,
                WorkerSchedules, WorkerCompletes, WorkerReleases, WaitingWorkerCancelled,
                BusyWorkerCancelled, Fails, WorkerLooks, loopVars
  <1>2. ASSUME NEW w \in Callers,
               \/ DownloadFails(w) \/ DownloadRetried(w) \/ HandlerRaises(w)
               \/ WorkerScheduleRaises(w) \/ CompleteRaises(w)
        PROVE  UNCHANGED producerVars
    BY <1>2 DEF DownloadFails, DownloadRetried, Handled, HandlerRaises,
                WorkerScheduleRaises, CompleteRaises, Fails
  <1>3. CASE EngineStep /\ ~RunEnds
    BY <1>3 DEF EngineStep, PassEnds, IdleKeepsAlive, Woke, NewPass, IdleEnds,
                ClosedEarlier, TaskFailed, Teardown
  <1>4. CASE StartFails \/ CloseWhileIdle \/ CloseWhileBusy
    BY <1>4 DEF StartFails, CloseWhileIdle, CloseWhileBusy, Teardown
  <1>5. CASE ExtraSchedules \/ FinishSchedule \/ NothingToDo \/ ProducerLooks
               \/ UNCHANGED allVars
    BY <1>5 DEF ExtraSchedules, FinishSchedule, NothingToDo, ProducerLooks, allVars, loopVars
  <1>. QED
    BY <1>1, <1>2, <1>3, <1>4, <1>5 DEF CrawlNext, OrderlyStep, FaultStep, ProducerStep

LEMMA ProducerVarsStep ==
    ProducerVarsOK /\ GrantIsForARequest /\ [CrawlNext]_allVars => ProducerVarsOK'
  <1>. SUFFICES ASSUME ProducerVarsOK, GrantIsForARequest, [CrawlNext]_allVars
                PROVE  ProducerVarsOK'
    OBVIOUS
  <1>. USE DEF ProducerVarsOK, ProducerStates
  <1>0. StartPages \in Seq(Fingerprints) /\ <<>> \in Seq(Fingerprints)
    BY CrawlAssumption, EmptySeq
  <1>1. CASE UNCHANGED producerVars
    BY <1>1 DEF producerVars
  <1>2. CASE StartRun \/ Crash \/ RunEnds
    BY <1>0, <1>2 DEF StartRun, Crash, RunEnds, Forget
  <1>3. CASE ProducerSchedules
    <2>1. Tail(startLeft) \in Seq(Fingerprints)
      BY <1>3, HeadAndTail DEF ProducerSchedules, GrantIsForARequest
    <2>. QED
      BY <1>3, <2>1 DEF ProducerSchedules
  <1>4. CASE ProducerTold \/ ProducerEnds \/ ProducerCancelled \/ ProducerRaises
    BY <1>4 DEF ProducerTold, ProducerEnds, ProducerCancelled, ProducerRaises
  <1>. QED
    BY <1>1, <1>2, <1>3, <1>4, ProducerCases

\* All steps of the engine, by what they do to the history and to the coming failures.
LEMMA EnvCases ==
    ASSUME [CrawlNext]_allVars
    PROVE  \/ UNCHANGED envVars
           \/ UNCHANGED historyVars /\ \E kind \in FaultKinds : Strikes(kind)
           \/ StartRun \/ ExtraSchedules \/ IdleKeepsAlive \/ ProducerSchedules
           \/ \E w \in Callers : WorkerCompletes(w) \/ WorkerSchedules(w)
  <1>. USE DEF envVars, historyVars, Orderly
  <1>1. ASSUME NEW w \in Callers, WorkerStep(w) \/ WorkerLooks(w),
               ~WorkerCompletes(w), ~WorkerSchedules(w)
        PROVE  UNCHANGED envVars
    BY <1>1 DEF WorkerStep, WorkerTakes, WorkerToldNone, CallbackReturns, Handled,
                WorkerReleases, WaitingWorkerCancelled,
                BusyWorkerCancelled, Fails, WorkerLooks
  <1>2. ASSUME FaultStep
        PROVE  UNCHANGED historyVars /\ \E kind \in FaultKinds : Strikes(kind)
    <2>. USE DEF FaultKinds
    <2>1. CASE StartFails \/ Crash \/ CloseWhileIdle \/ CloseWhileBusy
      BY <2>1 DEF StartFails, Crash, CloseWhileIdle, CloseWhileBusy, Teardown
    <2>2. CASE ProducerRaises
      BY <2>2 DEF ProducerRaises, ScheduleRaises
    <2>3. ASSUME NEW w \in Callers,
                 \/ DownloadFails(w) \/ DownloadRetried(w) \/ HandlerRaises(w)
                 \/ WorkerScheduleRaises(w) \/ CompleteRaises(w)
          PROVE  UNCHANGED historyVars /\ \E kind \in FaultKinds : Strikes(kind)
      BY <2>3 DEF DownloadFails, DownloadRetried, Handled, HandlerRaises,
                  WorkerScheduleRaises, ScheduleRaises, CompleteRaises, Fails
    <2>. QED
      BY <1>2, <2>1, <2>2, <2>3 DEF FaultStep
  <1>3. CASE EngineStep /\ ~IdleKeepsAlive
    BY <1>3 DEF EngineStep, PassEnds, Woke, IdleEnds, ClosedEarlier, TaskFailed, Teardown,
                RunEnds
  <1>4. CASE (ProducerStep /\ ~ProducerSchedules) \/ ProducerLooks
    BY <1>4 DEF ProducerStep, ProducerTold, ProducerEnds, ProducerCancelled, ProducerLooks
  <1>5. CASE FinishSchedule \/ NothingToDo \/ UNCHANGED allVars
    BY <1>5 DEF FinishSchedule, NothingToDo, allVars
  <1>. QED
    BY <1>1, <1>2, <1>3, <1>4, <1>5 DEF CrawlNext, OrderlyStep

LEMMA EnvVarsStep ==
    CrawlTypeOK /\ GrantIsForARequest /\ WorkersHaveWork /\ [CrawlNext]_allVars => EnvVarsOK'
  <1>. SUFFICES ASSUME CrawlTypeOK, GrantIsForARequest, WorkersHaveWork, [CrawlNext]_allVars
                PROVE  EnvVarsOK'
    OBVIOUS
  <1>0. EnvVarsOK
    BY DEF CrawlTypeOK
  <1>. USE <1>0 DEF EnvVarsOK, envVars, historyVars
  <1>1. CASE UNCHANGED envVars
    BY <1>1
  <1>2. ASSUME NEW kind \in FaultKinds, Strikes(kind), UNCHANGED historyVars
        PROVE  EnvVarsOK'
    BY <1>2 DEF Strikes
  <1>3. CASE StartRun \/ IdleKeepsAlive
    BY <1>3 DEF StartRun, IdleKeepsAlive
  <1>a. ASSUME NEW r, r.fp \in Fingerprints, TrySchedule(r)
        PROVE  asked' \in SUBSET Fingerprints
    BY <1>a DEF TrySchedule
  <1>4. CASE ExtraSchedules
    <2>1. PICK x \in extrasLeft : TrySchedule(RequestOf(x, FALSE))
      BY <1>4 DEF ExtraSchedules
    <2>2. RequestOf(x, FALSE).fp \in Fingerprints
      BY CrawlAssumption DEF RequestOf
    <2>. QED
      BY <1>4, <1>a, <2>1, <2>2 DEF ExtraSchedules
  <1>6. CASE ProducerSchedules
    <2>1. Head(startLeft) \in Fingerprints
      <3>1. startLeft # <<>> /\ startLeft \in Seq(Fingerprints)
        BY <1>6 DEF ProducerSchedules, GrantIsForARequest, CrawlTypeOK, ProducerVarsOK
      <3>. QED
        BY <3>1, HeadAndTail
    <2>2. RequestOf(Head(startLeft), TRUE).fp \in Fingerprints
      BY <2>1 DEF RequestOf
    <2>3. asked' \in SUBSET Fingerprints
      BY <1>6, <1>a, <2>2 DEF ProducerSchedules
    <2>. QED
      BY <1>6, <2>3 DEF ProducerSchedules
  <1>7. ASSUME NEW w \in Callers, WorkerSchedules(w) PROVE EnvVarsOK'
    <2>1. todo[w] # <<>> /\ todo[w] \in Seq(RequestShapes)
      BY <1>7 DEF WorkerSchedules, CrawlTypeOK, TaskVarsOK
    <2>2. Head(todo[w]).fp \in Fingerprints
      <3>1. Head(todo[w]) \in RequestShapes
        BY <2>1, HeadAndTail
      <3>. QED
        BY <3>1 DEF RequestShapes
    <2>3. TrySchedule(Head(todo[w]))
      BY <1>7 DEF WorkerSchedules
    <2>4. asked' \in SUBSET Fingerprints
      BY <1>a, <2>2, <2>3
    <2>. QED
      BY <1>7, <2>4 DEF WorkerSchedules
  <1>5. ASSUME NEW w \in Callers, WorkerCompletes(w) PROVE EnvVarsOK'
    <2>1. work[w].fp \in Fingerprints
      BY <1>5 DEF WorkerCompletes, WorkersHaveWork, Entries
    <2>. QED
      BY <1>5, <2>1 DEF WorkerCompletes
  <1>. QED
    BY <1>1, <1>2, <1>3, <1>4, <1>5, <1>6, <1>7, EnvCases

LEMMA CrawlTypeStep ==
    /\ CrawlTypeOK /\ TypeOK' /\ KnownProper /\ GrantIsForARequest /\ WorkersHaveWork
    /\ [CrawlNext]_allVars
    => CrawlTypeOK'
  BY CrawlVarsStep, TaskVarsStep, ProducerVarsStep, EnvVarsStep DEF CrawlTypeOK

-----------------------------------------------------------------------------

\* Steps that add nothing: requests may leave memory, numbers may be spent, workers may
\* stop what they do, and a process stays up or stays away.
Settles ==
    /\ UNCHANGED <<rows, fps, seen, up, registered, work, todo, verdict>>
    /\ UNCHANGED <<asked, handled, gaveUp>>
    /\ staged' \subseteq staged /\ queued' \subseteq queued
    /\ nextId' \in {nextId, nextId + 1}
    /\ \A w \in Callers : pc'[w] \in {"handling", "output"} => pc'[w] = pc[w]
    /\ phase \in {"down", "ended"} <=> phase' \in {"down", "ended"}

LEMMA QuietSteps ==
    ASSUME UNCHANGED <<registered, asked, handled, gaveUp, work, todo, verdict>>,
           \A w \in Callers : pc'[w] \in {"handling", "output"} => pc'[w] = pc[w],
           phase \in {"down", "ended"} <=> phase' \in {"down", "ended"},
           \/ UNCHANGED vars \/ Abort \/ CloseInput \/ TakeSlot \/ AnswerSlot
           \/ SleepForSlot
           \/ \E e : ScheduleFails(e)
           \/ \E w \in Callers :
                 \/ PopRequest(w) \/ AnswerNone(w) \/ Sleep(w)
                 \/ TakeAnswer(w) \/ CancelCall(w)
           \/ \E id : Release(id)
    PROVE  Settles
  <1>1. CASE UNCHANGED vars
    BY <1>1 DEF Settles, vars, storeVars, coordinatorVars
  <1>2. CASE Abort \/ CloseInput
    BY <1>2 DEF Settles, Abort, CloseInput, storeVars
  <1>3. CASE TakeSlot \/ AnswerSlot \/ SleepForSlot
    BY <1>3 DEF Settles, TakeSlot, AnswerSlot, SleepForSlot, storeVars, coordinatorVars
  <1>4. ASSUME NEW e, ScheduleFails(e) PROVE Settles
    BY <1>4 DEF Settles, ScheduleFails, storeVars
  <1>5. ASSUME NEW w \in Callers, PopRequest(w) \/ AnswerNone(w) PROVE Settles
    BY <1>5 DEF Settles, PopRequest, AnswerNone, storeVars
  <1>6. ASSUME NEW w \in Callers, Sleep(w) \/ TakeAnswer(w) \/ CancelCall(w)
        PROVE  Settles
    BY <1>6 DEF Settles, Sleep, TakeAnswer, CancelCall, storeVars, coordinatorVars
  <1>7. ASSUME NEW id, Release(id) PROVE Settles
    BY <1>7 DEF Settles, Release, storeVars
  <1>. QED
    BY <1>1, <1>2, <1>3, <1>4, <1>5, <1>6, <1>7

\* All steps of the engine, by what they do to the requests that are somewhere.
LEMMA BookCases ==
    ASSUME TaskVarsOK, [CrawlNext]_allVars
    PROVE  \/ Settles
           \/ StartRun \/ StartFails \/ Crash \/ RunEnds
           \/ ExtraSchedules \/ ProducerSchedules \/ FinishSchedule
           \/ \E w \in Callers :
                 \/ WorkerSchedules(w) \/ WorkerTakes(w)
                 \/ CallbackReturns(w) \/ DownloadFails(w) \/ DownloadRetried(w)
                 \/ WorkerCompletes(w) \/ WorkerReleases(w)
  <1>1. ASSUME NEW w \in Callers,
               \/ WorkerToldNone(w) \/ HandlerRaises(w) \/ WorkerScheduleRaises(w)
               \/ CompleteRaises(w) \/ WaitingWorkerCancelled(w) \/ BusyWorkerCancelled(w)
        PROVE  Settles
    <2>1. \A v \in Callers : pc'[v] \in {"handling", "output"} => pc'[v] = pc[v]
      BY <1>1, WorkerMoves DEF Moves, TaskVarsOK
    <2>2. UNCHANGED <<registered, asked, handled, gaveUp, work, todo, verdict, phase>>
      BY <1>1 DEF WorkerToldNone, HandlerRaises, WorkerScheduleRaises, CompleteRaises,
                  WaitingWorkerCancelled, BusyWorkerCancelled, Fails, crawlVars, envVars,
                  historyVars
    <2>3. \/ UNCHANGED vars \/ TakeAnswer(w) \/ CancelCall(w) \/ \E e : ScheduleFails(e)
      BY <1>1 DEF WorkerToldNone, HandlerRaises, WorkerScheduleRaises, CompleteRaises,
                  WaitingWorkerCancelled, BusyWorkerCancelled, ScheduleRaises
    <2>. QED
      BY <2>1, <2>2, <2>3, QuietSteps
  <1>2. ASSUME NEW w \in Callers, WorkerLooks(w) PROVE Settles
    BY <1>2, QuietSteps DEF WorkerLooks, loopVars, envVars, historyVars
  <1>3. CASE ProducerTold \/ ProducerEnds \/ ProducerCancelled \/ ProducerLooks
    BY <1>3, QuietSteps DEF ProducerTold, ProducerEnds, ProducerCancelled, ProducerLooks,
                loopVars, crawlVars, taskVars, envVars, historyVars
  <1>4. CASE ProducerRaises
    BY <1>4, QuietSteps DEF ProducerRaises, ScheduleRaises, crawlVars, taskVars, historyVars
  <1>5. CASE PassEnds \/ CloseWhileIdle
    BY <1>5, QuietSteps DEF PassEnds, CloseWhileIdle, taskVars, envVars, historyVars
  <1>6. CASE IdleKeepsAlive \/ Woke
    BY <1>6, QuietSteps DEF IdleKeepsAlive, Woke, NewPass, envVars, historyVars
  <1>7. CASE IdleEnds \/ CloseWhileBusy \/ ClosedEarlier \/ TaskFailed
    BY <1>7, QuietSteps DEF IdleEnds, CloseWhileBusy, ClosedEarlier, TaskFailed, Teardown,
                taskVars, historyVars
  <1>8. CASE NothingToDo \/ UNCHANGED allVars
    BY <1>8, QuietSteps DEF NothingToDo, allVars, loopVars, envVars, historyVars
  <1>. QED
    BY <1>1, <1>2, <1>3, <1>4, <1>5, <1>6, <1>7, <1>8
    DEF CrawlNext, OrderlyStep, FaultStep, WorkerStep, ProducerStep, EngineStep

-----------------------------------------------------------------------------

\* What a step that schedules does: nothing, or it accepts a request.
Accepted(e) ==
    /\ e \in Acceptable /\ Proper(e) /\ e.id = nextId /\ e.fp \notin Rejected
    /\ AtWork /\ Schedule(e) /\ asked' = asked \cup {e.fp}
    /\ UNCHANGED <<registered, pc, work, verdict, phase, handled, gaveUp>>

LEMMA ExtraAccepted ==
    ASSUME CrawlTypeOK, ExtraSchedules
    PROVE  /\ UNCHANGED todo
           /\ \/ UNCHANGED <<vars, registered, pc, work, verdict, phase, asked, handled, gaveUp>>
              \/ \E e : Accepted(e) /\ FirstAttempt(e) /\ e.fp \in Extras /\ ~e.start
  <1>1. PICK x \in extrasLeft : TrySchedule(RequestOf(x, FALSE))
    BY DEF ExtraSchedules
  <1>2. x \in Fingerprints /\ x \in Extras /\ nextId \in Nat
    BY CrawlAssumption DEF CrawlTypeOK, EnvVarsOK, TypeOK
  <1>. DEFINE e == Numbered(RequestOf(x, FALSE), nextId)
  <1>3. e \in Acceptable /\ Proper(e)
    BY <1>2, RequestIsProper, NumberedIsAcceptable
  <1>4. e.id = nextId /\ FirstAttempt(e) /\ e.fp = x /\ ~e.start
    BY DEF Numbered, RequestOf, FirstAttempt
  <1>5. AtWork /\ UNCHANGED <<registered, pc, work, todo, verdict, phase, handled, gaveUp>>
    BY DEF ExtraSchedules, loopVars, AtWork
  <1>6. CASE Refused(RequestOf(x, FALSE))
    BY <1>1, <1>5, <1>6 DEF TrySchedule
  <1>7. CASE ~Refused(RequestOf(x, FALSE))
    BY <1>1, <1>2, <1>3, <1>4, <1>5, <1>7 DEF TrySchedule, Refused, Accepted, RequestOf
  <1>. QED
    BY <1>5, <1>6, <1>7

LEMMA StartAccepted ==
    ASSUME CrawlTypeOK, GrantIsForARequest, ProducerSchedules
    PROVE  /\ UNCHANGED todo
           /\ \/ /\ UNCHANGED <<vars, registered, pc, work, verdict, phase, asked, handled, gaveUp>>
                 /\ Head(startLeft) \in Rejected \cup seen
              \/ \E e : Accepted(e) /\ FirstAttempt(e) /\ e.fp = Head(startLeft)
  <1>. DEFINE r == RequestOf(Head(startLeft), TRUE)
              e == Numbered(r, nextId)
  <1>1. TrySchedule(r) /\ startLeft # <<>> /\ nextId \in Nat
    BY DEF ProducerSchedules, GrantIsForARequest, CrawlTypeOK, TypeOK
  <1>2. e \in Acceptable /\ Proper(e)
    BY <1>1, StartHeadIsProper, NumberedIsAcceptable
  <1>3. /\ e.id = nextId /\ FirstAttempt(e) /\ e.fp = Head(startLeft)
        /\ e.filter = r.filter
    BY DEF Numbered, RequestOf, FirstAttempt
  <1>4. AtWork /\ UNCHANGED <<registered, pc, work, todo, verdict, phase, handled, gaveUp>>
    BY DEF ProducerSchedules, crawlVars, taskVars, envVars, historyVars, AtWork
  <1>5. r.fp = Head(startLeft)
    BY DEF RequestOf
  <1>. HIDE DEF r
  <1>6. CASE Refused(r)
    BY <1>1, <1>4, <1>5, <1>6 DEF TrySchedule, Refused
  <1>7. CASE ~Refused(r)
    BY <1>1, <1>2, <1>3, <1>4, <1>5, <1>7 DEF TrySchedule, Refused, Accepted
  <1>. QED
    BY <1>4, <1>6, <1>7

LEMMA OutputAccepted ==
    ASSUME CrawlTypeOK, TodoProper, NEW w \in Callers, WorkerSchedules(w)
    PROVE  /\ todo[w] # <<>> /\ todo' = [todo EXCEPT ![w] = Tail(@)]
           /\ pc[w] = "output"
           /\ \/ /\ UNCHANGED <<vars, registered, pc, work, verdict, phase, asked, handled, gaveUp>>
                 /\ \/ Head(todo[w]).fp \in Rejected
                    \/ Head(todo[w]).filter /\ Head(todo[w]).fp \in seen
              \/ \E e : /\ Accepted(e)
                       /\ e.filter = Head(todo[w]).filter
                       /\ e.priority = Head(todo[w]).priority
                       /\ e.fp = Head(todo[w]).fp
                       /\ e.start = Head(todo[w]).start
  <1>. DEFINE r == Head(todo[w])
              e == Numbered(r, nextId)
  <1>1. TrySchedule(r) /\ todo[w] # <<>> /\ nextId \in Nat
    BY DEF WorkerSchedules, CrawlTypeOK, TypeOK
  <1>2. e \in Acceptable /\ Proper(e)
    BY <1>1, TodoHeadIsProper, NumberedIsAcceptable
  <1>3. /\ e.id = nextId /\ e.filter = r.filter /\ e.priority = r.priority
        /\ e.fp = r.fp /\ e.start = r.start
    BY DEF Numbered
  <1>4. /\ UNCHANGED <<registered, pc, work, verdict, phase, handled, gaveUp>>
        /\ todo' = [todo EXCEPT ![w] = Tail(@)] /\ pc[w] = "output" /\ AtWork
    BY DEF WorkerSchedules, crawlVars, envVars, historyVars, AtWork
  <1>. HIDE DEF r
  <1>5. CASE Refused(r)
    BY <1>1, <1>4, <1>5 DEF TrySchedule, Refused, r
  <1>6. CASE ~Refused(r)
    <2>1. Accepted(e)
      BY <1>1, <1>2, <1>3, <1>4, <1>6 DEF TrySchedule, Refused, Accepted
    <2>. QED
      BY <1>1, <1>3, <1>4, <2>1 DEF r
  <1>. QED
    BY <1>5, <1>6

\* An accepted request joins those that are somewhere, under a number of its own.
LEMMA AcceptedIsKnown ==
    ASSUME NEW e, Accepted(e)
    PROVE  /\ up /\ up' /\ staged' = staged \cup {e} /\ queued' = queued
           /\ nextId' = nextId + 1
           /\ Known' \subseteq Known \cup {e}
           /\ rows \subseteq rows' /\ rows' \subseteq rows \cup {e} /\ fps \subseteq fps'
           /\ asked' = asked \cup {e.fp}
           /\ Held' = Held
           /\ Persistent => /\ e.filter => e.fp \in fps'
                            /\ e.persistent => e \in rows'
                            /\ fps' \subseteq fps \cup {e.fp}
                            /\ e.filter => e.fp \notin seen
                            /\ ~e.filter => fps' = fps
                            /\ e.persistent \/ rows' = rows
  BY DEF Accepted, Schedule, Accepts, StoreSchedule, storeVars, Known, Held

\* The three tasks that schedule requests: each accepts one, or is refused.
Schedules ==
    ExtraSchedules \/ ProducerSchedules \/ \E w \in Callers : WorkerSchedules(w)

LEMMA ScheduleCases ==
    ASSUME CrawlTypeOK, TodoProper, GrantIsForARequest, Schedules
    PROVE  \/ UNCHANGED <<vars, registered, pc, work, verdict, phase, asked, handled, gaveUp>>
           \/ \E e : Accepted(e)
  BY ExtraAccepted, StartAccepted, OutputAccepted DEF Schedules

LEMMA HeldChanges ==
    ASSUME work \in [Callers -> Entries \cup {NoEntry}], NEW w \in Callers, NEW e,
           work' = [work EXCEPT ![w] = e]
    PROVE  Held' \subseteq Held \cup ({e} \ {NoEntry})
  BY DEF Held

\* All other steps that touch the requests.
Keeps ==
    \/ Settles \/ StartRun \/ StartFails \/ Crash \/ RunEnds \/ FinishSchedule
    \/ \E w \in Callers :
          \/ WorkerTakes(w) \/ CallbackReturns(w) \/ DownloadFails(w) \/ DownloadRetried(w)
          \/ WorkerCompletes(w) \/ WorkerReleases(w)

LEMMA KeepsOrSchedules ==
    ASSUME CrawlTypeOK, [CrawlNext]_allVars
    PROVE  Keeps \/ Schedules
  BY BookCases DEF Keeps, Schedules, CrawlTypeOK

\* What they do to the set of known requests.
LEMMA KeepsKnown ==
    ASSUME CrawlTypeOK, UpOrGone, Keeps
    PROVE  /\ Known' \subseteq Known
           /\ \/ up /\ nextId' \in {nextId, nextId + 1}
              \/ ~up'
              \/ (\A e \in rows : e.id < nextId') /\ Known' \subseteq rows
  <1>. DEFINE Stays == /\ Known' \subseteq Known
                       /\ \/ up /\ nextId' \in {nextId, nextId + 1}
                          \/ ~up'
                          \/ (\A e \in rows : e.id < nextId') /\ Known' \subseteq rows
  <1>0. nextId \in Nat /\ rows \subseteq Entries
        /\ work \in [Callers -> Entries \cup {NoEntry}]
    BY DEF CrawlTypeOK, TypeOK, TaskVarsOK
  <1>1. CASE Settles
    <2>1. Known' \subseteq Known
      BY <1>1 DEF Settles, Known, Held
    <2>2. (up /\ nextId' \in {nextId, nextId + 1}) \/ ~up'
      BY <1>0, <1>1 DEF Settles
    <2>. QED
      BY <2>1, <2>2
  <1>2. CASE StartRun
    <2>1. ~up /\ rows' = rows /\ registered' = rows /\ staged' = {} /\ queued' = rows
      BY <1>2 DEF StartRun, Open, Volatile
    <2>2. PICK n \in FirstFreeIds : nextId' = n
      BY <1>2 DEF StartRun, Open, Volatile
    <2>3. \A e \in rows : e.id < nextId'
      BY <1>0, <2>2, FirstFreeIdIsFresh
    <2>4. Held' = {}
      BY <1>2, <2>1 DEF StartRun, UpOrGone, Held
    <2>. QED
      BY <2>1, <2>3, <2>4 DEF Known
  <1>3. CASE StartFails
    <2>1. UNCHANGED <<rows, staged, queued, registered, work, up>> /\ ~up
      BY <1>3 DEF StartFails, UpOrGone, taskVars, coordinatorVars
    <2>. QED
      BY <2>1 DEF Known, Held
  <1>4. CASE Crash \/ RunEnds
    <2>1. rows' = rows /\ registered' = {} /\ staged' = {} /\ queued' = {} /\ ~up'
      BY <1>4 DEF Crash, RunEnds, Forget, Leave, Volatile, storeVars
    <2>2. Held' = {}
      BY <1>4 DEF Crash, RunEnds, Forget, Held
    <2>. QED
      BY <2>1, <2>2 DEF Known
  <1>5. CASE FinishSchedule
    <2>1. PICK e \in staged : Activate(e) /\ registered' = registered \cup {e}
      BY <1>5 DEF FinishSchedule
    <2>2. /\ rows' = rows /\ queued' = queued \cup {e} /\ staged' = staged \ {e}
          /\ up /\ nextId' = nextId /\ work' = work
      BY <1>5, <2>1 DEF FinishSchedule, Activate, storeVars, taskVars
    <2>. QED
      BY <1>0, <2>1, <2>2 DEF Known, Held
  <1>6. ASSUME NEW w \in Callers, WorkerTakes(w) PROVE Stays
    <2>1. PICK e \in registered :
            registered' = registered \ {e} /\ work' = [work EXCEPT ![w] = e]
      BY <1>6 DEF WorkerTakes
    <2>2. UNCHANGED <<rows, staged, queued, nextId>> /\ up
      BY <1>6 DEF WorkerTakes, TakeAnswer, LoopFree, storeVars, coordinatorVars
    <2>3. Held' \subseteq Held \cup {e}
      BY <1>0, <2>1, HeldChanges
    <2>. QED
      BY <1>0, <2>1, <2>2, <2>3 DEF Known
  <1>7. ASSUME NEW w \in Callers,
               CallbackReturns(w) \/ DownloadFails(w) \/ DownloadRetried(w)
        PROVE  Stays
    <2>1. UNCHANGED <<rows, staged, queued, nextId, registered, work>> /\ up
      BY <1>7 DEF CallbackReturns, DownloadFails, DownloadRetried, Handled, LoopFree,
                  vars, storeVars, coordinatorVars, crawlVars
    <2>. QED
      BY <1>0, <2>1 DEF Known, Held
  <1>8. ASSUME NEW w \in Callers, WorkerCompletes(w) \/ WorkerReleases(w) PROVE Stays
    <2>1. /\ UNCHANGED <<staged, queued, nextId, registered>> /\ rows' \subseteq rows /\ up
          /\ work' = [work EXCEPT ![w] = NoEntry]
      BY <1>8 DEF WorkerCompletes, WorkerReleases, Complete, Release, StoreComplete,
                  storeVars, crawlVars
    <2>2. Held' \subseteq Held
      BY <1>0, <2>1, HeldChanges
    <2>. QED
      BY <1>0, <2>1, <2>2 DEF Known
  <1>. QED
    BY <1>1, <1>2, <1>3, <1>4, <1>5, <1>6, <1>7, <1>8 DEF Keeps

LEMMA RefusedKeepsKnown ==
    ASSUME UNCHANGED <<vars, registered, pc, work, verdict, phase, asked, handled, gaveUp>>
    PROVE  /\ UNCHANGED <<rows, fps, asked, handled, gaveUp, nextId>>
           /\ UNCHANGED <<up, staged, registered, work>>
           /\ Known' = Known
  <1>1. UNCHANGED <<rows, fps, staged, queued, nextId, registered, work, up>>
    BY DEF vars, storeVars, coordinatorVars
  <1>. QED
    BY <1>1 DEF Known, Held

LEMMA KnownProperStep ==
    ASSUME CrawlTypeOK, TodoProper, GrantIsForARequest, UpOrGone, KnownProper,
           [CrawlNext]_allVars
    PROVE  KnownProper'
  <1>1. CASE Known' \subseteq Known
    BY <1>1 DEF KnownProper, Proper
  <1>2. ASSUME NEW e, Accepted(e) PROVE KnownProper'
    BY <1>2, AcceptedIsKnown DEF KnownProper, Proper, Accepted
  <1>. QED
    BY <1>1, <1>2, KeepsOrSchedules, KeepsKnown, ScheduleCases, RefusedKeepsKnown

\* New requests get numbers above all others, also above those of the stored requests that
\* a new process starts with.
LEMMA OneNameStep ==
    ASSUME CrawlTypeOK, TodoProper, GrantIsForARequest, UpOrGone, OneName,
           [CrawlNext]_allVars
    PROVE  OneName'
  <1>1. Known \subseteq Entries \cup {NoEntry} /\ nextId \in Nat /\ NoEntry \notin Known
    BY NoEntryIsNone DEF CrawlTypeOK, TypeOK, CrawlVarsOK, TaskVarsOK, Known, Held
  <1>2. \A e \in Known : e.id \in Nat
    BY <1>1 DEF Entries
  <1>3. CASE Known' \subseteq Known /\ up /\ nextId' \in {nextId, nextId + 1}
    BY <1>1, <1>2, <1>3 DEF OneName
  <1>4. CASE Known' \subseteq Known /\ ~up'
    BY <1>4 DEF OneName
  <1>5. CASE Known' \subseteq Known /\ Known' \subseteq rows /\ \A e \in rows : e.id < nextId'
    BY <1>5 DEF OneName
  <1>6. ASSUME NEW e, Accepted(e) PROVE OneName'
    <2>1. up /\ nextId' = nextId + 1 /\ Known' \subseteq Known \cup {e} /\ e.id = nextId
      BY <1>6, AcceptedIsKnown DEF Accepted
    <2>2. \A f \in Known : f.id < nextId /\ f.id # e.id
      BY <1>1, <1>2, <2>1 DEF OneName
    <2>3. \A f \in Known' : f.id < nextId'
      BY <1>1, <1>2, <2>1, <2>2
    <2>. QED
      BY <2>1, <2>2, <2>3 DEF OneName
  <1>7. CASE Schedules
    BY <1>3, <1>4, <1>6, <1>7, ScheduleCases, RefusedKeepsKnown
  <1>. QED
    BY <1>3, <1>4, <1>5, <1>7, KeepsOrSchedules, KeepsKnown

LEMMA UpOrGoneStep ==
    ASSUME CrawlTypeOK, TodoProper, GrantIsForARequest, UpOrGone, [CrawlNext]_allVars
    PROVE  UpOrGone'
  <1>1. CASE Settles
    BY <1>1 DEF Settles, UpOrGone
  <1>2. CASE StartRun
    BY <1>2 DEF StartRun, Open, Volatile, UpOrGone
  <1>3. CASE StartFails
    BY <1>3 DEF StartFails, UpOrGone, taskVars, coordinatorVars
  <1>4. CASE Crash \/ RunEnds
    BY <1>4 DEF Crash, RunEnds, Forget, Leave, Volatile, UpOrGone
  <1>5. CASE UNCHANGED phase /\ up /\ up'
    BY <1>5 DEF UpOrGone
  <1>6. CASE Schedules
    <2>1. CASE UNCHANGED <<vars, registered, pc, work, verdict, phase, asked, handled, gaveUp>>
      BY <2>1 DEF UpOrGone, vars, coordinatorVars
    <2>2. ASSUME NEW e, Accepted(e) PROVE UNCHANGED phase /\ up /\ up'
      BY <2>2, AcceptedIsKnown DEF Accepted
    <2>. QED
      BY <1>5, <1>6, <2>1, <2>2, ScheduleCases
  <1>7. CASE FinishSchedule
    BY <1>5, <1>7 DEF FinishSchedule, Activate
  <1>8. ASSUME NEW w \in Callers,
               \/ WorkerTakes(w) \/ CallbackReturns(w) \/ DownloadFails(w)
               \/ DownloadRetried(w) \/ WorkerCompletes(w) \/ WorkerReleases(w)
        PROVE  UNCHANGED phase /\ up /\ up'
    BY <1>8 DEF WorkerTakes, TakeAnswer, LoopFree, CallbackReturns, DownloadFails,
                DownloadRetried, Handled, WorkerCompletes, WorkerReleases, Complete,
                Release, coordinatorVars, vars, crawlVars
  <1>9. TaskVarsOK
    BY DEF CrawlTypeOK
  <1>. QED
    BY <1>1, <1>2, <1>3, <1>4, <1>5, <1>6, <1>7, <1>8, <1>9, BookCases DEF Schedules

LEMMA WorkersHaveWorkStep ==
    ASSUME CrawlTypeOK, TodoProper, GrantIsForARequest, WorkersHaveWork,
           [CrawlNext]_allVars
    PROVE  WorkersHaveWork'
  <1>0. /\ pc \in [Callers -> WorkerStates] /\ work \in [Callers -> Entries \cup {NoEntry}]
        /\ registered \subseteq Entries
    BY DEF CrawlTypeOK, TaskVarsOK, CrawlVarsOK
  <1>1. CASE Settles
    BY <1>1 DEF Settles, WorkersHaveWork
  <1>2. CASE StartRun \/ Crash \/ RunEnds
    BY <1>2 DEF StartRun, Crash, RunEnds, Forget, WorkersHaveWork
  <1>3. CASE StartFails \/ FinishSchedule
    BY <1>3 DEF StartFails, FinishSchedule, taskVars, WorkersHaveWork
  <1>4. CASE Schedules
    <2>1. UNCHANGED <<pc, work>>
      BY <1>4, ScheduleCases DEF Accepted
    <2>. QED
      BY <2>1 DEF WorkersHaveWork
  <1>5. ASSUME NEW w \in Callers, WorkerTakes(w) PROVE WorkersHaveWork'
    BY <1>0, <1>5 DEF WorkerTakes, WorkersHaveWork
  <1>6. ASSUME NEW w \in Callers,
               CallbackReturns(w) \/ DownloadFails(w) \/ DownloadRetried(w)
        PROVE  WorkersHaveWork'
    BY <1>0, <1>6 DEF CallbackReturns, DownloadFails, DownloadRetried, Handled,
                      WorkersHaveWork
  <1>7. ASSUME NEW w \in Callers, WorkerCompletes(w) \/ WorkerReleases(w)
        PROVE  WorkersHaveWork'
    BY <1>0, <1>7 DEF WorkerCompletes, WorkerReleases, WorkersHaveWork
  <1>9. TaskVarsOK
    BY DEF CrawlTypeOK
  <1>. QED
    BY <1>1, <1>2, <1>3, <1>4, <1>5, <1>6, <1>7, <1>9, BookCases DEF Schedules

\* Only the producer's look at the coordinator begins a wait for a slot.
LEMMA SlotStaysFree ==
    ASSUME slotCall = "free", UpOrGone, [CrawlNext]_allVars, ~ProducerLooks
    PROVE  slotCall' = "free"
  <1>. USE DEF vars, callVars, Woken
  <1>1. CASE StartRun \/ Crash \/ RunEnds
    BY <1>1 DEF StartRun, Open, Crash, RunEnds, Leave, Volatile
  <1>2. CASE StartFails
    BY <1>2 DEF StartFails
  <1>3. ASSUME NEW r, TrySchedule(r) \/ ScheduleRaises(r) PROVE slotCall' = "free"
    BY <1>3 DEF TrySchedule, ScheduleRaises, Schedule, ScheduleFails
  <1>4. CASE Schedules
    BY <1>3, <1>4 DEF Schedules, ExtraSchedules, ProducerSchedules, WorkerSchedules
  <1>5. CASE ProducerTold \/ ProducerEnds \/ ProducerCancelled \/ ProducerRaises
    BY <1>3, <1>5 DEF ProducerTold, TakeSlot, ProducerEnds, CloseInput, NotifyWaiters,
                      ProducerCancelled, ProducerRaises
  <1>6. CASE FinishSchedule
    BY <1>6 DEF FinishSchedule, Activate, NotifyWaiters
  <1>7. CASE \/ PassEnds \/ IdleKeepsAlive \/ Woke \/ CloseWhileIdle
             \/ NothingToDo \/ UNCHANGED allVars
    BY <1>7 DEF PassEnds, IdleKeepsAlive, Woke, CloseWhileIdle, NothingToDo, allVars
  <1>8. CASE IdleEnds \/ ClosedEarlier \/ CloseWhileBusy \/ TaskFailed
    BY <1>8 DEF IdleEnds, ClosedEarlier, CloseWhileBusy, TaskFailed, Teardown, Abort,
                NotifyWaiters
  <1>9. ASSUME NEW w \in Callers, WorkerLooks(w) PROVE slotCall' = "free"
    BY <1>9 DEF WorkerLooks, PopRequest, AnswerNone, Sleep
  <1>10. ASSUME NEW w \in Callers, WorkerTakes(w) \/ WorkerToldNone(w)
         PROVE  slotCall' = "free"
    BY <1>10 DEF WorkerTakes, WorkerToldNone, TakeAnswer
  <1>11. ASSUME NEW w \in Callers,
                CallbackReturns(w) \/ DownloadFails(w) \/ DownloadRetried(w)
         PROVE  slotCall' = "free"
    BY <1>11 DEF CallbackReturns, DownloadFails, DownloadRetried, Handled
  <1>12. ASSUME NEW w \in Callers, WorkerCompletes(w) \/ WorkerReleases(w)
         PROVE  slotCall' = "free"
    BY <1>12 DEF WorkerCompletes, WorkerReleases, Complete, Release, NotifyWaiters
  <1>13. ASSUME NEW w \in Callers,
                \/ WaitingWorkerCancelled(w) \/ BusyWorkerCancelled(w)
                \/ HandlerRaises(w) \/ WorkerScheduleRaises(w) \/ CompleteRaises(w)
         PROVE  slotCall' = "free"
    BY <1>3, <1>13 DEF WaitingWorkerCancelled, CancelCall, BusyWorkerCancelled,
                       HandlerRaises, WorkerScheduleRaises, CompleteRaises
  <1>. QED
    BY <1>1, <1>2, <1>4, <1>5, <1>6, <1>7, <1>8, <1>9, <1>10, <1>11, <1>12, <1>13
    DEF CrawlNext, OrderlyStep, FaultStep, WorkerStep, ProducerStep, EngineStep, Schedules

LEMMA GrantStep ==
    ASSUME CrawlTypeOK, UpOrGone, GrantIsForARequest, [CrawlNext]_allVars
    PROVE  GrantIsForARequest'
  <1>. USE DEF GrantIsForARequest
  <1>1. CASE StartRun \/ Crash \/ RunEnds
    BY <1>1 DEF StartRun, Open, Crash, RunEnds, Forget, Leave, Volatile
  <1>2. CASE ProducerTold
    BY <1>2 DEF ProducerTold, TakeSlot
  <1>3. CASE ProducerSchedules
    BY <1>3, SlotStaysFree DEF ProducerSchedules, ProducerLooks
  <1>4. CASE ProducerEnds \/ ProducerCancelled \/ ProducerRaises
    BY <1>4 DEF ProducerEnds, ProducerCancelled, ProducerRaises
  <1>5. CASE UNCHANGED producerVars /\ ProducerLooks
    BY <1>5 DEF producerVars, ProducerLooks
  <1>6. CASE UNCHANGED producerVars /\ ~ProducerLooks
    BY <1>6, SlotStaysFree DEF producerVars
  <1>. QED
    BY <1>1, <1>2, <1>3, <1>4, <1>5, <1>6, ProducerCases

\* A single output after another is as proper as the whole sequence of them.
LEMMA TodoProperStep ==
    ASSUME CrawlTypeOK, TodoProper, GrantIsForARequest, WorkersHaveWork, KnownProper,
           [CrawlNext]_allVars
    PROVE  TodoProper'
  <1>0. /\ todo \in [Callers -> Seq(RequestShapes)] /\ TaskVarsOK
        /\ work \in [Callers -> Entries \cup {NoEntry}]
    BY DEF CrawlTypeOK, TaskVarsOK
  <1>1. CASE UNCHANGED todo
    BY <1>1 DEF TodoProper
  <1>2. CASE Settles \/ StartRun \/ StartFails \/ FinishSchedule
    BY <1>1, <1>2 DEF Settles, StartRun, StartFails, FinishSchedule, taskVars
  <1>3. CASE Crash \/ RunEnds
    BY <1>3 DEF Crash, RunEnds, Forget, TodoProper
  <1>4. CASE ExtraSchedules \/ ProducerSchedules
    BY <1>1, <1>4, ExtraAccepted, StartAccepted
  <1>5. ASSUME NEW w \in Callers, NEW outputs,
               todo' = [todo EXCEPT ![w] = outputs],
               \A i \in DOMAIN outputs : Proper(outputs[i])
        PROVE  TodoProper'
    BY <1>0, <1>5 DEF TodoProper
  <1>12. \A i \in DOMAIN <<>> : Proper(<<>>[i])
    OBVIOUS
  <1>6. ASSUME NEW w \in Callers, WorkerSchedules(w) PROVE TodoProper'
    <2>1. todo[w] \in Seq(RequestShapes) /\ todo[w] # <<>>
          /\ todo' = [todo EXCEPT ![w] = Tail(todo[w])]
      BY <1>0, <1>6 DEF WorkerSchedules
    <2>2. \A j \in DOMAIN Tail(todo[w]) : Proper(Tail(todo[w])[j])
      BY <2>1, HeadAndTail DEF TodoProper
    <2>. QED
      BY <1>5, <2>1, <2>2
  <1>7. ASSUME NEW w \in Callers, CallbackReturns(w) PROVE TodoProper'
    <2>1. work[w].fp \in Fingerprints
      BY <1>7 DEF CallbackReturns, Handled, WorkersHaveWork, Entries
    <2>2. \A i \in DOMAIN RequestsTo(Links[work[w].fp]) :
             Proper(RequestsTo(Links[work[w].fp])[i])
      BY <2>1, RequestsToPages, CrawlAssumption
    <2>. QED
      BY <1>5, <1>7, <2>2 DEF CallbackReturns, Handled
  <1>8. ASSUME NEW w \in Callers, DownloadFails(w) PROVE TodoProper'
    <2>1. todo' = [todo EXCEPT ![w] = <<>>]
      BY <1>8 DEF DownloadFails, Handled
    <2>. QED
      BY <1>5, <1>12, <2>1
  <1>9. ASSUME NEW w \in Callers, DownloadRetried(w) PROVE TodoProper'
    <2>1. work[w] \in Entries /\ Proper(work[w]) /\ FirstAttempt(work[w])
      BY <1>9, NoEntryIsNone
      DEF DownloadRetried, Handled, WorkersHaveWork, KnownProper, Known, Held
    <2>2. Proper(RetryOf(work[w]))
      BY <2>1, RetryIsProper
    <2>3. \A i \in DOMAIN <<RetryOf(work[w])>> : Proper(<<RetryOf(work[w])>>[i])
      BY <2>2
    <2>. QED
      BY <1>5, <1>9, <2>3 DEF DownloadRetried, Handled
  <1>10. ASSUME NEW w \in Callers, WorkerTakes(w) \/ WorkerCompletes(w) PROVE TodoProper'
    BY <1>1, <1>10 DEF WorkerTakes, WorkerCompletes
  <1>11. ASSUME NEW w \in Callers, WorkerReleases(w) PROVE TodoProper'
    <2>1. todo' = [todo EXCEPT ![w] = <<>>]
      BY <1>11 DEF WorkerReleases
    <2>. QED
      BY <1>5, <1>12, <2>1
  <1>. QED
    BY <1>0, <1>2, <1>3, <1>4, <1>6, <1>7, <1>8, <1>9, <1>10, <1>11, BookCases

\* A worker takes its request out of the registry under a number that names one request.
LEMMA HeldOnceStep ==
    ASSUME CrawlTypeOK, TodoProper, GrantIsForARequest, UpOrGone, OneName, HeldOnce,
           [CrawlNext]_allVars
    PROVE  HeldOnce'
  <1>0. /\ work \in [Callers -> Entries \cup {NoEntry}] /\ TaskVarsOK
        /\ registered \subseteq Entries /\ staged \subseteq Entries /\ rows \subseteq Entries
    BY DEF CrawlTypeOK, TaskVarsOK, CrawlVarsOK, TypeOK
  <1>a. \A e \in Entries : e.id \in Nat /\ e.id # NoEntry.id
    BY DEF Entries, NoEntry, NoRequest
  <1>1. CASE UNCHANGED work /\ registered' \cup staged' \subseteq registered \cup staged
    BY <1>1 DEF HeldOnce
  <1>2. CASE Settles
    BY <1>1, <1>2 DEF Settles
  <1>3. CASE StartFails
    BY <1>1, <1>3 DEF StartFails, taskVars, coordinatorVars
  <1>4. CASE FinishSchedule
    <2>1. PICK e \in staged : Activate(e) /\ registered' = registered \cup {e}
      BY <1>4 DEF FinishSchedule
    <2>2. staged' \subseteq staged /\ work' = work
      BY <1>4, <2>1 DEF FinishSchedule, Activate, taskVars
    <2>. QED
      BY <1>1, <2>1, <2>2
  <1>5. CASE StartRun
    <2>1. /\ registered' = rows /\ staged' = {} /\ work' = work
          /\ \A w \in Callers : work[w] = NoEntry
      BY <1>5 DEF StartRun, Open, Volatile, UpOrGone
    <2>. QED
      BY <1>0, <1>a, <2>1 DEF HeldOnce
  <1>6. CASE Crash \/ RunEnds
    <2>1. registered' = {} /\ staged' = {}
      BY <1>6 DEF Crash, RunEnds, Forget, Leave, Volatile
    <2>2. \A w \in Callers : work'[w] = NoEntry
      BY <1>6 DEF Crash, RunEnds, Forget
    <2>. QED
      BY <2>1, <2>2 DEF HeldOnce
  <1>7. CASE Schedules
    <2>1. CASE UNCHANGED <<vars, registered, pc, work, verdict, phase, asked, handled, gaveUp>>
      BY <1>1, <2>1 DEF vars, coordinatorVars
    <2>2. ASSUME NEW e, Accepted(e) PROVE HeldOnce'
      <3>1. staged' = staged \cup {e} /\ UNCHANGED <<work, registered>> /\ e.id = nextId
            /\ up
        BY <2>2, AcceptedIsKnown DEF Accepted
      <3>2. \A f \in Known : f.id < nextId
        BY <3>1 DEF OneName
      <3>3. ASSUME NEW w \in Callers PROVE work[w].id # nextId
        <4>1. CASE work[w] = NoEntry
          BY <4>1 DEF NoEntry, NoRequest, CrawlTypeOK, TypeOK
        <4>2. CASE work[w] \in Held /\ work[w] \in Entries
          <5>1. work[w] \in Known
            BY <4>2 DEF Known
          <5>2. work[w].id < nextId /\ work[w].id \in Nat /\ nextId \in Nat
            BY <1>a, <3>2, <4>2, <5>1 DEF CrawlTypeOK, TypeOK
          <5>. QED
            BY <5>2
        <4>. QED
          BY <1>0, <4>1, <4>2, NoEntryIsNone DEF Held
      <3>. QED
        BY <3>1, <3>3 DEF HeldOnce
    <2>. QED
      BY <1>7, <2>1, <2>2, ScheduleCases
  <1>8. ASSUME NEW w \in Callers, WorkerTakes(w) PROVE HeldOnce'
    <2>1. PICK e \in registered :
            registered' = registered \ {e} /\ work' = [work EXCEPT ![w] = e]
      BY <1>8 DEF WorkerTakes
    <2>2. staged' = {}
      BY <1>8 DEF WorkerTakes, LoopFree, TakeAnswer, coordinatorVars
    <2>3. \A f \in registered : f.id = e.id => f = e
      BY <2>1 DEF OneName, Known
    <2>4. \A v \in Callers : \A f \in registered' \cup staged' : f.id # work'[v].id
      BY <1>0, <2>1, <2>2, <2>3 DEF HeldOnce
    <2>5. \A v \in Callers : work[v] # e
      BY <2>1 DEF HeldOnce
    <2>6. \A u, v \in Callers : u # v /\ work'[u] = work'[v] => work'[u] = NoEntry
      BY <1>0, <2>1, <2>5 DEF HeldOnce
    <2>. QED
      BY <2>4, <2>6 DEF HeldOnce
  <1>9. ASSUME NEW w \in Callers,
               CallbackReturns(w) \/ DownloadFails(w) \/ DownloadRetried(w)
        PROVE  HeldOnce'
    BY <1>1, <1>9 DEF CallbackReturns, DownloadFails, DownloadRetried, Handled, vars,
                      coordinatorVars, crawlVars
  <1>10. ASSUME NEW w \in Callers, WorkerCompletes(w) \/ WorkerReleases(w) PROVE HeldOnce'
    <2>1. /\ UNCHANGED <<registered, staged>>
          /\ work' = [work EXCEPT ![w] = NoEntry]
      BY <1>10 DEF WorkerCompletes, WorkerReleases, Complete, Release, crawlVars
    <2>2. \A e \in registered \cup staged : e.id # NoEntry.id
      BY <1>0, <1>a
    <2>3. \A v \in Callers : work'[v] = IF v = w THEN NoEntry ELSE work[v]
      BY <1>0, <2>1
    <2>. QED
      BY <2>1, <2>2, <2>3 DEF HeldOnce
  <1>. QED
    BY <1>0, <1>2, <1>3, <1>4, <1>5, <1>6, <1>7, <1>8, <1>9, <1>10, BookCases DEF Schedules

LEMMA BooksInit == CrawlInit => BooksInv
  <1>. SUFFICES ASSUME CrawlInit PROVE BooksInv
    OBVIOUS
  <1>1. Inv /\ CrawlTypeOK
    BY InvInit, CrawlTypeInit DEF CrawlInit
  <1>2. /\ rows = {} /\ staged = {} /\ queued = {} /\ registered = {} /\ ~up
        /\ \A w \in Callers : work[w] = NoEntry /\ todo[w] = <<>> /\ pc[w] = "none"
        /\ phase = "down" /\ producer = "none"
    BY DEF CrawlInit, Init
  <1>3. Known = {}
    BY <1>2 DEF Known, Held
  <1>4. UpOrGone /\ GrantIsForARequest /\ WorkersHaveWork /\ HeldOnce
    BY <1>2 DEF UpOrGone, GrantIsForARequest, WorkersHaveWork, HeldOnce
  <1>5. KnownProper /\ OneName /\ TodoProper
    BY <1>2, <1>3 DEF KnownProper, OneName, TodoProper
  <1>. QED
    BY <1>1, <1>4, <1>5 DEF BooksInv

LEMMA BooksStep == BooksInv /\ [CrawlNext]_allVars => BooksInv'
  <1>. SUFFICES ASSUME BooksInv, [CrawlNext]_allVars PROVE BooksInv'
    OBVIOUS
  <1>. USE DEF BooksInv
  <1>1. Inv'
    BY EngineUsesCoordinator, InvStep
  <1>2. CrawlTypeOK'
    BY <1>1, CrawlTypeStep DEF Inv
  <1>3. UpOrGone' /\ GrantIsForARequest' /\ WorkersHaveWork'
    BY UpOrGoneStep, GrantStep, WorkersHaveWorkStep
  <1>4. KnownProper' /\ TodoProper' /\ OneName' /\ HeldOnce'
    BY KnownProperStep, TodoProperStep, OneNameStep, HeldOnceStep
  <1>. QED
    BY <1>1, <1>2, <1>3, <1>4

\* The engine's books agree with the coordinator's at all times.
THEOREM BooksAreKept == CrawlSpec => []BooksInv
  BY BooksInit, BooksStep, PTL DEF CrawlSpec

\* The shape of the event loop's state, in every run of every job.
THEOREM CrawlTypeCorrect == CrawlSpec => []CrawlTypeOK
  BY BooksAreKept, PTL DEF BooksInv

\* What was proved of the coordinator on its own holds of it in the engine's hands, where
\* the requests come from callbacks, retries and start() and a start of the engine can fail.
THEOREM CoordinatorInUse == CrawlSpec => []Inv
  BY BooksAreKept, PTL DEF BooksInv

-----------------------------------------------------------------------------

\* What the proofs of the job's properties start from.
Working ==
    /\ BooksInv /\ KnownIsAsked /\ AskedIsRemembered /\ KnownIsStored
    /\ OutputsInProgress

LEMMA SeenIsStored ==
    ASSUME Persistent, BooksInv, up
    PROVE  seen = fps
  BY DEF BooksInv, Inv, MemoryMirrorsStore

\* A worker that works on a request has one that is known.
LEMMA WorkIsKnown ==
    ASSUME BooksInv, NEW w \in Callers, pc[w] \in {"handling", "output"}
    PROVE  work[w] \in Entries /\ work[w] \in Known /\ Proper(work[w])
  BY NoEntryIsNone DEF BooksInv, WorkersHaveWork, KnownProper, Known, Held

\* What a worker schedules is a link, or the next attempt of a request that still has its
\* row or never had one.
LEMMA RetriesAreOfWork ==
    ASSUME Persistent, Working, NEW w \in Callers, WorkerSchedules(w),
           ~FirstAttempt(Head(todo[w]))
    PROVE  /\ verdict[w] = "retry" /\ todo[w] = <<RetryOf(work[w])>>
           /\ Head(todo[w]).fp = work[w].fp
           /\ work[w].fp \in asked \ Rejected
           /\ work[w].fp \in PagesOf(rows) \cup Unserializable
  <1>1. pc[w] = "output" /\ todo[w] # <<>>
    BY DEF WorkerSchedules
  <1>2. work[w] \in Known /\ Proper(work[w])
    BY <1>1, WorkIsKnown DEF Working
  <1>3. verdict[w] \in Verdicts /\ todo[w] \in Seq(RequestShapes)
    BY DEF Working, BooksInv, CrawlTypeOK, TaskVarsOK
  <1>4. verdict[w] # "ok"
    <2>1. PICK i \in DOMAIN todo[w] : Head(todo[w]) = todo[w][i]
      BY <1>1, <1>3, HeadAndTail
    <2>. QED
      BY <1>1, <2>1 DEF Working, OutputsInProgress, LinksInProgress
  <1>5. verdict[w] = "retry"
    BY <1>1, <1>3, <1>4 DEF Working, OutputsInProgress, Verdicts
  <1>6. todo[w] = <<RetryOf(work[w])>>
    BY <1>1, <1>5 DEF Working, OutputsInProgress, RetryInProgress
  <1>7. Head(todo[w]).fp = work[w].fp
    BY <1>6 DEF RetryOf
  <1>8. work[w].fp \in PagesOf(rows) \cup Unserializable
    BY <1>2 DEF Working, KnownIsStored, PagesOf, Proper
  <1>. QED
    BY <1>2, <1>5, <1>6, <1>7, <1>8 DEF Working, KnownIsAsked

\* What a completed request takes out of the store is its own row.
LEMMA CompleteRemovesOwnRow ==
    ASSUME Persistent, BooksInv, NEW w \in Callers, WorkerCompletes(w)
    PROVE  /\ rows' = rows \ {work[w]} /\ fps' = fps
           /\ work[w] \in Entries /\ work[w] \in Known /\ pc[w] = "output"
           /\ todo[w] = <<>>
  <1>1. pc[w] = "output" /\ todo[w] = <<>>
    BY DEF WorkerCompletes
  <1>2. work[w] \in Entries /\ work[w] \in Known
    BY <1>1, WorkIsKnown
  <1>3. rows' = {r \in rows : r.id # work[w].id} /\ fps' = fps
    BY DEF WorkerCompletes, Complete, StoreComplete
  <1>4. \A r \in rows : r.id = work[w].id => r = work[w]
    BY <1>2 DEF BooksInv, OneName, Known
  <1>. QED
    BY <1>1, <1>2, <1>3, <1>4

\* An accepted request that is a link or a start page, or a retry.
Admitted(e) ==
    /\ Accepted(e)
    /\ FirstAttempt(e) \/ (e.fp \in asked /\ e.fp \in PagesOf(rows) \cup Unserializable)

\* All steps of the engine, by what they do to the job.
LEMMA JobCases ==
    ASSUME Persistent, Working, [CrawlNext]_allVars
    PROVE  \/ UNCHANGED <<rows, fps, asked, handled, gaveUp>> /\ Known' \subseteq Known
           \/ \E e : Admitted(e)
           \/ (\E w \in Callers : WorkerCompletes(w)) /\ Known' \subseteq Known
  <1>0. CrawlTypeOK /\ TodoProper /\ GrantIsForARequest /\ UpOrGone
    BY DEF Working, BooksInv
  <1>1. ASSUME Settles PROVE UNCHANGED <<rows, fps, asked, handled, gaveUp>>
    BY <1>1 DEF Settles
  <1>2. RecoveredFps \subseteq fps
    BY DEF RecoveredFps, Working, KnownIsAsked, Known
  <1>3. ASSUME StartRun PROVE UNCHANGED <<rows, fps, asked, handled, gaveUp>>
    BY <1>2, <1>3 DEF StartRun, Open
  <1>4. ASSUME StartFails PROVE UNCHANGED <<rows, fps, asked, handled, gaveUp>>
    <2>1. PICK missing \in {Callbacks[e.fp] : e \in rows} :
            fps' = fps \cup PagesOf({e \in rows :
                       e.filter /\ \A u \in Unresolved(missing) : e.id < u.id})
      BY <1>4 DEF StartFails
    <2>2. PagesOf({e \in rows : e.filter /\ \A u \in Unresolved(missing) : e.id < u.id})
             \subseteq RecoveredFps
      BY DEF PagesOf, RecoveredFps
    <2>. QED
      BY <1>2, <1>4, <2>1, <2>2 DEF StartFails, historyVars
  <1>5. ASSUME Crash \/ RunEnds PROVE UNCHANGED <<rows, fps, asked, handled, gaveUp>>
    BY <1>5 DEF Crash, RunEnds, Leave, storeVars, historyVars, envVars
  <1>6. ASSUME FinishSchedule PROVE UNCHANGED <<rows, fps, asked, handled, gaveUp>>
    BY <1>6 DEF FinishSchedule, Activate, storeVars, envVars, historyVars
  <1>7. ASSUME NEW w \in Callers,
               \/ WorkerTakes(w) \/ CallbackReturns(w) \/ DownloadFails(w)
               \/ DownloadRetried(w) \/ WorkerReleases(w)
        PROVE  UNCHANGED <<rows, fps, asked, handled, gaveUp>>
    BY <1>7 DEF WorkerTakes, TakeAnswer, CallbackReturns, DownloadFails, DownloadRetried,
                Handled, WorkerReleases, Release, vars, storeVars, envVars, historyVars
  <1>. DEFINE Stays == UNCHANGED <<rows, fps, asked, handled, gaveUp>> /\ Known' \subseteq Known
              Ends == (\E w \in Callers : WorkerCompletes(w)) /\ Known' \subseteq Known
              Grows == \E e : Admitted(e)
  <1>8. CASE Keeps
    <2>1. Known' \subseteq Known
      BY <1>0, <1>8, KeepsKnown
    <2>2. \/ UNCHANGED <<rows, fps, asked, handled, gaveUp>>
          \/ \E w \in Callers : WorkerCompletes(w)
      BY <1>1, <1>3, <1>4, <1>5, <1>6, <1>7, <1>8 DEF Keeps
    <2>. QED
      BY <2>1, <2>2
  <1>a. CASE UNCHANGED <<vars, registered, pc, work, verdict, phase, asked, handled, gaveUp>>
    <2>1. Stays
      BY <1>a, RefusedKeepsKnown
    <2>. QED
      BY <2>1
  <1>9. CASE ExtraSchedules \/ ProducerSchedules
    <2>1. ASSUME NEW e, Accepted(e), FirstAttempt(e) PROVE Grows
      BY <2>1 DEF Admitted
    <2>. HIDE DEF Grows
    <2>. QED
      BY <1>0, <1>9, <1>a, <2>1, ExtraAccepted, StartAccepted DEF Grows
  <1>10. ASSUME NEW w \in Callers, WorkerSchedules(w)
         PROVE  Stays \/ Grows
    <2>1. ASSUME NEW e, Accepted(e), e.priority = Head(todo[w]).priority,
                 e.fp = Head(todo[w]).fp
          PROVE  Grows
      <3>1. FirstAttempt(e) <=> FirstAttempt(Head(todo[w]))
        BY <2>1 DEF FirstAttempt
      <3>2. CASE ~FirstAttempt(Head(todo[w]))
        BY <1>10, <2>1, <3>2, RetriesAreOfWork DEF Admitted
      <3>3. CASE FirstAttempt(Head(todo[w]))
        BY <2>1, <3>1, <3>3 DEF Admitted
      <3>. QED
        BY <3>2, <3>3
    <2>2. CASE UNCHANGED <<vars, registered, pc, work, verdict, phase, asked, handled, gaveUp>>
      BY <2>2, RefusedKeepsKnown
    <2>. HIDE DEF Grows, Stays
    <2>. QED
      BY <1>0, <1>10, <2>1, <2>2, OutputAccepted
  <1>. QED
    BY <1>0, <1>8, <1>9, <1>10, KeepsOrSchedules DEF Schedules

\* What was accomplished stays so.
LEMMA JobGrows ==
    ASSUME Persistent, Working, [CrawlNext]_allVars
    PROVE  /\ fps \subseteq fps' /\ asked \subseteq asked'
           /\ handled \subseteq handled' /\ gaveUp \subseteq gaveUp'
  <1>. DEFINE Grown == /\ fps \subseteq fps' /\ asked \subseteq asked'
                       /\ handled \subseteq handled' /\ gaveUp \subseteq gaveUp'
  <1>1. ASSUME NEW w \in Callers, WorkerCompletes(w)
        PROVE  Grown
    BY <1>1, CompleteRemovesOwnRow DEF Working, WorkerCompletes
  <1>2. ASSUME NEW e, Admitted(e)
        PROVE  Grown
    BY <1>2, AcceptedIsKnown DEF Admitted, Accepted
  <1>. QED
    BY <1>1, <1>2, JobCases

LEMMA KnownIsAskedStep ==
    ASSUME Persistent, Working, [CrawlNext]_allVars
    PROVE  KnownIsAsked'
  <1>. USE DEF KnownIsAsked, Working
  <1>1. CASE Known' \subseteq Known
    BY <1>1, JobGrows
  <1>2. ASSUME NEW e, Admitted(e) PROVE KnownIsAsked'
    <2>1. Known' \subseteq Known \cup {e} /\ fps \subseteq fps' /\ e.fp \notin Rejected
      BY <1>2, AcceptedIsKnown DEF Admitted, Accepted
    <2>2. asked' = asked \cup {e.fp} /\ (e.filter => e.fp \in fps')
      BY <1>2, AcceptedIsKnown DEF Admitted
    <2>. QED
      BY <2>1, <2>2
  <1>. QED
    BY <1>1, <1>2, JobCases

\* A filtered request leaves its fingerprint; one without is exempt, or a retry.
LEMMA AskedIsRememberedStep ==
    ASSUME Persistent, Working, [CrawlNext]_allVars
    PROVE  AskedIsRemembered'
  <1>. USE DEF AskedIsRemembered, Working
  <1>1. CASE UNCHANGED <<rows, fps, asked, handled, gaveUp>>
    BY <1>1
  <1>2. ASSUME NEW e, Admitted(e) PROVE AskedIsRemembered'
    <2>1. /\ asked' = asked \cup {e.fp} /\ fps \subseteq fps' /\ fps' \subseteq fps \cup {e.fp}
          /\ e.filter => e.fp \in fps'
      BY <1>2, AcceptedIsKnown DEF Admitted
    <2>2. e.filter \/ e.fp \in Repeatable \cup asked
      BY <1>2 DEF Admitted, Accepted, Proper
    <2>. QED
      BY <2>1, <2>2
  <1>3. ASSUME NEW w \in Callers, WorkerCompletes(w) PROVE AskedIsRemembered'
    BY <1>3, CompleteRemovesOwnRow DEF WorkerCompletes
  <1>. QED
    BY <1>1, <1>2, <1>3, JobCases

\* A row is removed only when its request has left the last hand that held it.
LEMMA KnownIsStoredStep ==
    ASSUME Persistent, Working, [CrawlNext]_allVars
    PROVE  KnownIsStored'
  <1>. USE DEF KnownIsStored, Working
  <1>1. CASE Known' \subseteq Known /\ rows' = rows
    BY <1>1
  <1>2. ASSUME NEW e, Admitted(e) PROVE KnownIsStored'
    BY <1>2, AcceptedIsKnown DEF Admitted
  <1>3. ASSUME NEW w \in Callers, WorkerCompletes(w), Known' \subseteq Known
        PROVE  KnownIsStored'
    <2>1. rows' = rows \ {work[w]} /\ work[w] \in Entries /\ pc[w] = "output"
      BY <1>3, CompleteRemovesOwnRow
    <2>2. work[w] \notin Known'
      <3>1. /\ UNCHANGED <<staged, queued, registered>> /\ work[w].id \in active
            /\ work' = [work EXCEPT ![w] = NoEntry]
        BY <1>3 DEF WorkerCompletes, Complete, crawlVars
      <3>2. work[w] \notin staged \cup registered
        BY DEF BooksInv, HeldOnce
      <3>3. work[w] \notin queued
        BY <3>1 DEF BooksInv, Inv, OneHome, Pending, Ids
      <3>4. work[w] \notin Held'
        <4>1. work \in [Callers -> Entries \cup {NoEntry}]
          BY DEF BooksInv, CrawlTypeOK, TaskVarsOK
        <4>2. work[w] # NoEntry
          BY <2>1, NoEntryIsNone
        <4>. QED
          BY <3>1, <4>1, <4>2 DEF BooksInv, HeldOnce, Held
      <3>. QED
        BY <2>1, <3>1, <3>2, <3>3, <3>4 DEF Known
    <2>. QED
      BY <1>3, <2>1, <2>2
  <1>. QED
    BY <1>1, <1>2, <1>3, JobCases

\* The next attempt of a page may end before the completion of the attempt before it.
LEMMA RetriedStep ==
    ASSUME Persistent, Working, [CrawlNext]_allVars
    PROVE  Retried \subseteq Retried'
  <1>1. handled \subseteq handled' /\ gaveUp \subseteq gaveUp'
    BY JobGrows
  <1>2. CASE rows' = rows
    BY <1>1, <1>2 DEF Retried
  <1>3. ASSUME NEW e, Admitted(e) PROVE Retried \subseteq Retried'
    BY <1>1, <1>3, AcceptedIsKnown DEF Admitted, Retried, PagesOf
  <1>4. ASSUME NEW w \in Callers, WorkerCompletes(w) PROVE Retried \subseteq Retried'
    <2>1. rows' = rows \ {work[w]} /\ pc[w] = "output"
      BY <1>4, CompleteRemovesOwnRow DEF Working
    <2>2. CASE FirstAttempt(work[w])
      BY <1>1, <2>1, <2>2 DEF Retried, PagesOf
    <2>3. CASE ~FirstAttempt(work[w])
      <3>1. verdict[w] \in {"ok", "give_up"}
        BY <2>1, <2>3
        DEF Working, OutputsInProgress, RetryInProgress, BooksInv, CrawlTypeOK, TaskVarsOK,
            Verdicts
      <3>2. work[w].fp \in handled' \cup gaveUp'
        BY <1>4, <3>1 DEF WorkerCompletes
      <3>. QED
        BY <1>1, <2>1, <3>2 DEF Retried, PagesOf
    <2>. QED
      BY <2>2, <2>3
  <1>. QED
    BY <1>2, <1>3, <1>4, JobCases

\* A worker whose own state does not change finds that its outputs are where they were.
LEMMA OthersProgress ==
    ASSUME Persistent, Working, [CrawlNext]_allVars, NEW w \in Callers, pc[w] = "output",
           work'[w] = work[w], todo'[w] = todo[w], verdict'[w] = verdict[w]
    PROVE  /\ verdict'[w] = "ok" => LinksInProgress(w)'
           /\ verdict'[w] = "retry" => RetryInProgress(w)'
           /\ verdict'[w] = "give_up" => todo'[w] = <<>>
  <1>1. asked \subseteq asked' /\ Retried \subseteq Retried'
    BY JobGrows, RetriedStep
  <1>2. ASSUME verdict[w] = "ok" PROVE LinksInProgress(w)'
    <2>1. LinksInProgress(w)
      BY <1>2 DEF Working, OutputsInProgress
    <2>. QED
      BY <1>1, <2>1 DEF LinksInProgress
  <1>3. ASSUME verdict[w] = "retry" PROVE RetryInProgress(w)'
    <2>1. RetryInProgress(w)
      BY <1>3 DEF Working, OutputsInProgress
    <2>. QED
      BY <1>1, <2>1 DEF RetryInProgress
  <1>. QED
    BY <1>2, <1>3 DEF Working, OutputsInProgress

\* A scheduled link is in the store or refused; a scheduled retry has a row of its own.
LEMMA OwnProgress ==
    ASSUME Persistent, Working, [CrawlNext]_allVars, NEW w \in Callers, WorkerSchedules(w)
    PROVE  /\ verdict'[w] = "ok" => LinksInProgress(w)'
           /\ verdict'[w] = "retry" => RetryInProgress(w)'
           /\ verdict'[w] = "give_up" => todo'[w] = <<>>
  <1>. DEFINE r == Head(todo[w])
  <1>0. /\ CrawlTypeOK /\ TodoProper /\ BooksInv
        /\ todo \in [Callers -> Seq(RequestShapes)]
    BY DEF Working, BooksInv, CrawlTypeOK, TaskVarsOK
  <1>1. /\ todo[w] # <<>> /\ todo'[w] = Tail(todo[w]) /\ pc[w] = "output"
        /\ work' = work /\ verdict' = verdict /\ up
    BY <1>0 DEF WorkerSchedules, LoopFree
  <1>2. asked \subseteq asked' /\ seen = fps /\ fps \subseteq asked
    BY <1>0, <1>1, JobGrows, SeenIsStored DEF Working, AskedIsRemembered
  <1>3. \/ r.fp \in Rejected
        \/ r.filter /\ r.fp \in asked
        \/ \E e : Accepted(e) /\ e.priority = r.priority /\ e.fp = r.fp
    BY <1>0, <1>2, OutputAccepted
  <1>4. ASSUME verdict[w] = "ok" PROVE LinksInProgress(w)'
    <2>1. LinksInProgress(w)
      BY <1>1, <1>4 DEF Working, OutputsInProgress
    <2>2. /\ \A i \in DOMAIN todo[w] :
               \/ todo[w][i] = Head(todo[w])
               \/ \E j \in DOMAIN Tail(todo[w]) : Tail(todo[w])[j] = todo[w][i]
          /\ \A j \in DOMAIN Tail(todo[w]) :
               \E i \in DOMAIN todo[w] : Tail(todo[w])[j] = todo[w][i]
          /\ \E i \in DOMAIN todo[w] : Head(todo[w]) = todo[w][i]
      BY <1>0, <1>1, HeadAndTail
    <2>3. FirstAttempt(r)
      BY <2>1, <2>2 DEF LinksInProgress
    <2>4. r.fp \in asked' \cup Rejected
      BY <1>2, <1>3, AcceptedIsKnown
    <2>5. \A j \in DOMAIN Tail(todo[w]) : FirstAttempt(Tail(todo[w])[j])
      BY <2>1, <2>2 DEF LinksInProgress
    <2>6. ASSUME NEW i \in DOMAIN Links[work[w].fp]
          PROVE  \/ Links[work[w].fp][i] \in asked' \cup Rejected
                 \/ \E j \in DOMAIN Tail(todo[w]) :
                       Tail(todo[w])[j].fp = Links[work[w].fp][i]
      <3>1. CASE Links[work[w].fp][i] \in asked \cup Rejected
        BY <1>2, <3>1
      <3>2. ASSUME NEW j \in DOMAIN todo[w], todo[w][j].fp = Links[work[w].fp][i]
            PROVE  \/ Links[work[w].fp][i] \in asked' \cup Rejected
                   \/ \E k \in DOMAIN Tail(todo[w]) :
                         Tail(todo[w])[k].fp = Links[work[w].fp][i]
        BY <2>2, <2>4, <3>2
      <3>. QED
        BY <2>1, <3>1, <3>2 DEF LinksInProgress
    <2>. QED
      BY <1>1, <2>5, <2>6 DEF LinksInProgress
  <1>5. ASSUME verdict[w] = "retry" PROVE RetryInProgress(w)'
    <2>1. FirstAttempt(work[w]) /\ todo[w] = <<RetryOf(work[w])>>
      BY <1>1, <1>5 DEF Working, OutputsInProgress, RetryInProgress
    <2>2. ~r.filter /\ ~FirstAttempt(r) /\ r.fp = work[w].fp /\ todo'[w] = <<>>
      BY <1>1, <2>1 DEF RetryOf, FirstAttempt
    <2>3. r.fp \notin Rejected
      BY <2>2, RetriesAreOfWork
    <2>4. PICK e : Accepted(e) /\ e.priority = r.priority /\ e.fp = r.fp
      BY <1>3, <2>2, <2>3
    <2>5. work[w].fp \in Retried'
      BY <2>2, <2>4, AcceptedIsKnown DEF Accepted, Retried, PagesOf, Proper, FirstAttempt
    <2>. QED
      BY <1>1, <2>1, <2>2, <2>5 DEF RetryInProgress
  <1>6. verdict[w] # "give_up"
    BY <1>1 DEF Working, OutputsInProgress
  <1>. QED
    BY <1>1, <1>4, <1>5, <1>6

LEMMA OutputsInProgressStep ==
    ASSUME Persistent, Working, [CrawlNext]_allVars
    PROVE  OutputsInProgress'
  <1>. DEFINE Going(w) ==
                 /\ verdict[w] = "ok" => LinksInProgress(w)
                 /\ verdict[w] = "retry" => RetryInProgress(w)
                 /\ verdict[w] = "give_up" => todo[w] = <<>>
  <1>0. /\ todo \in [Callers -> Seq(RequestShapes)] /\ pc \in [Callers -> WorkerStates]
        /\ work \in [Callers -> Entries \cup {NoEntry}] /\ verdict \in [Callers -> Verdicts]
    BY DEF Working, BooksInv, CrawlTypeOK, TaskVarsOK
  <1>. SUFFICES ASSUME NEW v \in Callers, pc'[v] = "output"
                PROVE  Going(v)'
    BY DEF OutputsInProgress
  <1>1. CASE pc[v] = "output" /\ work'[v] = work[v] /\ todo'[v] = todo[v]
               /\ verdict'[v] = verdict[v]
    BY <1>1, OthersProgress
  <1>2. CASE WorkerSchedules(v)
    BY <1>2, OwnProgress
  <1>3. CASE CallbackReturns(v)
    <2>1. /\ todo'[v] = RequestsTo(Links[work[v].fp]) /\ verdict'[v] = "ok"
          /\ work' = work /\ pc[v] = "handling"
      BY <1>0, <1>3 DEF CallbackReturns, Handled
    <2>2. Links[work[v].fp] \in Seq(Fingerprints)
      BY <2>1, WorkIsKnown, CrawlAssumption DEF Working, Entries
    <2>3. LinksInProgress(v)'
      BY <2>1, <2>2, RequestsToPages DEF LinksInProgress
    <2>. QED
      BY <2>1, <2>3
  <1>4. CASE DownloadFails(v)
    BY <1>0, <1>4 DEF DownloadFails, Handled
  <1>5. CASE DownloadRetried(v)
    <2>1. /\ todo'[v] = <<RetryOf(work[v])>> /\ verdict'[v] = "retry"
          /\ work' = work /\ FirstAttempt(work[v])
      BY <1>0, <1>5 DEF DownloadRetried, Handled
    <2>. QED
      BY <2>1 DEF RetryInProgress
  <1>6. ASSUME NEW w \in Callers, w # v,
               \/ WorkerTakes(w) \/ WorkerSchedules(w) \/ CallbackReturns(w)
               \/ DownloadFails(w) \/ DownloadRetried(w)
               \/ WorkerCompletes(w) \/ WorkerReleases(w)
        PROVE  Going(v)'
    <2>1. pc'[v] = pc[v] /\ work'[v] = work[v] /\ todo'[v] = todo[v]
            /\ verdict'[v] = verdict[v]
      BY <1>0, <1>6 DEF WorkerTakes, WorkerSchedules, CallbackReturns, DownloadFails,
                        DownloadRetried, Handled, WorkerCompletes, WorkerReleases
    <2>. QED
      BY <1>1, <2>1
  <1>7. ASSUME WorkerTakes(v) \/ WorkerCompletes(v) \/ WorkerReleases(v) PROVE FALSE
    BY <1>0, <1>7 DEF WorkerTakes, WorkerCompletes, WorkerReleases
  <1>8. ASSUME NEW w \in Callers, NEW state \in {"exited", "failing", "failed"},
               Moves(w, state)
        PROVE  Going(v)'
    <2>1. pc[v] = "output" /\ UNCHANGED <<work, todo, verdict>>
      BY <1>0, <1>8 DEF Moves
    <2>. QED
      BY <1>1, <2>1
  <1>9. CASE UNCHANGED taskVars
    BY <1>1, <1>9 DEF taskVars
  <1>10. ASSUME StartRun \/ Crash \/ RunEnds \/ Woke PROVE FALSE
    BY <1>10 DEF StartRun, Crash, RunEnds, Forget, Woke, NewPass
  <1>11. CASE IdleKeepsAlive
    <2>1. pc' = pc /\ UNCHANGED <<work, todo, verdict>>
      BY <1>11 DEF IdleKeepsAlive, NewPass
    <2>. QED
      BY <1>1, <2>1
  <1>. HIDE DEF Going
  <1>. QED
    BY <1>2, <1>3, <1>4, <1>5, <1>6, <1>7, <1>8, <1>9, <1>10, <1>11, TaskCases

-----------------------------------------------------------------------------

LEMMA NothingIsLostStep ==
    ASSUME Persistent, Working, NothingIsLost, [CrawlNext]_allVars
    PROVE  NothingIsLost'
  <1>. USE DEF NothingIsLost
  <1>1. asked \subseteq asked' /\ handled \subseteq handled' /\ gaveUp \subseteq gaveUp'
    BY JobGrows
  <1>2. CASE UNCHANGED <<rows, fps, asked, handled, gaveUp>>
    BY <1>2 DEF NothingAskedIsLost, HandledLinksAreAsked
  <1>3. ASSUME NEW e, Admitted(e) PROVE NothingIsLost'
    <2>1. /\ asked' = asked \cup {e.fp} /\ rows \subseteq rows'
          /\ e.persistent => e \in rows'
          /\ handled' = handled /\ gaveUp' = gaveUp /\ Proper(e)
      BY <1>3, AcceptedIsKnown DEF Admitted, Accepted
    <2>2. PagesOf(rows) \subseteq PagesOf(rows')
      BY <2>1 DEF PagesOf
    <2>3. e.fp \in PagesOf(rows') \cup Unserializable
      BY <2>1 DEF PagesOf, Proper
    <2>4. NothingAskedIsLost'
      BY <2>1, <2>2, <2>3 DEF NothingAskedIsLost, PagesOf
    <2>5. HandledLinksAreAsked'
      BY <1>1, <2>1 DEF HandledLinksAreAsked
    <2>. QED
      BY <2>4, <2>5
  <1>4. ASSUME NEW w \in Callers, WorkerCompletes(w) PROVE NothingIsLost'
    <2>1. /\ rows' = rows \ {work[w]} /\ asked' = asked /\ pc[w] = "output" /\ todo[w] = <<>>
          /\ verdict[w] \in Verdicts
      BY <1>4, CompleteRemovesOwnRow
      DEF Working, BooksInv, CrawlTypeOK, TaskVarsOK, WorkerCompletes
    <2>2. PagesOf(rows) \subseteq PagesOf(rows') \cup {work[w].fp}
      BY <2>1 DEF PagesOf
    <2>3. work[w].fp \in handled' \cup gaveUp' \cup PagesOf(rows') \cup Unserializable
      <3>1. CASE verdict[w] \in {"ok", "give_up"}
        BY <1>4, <3>1 DEF WorkerCompletes
      <3>2. CASE verdict[w] = "retry"
        <4>1. FirstAttempt(work[w]) /\ work[w].fp \in Retried
          BY <2>1, <3>2 DEF Working, OutputsInProgress, RetryInProgress
        <4>2. PagesOf({r \in rows : ~FirstAttempt(r)}) \subseteq PagesOf(rows')
          BY <2>1, <4>1 DEF PagesOf
        <4>. QED
          BY <1>1, <4>1, <4>2 DEF Retried
      <3>. QED
        BY <2>1, <3>1, <3>2 DEF Verdicts
    <2>4. NothingAskedIsLost'
      BY <1>1, <2>1, <2>2, <2>3 DEF NothingAskedIsLost
    <2>5. ASSUME NEW p \in handled', NEW i \in DOMAIN Links[p]
          PROVE  Links[p][i] \in asked' \cup Rejected
      <3>1. CASE p \in handled
        BY <2>1, <3>1 DEF HandledLinksAreAsked
      <3>2. CASE p \notin handled
        <4>1. verdict[w] = "ok" /\ p = work[w].fp
          BY <1>4, <3>2 DEF WorkerCompletes
        <4>. QED
          BY <2>1, <4>1 DEF Working, OutputsInProgress, LinksInProgress
      <3>. QED
        BY <3>1, <3>2
    <2>. QED
      BY <2>4, <2>5 DEF HandledLinksAreAsked
  <1>. QED
    BY <1>2, <1>3, <1>4, JobCases

LEMMA JobInit == CrawlInit => JobInv
  <1>. SUFFICES ASSUME CrawlInit PROVE JobInv
    OBVIOUS
  <1>1. /\ rows = {} /\ staged = {} /\ queued = {} /\ registered = {} /\ fps = {}
        /\ asked = {} /\ handled = {} /\ \A w \in Callers : work[w] = NoEntry /\ pc[w] = "none"
    BY DEF CrawlInit, Init
  <1>2. Known = {}
    BY <1>1 DEF Known, Held
  <1>3. /\ KnownIsAsked /\ AskedIsRemembered /\ KnownIsStored
        /\ OutputsInProgress /\ NothingIsLost
    BY <1>1, <1>2
    DEF KnownIsAsked, AskedIsRemembered, KnownIsStored, OutputsInProgress, NothingIsLost,
        NothingAskedIsLost, HandledLinksAreAsked
  <1>. QED
    BY <1>3, BooksInit DEF JobInv

LEMMA JobStep ==
    ASSUME Persistent, JobInv, [CrawlNext]_allVars
    PROVE  JobInv'
  <1>1. Working /\ NothingIsLost
    BY DEF JobInv, Working
  <1>. QED
    BY <1>1, BooksStep, KnownIsAskedStep, AskedIsRememberedStep, KnownIsStoredStep,
       OutputsInProgressStep, NothingIsLostStep DEF JobInv, Working

\* With a job directory: what the store, the registry and the workers' hands hold fits
\* together well enough for no page to drop out.
THEOREM JobIsKept ==
    ASSUME Persistent
    PROVE  CrawlSpec => []JobInv
  <1>1. JobInv /\ [CrawlNext]_allVars => JobInv'
    BY JobStep
  <1>. QED
    BY <1>1, JobInit, PTL DEF CrawlSpec

\* A page that was asked for, filtered or not, is handled, is given up, has its row or lives
\* in memory only, and the links of a handled one were asked for: through every sequence of
\* crashes, failing transactions, failing tasks, cancellations and restarts, whatever the
\* spider yields and whichever of its requests are exempt from filtering.
THEOREM NothingDropsOut ==
    ASSUME Persistent
    PROVE  CrawlSpec => []NothingIsLost
  BY JobIsKept, PTL DEF JobInv

-----------------------------------------------------------------------------

LEMMA JobInitRefined == CrawlInit => Job!Init
  BY DEF CrawlInit, Init, Job!Init, PagesOf

\* The first request for a page discovers it, an exempt one asks for it again; a retry is of
\* a page that is owed, or lives in memory only.
LEMMA AdmittedRefined ==
    ASSUME Persistent, Working, NEW e, Admitted(e)
    PROVE  Job!Next \/ UNCHANGED Job!jobVars
  <1>1. /\ asked' = asked \cup {e.fp}
        /\ rows \subseteq rows' /\ rows' \subseteq rows \cup {e}
        /\ e.persistent => e \in rows'
        /\ e.persistent \/ rows' = rows
        /\ e.filter => e.fp \notin seen
        /\ handled' = handled /\ up
    BY AcceptedIsKnown DEF Admitted, Accepted
  <1>2. e.fp \in Fingerprints /\ (e.persistent <=> e.fp \notin Unserializable)
    BY DEF Admitted, Accepted, Acceptable, Entries, Proper
  <1>3. seen = fps
    BY <1>1, SeenIsStored DEF Working
  <1>4. PagesOf(rows') = IF e.fp \in Unserializable THEN PagesOf(rows)
                         ELSE PagesOf(rows) \cup {e.fp}
    BY <1>1, <1>2 DEF PagesOf
  <1>5. CASE e.fp \notin asked
    <2>1. Job!Discover(e.fp)
      BY <1>1, <1>4, <1>5 DEF Job!Discover
    <2>. QED
      BY <1>2, <2>1 DEF Job!Next
  <1>6. CASE e.fp \in asked /\ e.fp \in Repeatable \ Unserializable
    <2>1. Job!AskAgain(e.fp)
      BY <1>1, <1>4, <1>6 DEF Job!AskAgain, Repeatable
    <2>. QED
      BY <1>2, <2>1 DEF Job!Next
  <1>7. CASE e.fp \in asked /\ e.fp \notin Repeatable \ Unserializable
    <2>1. e.fp \in Unserializable \/ e.fp \in PagesOf(rows)
      <3>1. CASE FirstAttempt(e) /\ e.fp \notin Unserializable
        <4>1. e.filter
          BY <1>7, <3>1 DEF Admitted, Accepted, Proper
        <4>2. e.fp \in fps
          BY <1>7, <3>1 DEF Working, AskedIsRemembered
        <4>. QED
          BY <1>1, <1>3, <4>1, <4>2
      <3>. QED
        BY <3>1 DEF Admitted
    <2>2. PagesOf(rows') = PagesOf(rows) /\ asked' = asked
      BY <1>1, <1>4, <1>7, <2>1
    <2>. QED
      BY <1>1, <2>2 DEF Job!jobVars
  <1>. QED
    BY <1>5, <1>6, <1>7

\* A completed callback expands its page, an exhausted or failed attempt gives it up,
\* unless the row of another attempt keeps it owed.
LEMMA CompleteRefined ==
    ASSUME Persistent, Working, NEW w \in Callers, WorkerCompletes(w)
    PROVE  Job!Next \/ UNCHANGED Job!jobVars
  <1>. DEFINE p == work[w].fp
  <1>1. /\ rows' = rows \ {work[w]} /\ asked' = asked /\ pc[w] = "output" /\ todo[w] = <<>>
        /\ work[w] \in Entries /\ work[w] \in Known
    BY CompleteRemovesOwnRow DEF Working, WorkerCompletes
  <1>2. p \in Fingerprints /\ p \in asked
    BY <1>1 DEF Entries, Working, KnownIsAsked
  <1>3. PagesOf(rows') \in {PagesOf(rows), PagesOf(rows) \ {p}}
    <2>1. PagesOf(rows') \subseteq PagesOf(rows)
      BY <1>1 DEF PagesOf
    <2>2. PagesOf(rows) \subseteq PagesOf(rows') \cup {p}
      BY <1>1 DEF PagesOf
    <2>. QED
      BY <2>1, <2>2
  <1>4. CASE verdict[w] = "ok"
    <2>1. handled' = handled \cup {p}
      BY <1>4 DEF WorkerCompletes
    <2>2. LinksInProgress(w)
      BY <1>1, <1>4 DEF Working, OutputsInProgress
    <2>3. {Links[p][i] : i \in DOMAIN Links[p]} \ Rejected \subseteq asked
      BY <1>1, <2>2 DEF LinksInProgress
    <2>4. Job!Expand(p)
      BY <1>1, <1>2, <1>3, <2>1, <2>3 DEF Job!Expand
    <2>. QED
      BY <1>2, <2>4 DEF Job!Next
  <1>5. CASE verdict[w] # "ok"
    <2>1. handled' = handled
      BY <1>5 DEF WorkerCompletes
    <2>2. CASE PagesOf(rows') = PagesOf(rows)
      BY <1>1, <2>1, <2>2 DEF Job!jobVars
    <2>3. CASE PagesOf(rows') = PagesOf(rows) \ {p} /\ p \in PagesOf(rows)
      BY <1>1, <1>2, <2>1, <2>3 DEF Job!GiveUp, Job!Next
    <2>. QED
      BY <1>3, <2>2, <2>3
  <1>. QED
    BY <1>4, <1>5

\* Whatever the engine, its workers, crashes and restarts do, the owner of the job sees
\* pages being discovered, asked for again by exempt requests, expanded and given up.
THEOREM EngineImplementsJob ==
    ASSUME Persistent
    PROVE  CrawlSpec => ImplementsJob
  <1>1. JobInv /\ [CrawlNext]_allVars => [Job!Next]_(Job!jobVars)
    <2>. SUFFICES ASSUME JobInv, [CrawlNext]_allVars
                  PROVE  Job!Next \/ UNCHANGED Job!jobVars
      OBVIOUS
    <2>1. Working
      BY DEF JobInv, Working
    <2>2. CASE UNCHANGED <<rows, fps, asked, handled, gaveUp>>
      BY <2>2 DEF Job!jobVars, PagesOf
    <2>. QED
      BY <2>1, <2>2, JobCases, AdmittedRefined, CompleteRefined
  <1>. QED
    BY <1>1, JobInitRefined, JobIsKept, PTL DEF CrawlSpec, ImplementsJob, Job!Spec

-----------------------------------------------------------------------------

\* All steps of the engine, by where they leave crawl() and its reason to end.
LEMMA PhaseCases ==
    ASSUME [CrawlNext]_allVars
    PROVE  \/ UNCHANGED <<phase, reason>>
           \/ StartRun \/ StartFails \/ Crash \/ RunEnds
           \/ PassEnds \/ IdleKeepsAlive \/ Woke
           \/ IdleEnds \/ CloseWhileBusy \/ ClosedEarlier \/ TaskFailed
  <1>1. ASSUME NEW w \in Callers,
               \/ WorkerStep(w) \/ WorkerLooks(w) \/ DownloadFails(w) \/ DownloadRetried(w)
               \/ HandlerRaises(w) \/ WorkerScheduleRaises(w) \/ CompleteRaises(w)
        PROVE  UNCHANGED <<phase, reason>>
    BY <1>1
    DEF WorkerStep, WorkerTakes, WorkerToldNone, CallbackReturns, Handled, WorkerSchedules,
        WorkerCompletes, WorkerReleases, WaitingWorkerCancelled, BusyWorkerCancelled,
        Fails, crawlVars, WorkerLooks, loopVars, DownloadFails, DownloadRetried,
        HandlerRaises, WorkerScheduleRaises, CompleteRaises
  <1>2. CASE ProducerStep \/ ProducerLooks \/ ProducerRaises
    BY <1>2 DEF ProducerStep, ProducerTold, ProducerSchedules, ProducerEnds,
                ProducerCancelled, ProducerLooks, ProducerRaises, crawlVars, loopVars
  <1>3. CASE \/ ExtraSchedules \/ FinishSchedule \/ CloseWhileIdle \/ NothingToDo
             \/ UNCHANGED allVars
    BY <1>3 DEF ExtraSchedules, FinishSchedule, CloseWhileIdle, NothingToDo, allVars,
                loopVars
  <1>. QED
    BY <1>1, <1>2, <1>3 DEF CrawlNext, OrderlyStep, FaultStep, EngineStep

\* All steps of the engine, by what they do to the requests there are to work on.
LEMMA WorkCases ==
    ASSUME CrawlTypeOK, TodoProper, GrantIsForARequest, [CrawlNext]_allVars
    PROVE  \/ UNCHANGED <<rows, staged, queued, active>>
           \/ StartRun \/ Crash \/ RunEnds
           \/ IdleEnds \/ CloseWhileBusy \/ ClosedEarlier \/ TaskFailed
           \/ Schedules /\ \E e : Accepted(e)
           \/ FinishSchedule
           \/ \E w \in Callers :
                 \/ WorkerLooks(w) /\ PopRequest(w)
                 \/ WorkerCompletes(w) \/ WorkerReleases(w)
  <1>. DEFINE Same == UNCHANGED <<rows, staged, queued, active>>
  <1>1. ASSUME UNCHANGED vars PROVE Same
    BY <1>1 DEF vars, storeVars, coordinatorVars
  <1>2. CASE StartFails
    BY <1>2 DEF StartFails, coordinatorVars
  <1>3. CASE Schedules
    BY <1>1, <1>3, ScheduleCases
  <1>4. CASE ProducerTold \/ ProducerEnds \/ ProducerCancelled \/ ProducerLooks
    BY <1>1, <1>4
    DEF ProducerTold, TakeSlot, ProducerEnds, CloseInput, ProducerCancelled, ProducerLooks,
        AnswerSlot, SleepForSlot, storeVars, coordinatorVars
  <1>5. ASSUME NEW r, ScheduleRaises(r) PROVE Same
    BY <1>5 DEF ScheduleRaises, ScheduleFails, storeVars
  <1>6. CASE ProducerRaises
    BY <1>1, <1>5, <1>6 DEF ProducerRaises
  <1>7. CASE \/ PassEnds \/ IdleKeepsAlive \/ Woke \/ CloseWhileIdle \/ NothingToDo
             \/ UNCHANGED allVars
    BY <1>1, <1>7 DEF PassEnds, IdleKeepsAlive, Woke, CloseWhileIdle, NothingToDo, allVars
  <1>8. ASSUME NEW w \in Callers, WorkerTakes(w) \/ WorkerToldNone(w) PROVE Same
    BY <1>8 DEF WorkerTakes, WorkerToldNone, TakeAnswer, storeVars, coordinatorVars
  <1>9. ASSUME NEW w \in Callers, CallbackReturns(w) \/ DownloadFails(w) \/ DownloadRetried(w)
        PROVE  Same
    BY <1>1, <1>9 DEF CallbackReturns, DownloadFails, DownloadRetried, Handled
  <1>10. ASSUME NEW w \in Callers,
                \/ HandlerRaises(w) \/ CompleteRaises(w) \/ BusyWorkerCancelled(w)
                \/ WaitingWorkerCancelled(w)
         PROVE  Same
    BY <1>1, <1>10 DEF HandlerRaises, CompleteRaises, BusyWorkerCancelled,
                       WaitingWorkerCancelled, CancelCall, storeVars, coordinatorVars
  <1>11. ASSUME NEW w \in Callers, WorkerScheduleRaises(w) PROVE Same
    BY <1>5, <1>11 DEF WorkerScheduleRaises
  <1>12. ASSUME NEW w \in Callers, WorkerLooks(w), ~PopRequest(w) PROVE Same
    BY <1>12 DEF WorkerLooks, AnswerNone, Sleep, storeVars, coordinatorVars
  <1>. HIDE DEF Same
  <1>13. ASSUME NEW w \in Callers, WorkerStep(w)
         PROVE  Same \/ Schedules \/ WorkerCompletes(w) \/ WorkerReleases(w)
    BY <1>8, <1>9, <1>10, <1>13 DEF WorkerStep, Schedules
  <1>14. CASE OrderlyStep \/ UNCHANGED allVars
    <2>1. CASE ProducerStep \/ ProducerLooks
      BY <1>3, <1>4, <2>1 DEF ProducerStep, Schedules, Same
    <2>2. CASE EngineStep
      BY <1>7, <2>2 DEF EngineStep, Same
    <2>3. ASSUME NEW w \in Callers, WorkerLooks(w) PROVE Same \/ PopRequest(w)
      BY <1>12, <2>3
    <2>. QED
      BY <1>3, <1>7, <1>13, <1>14, <2>1, <2>2, <2>3 DEF OrderlyStep, Schedules, Same
  <1>15. CASE FaultStep
    BY <1>2, <1>6, <1>7, <1>9, <1>10, <1>11, <1>15 DEF FaultStep, Same
  <1>. QED
    BY <1>14, <1>15 DEF CrawlNext

\* All steps of the engine, by what they do to the input of the coordinator.
LEMMA InputCases ==
    ASSUME CrawlTypeOK, TodoProper, UpOrGone, GrantIsForARequest, [CrawlNext]_allVars
    PROVE  \/ inputClosed' = inputClosed
           \/ StartRun \/ Crash \/ RunEnds \/ ProducerEnds
  <1>1. ASSUME UNCHANGED vars PROVE inputClosed' = inputClosed
    BY <1>1 DEF vars, coordinatorVars
  <1>2. CASE StartFails
    BY <1>2 DEF StartFails, coordinatorVars
  <1>3. ASSUME Schedules PROVE inputClosed' = inputClosed
    BY <1>1, <1>3, ScheduleCases DEF Accepted, Schedule
  <1>4. CASE ProducerTold \/ ProducerCancelled \/ ProducerLooks
    BY <1>1, <1>4
    DEF ProducerTold, TakeSlot, ProducerCancelled, ProducerLooks, AnswerSlot, SleepForSlot,
        coordinatorVars
  <1>5. ASSUME NEW r, ScheduleRaises(r) PROVE inputClosed' = inputClosed
    BY <1>5 DEF ScheduleRaises, ScheduleFails
  <1>6. CASE ProducerRaises
    BY <1>1, <1>5, <1>6 DEF ProducerRaises
  <1>7. CASE \/ PassEnds \/ IdleKeepsAlive \/ Woke \/ CloseWhileIdle \/ NothingToDo
             \/ UNCHANGED allVars
    BY <1>1, <1>7 DEF PassEnds, IdleKeepsAlive, Woke, CloseWhileIdle, NothingToDo, allVars
  <1>8. CASE FinishSchedule \/ IdleEnds \/ CloseWhileBusy \/ ClosedEarlier \/ TaskFailed
    BY <1>8 DEF FinishSchedule, Activate, IdleEnds, CloseWhileBusy, ClosedEarlier,
                TaskFailed, Teardown, Abort
  <1>9. ASSUME NEW w \in Callers,
               \/ WorkerTakes(w) \/ WorkerToldNone(w) \/ CallbackReturns(w)
               \/ DownloadFails(w) \/ DownloadRetried(w)
        PROVE  inputClosed' = inputClosed
    BY <1>1, <1>9 DEF WorkerTakes, WorkerToldNone, TakeAnswer, coordinatorVars,
                      CallbackReturns, DownloadFails, DownloadRetried, Handled
  <1>10. ASSUME NEW w \in Callers,
                \/ HandlerRaises(w) \/ CompleteRaises(w) \/ BusyWorkerCancelled(w)
                \/ WaitingWorkerCancelled(w) \/ WorkerScheduleRaises(w)
         PROVE  inputClosed' = inputClosed
    BY <1>1, <1>5, <1>10 DEF HandlerRaises, CompleteRaises, BusyWorkerCancelled,
              WaitingWorkerCancelled, CancelCall, coordinatorVars, WorkerScheduleRaises
  <1>11. ASSUME NEW w \in Callers,
                WorkerLooks(w) \/ WorkerCompletes(w) \/ WorkerReleases(w)
         PROVE  inputClosed' = inputClosed
    BY <1>11 DEF WorkerLooks, PopRequest, AnswerNone, Sleep, coordinatorVars,
                 WorkerCompletes, Complete, WorkerReleases, Release
  <1>12. CASE FaultStep
    BY <1>2, <1>6, <1>7, <1>8, <1>9, <1>10, <1>12 DEF FaultStep
  <1>13. ASSUME NEW w \in Callers, WorkerStep(w) PROVE inputClosed' = inputClosed
    BY <1>3, <1>9, <1>10, <1>11, <1>13 DEF WorkerStep, Schedules
  <1>14. CASE OrderlyStep \/ UNCHANGED allVars
    BY <1>3, <1>4, <1>7, <1>8, <1>11, <1>13, <1>14
    DEF OrderlyStep, ProducerStep, EngineStep, Schedules
  <1>. QED
    BY <1>12, <1>14 DEF CrawlNext

-----------------------------------------------------------------------------

\* The number of workers is that of concurrent requests, which is not zero.
LEMMA SomeWorker == Callers # {}
  BY CrawlAssumption, CoordinatorAssumption, FS_EmptySet

\* Workers begin a pass together.  Within one, who failed has failed for good, and who
\* exits was told that all is done.
LEMMA ExitCases ==
    ASSUME TaskVarsOK, Resting, [CrawlNext]_allVars, AtWork', ~StartRun, NEW w \in Callers
    PROVE  /\ AtWork
           /\ pc'[w] = "exited" => pc[w] = "exited" \/ Moves(w, "exited")
           /\ pc[w] = "failed" => pc'[w] = "failed"
  <1>. USE DEF AtWork, TaskVarsOK
  <1>1. ~Crash /\ ~RunEnds /\ ~StartFails
    BY DEF Crash, RunEnds, StartFails
  <1>2. AtWork
    BY <1>1, PhaseCases
    DEF PassEnds, IdleKeepsAlive, Woke, IdleEnds, CloseWhileBusy, ClosedEarlier, TaskFailed,
        Teardown
  <1>3. CASE UNCHANGED taskVars
    BY <1>2, <1>3 DEF taskVars
  <1>4. CASE IdleKeepsAlive \/ Woke
    <2>1. pc[w] = "exited"
      BY <1>4 DEF IdleKeepsAlive, Woke, Resting, AllExited
    <2>. QED
      BY <1>2, <2>1
  <1>5. ASSUME NEW v \in Callers,
               \/ WorkerTakes(v) \/ WorkerSchedules(v) \/ CallbackReturns(v)
               \/ DownloadFails(v) \/ DownloadRetried(v)
               \/ WorkerCompletes(v) \/ WorkerReleases(v)
        PROVE  (pc'[w] = "exited" => pc[w] = "exited")
               /\ (pc[w] = "failed" => pc'[w] = "failed")
    BY <1>5 DEF WorkerTakes, WorkerSchedules, CallbackReturns, DownloadFails,
                DownloadRetried, Handled, WorkerCompletes, WorkerReleases
  <1>6. ASSUME NEW v \in Callers, NEW state \in {"exited", "failing", "failed"},
               Moves(v, state)
        PROVE  /\ pc'[w] = "exited" => pc[w] = "exited" \/ Moves(w, "exited")
               /\ pc[w] = "failed" => pc'[w] = "failed"
    <2>1. pc' = [pc EXCEPT ![v] = state] /\ pc[v] # "failed"
      BY <1>6 DEF Moves
    <2>2. CASE v = w
      BY <1>6, <2>1, <2>2
    <2>3. CASE v # w
      BY <2>1, <2>3
    <2>. QED
      BY <2>2, <2>3
  <1>. QED
    BY <1>1, <1>2, <1>3, <1>4, <1>5, <1>6, TaskCases

LEMMA RowsAreInWorkStep ==
    ASSUME Persistent, Working, Resting, RowsAreInWork, [CrawlNext]_allVars
    PROVE  RowsAreInWork'
  <1>. SUFFICES ASSUME AtWork', \A w \in Callers : pc'[w] # "failed",
                       NEW r \in rows'
                PROVE  r \in Pending' \/ r.id \in active'
    BY DEF RowsAreInWork
  <1>0. CrawlTypeOK /\ TodoProper /\ GrantIsForARequest /\ TaskVarsOK
        /\ pc \in [Callers -> WorkerStates]
    BY DEF Working, BooksInv, CrawlTypeOK, TaskVarsOK
  <1>1. CASE StartRun
    BY <1>1 DEF StartRun, Open, Volatile, Pending
  <1>2. CASE ~StartRun
    <2>1. \A q \in rows : q \in Pending \/ q.id \in active
      BY <1>0, <1>2, ExitCases, SomeWorker DEF RowsAreInWork
    <2>2. CASE UNCHANGED <<rows, staged, queued, active>>
      BY <2>1, <2>2 DEF Pending
    <2>3. ~Crash /\ ~RunEnds /\ ~IdleEnds /\ ~CloseWhileBusy /\ ~ClosedEarlier /\ ~TaskFailed
      BY DEF Crash, RunEnds, IdleEnds, CloseWhileBusy, ClosedEarlier, TaskFailed, Teardown,
             AtWork
    <2>4. ASSUME NEW e, Accepted(e) PROVE r \in Pending' \/ r.id \in active'
      <3>1. staged' = staged \cup {e} /\ queued' = queued /\ rows' \subseteq rows \cup {e}
        BY <2>4, AcceptedIsKnown
      <3>2. active' = active
        BY <2>4 DEF Accepted, Schedule
      <3>. QED
        BY <2>1, <3>1, <3>2 DEF Pending
    <2>5. CASE FinishSchedule
      BY <2>1, <2>5 DEF FinishSchedule, Activate, Pending, storeVars
    <2>6. ASSUME NEW w \in Callers, PopRequest(w) PROVE r \in Pending' \/ r.id \in active'
      <3>1. PICK e \in queued : queued' = queued \ {e} /\ active' = active \cup {e.id}
        BY <2>6 DEF PopRequest
      <3>. QED
        BY <2>1, <2>6, <3>1 DEF PopRequest, Pending, storeVars
    <2>7. ASSUME NEW w \in Callers, WorkerCompletes(w)
          PROVE  r \in Pending' \/ r.id \in active'
      BY <2>1, <2>7 DEF WorkerCompletes, Complete, StoreComplete, Pending
    <2>8. ASSUME NEW w \in Callers, WorkerReleases(w) PROVE FALSE
      BY <1>0, <2>8 DEF WorkerReleases
    <2>. QED
      BY <1>0, <1>2, <2>2, <2>3, <2>4, <2>5, <2>6, <2>7, <2>8, WorkCases
  <1>. QED
    BY <1>1, <1>2

LEMMA RestingStep ==
    ASSUME BooksInv, Resting, [CrawlNext]_allVars
    PROVE  Resting'
  <1>. SUFFICES ASSUME phase' \in {"idle", "waiting"} PROVE AllExited' /\ producer' = "done"
    BY DEF Resting
  <1>0. TaskVarsOK /\ pc \in [Callers -> WorkerStates]
    BY DEF BooksInv, CrawlTypeOK, TaskVarsOK
  <1>1. CASE PassEnds
    BY <1>1 DEF PassEnds, AllExited, taskVars, producerVars
  <1>2. CASE IdleKeepsAlive
    BY <1>2 DEF IdleKeepsAlive, NewPass, Resting, AllExited, producerVars
  <1>3. ~StartRun /\ ~StartFails /\ ~Crash /\ ~RunEnds /\ ~Woke
        /\ ~IdleEnds /\ ~CloseWhileBusy /\ ~ClosedEarlier /\ ~TaskFailed
    BY DEF StartRun, StartFails, Crash, RunEnds, Woke, NewPass, IdleEnds, CloseWhileBusy,
           ClosedEarlier, TaskFailed, Teardown
  <1>4. CASE UNCHANGED phase /\ ~IdleKeepsAlive
    <2>1. (\A w \in Callers : pc[w] = "exited") /\ producer = "done"
      BY <1>4 DEF Resting, AllExited
    <2>2. UNCHANGED pc
      BY <1>3, <1>4, <2>1, TaskCases
      DEF taskVars, WorkerTakes, WorkerSchedules, CallbackReturns, DownloadFails,
          DownloadRetried, Handled, WorkerCompletes, WorkerReleases, Moves
    <2>3. UNCHANGED producer
      BY <1>3, <2>1, ProducerCases
      DEF producerVars, ProducerTold, ProducerSchedules, ProducerEnds, ProducerCancelled,
          ProducerRaises
    <2>. QED
      BY <2>1, <2>2, <2>3 DEF AllExited
  <1>. QED
    BY <1>1, <1>2, <1>3, <1>4, PhaseCases

\* Who exits finds the input closed; while it is open the producer is at work.
LEMMA InputStep ==
    ASSUME BooksInv, Resting, ExitsAreFinal, [CrawlNext]_allVars
    PROVE  /\ (\E w \in Callers : pc'[w] = "exited") => inputClosed'
           /\ inputClosed' => producer' \in {"done", "failed"}
  <1>0. /\ CrawlTypeOK /\ TodoProper /\ UpOrGone /\ GrantIsForARequest
        /\ pc \in [Callers -> WorkerStates]
    BY DEF BooksInv, CrawlTypeOK, TaskVarsOK
  <1>1. CASE StartRun \/ Crash \/ RunEnds
    BY <1>1 DEF StartRun, Open, Crash, RunEnds, Leave, Volatile, Forget
  <1>2. CASE ~StartRun /\ ~Crash /\ ~RunEnds
    <2>1. inputClosed => inputClosed'
      BY <1>0, <1>2, InputCases DEF ProducerEnds, CloseInput
    <2>2. ASSUME NEW w \in Callers, pc'[w] = "exited" PROVE inputClosed'
      <3>1. pc[w] = "exited" \/ Drained
        BY <1>0, <1>2, <2>2, TaskCases
        DEF taskVars, IdleKeepsAlive, Woke, NewPass, WorkerTakes, WorkerSchedules,
            CallbackReturns, DownloadFails, DownloadRetried, Handled, WorkerCompletes,
            WorkerReleases, Moves
      <3>. QED
        BY <2>1, <3>1 DEF ExitsAreFinal, Drained
    <2>3. ASSUME ProducerEnds PROVE inputClosed' => producer' \in {"done", "failed"}
      BY <2>3 DEF ProducerEnds
    <2>4. ASSUME inputClosed' = inputClosed, ~ProducerEnds
          PROVE  inputClosed' => producer' \in {"done", "failed"}
      <3>1. CASE UNCHANGED producerVars
        BY <2>4, <3>1 DEF ExitsAreFinal, producerVars
      <3>2. CASE ProducerTold \/ ProducerSchedules \/ ProducerCancelled \/ ProducerRaises
        BY <2>4, <3>2 DEF ExitsAreFinal, ProducerTold, ProducerSchedules,
                          ProducerCancelled, ProducerRaises
      <3>. QED
        BY <1>2, <2>4, <3>1, <3>2, ProducerCases
    <2>. QED
      BY <1>0, <1>2, <2>2, <2>3, <2>4, InputCases
  <1>. QED
    BY <1>1, <1>2

LEMMA ExitsAreFinalStep ==
    ASSUME BooksInv, Resting, ExitsAreFinal, [CrawlNext]_allVars
    PROVE  ExitsAreFinal'
  <1>0. /\ CrawlTypeOK /\ TodoProper /\ GrantIsForARequest /\ TaskVarsOK
        /\ pc \in [Callers -> WorkerStates]
    BY DEF BooksInv, CrawlTypeOK, TaskVarsOK
  <1>1. SUFFICES ASSUME AtWork', AllExited'
                 PROVE  active' = {} /\ PagesOf(Pending') \subseteq Extras
    BY InputStep DEF ExitsAreFinal
  <1>2. PICK v \in Callers : TRUE
    BY SomeWorker
  <1>3. ~StartRun
    BY <1>1, <1>2 DEF StartRun, AllExited
  <1>4. AtWork /\ \A w \in Callers : pc[w] = "exited" \/ Moves(w, "exited")
    BY <1>0, <1>1, <1>2, <1>3, ExitCases DEF AllExited
  <1>5. ASSUME NEW w \in Callers, Moves(w, "exited")
        PROVE  active' = {} /\ PagesOf(Pending') \subseteq Extras
    BY <1>5 DEF Moves, Drained, Pending, PagesOf
  <1>6. CASE AllExited
    <2>1. active = {} /\ PagesOf(Pending) \subseteq Extras
      BY <1>4, <1>6 DEF ExitsAreFinal
    <2>2. CASE UNCHANGED <<rows, staged, queued, active>>
      BY <2>1, <2>2 DEF Pending
    <2>3. ~Crash /\ ~RunEnds /\ ~IdleEnds /\ ~CloseWhileBusy /\ ~ClosedEarlier /\ ~TaskFailed
      BY <1>1 DEF Crash, RunEnds, IdleEnds, CloseWhileBusy, ClosedEarlier, TaskFailed,
                  Teardown, AtWork
    <2>4. CASE ExtraSchedules
      <3>1. ASSUME NEW e, Accepted(e), e.fp \in Extras
            PROVE  active' = {} /\ PagesOf(Pending') \subseteq Extras
        <4>1. staged' = staged \cup {e} /\ queued' = queued
          BY <3>1, AcceptedIsKnown
        <4>2. active' = active
          BY <3>1 DEF Accepted, Schedule
        <4>. QED
          BY <2>1, <3>1, <4>1, <4>2 DEF Pending, PagesOf
      <3>2. CASE UNCHANGED vars
        BY <2>1, <3>2 DEF vars, coordinatorVars, Pending
      <3>. QED
        BY <1>0, <2>4, <3>1, <3>2, ExtraAccepted
    <2>5. ~ProducerSchedules
      BY <1>2, <1>6 DEF ProducerSchedules, ExitsAreFinal, AllExited
    <2>6. \A w \in Callers : /\ ~WorkerSchedules(w) /\ ~WorkerLooks(w)
                             /\ ~WorkerCompletes(w) /\ ~WorkerReleases(w)
      BY <1>6 DEF WorkerSchedules, WorkerLooks, WorkerCompletes, WorkerReleases, AllExited
    <2>7. CASE FinishSchedule
      <3>1. PICK e \in staged : staged' = staged \ {e} /\ queued' = queued \cup {e}
                                /\ active' = active
        BY <2>7 DEF FinishSchedule, Activate
      <3>. QED
        BY <2>1, <3>1 DEF Pending, PagesOf
    <2>. QED
      BY <1>0, <1>3, <2>2, <2>3, <2>4, <2>5, <2>6, <2>7, WorkCases DEF Schedules
  <1>. QED
    BY <1>4, <1>5, <1>6 DEF AllExited

LEMMA StartsAreAskedStep ==
    ASSUME Persistent, Working, StartsAreAsked, [CrawlNext]_allVars
    PROVE  StartsAreAsked'
  <1>. USE DEF StartsAreAsked
  <1>0. /\ asked \subseteq asked' /\ CrawlTypeOK /\ GrantIsForARequest /\ BooksInv
        /\ startLeft \in Seq(Fingerprints)
    BY JobGrows DEF Working, BooksInv, CrawlTypeOK, ProducerVarsOK
  <1>1. CASE UNCHANGED producerVars
    BY <1>0, <1>1 DEF producerVars
  <1>2. CASE StartRun
    BY <1>2 DEF StartRun
  <1>3. CASE Crash \/ RunEnds \/ ProducerCancelled \/ ProducerRaises
    BY <1>3 DEF Crash, RunEnds, Forget, ProducerCancelled, ProducerRaises
  <1>4. CASE ProducerTold
    BY <1>0, <1>4 DEF ProducerTold
  <1>5. CASE ProducerEnds
    <2>1. DOMAIN startLeft = {} \/ startLeft # <<>>
      BY LenProperties, <1>0
    <2>. QED
      BY <1>0, <1>5, <2>1 DEF ProducerEnds
  <1>6. CASE ProducerSchedules
    <2>1. startLeft # <<>> /\ startLeft' = Tail(startLeft) /\ producer' = "iterating"
          /\ producer = "granted" /\ up
      BY <1>0, <1>6 DEF ProducerSchedules, GrantIsForARequest, LoopFree
    <2>2. seen \subseteq asked
      BY <1>0, <2>1, SeenIsStored DEF Working, AskedIsRemembered
    <2>3. Head(startLeft) \in asked' \cup Rejected
      BY <1>0, <1>6, <2>2, StartAccepted, AcceptedIsKnown
    <2>4. \A j \in DOMAIN startLeft :
             \/ startLeft[j] = Head(startLeft)
             \/ \E k \in DOMAIN Tail(startLeft) : Tail(startLeft)[k] = startLeft[j]
      BY <1>0, <2>1, HeadAndTail
    <2>. QED
      BY <1>0, <2>1, <2>3, <2>4
  <1>. QED
    BY <1>1, <1>2, <1>3, <1>4, <1>5, <1>6, ProducerCases

\* The end comes as "finished" only from an idle engine whose start pages were all asked for
\* and whose rows are of what an extension added; from then on nothing is accepted.
LEMMA FinishedStaysStep ==
    ASSUME Persistent, Working, RowsAreInWork, ExitsAreFinal, Resting, StartsAreAsked,
           FinishedStays, [CrawlNext]_allVars
    PROVE  FinishedStays'
  <1>. SUFFICES ASSUME phase' \in {"stopping", "ended"}, reason' = "finished"
                PROVE  /\ \A i \in DOMAIN StartPages : StartPages[i] \in asked' \cup Rejected
                       /\ PagesOf(rows') \subseteq Extras
    BY DEF FinishedStays
  <1>0. asked \subseteq asked'
    BY JobGrows
  <1>1. ~StartRun /\ ~StartFails /\ ~Crash /\ ~PassEnds /\ ~IdleKeepsAlive /\ ~Woke
    BY DEF StartRun, StartFails, Crash, PassEnds, IdleKeepsAlive, Woke, NewPass
  <1>2. ~CloseWhileBusy /\ ~ClosedEarlier /\ ~TaskFailed
    BY DEF CloseWhileBusy, ClosedEarlier, TaskFailed, Teardown
  <1>3. CASE phase \in {"stopping", "ended"} /\ reason = "finished"
    <2>1. ASSUME NEW e, Admitted(e) PROVE FALSE
      BY <1>3, <2>1 DEF Admitted, Accepted, AtWork
    <2>2. rows' \subseteq rows
      BY <2>1, JobCases, CompleteRemovesOwnRow DEF Working
    <2>. QED
      BY <1>0, <1>3, <2>2 DEF FinishedStays, PagesOf
  <1>4. CASE IdleEnds
    <2>1. phase = "idle" /\ rows' = rows
      BY <1>4 DEF IdleEnds, Teardown, Abort, storeVars
    <2>2. AllExited /\ producer = "done"
      BY <2>1 DEF Resting
    <2>3. \A r \in rows : r \in Pending \/ r.id \in active
      BY <2>1, <2>2 DEF RowsAreInWork, AtWork, AllExited
    <2>4. active = {} /\ PagesOf(Pending) \subseteq Extras
      BY <2>1, <2>2 DEF ExitsAreFinal, AtWork
    <2>. QED
      BY <1>0, <2>1, <2>2, <2>3, <2>4 DEF StartsAreAsked, PagesOf
  <1>5. CASE RunEnds
    BY <1>3, <1>5 DEF RunEnds
  <1>. QED
    BY <1>1, <1>2, <1>3, <1>4, <1>5, PhaseCases

LEMMA EndInit == CrawlInit => EndInv
  <1>. SUFFICES ASSUME CrawlInit PROVE EndInv
    OBVIOUS
  <1>1. /\ phase = "down" /\ producer = "none" /\ ~inputClosed
        /\ \A w \in Callers : pc[w] = "none"
    BY DEF CrawlInit, Init
  <1>. QED
    BY <1>1, JobInit
    DEF EndInv, RowsAreInWork, ExitsAreFinal, Resting, StartsAreAsked, FinishedStays, AtWork

LEMMA EndStep ==
    ASSUME Persistent, EndInv, [CrawlNext]_allVars
    PROVE  EndInv'
  <1>1. JobInv /\ Working /\ BooksInv
    BY DEF EndInv, JobInv, Working
  <1>2. JobInv'
    BY <1>1, JobStep
  <1>3. RowsAreInWork' /\ Resting' /\ ExitsAreFinal'
    BY <1>1, RowsAreInWorkStep, RestingStep, ExitsAreFinalStep DEF EndInv
  <1>4. StartsAreAsked' /\ FinishedStays'
    BY <1>1, StartsAreAskedStep, FinishedStaysStep DEF EndInv
  <1>. QED
    BY <1>2, <1>3, <1>4 DEF EndInv

\* A crawl that ends as "finished" has nothing left to do: all start pages were asked
\* for, with dont_filter or without, and the rows that are left belong to what an extension
\* added while it was idle.
THEOREM FinishedMeansExhausted ==
    ASSUME Persistent
    PROVE  CrawlSpec => []FinishedIsExhausted
  <1>1. EndInv /\ [CrawlNext]_allVars => EndInv'
    BY EndStep
  <1>2. EndInv => FinishedIsExhausted
    BY DEF EndInv, FinishedStays, FinishedIsExhausted
  <1>. QED
    BY <1>1, <1>2, EndInit, PTL DEF CrawlSpec

-----------------------------------------------------------------------------

\* A process that works on the job, and was not told to stop, was there before or begins.
LEMMA LiveCases ==
    ASSUME AnyStep, Live'
    PROVE  Live \/ Open
  BY DEF AnyStep, Live, Open, Leave, RestoreSome, Volatile, Schedule, ScheduleFails, Activate,
         Complete, Release, CloseInput, Abort, TakeAnswer, CancelCall, TakeSlot, PopRequest,
         AnswerNone, Sleep, AnswerSlot, SleepForSlot, vars, coordinatorVars

\* All steps of the engine, by what they do to the answers in flight.
CallsStay ==
    /\ UNCHANGED got
    /\ \A w \in Callers : /\ call[w] = "returned" => call'[w] = "returned"
                          /\ pc[w] = "asking" => pc'[w] = "asking"

LEMMA CallCases ==
    ASSUME CrawlTypeOK, [CrawlNext]_allVars
    PROVE  \/ CallsStay
           \/ StartRun \/ Crash \/ RunEnds
           \/ \E w \in Callers :
                 \/ WorkerLooks(w) /\ (PopRequest(w) \/ AnswerNone(w))
                 \/ WorkerTakes(w) \/ WorkerToldNone(w) \/ WaitingWorkerCancelled(w)
  <1>. USE DEF vars, callVars, Woken
  <1>0. call \in [Callers -> CallStates] /\ pc \in [Callers -> WorkerStates]
    BY DEF CrawlTypeOK, TypeOK, TaskVarsOK
  <1>1. ASSUME UNCHANGED callVars \/ NotifyWaiters, UNCHANGED taskVars PROVE CallsStay
    BY <1>0, <1>1 DEF CallsStay, NotifyWaiters, taskVars
  <1>2. CASE StartFails
    BY <1>1, <1>2 DEF StartFails
  <1>3. ASSUME NEW r, TrySchedule(r) \/ ScheduleRaises(r) PROVE UNCHANGED callVars
    BY <1>3 DEF TrySchedule, ScheduleRaises, Schedule, ScheduleFails
  <1>4. CASE ExtraSchedules \/ ProducerSchedules \/ ProducerRaises
    BY <1>1, <1>3, <1>4 DEF ExtraSchedules, loopVars, taskVars, ProducerSchedules, ProducerRaises
  <1>5. ASSUME NEW w \in Callers, WorkerSchedules(w) PROVE CallsStay
    BY <1>3, <1>5 DEF WorkerSchedules, CallsStay
  <1>6. ASSUME NEW w \in Callers, WorkerScheduleRaises(w) PROVE CallsStay
    BY <1>0, <1>3, <1>6 DEF WorkerScheduleRaises, Fails, CallsStay
  <1>7. CASE ProducerTold \/ ProducerEnds \/ ProducerCancelled
    BY <1>1, <1>7 DEF ProducerTold, TakeSlot, ProducerEnds, CloseInput, ProducerCancelled,
                      CallsStay, taskVars
  <1>8. CASE FinishSchedule
    BY <1>1, <1>8 DEF FinishSchedule, Activate
  <1>9. CASE \/ PassEnds \/ CloseWhileIdle \/ NothingToDo \/ UNCHANGED allVars
    BY <1>1, <1>9 DEF PassEnds, CloseWhileIdle, NothingToDo, allVars, loopVars, taskVars
  <1>10. CASE IdleKeepsAlive \/ Woke
    BY <1>0, <1>10 DEF IdleKeepsAlive, Woke, NewPass, CallsStay
  <1>11. CASE IdleEnds \/ ClosedEarlier \/ CloseWhileBusy \/ TaskFailed
    BY <1>1, <1>11 DEF IdleEnds, ClosedEarlier, CloseWhileBusy, TaskFailed, Teardown, Abort
  <1>12. CASE ProducerLooks
    BY <1>12 DEF ProducerLooks, AnswerSlot, SleepForSlot, loopVars, CallsStay
  <1>13. ASSUME NEW w \in Callers, WorkerLooks(w), Sleep(w) PROVE CallsStay
    BY <1>0, <1>13 DEF WorkerLooks, Sleep, loopVars, CallsStay
  <1>14. ASSUME NEW w \in Callers,
                \/ CallbackReturns(w) \/ DownloadFails(w) \/ DownloadRetried(w)
                \/ HandlerRaises(w) \/ CompleteRaises(w) \/ BusyWorkerCancelled(w)
         PROVE  CallsStay
    BY <1>0, <1>14 DEF CallbackReturns, DownloadFails, DownloadRetried, Handled,
                       HandlerRaises, CompleteRaises, BusyWorkerCancelled, Fails, CallsStay
  <1>15. ASSUME NEW w \in Callers, WorkerCompletes(w) \/ WorkerReleases(w) PROVE CallsStay
    BY <1>0, <1>15 DEF WorkerCompletes, WorkerReleases, Complete, Release, NotifyWaiters,
                       CallsStay
  <1>16. CASE FaultStep
    BY <1>2, <1>4, <1>6, <1>9, <1>11, <1>14, <1>16 DEF FaultStep
  <1>17. CASE OrderlyStep \/ UNCHANGED allVars
    BY <1>4, <1>5, <1>7, <1>8, <1>9, <1>10, <1>11, <1>12, <1>13, <1>14, <1>15, <1>17
    DEF OrderlyStep, WorkerStep, ProducerStep, EngineStep, WorkerLooks
  <1>. QED
    BY <1>16, <1>17 DEF CrawlNext

LEMMA CallsAreAskedStep ==
    ASSUME BooksInv, Resting, CallsAreAsked, [CrawlNext]_allVars
    PROVE  CallsAreAsked'
  <1>0. /\ CrawlTypeOK /\ UpOrGone /\ TaskVarsOK
        /\ call \in [Callers -> CallStates] /\ got \in [Callers -> Nat \cup {NoRequest}]
        /\ pc \in [Callers -> WorkerStates] /\ work \in [Callers -> Entries \cup {NoEntry}]
    BY DEF BooksInv, CrawlTypeOK, TypeOK, TaskVarsOK
  <1>. USE DEF CallsAreAsked
  <1>1. ASSUME NEW w \in Callers, pc'[w] \in {"none", "asking", "exited"}
        PROVE  work'[w] = NoEntry
    <2>1. CASE UNCHANGED taskVars
      BY <1>1, <2>1 DEF taskVars
    <2>2. CASE StartRun
      BY <2>2 DEF StartRun, Open, UpOrGone, BooksInv
    <2>3. CASE Crash \/ RunEnds
      BY <2>3 DEF Crash, RunEnds, Forget
    <2>4. CASE IdleKeepsAlive \/ Woke
      BY <2>4 DEF IdleKeepsAlive, Woke, Resting, AllExited
    <2>5. ASSUME NEW v \in Callers,
                 \/ WorkerTakes(v) \/ WorkerSchedules(v) \/ CallbackReturns(v)
                 \/ DownloadFails(v) \/ DownloadRetried(v)
                 \/ WorkerCompletes(v) \/ WorkerReleases(v)
          PROVE  work'[w] = NoEntry
      BY <1>0, <1>1, <2>5 DEF WorkerTakes, WorkerSchedules, CallbackReturns, DownloadFails,
                DownloadRetried, Handled, WorkerCompletes, WorkerReleases
    <2>6. ASSUME NEW v \in Callers, NEW state \in {"exited", "failing", "failed"},
                 Moves(v, state)
          PROVE  work'[w] = NoEntry
      <3>1. pc' = [pc EXCEPT ![v] = state] /\ work' = work
        BY <2>6 DEF Moves
      <3>2. CASE v # w
        BY <1>0, <1>1, <3>1, <3>2
      <3>3. CASE v = w
        <4>1. state = "exited"
          BY <1>0, <1>1, <3>1, <3>3
        <4>. QED
          BY <2>6, <3>1, <3>3, <4>1 DEF Moves
      <3>. QED
        BY <3>2, <3>3
    <2>. QED
      BY <2>1, <2>2, <2>3, <2>4, <2>5, <2>6, TaskCases
  <1>2. CASE StartRun \/ Crash \/ RunEnds
    BY <1>1, <1>2 DEF StartRun, Open, Crash, RunEnds, Leave, Volatile
  <1>3. CASE CallsStay
    BY <1>0, <1>1, <1>3 DEF CallsStay
  <1>4. ASSUME NEW w \in Callers, WorkerLooks(w), PopRequest(w) \/ AnswerNone(w)
        PROVE  CallsAreAsked'
    <2>1. PICK id : Answer(w, id)
      BY <1>4 DEF PopRequest, AnswerNone
    <2>2. /\ call'[w] = "returned" /\ pc[w] = "asking"
          /\ \A v \in Callers : v # w => call'[v] \in {call[v], Woken(call[v])}
                                         /\ got'[v] = got[v]
      BY <1>0, <1>4, <2>1 DEF Answer, WorkerLooks
    <2>3. pc' = pc
      BY <1>4 DEF WorkerLooks, loopVars
    <2>. QED
      BY <1>0, <1>1, <2>2, <2>3 DEF Woken
  <1>5. ASSUME NEW w \in Callers,
               WorkerTakes(w) \/ WorkerToldNone(w) \/ WaitingWorkerCancelled(w)
        PROVE  CallsAreAsked'
    <2>1. \/ call' = [call EXCEPT ![w] = "free"] /\ got' = [got EXCEPT ![w] = NoRequest]
          \/ call[w] = "free" /\ UNCHANGED <<call, got>>
      BY <1>5 DEF WorkerTakes, WorkerToldNone, TakeAnswer, WaitingWorkerCancelled, CancelCall,
                  vars, callVars
    <2>2. \A v \in Callers : v # w => pc'[v] = pc[v]
      BY <1>0, <1>5 DEF WorkerTakes, WorkerToldNone, WaitingWorkerCancelled, Fails
    <2>. QED
      BY <1>0, <1>1, <2>1, <2>2
  <1>. QED
    BY <1>0, <1>2, <1>3, <1>4, <1>5, CallCases

\* Only a worker that is done with its request, or is not told yet, changes what it has.
HandsStay == \A w \in Callers : InHands(w) \in active => InHands(w)' = InHands(w)

LEMMA HandsCases ==
    ASSUME BooksInv, CallsAreAsked, ~aborted, [CrawlNext]_allVars
    PROVE  \/ HandsStay
           \/ StartRun \/ Crash \/ RunEnds
           \/ \E w \in Callers :
                 \/ WorkerLooks(w) /\ PopRequest(w)
                 \/ WorkerCompletes(w) \/ WorkerReleases(w)
  <1>0. /\ CrawlTypeOK /\ TaskVarsOK
        /\ call \in [Callers -> CallStates] /\ got \in [Callers -> Nat \cup {NoRequest}]
        /\ pc \in [Callers -> WorkerStates] /\ work \in [Callers -> Entries \cup {NoEntry}]
        /\ active \subseteq Nat
    BY DEF BooksInv, CrawlTypeOK, TypeOK, TaskVarsOK
  <1>. USE DEF CallsAreAsked, HandsStay, InHands
  <1>1. CASE UNCHANGED <<got, work>>
    BY <1>1
  <1>2. ASSUME NEW w \in Callers, WorkerTakes(w) PROVE HandsStay
    <2>1. PICK e \in registered : e.id = got[w] /\ work' = [work EXCEPT ![w] = e]
      BY <1>2 DEF WorkerTakes
    <2>2. e.id \in Nat
      BY <2>1 DEF CrawlTypeOK, CrawlVarsOK, Entries, BooksInv
    <2>3. got' = [got EXCEPT ![w] = NoRequest]
      BY <1>2 DEF WorkerTakes, TakeAnswer
    <2>4. InHands(w)' = InHands(w)
      <3>1. got'[w] = NoRequest /\ work'[w] = e /\ got[w] # NoRequest
        BY <1>0, <2>1, <2>2, <2>3 DEF NoRequest
      <3>. QED
        BY <2>1, <3>1
    <2>5. ASSUME NEW v \in Callers, v # w PROVE InHands(v)' = InHands(v)
      BY <1>0, <2>1, <2>3, <2>5
    <2>. QED
      BY <2>4, <2>5
  <1>3. ASSUME NEW w \in Callers, WorkerToldNone(w) \/ WaitingWorkerCancelled(w)
        PROVE  UNCHANGED <<got, work>>
    <2>1. work' = work
      BY <1>3 DEF WorkerToldNone, WaitingWorkerCancelled, Fails
    <2>2. CASE UNCHANGED vars
      BY <2>1, <2>2 DEF vars, callVars
    <2>3. CASE WorkerToldNone(w)
      <3>1. got[w] = NoRequest /\ got' = [got EXCEPT ![w] = NoRequest]
        BY <2>3 DEF WorkerToldNone, TakeAnswer
      <3>. QED
        BY <1>0, <2>1, <3>1
    <2>. QED
      BY <1>3, <2>2, <2>3 DEF WaitingWorkerCancelled, CancelCall
  <1>4. ASSUME NEW w \in Callers, WorkerLooks(w), AnswerNone(w)
        PROVE  UNCHANGED <<got, work>>
    <2>1. got[w] = NoRequest /\ got' = [got EXCEPT ![w] = NoRequest] /\ work' = work
      BY <1>4 DEF AnswerNone, Answer, WorkerLooks, loopVars
    <2>. QED
      BY <1>0, <2>1
  <1>5. ASSUME CallsStay, ~Crash, ~StartRun, ~RunEnds,
               \A w \in Callers : ~WorkerTakes(w) /\ ~WorkerCompletes(w) /\ ~WorkerReleases(w)
        PROVE  UNCHANGED <<got, work>>
    <2>1. UNCHANGED got
      BY <1>5 DEF CallsStay
    <2>2. CASE UNCHANGED taskVars
      BY <2>1, <2>2 DEF taskVars
    <2>3. CASE IdleKeepsAlive \/ Woke
      BY <2>1, <2>3 DEF IdleKeepsAlive, Woke
    <2>4. ASSUME NEW v \in Callers,
                 \/ WorkerSchedules(v) \/ CallbackReturns(v)
                 \/ DownloadFails(v) \/ DownloadRetried(v)
          PROVE  UNCHANGED <<got, work>>
      BY <2>1, <2>4 DEF WorkerSchedules, CallbackReturns, DownloadFails, DownloadRetried,
                        Handled
    <2>5. ASSUME NEW v \in Callers, NEW state \in {"exited", "failing", "failed"},
                 Moves(v, state)
          PROVE  UNCHANGED <<got, work>>
      BY <2>1, <2>5 DEF Moves
    <2>. QED
      BY <1>5, <2>2, <2>3, <2>4, <2>5, TaskCases
  <1>. QED
    BY <1>0, <1>1, <1>2, <1>3, <1>4, <1>5, CallCases

LEMMA ActiveIsInHandsStep ==
    ASSUME BooksInv, CallsAreAsked, ActiveIsInHands, [CrawlNext]_allVars
    PROVE  ActiveIsInHands'
  <1>. SUFFICES ASSUME Live', NEW id \in active'
                PROVE  \E w \in Callers : InHands(w)' = id
    BY DEF ActiveIsInHands
  <1>0. /\ CrawlTypeOK /\ TodoProper /\ GrantIsForARequest
        /\ got \in [Callers -> Nat \cup {NoRequest}]
        /\ pc \in [Callers -> WorkerStates] /\ work \in [Callers -> Entries \cup {NoEntry}]
        /\ active \subseteq Nat /\ queued \subseteq Entries
    BY DEF BooksInv, CrawlTypeOK, TypeOK, TaskVarsOK
  <1>1. AnyStep
    BY EngineUsesCoordinator DEF BooksInv
  <1>2. ~Open
    BY DEF Open, Volatile
  <1>3. Live
    BY <1>1, <1>2, LiveCases
  <1>4. /\ ~StartRun /\ ~Crash /\ ~RunEnds
        /\ ~IdleEnds /\ ~CloseWhileBusy /\ ~ClosedEarlier /\ ~TaskFailed
    BY <1>2 DEF StartRun, Crash, RunEnds, Leave, Volatile, Live, IdleEnds, CloseWhileBusy,
                ClosedEarlier, TaskFailed, Teardown, Abort
  <1>5. ASSUME id \in active, HandsStay PROVE \E w \in Callers : InHands(w)' = id
    BY <1>3, <1>5 DEF ActiveIsInHands, HandsStay
  <1>6. ASSUME NEW w \in Callers, WorkerLooks(w), PopRequest(w)
        PROVE  \E v \in Callers : InHands(v)' = id
    <2>1. PICK e \in queued : Answer(w, e.id) /\ active' = active \cup {e.id}
      BY <1>6 DEF PopRequest
    <2>2. e.id \in Nat /\ got' = [got EXCEPT ![w] = e.id] /\ work' = work
      BY <1>0, <1>6, <2>1 DEF Answer, Entries, WorkerLooks, loopVars
    <2>3. got[w] = NoRequest /\ work[w] = NoEntry
      BY <1>6 DEF CallsAreAsked, PopRequest, WorkerLooks
    <2>4. InHands(w)' = e.id /\ InHands(w) = NoRequest
      BY <1>0, <2>2, <2>3 DEF InHands, NoEntry
    <2>5. \A v \in Callers : v # w => InHands(v)' = InHands(v)
      BY <1>0, <2>2 DEF InHands
    <2>6. ASSUME id \in active PROVE \E v \in Callers : InHands(v)' = id
      <3>1. PICK v \in Callers : InHands(v) = id
        BY <1>3, <2>6 DEF ActiveIsInHands
      <3>2. v # w
        BY <1>0, <2>4, <2>6, <3>1 DEF NoRequest
      <3>. QED
        BY <2>5, <3>1, <3>2
    <2>. QED
      BY <2>1, <2>4, <2>6
  <1>7. ASSUME NEW w \in Callers, WorkerCompletes(w) \/ WorkerReleases(w)
        PROVE  \E v \in Callers : InHands(v)' = id
    <2>1. /\ got' = got /\ work' = [work EXCEPT ![w] = NoEntry]
          /\ active' = active \ {work[w].id} /\ got[w] = NoRequest
      BY <1>7 DEF WorkerCompletes, WorkerReleases, Complete, Release, NotifyWaiters,
                  CallsAreAsked
    <2>2. PICK v \in Callers : InHands(v) = id
      BY <1>3, <2>1 DEF ActiveIsInHands
    <2>3. v # w
      BY <2>1, <2>2 DEF InHands
    <2>. QED
      BY <1>0, <2>1, <2>2, <2>3 DEF InHands
  <1>8. CASE HandsStay
    <2>1. CASE FinishSchedule
      BY <1>5, <1>8, <2>1 DEF FinishSchedule, Activate
    <2>2. ASSUME NEW e, Accepted(e) PROVE \E w \in Callers : InHands(w)' = id
      BY <1>5, <1>8, <2>2 DEF Accepted, Schedule
    <2>3. CASE UNCHANGED active
      BY <1>5, <1>8, <2>3
    <2>. QED
      BY <1>0, <1>4, <1>6, <1>7, <2>1, <2>2, <2>3, WorkCases
  <1>. QED
    BY <1>3, <1>4, <1>6, <1>7, <1>8, HandsCases DEF Live

\* Who failed and released its request stays as it is until the run is over.
LEMMA BrokenStays ==
    ASSUME BooksInv, Resting, ~StartRun, ~Crash, ~RunEnds, [CrawlNext]_allVars
    PROVE  Broken \subseteq Broken'
  <1>. SUFFICES ASSUME NEW w \in Broken PROVE pc'[w] = "failed" /\ work'[w] = NoEntry
    BY DEF Broken
  <1>0. /\ TaskVarsOK /\ w \in Callers /\ pc[w] = "failed" /\ work[w] = NoEntry
        /\ pc \in [Callers -> WorkerStates] /\ work \in [Callers -> Entries \cup {NoEntry}]
    BY DEF BooksInv, CrawlTypeOK, TaskVarsOK, Broken
  <1>1. CASE UNCHANGED taskVars
    BY <1>0, <1>1 DEF taskVars
  <1>2. CASE IdleKeepsAlive \/ Woke
    BY <1>0, <1>2 DEF IdleKeepsAlive, Woke, Resting, AllExited
  <1>3. ASSUME NEW v \in Callers,
               \/ WorkerTakes(v) \/ WorkerSchedules(v) \/ CallbackReturns(v)
               \/ DownloadFails(v) \/ DownloadRetried(v)
               \/ WorkerCompletes(v) \/ WorkerReleases(v)
        PROVE  pc'[w] = "failed" /\ work'[w] = NoEntry
    BY <1>0, <1>3 DEF WorkerTakes, WorkerSchedules, CallbackReturns, DownloadFails,
                      DownloadRetried, Handled, WorkerCompletes, WorkerReleases
  <1>4. ASSUME NEW v \in Callers, NEW state \in {"exited", "failing", "failed"},
               Moves(v, state)
        PROVE  pc'[w] = "failed" /\ work'[w] = NoEntry
    BY <1>0, <1>4 DEF Moves
  <1>. QED
    BY <1>1, <1>2, <1>3, <1>4, TaskCases

\* A row is loosened by a release only.
LEMMA LooseCases ==
    ASSUME BooksInv, Live, Live', [CrawlNext]_allVars
    PROVE  Loose' \subseteq Loose \/ \E w \in Callers : WorkerReleases(w)
  <1>0. CrawlTypeOK /\ TodoProper /\ GrantIsForARequest
    BY DEF BooksInv
  <1>1. CASE UNCHANGED <<rows, staged, queued, active>>
    BY <1>1 DEF Loose, Pending
  <1>2. /\ ~StartRun /\ ~Crash /\ ~RunEnds
        /\ ~IdleEnds /\ ~CloseWhileBusy /\ ~ClosedEarlier /\ ~TaskFailed
    BY DEF StartRun, Open, Crash, RunEnds, Leave, Volatile, Live, IdleEnds, CloseWhileBusy,
           ClosedEarlier, TaskFailed, Teardown, Abort
  <1>3. ASSUME NEW e, Accepted(e) PROVE Loose' \subseteq Loose
    <2>1. staged' = staged \cup {e} /\ queued' = queued /\ rows' \subseteq rows \cup {e}
      BY <1>3, AcceptedIsKnown
    <2>2. active' = active
      BY <1>3 DEF Accepted, Schedule
    <2>. QED
      BY <2>1, <2>2 DEF Loose, Pending
  <1>4. CASE FinishSchedule
    BY <1>4 DEF FinishSchedule, Activate, Loose, Pending, storeVars
  <1>5. ASSUME NEW w \in Callers, PopRequest(w) PROVE Loose' \subseteq Loose
    <2>1. PICK e \in queued : queued' = queued \ {e} /\ active' = active \cup {e.id}
      BY <1>5 DEF PopRequest
    <2>. QED
      BY <1>5, <2>1 DEF PopRequest, Loose, Pending, storeVars
  <1>6. ASSUME NEW w \in Callers, WorkerCompletes(w) PROVE Loose' \subseteq Loose
    <2>1. active' = active \ {work[w].id} /\ UNCHANGED <<staged, queued>>
      BY <1>6 DEF WorkerCompletes, Complete
    <2>2. \/ rows' = {r \in rows : r.id # work[w].id}
          \/ rows' = rows /\ rows = {}
      BY <1>6 DEF WorkerCompletes, Complete, StoreComplete, storeVars, BooksInv, Inv,
                  StoreIsOptional
    <2>. QED
      BY <2>1, <2>2 DEF Loose, Pending
  <1>. QED
    BY <1>0, <1>1, <1>2, <1>3, <1>4, <1>5, <1>6, WorkCases

LEMMA LooseIsBrokenStep ==
    ASSUME BooksInv, Resting, CallsAreAsked, LooseIsBroken, [CrawlNext]_allVars
    PROVE  LooseIsBroken'
  <1>. SUFFICES ASSUME Live' PROVE Cardinality(Loose') <= Cardinality(Broken')
    BY DEF LooseIsBroken
  <1>0. /\ IsFiniteSet(Callers) /\ IsFiniteSet(rows) /\ IsFiniteSet(rows')
    BY BooksStep, CrawlAssumption DEF BooksInv, Inv, AllFinite
  <1>1. /\ IsFiniteSet(Broken) /\ IsFiniteSet(Broken') /\ IsFiniteSet(Loose)
        /\ IsFiniteSet(Loose')
    <2>1. Broken \subseteq Callers /\ Broken' \subseteq Callers
          /\ Loose \subseteq rows /\ Loose' \subseteq rows'
      BY DEF Broken, Loose
    <2>. QED
      BY <1>0, <2>1, FS_Subset
  <1>2. /\ Cardinality(Broken) \in Nat /\ Cardinality(Broken') \in Nat
        /\ Cardinality(Loose) \in Nat /\ Cardinality(Loose') \in Nat
    BY <1>1, FS_CardinalityType
  <1>3. CASE Open
    <2>1. rows' = rows /\ queued' = rows
      BY <1>3 DEF Open, Volatile
    <2>2. Loose' = {}
      BY <2>1 DEF Loose, Pending
    <2>. QED
      BY <1>2, <2>2, FS_EmptySet
  <1>4. CASE Live
    <2>1. ~StartRun /\ ~Crash /\ ~RunEnds
      BY <1>4 DEF StartRun, Open, Crash, RunEnds, Leave, Volatile, Live
    <2>2. Broken \subseteq Broken'
      BY <2>1, BrokenStays
    <2>3. Cardinality(Broken) <= Cardinality(Broken')
      BY <1>1, <2>2, FS_Subset
    <2>4. Cardinality(Loose) <= Cardinality(Broken)
      BY <1>4 DEF LooseIsBroken
    <2>5. CASE Loose' \subseteq Loose
      <3>1. Cardinality(Loose') <= Cardinality(Loose)
        BY <1>1, <2>5, FS_Subset
      <3>. QED
        BY <1>2, <2>3, <2>4, <3>1
    <2>6. ASSUME NEW w \in Callers, WorkerReleases(w)
          PROVE  Cardinality(Loose') <= Cardinality(Broken')
      <3>1. /\ active' = active \ {work[w].id} /\ UNCHANGED <<rows, staged, queued>>
            /\ pc[w] = "failing" /\ pc' = [pc EXCEPT ![w] = "failed"]
            /\ work' = [work EXCEPT ![w] = NoEntry]
        BY <2>6 DEF WorkerReleases, Release, storeVars
      <3>2. PICK q : \A r \in rows : r.id = work[w].id => r = q
        BY DEF BooksInv, OneName, Known
      <3>3. Loose' \subseteq Loose \cup {q}
        BY <3>1, <3>2 DEF Loose, Pending
      <3>4. w \in Broken' /\ w \notin Broken
        BY <3>1 DEF Broken, BooksInv, CrawlTypeOK, TaskVarsOK
      <3>5. Broken \cup {w} \subseteq Broken'
        BY <2>2, <3>4
      <3>6. IsFiniteSet(Broken \cup {w}) /\ Cardinality(Broken \cup {w}) = Cardinality(Broken) + 1
        BY <1>1, <3>4, FS_AddElement
      <3>7. Cardinality(Broken) + 1 <= Cardinality(Broken')
        BY <1>1, <3>5, <3>6, FS_Subset
      <3>8. IsFiniteSet(Loose \cup {q})
            /\ \/ Cardinality(Loose \cup {q}) = Cardinality(Loose)
               \/ Cardinality(Loose \cup {q}) = Cardinality(Loose) + 1
        BY <1>1, FS_AddElement
      <3>9. Cardinality(Loose') <= Cardinality(Loose \cup {q})
        BY <3>3, <3>8, FS_Subset
      <3>. QED
        BY <1>2, <2>4, <3>7, <3>8, <3>9
    <2>. QED
      BY <1>4, <2>5, <2>6, LooseCases
  <1>. QED
    BY <1>3, <1>4, LiveCases, EngineUsesCoordinator DEF BooksInv

\* A union has no more elements than its parts together, and as many if they share none.
LEMMA UnionCounts ==
    ASSUME NEW S, NEW T, IsFiniteSet(S), IsFiniteSet(T)
    PROVE  /\ IsFiniteSet(S \cup T)
           /\ Cardinality(S \cup T) <= Cardinality(S) + Cardinality(T)
           /\ S \cap T = {} => Cardinality(S \cup T) = Cardinality(S) + Cardinality(T)
  <1>1. IsFiniteSet(S \cup T)
        /\ Cardinality(S \cup T) = Cardinality(S) + Cardinality(T) - Cardinality(S \cap T)
    BY FS_Union
  <1>2. IsFiniteSet(S \cap T)
    BY FS_Intersection
  <1>3. Cardinality(S) \in Nat /\ Cardinality(T) \in Nat /\ Cardinality(S \cap T) \in Nat
    BY <1>2, FS_CardinalityType
  <1>4. S \cap T = {} => Cardinality(S \cap T) = 0
    BY FS_EmptySet
  <1>. QED
    BY <1>1, <1>3, <1>4

LEMMA OneMore ==
    ASSUME NEW S, NEW x, IsFiniteSet(S), NEW T, T \subseteq S \cup {x}
    PROVE  Cardinality(T) \in Nat /\ Cardinality(T) <= Cardinality(S) + 1
  <1>1. /\ IsFiniteSet(S \cup {x}) /\ Cardinality(S) \in Nat
        /\ Cardinality(S \cup {x}) \in {Cardinality(S), Cardinality(S) + 1}
    BY FS_AddElement, FS_CardinalityType
  <1>2. IsFiniteSet(T) /\ Cardinality(T) <= Cardinality(S \cup {x})
    BY <1>1, FS_Subset
  <1>. QED
    BY <1>1, <1>2, FS_CardinalityType

\* While a process works, each stored start request is pending, or there is a worker that
\* has it or that failed with it.
LEMMA StoredStartsAreFew ==
    ASSUME BooksInv, CallsAreAsked, ActiveIsInHands, LooseIsBroken, Live
    PROVE  Cardinality(StartsOf(rows)) <= Cardinality(StartsOf(Pending)) + Concurrency
  <1>. DEFINE InWork == {r \in rows : r.id \in active}
              Holder == [r \in InWork |-> CHOOSE w \in Busy : InHands(w) = r.id]
  <1>1. /\ IsFiniteSet(Callers) /\ Cardinality(Callers) = Concurrency
        /\ Busy \subseteq Callers /\ Broken \subseteq Callers
    BY CrawlAssumption DEF Busy, Broken
  <1>2. IsFiniteSet(rows) /\ IsFiniteSet(staged) /\ IsFiniteSet(queued)
    BY DEF BooksInv, Inv, AllFinite
  <1>3. IsFiniteSet(Busy) /\ IsFiniteSet(Broken)
    BY <1>1, FS_Subset
  <1>4. IsFiniteSet(Loose) /\ IsFiniteSet(Pending)
    BY <1>2, FS_Subset, FS_Union DEF Loose, Pending
  <1>5. IsFiniteSet(InWork) /\ Cardinality(InWork) <= Cardinality(Busy)
    <2>1. ASSUME NEW r \in InWork PROVE \E w \in Busy : InHands(w) = r.id
      <3>1. PICK w \in Callers : InHands(w) = r.id
        BY DEF ActiveIsInHands
      <3>2. r.id \in Nat
        BY DEF BooksInv, CrawlTypeOK, TypeOK, Entries
      <3>. QED
        BY <3>1, <3>2 DEF Busy, NoRequest
    <2>2. \A r \in InWork : Holder[r] \in Busy /\ InHands(Holder[r]) = r.id
      BY <2>1
    <2>3. Holder \in [InWork -> Busy]
      BY <2>2
    <2>4. \A r, q \in InWork : Holder[r] = Holder[q] => r = q
      BY <2>2 DEF BooksInv, OneName, Known
    <2>. HIDE DEF Holder
    <2>5. IsFiniteSet(InWork)
      BY <1>2, FS_Subset
    <2>. HIDE DEF InWork
    <2>6. ~(Cardinality(Busy) < Cardinality(InWork))
      BY <1>3, <2>3, <2>4, <2>5, FS_PigeonHole
    <2>7. Cardinality(Busy) \in Nat /\ Cardinality(InWork) \in Nat
      BY <1>3, <2>5, FS_CardinalityType
    <2>. QED
      BY <2>5, <2>6, <2>7
  <1>6. Cardinality(Busy) + Cardinality(Broken) <= Concurrency
    <2>1. Busy \cap Broken = {}
      BY DEF Busy, Broken, InHands, CallsAreAsked, NoEntry
    <2>2. Cardinality(Busy \cup Broken) = Cardinality(Busy) + Cardinality(Broken)
      BY <1>3, <2>1, UnionCounts
    <2>3. Busy \cup Broken \subseteq Callers
      BY <1>1
    <2>. QED
      BY <1>1, <2>2, <2>3, FS_Subset
  <1>7. Cardinality(Loose) <= Cardinality(Broken)
    BY DEF LooseIsBroken
  <1>. DEFINE Pend == StartsOf(Pending)
  <1>8. IsFiniteSet(Pend)
    BY <1>4, FS_Subset DEF StartsOf
  <1>9. StartsOf(rows) \subseteq (Pend \cup InWork) \cup Loose
    BY DEF StartsOf, Loose
  <1>. HIDE DEF InWork, Pend
  <1>10. /\ IsFiniteSet(Pend \cup InWork)
         /\ Cardinality(Pend \cup InWork) <= Cardinality(Pend) + Cardinality(InWork)
    BY <1>5, <1>8, UnionCounts
  <1>11. /\ IsFiniteSet((Pend \cup InWork) \cup Loose)
         /\ Cardinality((Pend \cup InWork) \cup Loose)
               <= Cardinality(Pend \cup InWork) + Cardinality(Loose)
    BY <1>4, <1>10, UnionCounts
  <1>12. Cardinality(StartsOf(rows)) <= Cardinality((Pend \cup InWork) \cup Loose)
    BY <1>9, <1>11, FS_Subset
  <1>13. /\ Cardinality(StartsOf(rows)) \in Nat /\ Cardinality(Pend) \in Nat
         /\ Cardinality(InWork) \in Nat /\ Cardinality(Busy) \in Nat
         /\ Cardinality(Broken) \in Nat /\ Cardinality(Loose) \in Nat
         /\ Cardinality(Pend \cup InWork) \in Nat
         /\ Cardinality((Pend \cup InWork) \cup Loose) \in Nat
         /\ Concurrency \in Nat
    BY <1>2, <1>3, <1>4, <1>5, <1>8, <1>9, <1>10, <1>11, FS_CardinalityType, FS_Subset,
       CoordinatorAssumption
  <1>14. Cardinality(StartsOf(rows)) <= Cardinality(Pend) + Concurrency
    BY <1>5, <1>6, <1>7, <1>10, <1>11, <1>12, <1>13
  <1>. QED
    BY <1>14 DEF Pend

LEMMA OutputsAreNoStartsStep ==
    ASSUME BooksInv, OutputsAreNoStarts, [CrawlNext]_allVars
    PROVE  OutputsAreNoStarts'
  <1>. DEFINE NoStarts(outputs) ==
                \A i \in DOMAIN outputs : FirstAttempt(outputs[i]) => ~outputs[i].start
  <1>0. /\ TaskVarsOK /\ todo \in [Callers -> Seq(RequestShapes)]
        /\ work \in [Callers -> Entries \cup {NoEntry}]
    BY DEF BooksInv, CrawlTypeOK, TaskVarsOK
  <1>1. CASE UNCHANGED todo
    BY <1>1 DEF OutputsAreNoStarts
  <1>2. CASE StartRun \/ IdleKeepsAlive \/ Woke
    BY <1>1, <1>2 DEF StartRun, IdleKeepsAlive, Woke
  <1>3. CASE Crash \/ RunEnds
    BY <1>3 DEF Crash, RunEnds, Forget, OutputsAreNoStarts
  <1>4. ASSUME NEW w \in Callers, NEW outputs,
               todo' = [todo EXCEPT ![w] = outputs], NoStarts(outputs)
        PROVE  OutputsAreNoStarts'
    BY <1>0, <1>4 DEF OutputsAreNoStarts
  <1>5. NoStarts(<<>>)
    OBVIOUS
  <1>6. ASSUME NEW w \in Callers, WorkerSchedules(w) PROVE OutputsAreNoStarts'
    <2>1. todo[w] \in Seq(RequestShapes) /\ todo[w] # <<>>
          /\ todo' = [todo EXCEPT ![w] = Tail(todo[w])]
      BY <1>0, <1>6 DEF WorkerSchedules
    <2>2. NoStarts(Tail(todo[w]))
      BY <2>1, HeadAndTail DEF OutputsAreNoStarts
    <2>. QED
      BY <1>4, <2>1, <2>2
  <1>7. ASSUME NEW w \in Callers, CallbackReturns(w) PROVE OutputsAreNoStarts'
    <2>1. work[w].fp \in Fingerprints
      BY <1>7 DEF CallbackReturns, Handled, BooksInv, WorkersHaveWork, Entries
    <2>2. NoStarts(RequestsTo(Links[work[w].fp]))
      BY <2>1, RequestsToPages, CrawlAssumption
    <2>. QED
      BY <1>4, <1>7, <2>2 DEF CallbackReturns, Handled
  <1>8. ASSUME NEW w \in Callers, DownloadFails(w) \/ WorkerReleases(w)
        PROVE  OutputsAreNoStarts'
    <2>1. todo' = [todo EXCEPT ![w] = <<>>]
      BY <1>8 DEF DownloadFails, Handled, WorkerReleases
    <2>. QED
      BY <1>4, <1>5, <2>1
  <1>9. ASSUME NEW w \in Callers, DownloadRetried(w) PROVE OutputsAreNoStarts'
    <2>0. ~FirstAttempt(RetryOf(work[w]))
      BY <1>9 DEF DownloadRetried, RetryOf, FirstAttempt
    <2>1. NoStarts(<<RetryOf(work[w])>>)
      BY <2>0
    <2>2. todo' = [todo EXCEPT ![w] = <<RetryOf(work[w])>>]
      BY <1>9 DEF DownloadRetried, Handled
    <2>. QED
      BY <1>4, <2>1, <2>2
  <1>10. ASSUME NEW w \in Callers, WorkerTakes(w) \/ WorkerCompletes(w) PROVE UNCHANGED todo
    BY <1>10 DEF WorkerTakes, WorkerCompletes
  <1>11. CASE UNCHANGED taskVars
    BY <1>1, <1>11 DEF taskVars
  <1>12. ASSUME NEW w \in Callers, NEW state \in {"exited", "failing", "failed"},
                Moves(w, state)
         PROVE  UNCHANGED todo
    BY <1>12 DEF Moves
  <1>. QED
    BY <1>1, <1>2, <1>3, <1>6, <1>7, <1>8, <1>9, <1>10, <1>11, <1>12, TaskCases

\* Start requests become pending when the producer schedules them, or when a run begins
\* with those the store still has.
LEMMA StartsCome ==
    ASSUME BooksInv, OutputsAreNoStarts, [CrawlNext]_allVars, ~StartRun
    PROVE  \/ /\ StartsOf(Pending') \subseteq StartsOf(Pending)
              /\ StartsOf(rows') \subseteq StartsOf(rows)
           \/ /\ ProducerSchedules
              /\ \E e : /\ StartsOf(Pending') \subseteq StartsOf(Pending) \cup {e}
                        /\ StartsOf(rows') \subseteq StartsOf(rows) \cup {e}
                        /\ Live
  <1>. DEFINE None == /\ StartsOf(Pending') \subseteq StartsOf(Pending)
                      /\ StartsOf(rows') \subseteq StartsOf(rows)
  <1>0. /\ CrawlTypeOK /\ TodoProper /\ GrantIsForARequest /\ UpOrGone
        /\ todo \in [Callers -> Seq(RequestShapes)]
    BY DEF BooksInv, CrawlTypeOK, TaskVarsOK
  <1>. USE DEF StartsOf, Pending
  <1>1. CASE Settles
    BY <1>1 DEF Settles
  <1>2. CASE StartFails
    BY <1>2 DEF StartFails, coordinatorVars
  <1>3. CASE Crash \/ RunEnds
    BY <1>3 DEF Crash, RunEnds, Leave, Volatile, storeVars
  <1>4. CASE FinishSchedule
    BY <1>4 DEF FinishSchedule, Activate, storeVars
  <1>5. ASSUME NEW w \in Callers,
               \/ WorkerTakes(w) \/ CallbackReturns(w) \/ DownloadFails(w)
               \/ DownloadRetried(w)
        PROVE  None
    BY <1>5 DEF WorkerTakes, TakeAnswer, CallbackReturns, DownloadFails, DownloadRetried,
                Handled, vars, storeVars, coordinatorVars
  <1>6. ASSUME NEW w \in Callers, WorkerCompletes(w) \/ WorkerReleases(w) PROVE None
    BY <1>6 DEF WorkerCompletes, WorkerReleases, Complete, Release, StoreComplete, storeVars
  <1>7. ASSUME UNCHANGED vars PROVE None
    BY <1>7 DEF vars, storeVars, coordinatorVars
  <1>8. ASSUME NEW e, Accepted(e)
        PROVE  /\ staged' = staged \cup {e} /\ queued' = queued
               /\ rows' \subseteq rows \cup {e} /\ Live
    BY <1>8, AcceptedIsKnown DEF Accepted, Schedule, Accepts, Live
  <1>9. ASSUME NEW e, Accepted(e), FirstAttempt(e) => ~e.start PROVE None
    BY <1>8, <1>9
  <1>10. CASE ExtraSchedules
    BY <1>0, <1>7, <1>9, <1>10, ExtraAccepted
  <1>11. ASSUME NEW w \in Callers, WorkerSchedules(w) PROVE None
    <2>1. todo[w] # <<>>
      BY <1>11 DEF WorkerSchedules
    <2>2. FirstAttempt(Head(todo[w])) => ~Head(todo[w]).start
      BY <1>0, <2>1, HeadAndTail DEF OutputsAreNoStarts
    <2>3. ASSUME NEW e, Accepted(e), e.priority = Head(todo[w]).priority,
                 e.start = Head(todo[w]).start
          PROVE  None
      <3>1. FirstAttempt(e) => ~e.start
        BY <2>2, <2>3 DEF FirstAttempt
      <3>. QED
        BY <1>9, <2>3, <3>1
    <2>. HIDE DEF None
    <2>. QED
      BY <1>0, <1>7, <1>11, <2>3, OutputAccepted
  <1>12. CASE ProducerSchedules
    <2>1. CASE UNCHANGED vars
      BY <1>7, <2>1
    <2>2. ASSUME NEW e, Accepted(e)
          PROVE  /\ StartsOf(Pending') \subseteq StartsOf(Pending) \cup {e}
                 /\ StartsOf(rows') \subseteq StartsOf(rows) \cup {e}
                 /\ Live
      BY <1>8, <2>2
    <2>. QED
      BY <1>0, <1>12, <2>1, <2>2, StartAccepted
  <1>. QED
    BY <1>0, <1>1, <1>2, <1>3, <1>4, <1>5, <1>6, <1>10, <1>11, <1>12, BookCases
    DEF CrawlTypeOK

\* A slot is granted when fewer than the limit are pending, start requests or not.
LEMMA SlotGrants ==
    ASSUME AnyStep, slotCall' = "granted"
    PROVE  slotCall = "granted" \/ (HasSlot /\ UNCHANGED <<staged, queued>>)
  BY DEF AnyStep, Open, Leave, RestoreSome, Volatile, Schedule, ScheduleFails, Activate,
         Complete, Release, CloseInput, Abort, TakeAnswer, CancelCall, TakeSlot, PopRequest,
         AnswerNone, Sleep, AnswerSlot, SleepForSlot, vars, coordinatorVars, callVars,
         NotifyWaiters, Woken

\* The producer is granted each slot by the coordinator, and uses it up.
LEMMA GrantHoldsStep ==
    ASSUME BooksInv, OutputsAreNoStarts, GrantHolds, [CrawlNext]_allVars
    PROVE  GrantHolds'
  <1>. SUFFICES ASSUME producer' = "granted" \/ slotCall' = "granted"
                PROVE  Cardinality(StartsOf(Pending')) < PendingLimit
    BY DEF GrantHolds, StartsOf, Pending
  <1>0. /\ UpOrGone /\ GrantIsForARequest /\ AnyStep /\ PendingLimit \in Nat
        /\ IsFiniteSet(staged) /\ IsFiniteSet(queued)
    BY EngineUsesCoordinator, CoordinatorAssumption DEF BooksInv, Inv, AllFinite
  <1>1. IsFiniteSet(Pending) /\ Cardinality(Pending) <= Cardinality(staged) + Cardinality(queued)
    BY <1>0, UnionCounts DEF Pending
  <1>2. IsFiniteSet(StartsOf(Pending)) /\ Cardinality(StartsOf(Pending)) <= Cardinality(Pending)
    <2>1. StartsOf(Pending) \subseteq Pending
      BY DEF StartsOf
    <2>. QED
      BY <1>1, <2>1, FS_Subset
  <1>3. /\ Cardinality(Pending) \in Nat /\ Cardinality(StartsOf(Pending)) \in Nat
        /\ Cardinality(staged) \in Nat /\ Cardinality(queued) \in Nat
    BY <1>0, <1>1, <1>2, FS_CardinalityType
  <1>4. ~StartRun
    BY DEF StartRun, Open, Volatile
  <1>5. ~ProducerSchedules
    BY <1>0, SlotStaysFree DEF ProducerSchedules, ProducerLooks, GrantIsForARequest
  <1>6. StartsOf(Pending') \subseteq StartsOf(Pending)
    BY <1>4, <1>5, StartsCome
  <1>7. Cardinality(StartsOf(Pending')) <= Cardinality(StartsOf(Pending))
        /\ Cardinality(StartsOf(Pending')) \in Nat
    BY <1>2, <1>6, FS_Subset, FS_CardinalityType
  <1>8. producer' = "granted" => producer = "granted" \/ slotCall = "granted"
    BY <1>4, <1>5, ProducerCases
    DEF producerVars, Crash, RunEnds, Forget, ProducerTold, ProducerEnds, ProducerCancelled,
        ProducerRaises
  <1>9. CASE producer = "granted" \/ slotCall = "granted"
    BY <1>0, <1>3, <1>7, <1>9 DEF GrantHolds
  <1>10. CASE HasSlot
    BY <1>0, <1>1, <1>2, <1>3, <1>7, <1>10 DEF HasSlot
  <1>. QED
    BY <1>0, <1>8, <1>9, <1>10, SlotGrants

LEMMA FirstRunIsEmptyStep ==
    ASSUME BooksInv, FirstRunIsEmpty, [CrawlNext]_allVars
    PROVE  FirstRunIsEmpty'
  <1>. SUFFICES ASSUME runs' = 0 PROVE rows' = {} /\ ~up'
    BY DEF FirstRunIsEmpty
  <1>0. /\ CrawlTypeOK /\ TodoProper /\ GrantIsForARequest /\ UpOrGone /\ runs \in Nat
        /\ TaskVarsOK
    BY DEF BooksInv, CrawlTypeOK, EnvVarsOK
  <1>1. ~StartRun
    BY <1>0 DEF StartRun
  <1>2. runs = 0
    BY <1>1, EnvCases DEF envVars, historyVars, ExtraSchedules, IdleKeepsAlive,
                          ProducerSchedules, WorkerCompletes, WorkerSchedules
  <1>3. rows = {} /\ ~up
    BY <1>2 DEF FirstRunIsEmpty
  <1>4. CASE Settles
    BY <1>3, <1>4 DEF Settles
  <1>5. CASE StartFails
    BY <1>3, <1>5 DEF StartFails, coordinatorVars
  <1>6. ~Crash /\ ~RunEnds /\ ~FinishSchedule /\ ~Schedules
    BY <1>3 DEF Crash, RunEnds, Leave, FinishSchedule, Activate, Schedules, ExtraSchedules,
                ProducerSchedules, WorkerSchedules, LoopFree
  <1>7. ASSUME NEW w \in Callers,
               \/ WorkerTakes(w) \/ CallbackReturns(w) \/ DownloadFails(w)
               \/ DownloadRetried(w) \/ WorkerCompletes(w) \/ WorkerReleases(w)
        PROVE  FALSE
    BY <1>3, <1>7 DEF WorkerTakes, CallbackReturns, DownloadFails, DownloadRetried, Handled,
                      WorkerCompletes, WorkerReleases, LoopFree
  <1>. QED
    BY <1>0, <1>1, <1>4, <1>5, <1>6, <1>7, BookCases DEF Schedules

\* What a slot was granted for is one start request more: within the limit for the pending
\* ones, within the limit and the number of workers for the stored ones.
LEMMA BacklogStep == BacklogInv /\ [CrawlNext]_allVars => BacklogInv'
  <1>. SUFFICES ASSUME BacklogInv, [CrawlNext]_allVars PROVE BacklogInv'
    OBVIOUS
  <1>. USE DEF BacklogInv
  <1>1. /\ BooksInv' /\ CallsAreAsked' /\ ActiveIsInHands' /\ LooseIsBroken'
        /\ OutputsAreNoStarts' /\ GrantHolds' /\ FirstRunIsEmpty' /\ Resting'
    BY BooksStep, CallsAreAskedStep, ActiveIsInHandsStep, LooseIsBrokenStep,
       OutputsAreNoStartsStep, GrantHoldsStep, FirstRunIsEmptyStep, RestingStep
  <1>2. /\ IsFiniteSet(staged) /\ IsFiniteSet(queued) /\ IsFiniteSet(rows) /\ runs \in Nat
        /\ PendingLimit \in Nat \ {0} /\ Concurrency \in Nat \ {0} /\ EnvVarsOK
    BY CoordinatorAssumption DEF BooksInv, Inv, AllFinite, CrawlTypeOK, EnvVarsOK
  <1>3. IsFiniteSet(StartsOf(Pending)) /\ IsFiniteSet(StartsOf(rows))
    <2>1. StartsOf(Pending) \subseteq staged \cup queued /\ StartsOf(rows) \subseteq rows
      BY DEF StartsOf, Pending
    <2>. QED
      BY <1>2, <2>1, FS_Subset, FS_Union
  <1>4. Cardinality(StartsOf(Pending)) \in Nat /\ Cardinality(StartsOf(rows)) \in Nat
    BY <1>3, FS_CardinalityType
  <1>5. Cardinality(StartsOf(Pending)) <= PendingLimit + (IF runs <= 1 THEN 0 ELSE Concurrency)
    BY DEF StartBacklogBounded, StartsOf
  <1>6. SUFFICES
          /\ Cardinality(StartsOf(rows')) <= PendingLimit + Concurrency
          /\ Cardinality(StartsOf(Pending'))
                <= PendingLimit + (IF runs' <= 1 THEN 0 ELSE Concurrency)
    BY <1>1 DEF StartRowsBounded, StartBacklogBounded, StartsOf, Pending
  <1>7. CASE StartRun
    <2>1. rows' = rows /\ Pending' = rows /\ runs' = runs + 1
      BY <1>7 DEF StartRun, Open, Volatile, Pending
    <2>2. CASE runs = 0
      <3>1. StartsOf(rows) = {}
        BY <2>2 DEF FirstRunIsEmpty, StartsOf
      <3>. QED
        BY <1>2, <2>1, <3>1, FS_EmptySet
    <2>. QED
      BY <1>2, <1>4, <2>1, <2>2 DEF StartRowsBounded
  <1>8. CASE ~StartRun
    <2>1. runs' = runs
      BY <1>8, EnvCases DEF envVars, historyVars, ExtraSchedules, IdleKeepsAlive,
                            ProducerSchedules, WorkerCompletes, WorkerSchedules
    <2>2. CASE /\ StartsOf(Pending') \subseteq StartsOf(Pending)
               /\ StartsOf(rows') \subseteq StartsOf(rows)
      <3>1. /\ Cardinality(StartsOf(Pending')) <= Cardinality(StartsOf(Pending))
            /\ Cardinality(StartsOf(rows')) <= Cardinality(StartsOf(rows))
            /\ Cardinality(StartsOf(Pending')) \in Nat /\ Cardinality(StartsOf(rows')) \in Nat
        BY <1>3, <2>2, FS_Subset, FS_CardinalityType
      <3>. QED
        BY <1>2, <1>4, <1>5, <2>1, <3>1 DEF StartRowsBounded
    <2>3. ASSUME ProducerSchedules, Live,
                 NEW e, StartsOf(Pending') \subseteq StartsOf(Pending) \cup {e},
                 StartsOf(rows') \subseteq StartsOf(rows) \cup {e}
          PROVE  /\ Cardinality(StartsOf(rows')) <= PendingLimit + Concurrency
                 /\ Cardinality(StartsOf(Pending')) <= PendingLimit
      <3>1. Cardinality(StartsOf(Pending)) < PendingLimit
        BY <2>3 DEF GrantHolds, ProducerSchedules
      <3>2. Cardinality(StartsOf(rows)) <= Cardinality(StartsOf(Pending)) + Concurrency
        BY <2>3, StoredStartsAreFew
      <3>3. /\ Cardinality(StartsOf(Pending')) \in Nat /\ Cardinality(StartsOf(rows')) \in Nat
            /\ Cardinality(StartsOf(Pending')) <= Cardinality(StartsOf(Pending)) + 1
            /\ Cardinality(StartsOf(rows')) <= Cardinality(StartsOf(rows)) + 1
        BY <1>3, <2>3, OneMore
      <3>. QED
        BY <1>2, <1>4, <3>1, <3>2, <3>3
    <2>4. ASSUME Cardinality(StartsOf(rows')) <= PendingLimit + Concurrency,
                 Cardinality(StartsOf(Pending')) <= PendingLimit,
                 Cardinality(StartsOf(Pending')) \in Nat
          PROVE  Cardinality(StartsOf(Pending'))
                    <= PendingLimit + (IF runs' <= 1 THEN 0 ELSE Concurrency)
      BY <1>2, <2>4
    <2>5. CASE ProducerSchedules /\ Live /\
               \E e : /\ StartsOf(Pending') \subseteq StartsOf(Pending) \cup {e}
                      /\ StartsOf(rows') \subseteq StartsOf(rows) \cup {e}
      <3>1. Cardinality(StartsOf(Pending')) \in Nat
        BY <1>3, <2>5, OneMore
      <3>2. /\ Cardinality(StartsOf(rows')) <= PendingLimit + Concurrency
            /\ Cardinality(StartsOf(Pending')) <= PendingLimit
        BY <2>3, <2>5
      <3>. QED
        BY <2>4, <3>1, <3>2
    <2>. QED
      BY <1>8, <2>2, <2>5, StartsCome
  <1>. QED
    BY <1>7, <1>8

LEMMA BacklogInit == CrawlInit => BacklogInv
  <1>. SUFFICES ASSUME CrawlInit PROVE BacklogInv
    OBVIOUS
  <1>1. BooksInv
    BY BooksInit
  <1>2. /\ rows = {} /\ ~up /\ Pending = {} /\ producer = "none" /\ slotCall = "free"
        /\ phase = "down" /\ runs = 0 /\ PendingLimit \in Nat /\ Concurrency \in Nat
        /\ \A w \in Callers : /\ got[w] = NoRequest /\ work[w] = NoEntry
                              /\ todo[w] = <<>>
    BY CoordinatorAssumption DEF CrawlInit, Init, Pending
  <1>3. StartsOf(rows) = {} /\ StartsOf(Pending) = {}
    BY <1>2 DEF StartsOf
  <1>4. CallsAreAsked /\ ActiveIsInHands /\ LooseIsBroken /\ OutputsAreNoStarts
        /\ GrantHolds /\ FirstRunIsEmpty /\ Resting
    BY <1>2 DEF CallsAreAsked, ActiveIsInHands, LooseIsBroken, Live, OutputsAreNoStarts,
                GrantHolds, FirstRunIsEmpty, Resting
  <1>5. StartRowsBounded /\ StartBacklogBounded
    BY <1>2, <1>3, FS_EmptySet DEF StartRowsBounded, StartBacklogBounded, StartsOf
  <1>. QED
    BY <1>1, <1>4, <1>5 DEF BacklogInv

\* ENGINE_MAX_PENDING bounds the start requests that wait for their first attempt, however
\* often the job is interrupted, with or without a job directory: the producer waits for
\* a slot before each of them, and an interrupted run leaves no more of them in the store
\* than the limit and one for each worker.
THEOREM BacklogIsBounded == CrawlSpec => []StartBacklogBounded
  <1>1. BacklogInv => StartBacklogBounded
    BY DEF BacklogInv
  <1>. QED
    BY <1>1, BacklogInit, BacklogStep, PTL DEF CrawlSpec
=============================================================================
