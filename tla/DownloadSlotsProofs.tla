------------------------ MODULE DownloadSlotsProofs ------------------------
(***************************************************************************)
(* Proofs about DownloadSlots, for any slots, tasks, limits, delays and    *)
(* bounds on time: the books of both implementations, the wakeups, and     *)
(* that each of them keeps the promise of Throttle.                        *)
(*                                                                         *)
(* Each implementation has its inductive invariant.  That of the native    *)
(* slots relates what is counted in a slot to the states of the tasks, and *)
(* a pruned slot to the time that has passed; that of the Python slots     *)
(* relates the two queues to the permits, and the sleep of the holder of   *)
(* the lock to the next start.                                             *)
(***************************************************************************)
EXTENDS DownloadSlots, SequenceLemmas

\* The instances' names of operators that both implementations take from elsewhere.
LEMMA SameCounts ==
  \A S : N!Cardinality(S) = Cardinality(S) /\ P!Cardinality(S) = Cardinality(S)
  BY DEF N!Cardinality, P!Cardinality, Cardinality

LEMMA SameSettings ==
  /\ \A k, d : N!Samples(k, d) = Samples(k, d) /\ P!Samples(k, d) = Samples(k, d)
  /\ \A d, l : N!Throttled(d, l) = Throttled(d, l) /\ P!Throttled(d, l) = Throttled(d, l)
  /\ \A a, b : P!Larger(a, b) = Larger(a, b)
  BY DEF N!Samples, P!Samples, Samples, N!Throttled, P!Throttled, Throttled, N!Clamped,
         P!Clamped, Clamped, N!Larger, P!Larger, Larger, N!Smaller, P!Smaller, Smaller

LEMMA SameLines ==
  /\ \A s : P!ToSet(s) = ToSet(s) /\ P!IsInjective(s) = IsInjective(s)
  /\ \A s, t : P!Contains(s, t) = Contains(s, t) /\ P!RemoveFirst(s, t) = RemoveFirst(s, t)
  BY DEF P!ToSet, ToSet, P!IsInjective, IsInjective, P!Contains, Contains, P!RemoveFirst,
         RemoveFirst, P!RemoveAt, RemoveAt, P!SelectInSeq, SelectInSeq, P!Min, Min

LEMMA SettingsType ==
  /\ \A k \in Keys : /\ Concurrency[k] \in Nat \ {0}
                     /\ Delay[k] \in Nat
                     /\ Randomize[k] \in BOOLEAN
  /\ MinDelay \in Nat /\ MaxDelay \in Nat /\ MinDelay <= MaxDelay
  /\ \A l \in Latencies : l \in Nat
  /\ MaxIdle \in Nat /\ Horizon \in Nat /\ MaxIdle < Horizon
  BY SlotAssumption

LeastDelay(k) == IF MinDelay < Delay[k] THEN MinDelay ELSE Delay[k]

LEMMA SpacingType ==
  ASSUME NEW k \in Keys
  PROVE  /\ LeastDelay(k) \in Nat
         /\ LeastDelay(k) <= MinDelay /\ LeastDelay(k) <= Delay[k]
         /\ Spacing[k] = IF Randomize[k] THEN LeastDelay(k) \div 2 ELSE LeastDelay(k)
         /\ Spacing[k] \in Nat
  <1>1. LeastDelay(k) \in Nat /\ LeastDelay(k) <= MinDelay /\ LeastDelay(k) <= Delay[k]
    BY SettingsType DEF LeastDelay
  <1>2. Spacing[k] = IF Randomize[k] THEN LeastDelay(k) \div 2 ELSE LeastDelay(k)
    BY DEF Spacing, LeastDelay
  <1>. QED
    BY <1>1, <1>2

\* Whatever is drawn for a delay that is no less than the least one keeps the spacing.
LEMMA SamplesKeepSpacing ==
  ASSUME NEW k \in Keys, NEW d \in Nat, NEW next \in Samples(k, d)
  PROVE  /\ next \in Nat
         /\ d >= LeastDelay(k) => next >= Spacing[k]
  BY SettingsType, SpacingType DEF Samples

\* AutoThrottle's delays are in bounds.
LEMMA ThrottledInBounds ==
  ASSUME NEW d \in Nat, NEW l \in Latencies
  PROVE  Throttled(d, l) \in Nat /\ Throttled(d, l) >= MinDelay
  BY SettingsType DEF Throttled, Clamped, Larger, Smaller

LEMMA Counts ==
  ASSUME NEW S \in SUBSET Tasks, NEW t \in Tasks
  PROVE  /\ Cardinality(S) \in Nat
         /\ Cardinality({}) = 0
         /\ Cardinality(S) = 0 => S = {}
         /\ t \in S => Cardinality(S \ {t}) = Cardinality(S) - 1
         /\ t \notin S => Cardinality(S \cup {t}) = Cardinality(S) + 1
  <1>1. IsFiniteSet(S)
    BY SlotAssumption, FS_Subset
  <1>. QED
    BY <1>1, FS_CardinalityType, FS_EmptySet, FS_RemoveElement, FS_AddElement

-----------------------------------------------------------------------------

\* What a slot of the native engine has kept of the settings and of the time: its delay is
\* never below the least one, a slot that has started a transfer has an interval to wait
\* for, and one that has not (it may be new, or its predecessor was pruned) belongs to a
\* key whose last start is long enough ago.
Spaced(held, ages) ==
    \A k \in Keys :
        IF k \in DOMAIN held
        THEN /\ held[k].delay >= LeastDelay(k)
             /\ held[k].idle <= ages[k]
             /\ IF held[k].started THEN held[k].next >= Spacing[k]
                ELSE ages[k] >= Spacing[k]
        ELSE ages[k] >= Spacing[k]

NativeSpaced == ~closed => Spaced(slots, since)

NativeInv ==
    /\ N!NativeTypeOK
    /\ N!NativeCountsMatch
    /\ N!NativeNoOversleep

\* Pruning loses no more than a pause of MaxIdle.
PausesSpace == \A k \in Keys : Spacing[k] <= MaxIdle

LEMMA NativeTyped ==
  ASSUME N!NativeTypeOK
  PROVE  /\ keyOf \in [Tasks -> Keys]
         /\ \A t \in Tasks : keyOf[t] \in Keys /\ task[t] \in N!NativeStates
         /\ task \in [Tasks -> N!NativeStates]
         /\ alarm \in [Tasks -> Int]
         /\ since \in [Keys -> Nat]
         /\ \A k \in Keys : since[k] \in Nat /\ since[k] <= Horizon
  BY SlotAssumption, SettingsType DEF N!NativeTypeOK, N!NoAlarm

\* Tasks of a slot are either running or waiting, or have nothing to do with it.
LEMMA NativeSets ==
  ASSUME NEW k \in Keys
  PROVE  /\ N!NativeRunning[k] = {t \in Tasks : keyOf[t] = k
                                      /\ task[t] \in {"leased", "transferring"}}
         /\ N!NativeWaiting(k) = {t \in Tasks : keyOf[t] = k
                                      /\ task[t] \in {"looking", "asleep"}}
         /\ N!NativeRunning[k] \in SUBSET Tasks
         /\ N!NativeWaiting(k) \in SUBSET Tasks
  BY DEF N!NativeRunning, N!NativeWaiting, N!Of

\* A slot that is pruned has no tasks, and the others stay.
LEMMA PrunedKeepsTasks ==
  ASSUME NEW held, DOMAIN held \subseteq Keys,
         \A k \in DOMAIN held : held[k] \in N!Slot
  PROVE  /\ DOMAIN N!Pruned(held) \subseteq DOMAIN held
         /\ \A k \in DOMAIN N!Pruned(held) : N!Pruned(held)[k] = held[k]
         /\ \A k \in DOMAIN held : k \notin DOMAIN N!Pruned(held) =>
               held[k].active = {} /\ held[k].waiting = 0 /\ held[k].idle > MaxIdle
  <1>1. N!Pruned(held) = [k \in DOMAIN N!Pruned(held) |-> held[k]]
    BY DEF N!Pruned, N!Restrict
  <1>2. DOMAIN N!Pruned(held) = {k \in DOMAIN held : \/ held[k].active # {}
                                                     \/ held[k].waiting > 0
                                                     \/ held[k].idle <= MaxIdle}
    BY DEF N!Pruned, N!Restrict
  <1>3. \A k \in DOMAIN held : held[k].waiting \in Nat /\ held[k].idle \in Nat
    BY DEF N!Slot
  <1>. QED
    BY <1>1, <1>2, <1>3, SettingsType

\* What a look finds: the slots with their tasks, those that are gone had none, and the
\* task's own slot counts it as a waiter.
LEMMA FoundFits ==
  ASSUME NEW t \in Tasks, NativeInv, N!Looks(t)
  PROVE  LET k == keyOf[t]
             f == N!Found(t)
         IN  /\ k \in DOMAIN f /\ DOMAIN f \subseteq Keys
             /\ \A j \in DOMAIN f : f[j] \in N!Slot /\ f[j].active = N!NativeRunning[j]
             /\ \A j \in DOMAIN f : j # k => j \in DOMAIN slots /\ f[j] = slots[j]
             /\ \A j \in Keys \ DOMAIN f :
                   N!NativeRunning[j] = {} /\ N!NativeWaiting(j) = {}
             /\ f[k].waiting = Cardinality(N!NativeWaiting(k))
                                 + (IF task[t] = "idle" THEN 1 ELSE 0)
             /\ \/ /\ N!NativeWaiting(k) = {} /\ f[k].delay = Delay[k] /\ ~f[k].started
                   /\ f[k].idle = 0
                   /\ k \in DOMAIN slots => slots[k].idle > MaxIdle
                \/ /\ k \in DOMAIN slots
                   /\ f[k].started = slots[k].started /\ f[k].next = slots[k].next
                   /\ f[k].delay = slots[k].delay /\ f[k].idle = slots[k].idle
             /\ \A j \in DOMAIN slots \ DOMAIN f : slots[j].idle > MaxIdle
  <1>. DEFINE k == keyOf[t]
              kept == N!Pruned(slots)
              held == [j \in DOMAIN kept \cup {k} |->
                         IF j \in DOMAIN kept THEN kept[j] ELSE N!NewSlot(k)]
              f == N!Found(t)
  <1>1. ~closed /\ task[t] \in {"idle", "looking"}
    BY DEF N!Looks
  <1>2. k \in Keys /\ DOMAIN slots \subseteq Keys /\ \A j \in DOMAIN slots : slots[j] \in N!Slot
    BY NativeTyped DEF NativeInv, N!NativeTypeOK
  <1>3. /\ DOMAIN kept \subseteq DOMAIN slots
        /\ \A j \in DOMAIN kept : kept[j] = slots[j]
        /\ \A j \in DOMAIN slots : j \notin DOMAIN kept =>
             slots[j].active = {} /\ slots[j].waiting = 0 /\ slots[j].idle > MaxIdle
    BY <1>2, PrunedKeepsTasks
  <1>4. \A j \in DOMAIN slots : /\ slots[j].active = N!NativeRunning[j]
                                /\ slots[j].waiting = Cardinality(N!NativeWaiting(j))
    BY <1>1, <1>2, SameCounts DEF NativeInv, N!NativeCountsMatch
  <1>5. \A j \in Keys \ DOMAIN kept : N!NativeRunning[j] = {} /\ N!NativeWaiting(j) = {}
    <2>. SUFFICES ASSUME NEW j \in Keys, j \notin DOMAIN kept
                  PROVE  N!NativeRunning[j] = {} /\ N!NativeWaiting(j) = {}
      OBVIOUS
    <2>1. CASE j \in DOMAIN slots
      <3>1. N!NativeRunning[j] = {} /\ Cardinality(N!NativeWaiting(j)) = 0
        BY <2>1, <1>3, <1>4
      <3>2. N!NativeWaiting(j) \in SUBSET Tasks
        BY NativeSets
      <3>. QED
        BY <3>1, <3>2, Counts
    <2>2. CASE j \notin DOMAIN slots
      BY <2>2, <1>1 DEF NativeInv, N!NativeCountsMatch
    <2>. QED
      BY <2>1, <2>2
  <1>6. N!NewSlot(k) \in N!Slot /\ N!NewSlot(k).active = {} /\ N!NewSlot(k).waiting = 0
        /\ N!NewSlot(k).delay = Delay[k] /\ ~N!NewSlot(k).started /\ N!NewSlot(k).idle = 0
    BY <1>2, SettingsType DEF N!NewSlot, N!Slot
  <1>7. f = IF task[t] = "idle"
            THEN [held EXCEPT ![k] = [held[k] EXCEPT !.waiting = @ + 1]] ELSE held
    BY DEF N!Found
  <1>8. held[k] \in N!Slot
    BY <1>2, <1>3, <1>6
  <1>9. /\ DOMAIN f = DOMAIN kept \cup {k}
        /\ \A j \in DOMAIN f \ {k} : f[j] = slots[j] /\ j \in DOMAIN slots
        /\ f[k] = IF task[t] = "idle" THEN [held[k] EXCEPT !.waiting = @ + 1] ELSE held[k]
    BY <1>3, <1>7
  <1>10. /\ f[k] \in N!Slot
         /\ f[k].active = held[k].active /\ f[k].delay = held[k].delay
         /\ f[k].started = held[k].started /\ f[k].idle = held[k].idle
         /\ f[k].next = held[k].next
         /\ f[k].waiting = held[k].waiting + (IF task[t] = "idle" THEN 1 ELSE 0)
    BY <1>8, <1>9 DEF N!Slot
  <1>11. CASE k \in DOMAIN kept
    <2>1. held[k] = slots[k] /\ k \in DOMAIN slots
      BY <1>3, <1>11
    <2>2. f[k].active = N!NativeRunning[k] /\ f[k].waiting = Cardinality(N!NativeWaiting(k))
                                               + (IF task[t] = "idle" THEN 1 ELSE 0)
      BY <2>1, <1>4, <1>10
    <2>3. \A j \in DOMAIN f : f[j] \in N!Slot /\ f[j].active = N!NativeRunning[j]
      BY <2>2, <1>2, <1>4, <1>9, <1>10
    <2>4. /\ k \in DOMAIN f /\ DOMAIN f \subseteq Keys
          /\ \A j \in Keys \ DOMAIN f : j \notin DOMAIN kept
          /\ \A j \in DOMAIN slots \ DOMAIN f : slots[j].idle > MaxIdle
      BY <1>2, <1>3, <1>9
    <2>. HIDE DEF kept, held
    <2>. QED
      BY <2>1, <2>2, <2>3, <2>4, <1>5, <1>9, <1>10
  <1>12. CASE k \notin DOMAIN kept
    <2>1. held[k] = N!NewSlot(k)
      BY <1>12
    <2>. QED
      BY <2>1, <1>2, <1>3, <1>4, <1>5, <1>6, <1>9, <1>10, <1>12, Counts, ZenonT(60)
  <1>. QED
    BY <1>11, <1>12

\* A step of a task t, which may wake others: only t leaves or joins the tasks of a slot.
LEMMA NativeMoves ==
  ASSUME NEW t \in Tasks, N!NativeTypeOK, keyOf' = keyOf,
         task' \in [Tasks -> N!NativeStates],
         \A u \in Tasks \ {t} : \/ task'[u] = task[u]
                                \/ task[u] = "asleep" /\ task'[u] = "looking"
  PROVE  \A j \in Keys :
           /\ N!NativeRunning'[j] =
                IF j # keyOf[t] THEN N!NativeRunning[j]
                ELSE IF task'[t] \in {"leased", "transferring"} THEN N!NativeRunning[j] \cup {t}
                ELSE N!NativeRunning[j] \ {t}
           /\ N!NativeWaiting(j)' =
                IF j # keyOf[t] THEN N!NativeWaiting(j)
                ELSE IF task'[t] \in {"looking", "asleep"} THEN N!NativeWaiting(j) \cup {t}
                ELSE N!NativeWaiting(j) \ {t}
  <1>. SUFFICES ASSUME NEW j \in Keys
                PROVE  /\ N!NativeRunning'[j] =
                            IF j # keyOf[t] THEN N!NativeRunning[j]
                            ELSE IF task'[t] \in {"leased", "transferring"}
                                 THEN N!NativeRunning[j] \cup {t}
                                 ELSE N!NativeRunning[j] \ {t}
                       /\ N!NativeWaiting(j)' =
                            IF j # keyOf[t] THEN N!NativeWaiting(j)
                            ELSE IF task'[t] \in {"looking", "asleep"}
                                 THEN N!NativeWaiting(j) \cup {t}
                                 ELSE N!NativeWaiting(j) \ {t}
    OBVIOUS
  <1>1. N!NativeRunning'[j] = {u \in Tasks : keyOf[u] = j
                                  /\ task'[u] \in {"leased", "transferring"}}
    BY DEF N!NativeRunning, N!Of
  <1>2. N!NativeWaiting(j)' = {u \in Tasks : keyOf[u] = j
                                  /\ task'[u] \in {"looking", "asleep"}}
    BY DEF N!NativeWaiting, N!Of
  <1>. QED
    BY <1>1, <1>2, NativeSets

\* notify_waiters wakes everybody, and nobody's timer is left running.
LEMMA EverybodyIsWoken ==
  ASSUME N!NativeTypeOK, NEW after \in [Tasks -> N!NativeStates], N!NotifyAll(after)
  PROVE  /\ task' \in [Tasks -> N!NativeStates]
         /\ alarm' \in [Tasks -> {N!NoAlarm} \cup Nat]
         /\ \A u \in Tasks : /\ task'[u] # "asleep"
                             /\ task'[u] = IF after[u] = "asleep" THEN "looking" ELSE after[u]
         /\ N!NativeNoOversleep'
  <1>1. /\ task' = [u \in Tasks |-> IF after[u] = "asleep" THEN "looking" ELSE after[u]]
        /\ alarm' = [u \in Tasks |-> N!NoAlarm]
    BY DEF N!NotifyAll
  <1>2. \A u \in Tasks : after[u] \in N!NativeStates
    OBVIOUS
  <1>3. /\ task' \in [Tasks -> N!NativeStates]
        /\ \A u \in Tasks : /\ task'[u] # "asleep"
                            /\ task'[u] = IF after[u] = "asleep" THEN "looking" ELSE after[u]
    BY <1>1, <1>2 DEF N!NativeStates
  <1>. QED
    BY <1>1, <1>3 DEF N!NativeNoOversleep

\* Slots that count the tasks after a step do so when they are pruned, too.
LEMMA NativeBooks ==
  ASSUME NEW held, ~closed', slots' = held \/ slots' = N!Pruned(held),
         DOMAIN held \subseteq Keys,
         \A j \in DOMAIN held : /\ held[j] \in N!Slot
                                /\ held[j].active = N!NativeRunning'[j]
                                /\ held[j].waiting = Cardinality(N!NativeWaiting(j)'),
         \A j \in Keys \ DOMAIN held :
            N!NativeRunning'[j] = {} /\ N!NativeWaiting(j)' = {},
         \A j \in Keys : N!NativeWaiting(j)' \in SUBSET Tasks
  PROVE  /\ N!NativeCountsMatch'
         /\ DOMAIN slots' \subseteq Keys
         /\ \A j \in DOMAIN slots' : slots'[j] \in N!Slot
  <1>1. /\ DOMAIN slots' \subseteq DOMAIN held
        /\ \A j \in DOMAIN slots' : slots'[j] = held[j]
        /\ \A j \in DOMAIN held : j \notin DOMAIN slots' =>
              held[j].active = {} /\ held[j].waiting = 0
    BY PrunedKeepsTasks
  <1>2. ASSUME NEW j \in Keys, j \notin DOMAIN slots'
        PROVE  N!NativeRunning'[j] = {} /\ N!NativeWaiting(j)' = {}
    <2>1. CASE j \in DOMAIN held
      <3>1. N!NativeRunning'[j] = {} /\ Cardinality(N!NativeWaiting(j)') = 0
        BY <1>1, <1>2, <2>1
      <3>. QED
        BY <3>1, SlotAssumption, FS_Subset, FS_EmptySet
    <2>2. CASE j \notin DOMAIN held
      BY <2>2
    <2>. QED
      BY <2>1, <2>2
  <1>3. ASSUME NEW j \in Keys, j \in DOMAIN slots'
        PROVE  /\ slots'[j].active = N!NativeRunning'[j]
               /\ slots'[j].waiting = N!Cardinality(N!NativeWaiting(j)')
    BY <1>1, <1>3, SameCounts
  <1>4. N!NativeCountsMatch'
    BY <1>2, <1>3 DEF N!NativeCountsMatch
  <1>. QED
    BY <1>1, <1>4

\* The slots without the lease of t.
LEMMA WithoutFits ==
  ASSUME NEW t \in Tasks, NativeInv, ~closed, task[t] \in {"leased", "transferring"}
  PROVE  LET k == keyOf[t]
             w == N!Without(t)
         IN  /\ k \in Keys /\ k \in DOMAIN slots /\ DOMAIN w = DOMAIN slots
             /\ \A j \in DOMAIN slots \ {k} : w[j] = slots[j]
             /\ w[k] \in N!Slot
             /\ w[k] = [slots[k] EXCEPT !.active = @ \ {t}, !.idle = 0]
             /\ \A j \in DOMAIN slots : /\ slots[j] \in N!Slot
                                        /\ slots[j].active = N!NativeRunning[j]
                                        /\ slots[j].waiting = Cardinality(N!NativeWaiting(j))
             /\ t \in N!NativeRunning[k] /\ t \notin N!NativeWaiting(k)
  <1>. DEFINE k == keyOf[t]
  <1>1. k \in Keys /\ DOMAIN slots \subseteq Keys /\ \A j \in DOMAIN slots : slots[j] \in N!Slot
    BY NativeTyped DEF NativeInv, N!NativeTypeOK
  <1>2. t \in N!NativeRunning[k] /\ t \notin N!NativeWaiting(k)
    BY <1>1, NativeSets
  <1>3. k \in DOMAIN slots
    BY <1>1, <1>2 DEF NativeInv, N!NativeCountsMatch
  <1>4. \A j \in DOMAIN slots : /\ slots[j].active = N!NativeRunning[j]
                                /\ slots[j].waiting = Cardinality(N!NativeWaiting(j))
    BY <1>1, SameCounts DEF NativeInv, N!NativeCountsMatch
  <1>5. /\ DOMAIN N!Without(t) = DOMAIN slots
        /\ \A j \in DOMAIN slots \ {k} : N!Without(t)[j] = slots[j]
        /\ N!Without(t)[k] = [slots[k] EXCEPT !.active = @ \ {t}, !.idle = 0]
    BY <1>3 DEF N!Without
  <1>6. [slots[k] EXCEPT !.active = @ \ {t}, !.idle = 0] \in N!Slot
    BY <1>1, <1>3 DEF N!Slot
  <1>. QED
    BY <1>1, <1>2, <1>3, <1>4, <1>5, <1>6

\* What is the same in every step that ends the part of t in its slot: everybody is woken,
\* and t is in neither of the sets of its slot.
LEMMA NativeLeaves ==
  ASSUME NEW t \in Tasks, NativeInv, N!NotifyAll(N!Gone(t)), keyOf' = keyOf
  PROVE  /\ task' \in [Tasks -> N!NativeStates]
         /\ alarm' \in [Tasks -> {N!NoAlarm} \cup Nat]
         /\ N!NativeNoOversleep'
         /\ \A j \in Keys :
               /\ N!NativeRunning'[j] = N!NativeRunning[j] \ (IF j = keyOf[t] THEN {t} ELSE {})
               /\ N!NativeWaiting(j)' = N!NativeWaiting(j) \ (IF j = keyOf[t] THEN {t} ELSE {})
               /\ N!NativeWaiting(j)' \in SUBSET Tasks
  <1>1. N!Gone(t) \in [Tasks -> N!NativeStates]
        /\ \A u \in Tasks : N!Gone(t)[u] = IF u = t THEN "idle" ELSE task[u]
    <2>1. task \in [Tasks -> N!NativeStates] /\ "idle" \in N!NativeStates
      BY NativeTyped DEF NativeInv, N!NativeStates
    <2>2. N!Gone(t) = [task EXCEPT ![t] = "idle"]
      BY DEF N!Gone
    <2>. QED
      BY <2>1, <2>2
  <1>2. /\ task' \in [Tasks -> N!NativeStates]
        /\ alarm' \in [Tasks -> {N!NoAlarm} \cup Nat]
        /\ N!NativeNoOversleep'
        /\ \A u \in Tasks : task'[u] = IF N!Gone(t)[u] = "asleep" THEN "looking"
                                       ELSE N!Gone(t)[u]
    BY <1>1, EverybodyIsWoken DEF NativeInv
  <1>3. /\ task'[t] = "idle"
        /\ \A u \in Tasks \ {t} : \/ task'[u] = task[u]
                                  \/ task[u] = "asleep" /\ task'[u] = "looking"
    BY <1>1, <1>2
  <1>4. \A j \in Keys :
           /\ N!NativeRunning'[j] = IF j # keyOf[t] THEN N!NativeRunning[j]
                                    ELSE N!NativeRunning[j] \ {t}
           /\ N!NativeWaiting(j)' = IF j # keyOf[t] THEN N!NativeWaiting(j)
                                    ELSE N!NativeWaiting(j) \ {t}
    BY <1>2, <1>3, NativeMoves DEF NativeInv
  <1>5. \A j \in Keys : N!NativeWaiting(j) \in SUBSET Tasks
    BY NativeSets
  <1>. QED
    BY <1>2, <1>4, <1>5

\* Remaining after a step that leaves the time alone.
LEMMA RemainingIs ==
  ASSUME NEW s, NEW k \in Keys, s \in N!Slot, since[k] \in Nat
  PROVE  /\ N!Remaining(s, k) = IF s.started /\ s.next > since[k] THEN s.next - since[k] ELSE 0
         /\ N!Remaining(s, k) \in Nat
  BY DEF N!Remaining, N!Slot

LEMMA GrantKeepsInv ==
  ASSUME NEW t \in Tasks, NativeInv, N!Grant(t)
  PROVE  NativeInv'
  <1>. DEFINE f == N!Found(t)
  <1>0. PICK k \in Keys : k = keyOf[t]
    BY NativeTyped DEF NativeInv
  <1>1. N!Looks(t) /\ ~closed /\ closed' = closed /\ keyOf' = keyOf /\ alarm' = alarm
        /\ task[t] \in {"idle", "looking"}
    BY DEF N!Grant, N!Looks
  <1>2. /\ k \in Keys /\ task \in [Tasks -> N!NativeStates] /\ since \in [Keys -> 0 .. Horizon]
        /\ N!NativeTypeOK /\ since[k] \in Nat
    BY <1>0, NativeTyped DEF NativeInv, N!NativeTypeOK
  <1>3. /\ k \in DOMAIN f /\ DOMAIN f \subseteq Keys
        /\ \A j \in DOMAIN f : f[j] \in N!Slot /\ f[j].active = N!NativeRunning[j]
        /\ \A j \in DOMAIN f : j # k => j \in DOMAIN slots /\ f[j] = slots[j]
        /\ \A j \in Keys \ DOMAIN f :
              N!NativeRunning[j] = {} /\ N!NativeWaiting(j) = {}
    BY <1>0, <1>1, FoundFits
  <1>19. f[k].waiting = Cardinality(N!NativeWaiting(k))
                          + (IF task[t] = "idle" THEN 1 ELSE 0)
    BY <1>0, <1>1, FoundFits
  <1>4. /\ N!Cardinality(f[k].active) < Concurrency[k]
        /\ N!Remaining(f[k], k) = 0
    BY <1>0 DEF N!Grant
  <1>5. PICK d \in N!Samples(k, f[k].delay) :
          slots' = [f EXCEPT ![k] =
                      [f[k] EXCEPT !.waiting = @ - 1, !.active = @ \cup {t},
                                   !.started = TRUE, !.idle = 0, !.next = d]]
    BY <1>0 DEF N!Grant
  <1>6. since' = [since EXCEPT ![k] = 0] /\ task' = [task EXCEPT ![t] = "leased"]
    BY <1>0 DEF N!Grant
  <1>7. d \in Nat
    <2>1. f[k].delay \in Nat
      BY <1>3 DEF N!Slot
    <2>. QED
      BY <1>2, <2>1, SamplesKeepSpacing, SameSettings
  <1>8. /\ task' \in [Tasks -> N!NativeStates]
        /\ task'[t] = "leased" /\ \A u \in Tasks \ {t} : task'[u] = task[u]
    BY <1>2, <1>6 DEF N!NativeStates
  <1>9. \A j \in Keys :
          /\ N!NativeRunning'[j] = IF j # k THEN N!NativeRunning[j]
                                   ELSE N!NativeRunning[j] \cup {t}
          /\ N!NativeWaiting(j)' = IF j # k THEN N!NativeWaiting(j)
                                   ELSE N!NativeWaiting(j) \ {t}
    BY <1>0, <1>1, <1>2, <1>8, NativeMoves
  <1>10. t \in N!NativeWaiting(k) <=> task[t] # "idle"
    BY <1>0, <1>1, <1>2, NativeSets
  <1>11. f[k].waiting - 1 = Cardinality(N!NativeWaiting(k)') /\ f[k].waiting - 1 \in Nat
    <2>. DEFINE W == N!NativeWaiting(k)
    <2>1. N!NativeWaiting(k)' = W \ {t} /\ W \in SUBSET Tasks
      BY <1>2, <1>9, NativeSets
    <2>2. CASE task[t] = "idle"
      <3>1. W \ {t} = W
        BY <2>2, <1>10
      <3>. QED
        <4>1. Cardinality(N!NativeWaiting(k)') = Cardinality(W)
          BY <3>1, <2>1
        <4>2. Cardinality(W) \in Nat
          BY <2>1, Counts
        <4>3. f[k].waiting - 1 = Cardinality(W)
          BY <4>2, <2>2, <1>19
        <4>. QED
          BY <4>1, <4>2, <4>3
    <2>3. CASE task[t] # "idle"
      <3>1. Cardinality(W \ {t}) = Cardinality(W) - 1 /\ Cardinality(W \ {t}) \in Nat
        BY <2>1, <2>3, <1>10, Counts
      <3>. QED
        <4>1. Cardinality(N!NativeWaiting(k)') = Cardinality(W \ {t})
          BY <2>1
        <4>2. Cardinality(W) \in Nat
          BY <2>1, Counts
        <4>3. f[k].waiting - 1 = Cardinality(W) - 1
          BY <4>2, <2>3, <1>19
        <4>. QED
          BY <3>1, <4>1, <4>3
    <2>. QED
      BY <2>2, <2>3
  <1>12. \A j \in Keys \ {k} : N!NativeWaiting(j)' = N!NativeWaiting(j)
    BY <1>9
  <1>13. /\ DOMAIN slots' = DOMAIN f
         /\ \A j \in DOMAIN f \ {k} : slots'[j] = f[j]
         /\ slots'[k] = [f[k] EXCEPT !.waiting = @ - 1, !.active = @ \cup {t},
                                     !.started = TRUE, !.idle = 0, !.next = d]
    BY <1>3, <1>5
  <1>14. slots'[k] \in N!Slot /\ slots'[k].active = N!NativeRunning'[k]
         /\ slots'[k].waiting = Cardinality(N!NativeWaiting(k)')
         /\ slots'[k].started /\ slots'[k].next = d
    <2>1. f[k] \in N!Slot /\ f[k].active = N!NativeRunning[k]
      BY <1>3
    <2>2. N!NativeRunning'[k] = N!NativeRunning[k] \cup {t}
      BY <1>2, <1>9
    <2>. HIDE DEF f
    <2>5. slots'[k] = [active |-> f[k].active \cup {t}, waiting |-> f[k].waiting - 1,
                       started |-> TRUE, idle |-> 0, delay |-> f[k].delay, next |-> d]
      BY <2>1, <1>13 DEF N!Slot
    <2>6. f[k].active \cup {t} \in SUBSET Tasks /\ f[k].delay \in Nat
      BY <2>1 DEF N!Slot
    <2>3. /\ slots'[k].active = f[k].active \cup {t} /\ slots'[k].waiting = f[k].waiting - 1
          /\ slots'[k].started = TRUE /\ slots'[k].next = d
      BY <2>5
    <2>4. slots'[k] \in N!Slot
      BY <2>5, <2>6, <1>7, <1>11 DEF N!Slot
    <2>. QED
      BY <2>1, <2>2, <2>3, <2>4, <1>11
  <1>15. \A j \in DOMAIN f \ {k} : slots[j].waiting = Cardinality(N!NativeWaiting(j))
    BY <1>1, <1>3, SameCounts DEF NativeInv, N!NativeCountsMatch
  <1>16. /\ N!NativeCountsMatch'
         /\ DOMAIN slots' \subseteq Keys
         /\ \A j \in DOMAIN slots' : slots'[j] \in N!Slot
    <2>1. ASSUME NEW j \in DOMAIN slots'
          PROVE  /\ slots'[j] \in N!Slot
                 /\ slots'[j].active = N!NativeRunning'[j]
                 /\ slots'[j].waiting = Cardinality(N!NativeWaiting(j)')
      <3>1. CASE j = k
        BY <3>1, <1>14
      <3>2. CASE j # k
        <4>1. j \in DOMAIN f /\ j \in Keys /\ slots'[j] = slots[j] /\ slots'[j] = f[j]
          BY <3>2, <1>3, <1>13
        <4>2. N!NativeRunning'[j] = N!NativeRunning[j] /\ N!NativeWaiting(j)' = N!NativeWaiting(j)
          BY <3>2, <4>1, <1>9
        <4>. QED
          BY <3>2, <4>1, <4>2, <1>3, <1>15
      <3>. QED
        BY <3>1, <3>2
    <2>2. \A j \in Keys \ DOMAIN slots' :
             N!NativeRunning'[j] = {} /\ N!NativeWaiting(j)' = {}
      BY <1>3, <1>9, <1>13
    <2>3. \A j \in Keys : N!NativeWaiting(j)' \in SUBSET Tasks
      BY <1>9, NativeSets, ZenonT(60)
    <2>. QED
      BY <1>1, <1>3, <1>13, <2>1, <2>2, <2>3, NativeBooks
  <1>17. since' \in [Keys -> 0 .. Horizon] /\ since'[k] = 0
         /\ \A j \in Keys \ {k} : since'[j] = since[j]
    BY <1>2, <1>6, SettingsType
  <1>18. N!NativeNoOversleep'
    <2>. SUFFICES ASSUME NEW u \in Tasks, task'[u] = "asleep"
                  PROVE  (/\ ~closed /\ keyOf[u] \in DOMAIN slots
                          /\ N!Cardinality(slots[keyOf[u]].active) < Concurrency[keyOf[u]] =>
                                alarm[u] \in 0 .. N!Remaining(slots[keyOf[u]], keyOf[u]))'
      BY DEF N!NativeNoOversleep
    <2>1. u # t /\ task[u] = "asleep" /\ keyOf[u] \in Keys
      BY <1>2, <1>8, NativeTyped
    <2>2. /\ keyOf[u] \in DOMAIN slots
          /\ N!Cardinality(slots[keyOf[u]].active) < Concurrency[keyOf[u]] =>
                alarm[u] \in 0 .. N!Remaining(slots[keyOf[u]], keyOf[u])
      BY <2>1 DEF NativeInv, N!NativeNoOversleep
    <2>3. u \in N!NativeWaiting(keyOf[u])
      BY <2>1, NativeSets
    <2>4. keyOf[u] \in DOMAIN f
      BY <1>3, <2>1, <2>3
    <2>5. CASE keyOf[u] # k
      <3>1. slots'[keyOf[u]] = slots[keyOf[u]] /\ since'[keyOf[u]] = since[keyOf[u]]
        BY <1>3, <1>13, <1>17, <2>1, <2>4, <2>5
      <3>. QED
        BY <1>1, <1>13, <2>2, <2>4, <3>1 DEF N!Remaining
    <2>6. CASE keyOf[u] = k
      <3>1. /\ N!NativeWaiting(k) # {}
            /\ k \in DOMAIN slots /\ f[k].started = slots[k].started
            /\ f[k].next = slots[k].next
        BY <1>0, <1>1, <2>3, <2>6, FoundFits
      <3>2. slots[k].active = f[k].active
        BY <1>1, <1>2, <1>3, <3>1 DEF NativeInv, N!NativeCountsMatch
      <3>3. N!Remaining(slots[k], k) = 0
        BY <1>4, <3>1 DEF N!Remaining
      <3>4. alarm[u] = 0
        BY <1>4, <2>2, <2>6, <3>2, <3>3
      <3>5. N!Remaining(slots[k], k)' \in Nat
        BY <1>1, <1>7, <1>14, <1>17 DEF N!Remaining
      <3>. QED
        BY <1>1, <1>13, <2>4, <2>6, <3>4, <3>5
    <2>. QED
      BY <2>5, <2>6
  <1>. QED
    BY <1>1, <1>2, <1>8, <1>16, <1>17, <1>18 DEF NativeInv, N!NativeTypeOK

LEMMA DozeKeepsInv ==
  ASSUME NEW t \in Tasks, NativeInv, N!Doze(t)
  PROVE  NativeInv'
  <1>. DEFINE f == N!Found(t)
  <1>0. PICK k \in Keys : k = keyOf[t]
    BY NativeTyped DEF NativeInv
  <1>1. /\ N!Looks(t) /\ ~closed /\ closed' = closed /\ keyOf' = keyOf /\ since' = since
        /\ task[t] \in {"idle", "looking"} /\ slots' = f
        /\ task' = [task EXCEPT ![t] = "asleep"]
    BY DEF N!Doze, N!Looks
  <1>2. /\ task \in [Tasks -> N!NativeStates] /\ since[k] \in Nat /\ N!NativeTypeOK
    BY <1>0, NativeTyped DEF NativeInv, N!NativeTypeOK
  <1>3. /\ k \in DOMAIN f /\ DOMAIN f \subseteq Keys
        /\ \A j \in DOMAIN f : f[j] \in N!Slot /\ f[j].active = N!NativeRunning[j]
        /\ \A j \in DOMAIN f : j # k => j \in DOMAIN slots /\ f[j] = slots[j]
        /\ \A j \in Keys \ DOMAIN f :
              N!NativeRunning[j] = {} /\ N!NativeWaiting(j) = {}
    BY <1>0, <1>1, FoundFits
  <1>4. f[k].waiting = Cardinality(N!NativeWaiting(k))
                         + (IF task[t] = "idle" THEN 1 ELSE 0)
    BY <1>0, <1>1, FoundFits
  <1>5. /\ task' \in [Tasks -> N!NativeStates]
        /\ task'[t] = "asleep" /\ \A u \in Tasks \ {t} : task'[u] = task[u]
    BY <1>1, <1>2 DEF N!NativeStates
  <1>6. t \notin N!NativeRunning[k] /\ (t \in N!NativeWaiting(k) <=> task[t] # "idle")
    BY <1>0, <1>1, <1>2, NativeSets
  <1>7. \A j \in Keys :
          /\ N!NativeRunning'[j] = N!NativeRunning[j]
          /\ N!NativeWaiting(j)' = IF j # k THEN N!NativeWaiting(j)
                                   ELSE N!NativeWaiting(j) \cup {t}
    <2>1. \A j \in Keys :
            /\ N!NativeRunning'[j] = IF j # k THEN N!NativeRunning[j]
                                     ELSE N!NativeRunning[j] \ {t}
            /\ N!NativeWaiting(j)' = IF j # k THEN N!NativeWaiting(j)
                                     ELSE N!NativeWaiting(j) \cup {t}
      BY <1>0, <1>1, <1>2, <1>5, NativeMoves
    <2>2. N!NativeRunning[k] \ {t} = N!NativeRunning[k]
      BY <1>6
    <2>. QED
      BY <2>1, <2>2
  <1>8. f[k].waiting = Cardinality(N!NativeWaiting(k)')
    <2>. DEFINE W == N!NativeWaiting(k)
    <2>1. N!NativeWaiting(k)' = W \cup {t} /\ W \in SUBSET Tasks
      BY <1>7, NativeSets
    <2>2. Cardinality(N!NativeWaiting(k)') = Cardinality(W \cup {t})
      BY <2>1
    <2>3. CASE task[t] = "idle"
      <3>1. Cardinality(W \cup {t}) = Cardinality(W) + 1
        BY <2>1, <2>3, <1>6, Counts
      <3>. QED
        BY <3>1, <2>2, <2>3, <1>4
    <2>4. CASE task[t] # "idle"
      <3>1. W \cup {t} = W
        BY <2>4, <1>6
      <3>2. Cardinality(W) \in Nat
        BY <2>1, Counts
      <3>3. f[k].waiting = Cardinality(W)
        BY <3>2, <2>4, <1>4
      <3>. QED
        BY <3>1, <3>3, <2>2
    <2>. QED
      BY <2>3, <2>4
  <1>9. /\ N!NativeCountsMatch'
        /\ DOMAIN slots' \subseteq Keys
        /\ \A j \in DOMAIN slots' : slots'[j] \in N!Slot
    <2>1. ASSUME NEW j \in DOMAIN f
          PROVE  f[j].waiting = Cardinality(N!NativeWaiting(j)')
      <3>1. CASE j = k
        BY <3>1, <1>8
      <3>2. CASE j # k
        <4>1. j \in Keys /\ j \in DOMAIN slots /\ f[j] = slots[j]
          BY <3>2, <1>3
        <4>2. slots[j].waiting = Cardinality(N!NativeWaiting(j))
          BY <4>1, <1>1, SameCounts DEF NativeInv, N!NativeCountsMatch
        <4>3. N!NativeWaiting(j)' = N!NativeWaiting(j)
          BY <3>2, <4>1, <1>7
        <4>. QED
          BY <4>1, <4>2, <4>3
      <3>. QED
        BY <3>1, <3>2
    <2>2. \A j \in Keys \ DOMAIN f : N!NativeRunning'[j] = {} /\ N!NativeWaiting(j)' = {}
      BY <1>3, <1>7
    <2>3. \A j \in Keys : N!NativeWaiting(j)' \in SUBSET Tasks
      BY <1>7, NativeSets
    <2>. QED
      BY <1>1, <1>3, <1>7, <2>1, <2>2, <2>3, NativeBooks
  <1>10. N!Remaining(f[k], k) \in Nat
    BY <1>2, <1>3, RemainingIs
  <1>11. /\ alarm' \in [Tasks -> {N!NoAlarm} \cup Nat]
         /\ \A u \in Tasks \ {t} : alarm'[u] = alarm[u]
         /\ N!Cardinality(f[k].active) < Concurrency[k] => alarm'[t] = N!Remaining(f[k], k)
    <2>1. alarm \in [Tasks -> {N!NoAlarm} \cup Nat]
      BY <1>2 DEF N!NativeTypeOK
    <2>2. IF N!Cardinality(f[k].active) < Concurrency[k]
          THEN alarm' = [alarm EXCEPT ![t] = N!Remaining(f[k], k)]
          ELSE alarm' = alarm
      BY <1>0 DEF N!Doze
    <2>. QED
      BY <2>1, <2>2, <1>10
  <1>12. N!NativeNoOversleep'
    <2>. SUFFICES ASSUME NEW u \in Tasks, task'[u] = "asleep"
                  PROVE  (/\ ~closed /\ keyOf[u] \in DOMAIN slots
                          /\ N!Cardinality(slots[keyOf[u]].active) < Concurrency[keyOf[u]] =>
                                alarm[u] \in 0 .. N!Remaining(slots[keyOf[u]], keyOf[u]))'
      BY DEF N!NativeNoOversleep
    <2>1. CASE u = t
      BY <2>1, <1>0, <1>1, <1>3, <1>10, <1>11 DEF N!Remaining
    <2>2. CASE u # t
      <3>1. task[u] = "asleep" /\ keyOf[u] \in Keys
        BY <2>2, <1>2, <1>5, NativeTyped
      <3>2. /\ keyOf[u] \in DOMAIN slots
            /\ N!Cardinality(slots[keyOf[u]].active) < Concurrency[keyOf[u]] =>
                  alarm[u] \in 0 .. N!Remaining(slots[keyOf[u]], keyOf[u])
        BY <3>1 DEF NativeInv, N!NativeNoOversleep
      <3>3. u \in N!NativeWaiting(keyOf[u])
        BY <3>1, NativeSets
      <3>4. keyOf[u] \in DOMAIN f
        BY <1>3, <3>1, <3>3
      <3>5. CASE keyOf[u] # k
        <4>1. f[keyOf[u]] = slots[keyOf[u]]
          BY <1>3, <3>4, <3>5
        <4>. QED
          BY <4>1, <1>1, <1>11, <2>2, <3>2, <3>4 DEF N!Remaining
      <3>6. CASE keyOf[u] = k
        <4>1. /\ k \in DOMAIN slots /\ f[k].started = slots[k].started
              /\ f[k].next = slots[k].next
          BY <1>0, <1>1, <3>3, <3>6, FoundFits
        <4>2. slots[k].active = f[k].active
          BY <1>1, <1>2, <1>3, <4>1 DEF NativeInv, N!NativeCountsMatch
        <4>. QED
          BY <4>1, <4>2, <1>1, <1>11, <2>2, <3>2, <3>4, <3>6 DEF N!Remaining
      <3>. QED
        BY <3>5, <3>6
    <2>. QED
      BY <2>1, <2>2
  <1>. QED
    BY <1>1, <1>2, <1>5, <1>9, <1>11, <1>12 DEF NativeInv, N!NativeTypeOK

\* The lease of t ends while the manager is open; held is what becomes of the slots before
\* they are pruned.
LEMMA LeaseEnds ==
  ASSUME NEW t \in Tasks, NativeInv, ~closed, task[t] \in {"leased", "transferring"},
         N!NotifyAll(N!Gone(t)), UNCHANGED <<keyOf, since, closed>>,
         NEW held, slots' = held \/ slots' = N!Pruned(held),
         DOMAIN held = DOMAIN slots,
         \A j \in DOMAIN slots \ {keyOf[t]} : held[j] = slots[j],
         held[keyOf[t]] \in N!Slot,
         held[keyOf[t]].active = slots[keyOf[t]].active \ {t},
         held[keyOf[t]].waiting = slots[keyOf[t]].waiting
  PROVE  NativeInv'
  <1>0. PICK k \in Keys : k = keyOf[t]
    BY NativeTyped DEF NativeInv
  <1>1. /\ k \in DOMAIN slots /\ DOMAIN slots \subseteq Keys
        /\ \A j \in DOMAIN slots : /\ slots[j] \in N!Slot
                                   /\ slots[j].active = N!NativeRunning[j]
                                   /\ slots[j].waiting = Cardinality(N!NativeWaiting(j))
        /\ t \notin N!NativeWaiting(k)
    BY <1>0, WithoutFits DEF NativeInv, N!NativeTypeOK
  <1>2. /\ task' \in [Tasks -> N!NativeStates]
        /\ alarm' \in [Tasks -> {N!NoAlarm} \cup Nat]
        /\ N!NativeNoOversleep'
        /\ \A j \in Keys :
              /\ N!NativeRunning'[j] = N!NativeRunning[j] \ (IF j = k THEN {t} ELSE {})
              /\ N!NativeWaiting(j)' = N!NativeWaiting(j) \ (IF j = k THEN {t} ELSE {})
              /\ N!NativeWaiting(j)' \in SUBSET Tasks
    BY <1>0, NativeLeaves
  <1>3. ASSUME NEW j \in Keys PROVE N!NativeWaiting(j)' = N!NativeWaiting(j)
    <2>1. N!NativeWaiting(k) \ {t} = N!NativeWaiting(k) /\ N!NativeWaiting(j) \ {} = N!NativeWaiting(j)
      BY <1>1
    <2>2. N!NativeWaiting(j)' = N!NativeWaiting(j) \ (IF j = k THEN {t} ELSE {})
      BY <1>2
    <2>. QED
      BY <2>1, <2>2
  <1>4. \A j \in Keys \ {k} : N!NativeRunning'[j] = N!NativeRunning[j]
    BY <1>2, ZenonT(60)
  <1>5. ASSUME NEW j \in DOMAIN held
        PROVE  /\ held[j] \in N!Slot
               /\ held[j].active = N!NativeRunning'[j]
               /\ held[j].waiting = Cardinality(N!NativeWaiting(j)')
    <2>1. j \in Keys /\ N!NativeWaiting(j)' = N!NativeWaiting(j)
      BY <1>1, <1>3
    <2>2. CASE j = k
      BY <2>1, <2>2, <1>0, <1>1, <1>2
    <2>3. CASE j # k
      BY <2>1, <2>3, <1>0, <1>1, <1>4
    <2>. QED
      BY <2>2, <2>3
  <1>6. \A j \in Keys \ DOMAIN held : N!NativeRunning'[j] = {} /\ N!NativeWaiting(j)' = {}
    BY <1>1, <1>3, <1>4 DEF NativeInv, N!NativeCountsMatch
  <1>7. /\ N!NativeCountsMatch'
        /\ DOMAIN slots' \subseteq Keys
        /\ \A j \in DOMAIN slots' : slots'[j] \in N!Slot
    BY <1>1, <1>2, <1>5, <1>6, NativeBooks
  <1>. QED
    BY <1>2, <1>7 DEF NativeInv, N!NativeTypeOK

\* A step that ends the part of t after close.
LEMMA LeavesAfterClose ==
  ASSUME NEW t \in Tasks, NativeInv, closed, N!NotifyAll(N!Gone(t)),
         UNCHANGED <<keyOf, since, closed, slots>>
  PROVE  NativeInv'
  <1>1. /\ task' \in [Tasks -> N!NativeStates]
        /\ alarm' \in [Tasks -> {N!NoAlarm} \cup Nat]
        /\ N!NativeNoOversleep'
    BY NativeLeaves
  <1>2. N!NativeCountsMatch'
    BY DEF NativeInv, N!NativeCountsMatch
  <1>. QED
    BY <1>1, <1>2 DEF NativeInv, N!NativeTypeOK

LEMMA ReleaseKeepsInv ==
  ASSUME NEW t \in Tasks, NativeInv, N!Release(t) \/ N!DropLease(t)
  PROVE  NativeInv'
  <1>1. /\ task[t] \in {"leased", "transferring"} /\ N!NotifyAll(N!Gone(t))
        /\ UNCHANGED <<keyOf, since, closed>>
        /\ \/ slots' = IF closed THEN slots ELSE N!Pruned(N!Without(t))
           \/ slots' = IF closed THEN slots ELSE N!Without(t)
    BY DEF N!Release, N!DropLease
  <1>2. CASE closed
    BY <1>1, <1>2, LeavesAfterClose
  <1>3. CASE ~closed
    <2>1. /\ keyOf[t] \in DOMAIN slots /\ DOMAIN N!Without(t) = DOMAIN slots
          /\ \A j \in DOMAIN slots \ {keyOf[t]} : N!Without(t)[j] = slots[j]
          /\ N!Without(t)[keyOf[t]] \in N!Slot
          /\ N!Without(t)[keyOf[t]] = [slots[keyOf[t]] EXCEPT !.active = @ \ {t}, !.idle = 0]
          /\ slots[keyOf[t]] \in N!Slot
      BY <1>1, <1>3, WithoutFits
    <2>2. /\ N!Without(t)[keyOf[t]].active = slots[keyOf[t]].active \ {t}
          /\ N!Without(t)[keyOf[t]].waiting = slots[keyOf[t]].waiting
      BY <2>1 DEF N!Slot
    <2>. QED
      BY <1>1, <1>3, <2>1, <2>2, LeaseEnds
  <1>. QED
    BY <1>2, <1>3

LEMMA ThrottledReleaseKeepsInv ==
  ASSUME NEW t \in Tasks, NEW l \in Latencies, NEW ok \in BOOLEAN, NativeInv,
         N!ReleaseThrottled(t, l, ok)
  PROVE  NativeInv'
  <1>. DEFINE w == N!Without(t)
              s == w[keyOf[t]]
              new == N!Throttled(s.delay, l)
  <1>1. /\ task[t] \in {"leased", "transferring"} /\ N!NotifyAll(N!Gone(t)) /\ ~closed
        /\ UNCHANGED <<keyOf, since, closed>>
        /\ \/ slots' = N!Pruned(w)
           \/ \E d \in N!Samples(keyOf[t], new) :
                 slots' = N!Pruned([w EXCEPT ![keyOf[t]] = [s EXCEPT !.delay = new, !.next = d]])
    BY DEF N!ReleaseThrottled
  <1>2. /\ keyOf[t] \in Keys /\ keyOf[t] \in DOMAIN slots /\ DOMAIN w = DOMAIN slots
        /\ \A j \in DOMAIN slots \ {keyOf[t]} : w[j] = slots[j]
        /\ s \in N!Slot
        /\ s = [slots[keyOf[t]] EXCEPT !.active = @ \ {t}, !.idle = 0]
        /\ slots[keyOf[t]] \in N!Slot
    BY <1>1, WithoutFits
  <1>3. s.active = slots[keyOf[t]].active \ {t} /\ s.waiting = slots[keyOf[t]].waiting
    BY <1>2 DEF N!Slot
  <1>. HIDE DEF s, w
  <1>4. CASE slots' = N!Pruned(w)
    BY <1>1, <1>2, <1>3, <1>4, LeaseEnds DEF s
  <1>5. ASSUME NEW d \in N!Samples(keyOf[t], new),
               slots' = N!Pruned([w EXCEPT ![keyOf[t]] = [s EXCEPT !.delay = new, !.next = d]])
        PROVE  NativeInv'
    <2>1. new \in Nat
      <3>1. s.delay \in Nat
        BY <1>2 DEF N!Slot
      <3>. QED
        BY <3>1, ThrottledInBounds, SameSettings
    <2>2. d \in Nat
      BY <1>2, <2>1, SamplesKeepSpacing, SameSettings
    <2>. DEFINE h == [w EXCEPT ![keyOf[t]] = [s EXCEPT !.delay = new, !.next = d]]
    <2>. HIDE DEF new
    <2>3. /\ DOMAIN h = DOMAIN slots /\ \A j \in DOMAIN slots \ {keyOf[t]} : h[j] = slots[j]
          /\ h[keyOf[t]] = [s EXCEPT !.delay = new, !.next = d]
      BY <1>2
    <2>4. /\ h[keyOf[t]] \in N!Slot
          /\ h[keyOf[t]].active = s.active /\ h[keyOf[t]].waiting = s.waiting
      BY <1>2, <2>1, <2>2, <2>3 DEF N!Slot
    <2>5. slots' = N!Pruned(h)
      BY <1>5
    <2>. HIDE DEF h
    <2>. QED
      BY <1>1, <1>3, <2>3, <2>4, <2>5, LeaseEnds
  <1>. QED
    BY <1>1, <1>4, <1>5

LEMMA DropWaiterKeepsInv ==
  ASSUME NEW t \in Tasks, NativeInv, N!DropWaiter(t)
  PROVE  NativeInv'
  <1>0. PICK k \in Keys : k = keyOf[t]
    BY NativeTyped DEF NativeInv
  <1>1. /\ task[t] \in {"looking", "asleep"} /\ N!NotifyAll(N!Gone(t))
        /\ UNCHANGED <<keyOf, since, closed>>
        /\ slots' = IF closed THEN slots
                    ELSE [slots EXCEPT ![k].waiting = @ - 1, ![k].idle = 0]
    BY <1>0 DEF N!DropWaiter
  <1>2. CASE closed
    BY <1>1, <1>2, LeavesAfterClose
  <1>3. CASE ~closed
    <2>1. t \in N!NativeWaiting(k) /\ t \notin N!NativeRunning[k]
      BY <1>0, <1>1, NativeSets
    <2>2. /\ k \in DOMAIN slots /\ DOMAIN slots \subseteq Keys
          /\ \A j \in DOMAIN slots : /\ slots[j] \in N!Slot
                                     /\ slots[j].active = N!NativeRunning[j]
                                     /\ slots[j].waiting = Cardinality(N!NativeWaiting(j))
      BY <1>3, <2>1, SameCounts DEF NativeInv, N!NativeCountsMatch, N!NativeTypeOK
    <2>3. /\ task' \in [Tasks -> N!NativeStates]
          /\ alarm' \in [Tasks -> {N!NoAlarm} \cup Nat]
          /\ N!NativeNoOversleep'
          /\ \A j \in Keys :
                /\ N!NativeRunning'[j] = N!NativeRunning[j] \ (IF j = k THEN {t} ELSE {})
                /\ N!NativeWaiting(j)' = N!NativeWaiting(j) \ (IF j = k THEN {t} ELSE {})
                /\ N!NativeWaiting(j)' \in SUBSET Tasks
      BY <1>0, <1>1, NativeLeaves
    <2>4. ASSUME NEW j \in Keys
          PROVE  /\ N!NativeRunning'[j] = N!NativeRunning[j]
                 /\ j # k => N!NativeWaiting(j)' = N!NativeWaiting(j)
      <3>1. N!NativeRunning[k] \ {t} = N!NativeRunning[k]
            /\ N!NativeRunning[j] \ {} = N!NativeRunning[j]
            /\ N!NativeWaiting(j) \ {} = N!NativeWaiting(j)
        BY <2>1
      <3>. QED
        BY <2>3, <3>1
    <2>5. slots[k].waiting - 1 = Cardinality(N!NativeWaiting(k)') /\ slots[k].waiting - 1 \in Nat
      <3>1. N!NativeWaiting(k)' = N!NativeWaiting(k) \ {t} /\ N!NativeWaiting(k) \in SUBSET Tasks
        BY <2>3, NativeSets
      <3>2. Cardinality(N!NativeWaiting(k)') = Cardinality(N!NativeWaiting(k) \ {t})
        BY <3>1
      <3>3. /\ Cardinality(N!NativeWaiting(k) \ {t}) = Cardinality(N!NativeWaiting(k)) - 1
            /\ Cardinality(N!NativeWaiting(k) \ {t}) \in Nat
        BY <2>1, <3>1, Counts
      <3>. QED
        BY <2>2, <3>2, <3>3
    <2>6. /\ DOMAIN slots' = DOMAIN slots
          /\ \A j \in DOMAIN slots \ {k} : slots'[j] = slots[j]
          /\ slots'[k] = [slots[k] EXCEPT !.waiting = @ - 1, !.idle = 0]
      BY <1>1, <1>3, <2>2
    <2>7. slots'[k] \in N!Slot /\ slots'[k].active = slots[k].active
          /\ slots'[k].waiting = slots[k].waiting - 1
      <3>1. slots'[k] = [active |-> slots[k].active, waiting |-> slots[k].waiting - 1,
                         started |-> slots[k].started, idle |-> 0,
                         delay |-> slots[k].delay, next |-> slots[k].next]
        BY <2>2, <2>6 DEF N!Slot
      <3>2. slots[k] \in N!Slot /\ slots[k].waiting - 1 \in Nat
        BY <2>2, <2>5
      <3>. QED
        BY <3>1, <3>2 DEF N!Slot
    <2>8. ASSUME NEW j \in DOMAIN slots'
          PROVE  /\ slots'[j] \in N!Slot
                 /\ slots'[j].active = N!NativeRunning'[j]
                 /\ slots'[j].waiting = Cardinality(N!NativeWaiting(j)')
      <3>1. CASE j = k
        BY <3>1, <2>2, <2>4, <2>5, <2>7
      <3>2. CASE j # k
        BY <3>2, <2>2, <2>4, <2>6
      <3>. QED
        BY <3>1, <3>2
    <2>9. \A j \in Keys \ DOMAIN slots' : N!NativeRunning'[j] = {} /\ N!NativeWaiting(j)' = {}
      BY <1>3, <2>2, <2>4, <2>6 DEF NativeInv, N!NativeCountsMatch
    <2>10. /\ N!NativeCountsMatch'
           /\ DOMAIN slots' \subseteq Keys
           /\ \A j \in DOMAIN slots' : slots'[j] \in N!Slot
      BY <1>1, <1>3, <2>2, <2>3, <2>6, <2>8, <2>9, NativeBooks, ZenonT(60)
    <2>. QED
      BY <1>1, <2>3, <2>10 DEF NativeInv, N!NativeTypeOK
  <1>. QED
    BY <1>2, <1>3

\* The steps that leave the slots alone, and close.
LEMMA QuietStepsKeepInv ==
  ASSUME NativeInv,
         N!Close \/ \E t \in Tasks : N!Refuse(t) \/ N!Ring(t) \/ N!TakeLease(t)
  PROVE  NativeInv'
  <1>0. N!NativeTypeOK /\ task \in [Tasks -> N!NativeStates]
    BY NativeTyped DEF NativeInv
  <1>1. CASE N!Close
    <2>1. /\ task' \in [Tasks -> N!NativeStates]
          /\ alarm' \in [Tasks -> {N!NoAlarm} \cup Nat]
          /\ N!NativeNoOversleep'
      BY <1>0, <1>1, EverybodyIsWoken DEF N!Close
    <2>2. slots' = <<>> /\ closed' = TRUE /\ keyOf' = keyOf /\ since' = since
      BY <1>1 DEF N!Close
    <2>. QED
      BY <1>0, <2>1, <2>2 DEF NativeInv, N!NativeTypeOK, N!NativeCountsMatch
  <1>2. ASSUME NEW t \in Tasks, N!Refuse(t)
        PROVE  NativeInv'
    <2>1. /\ closed /\ UNCHANGED <<keyOf, alarm, since, slots, closed>>
          /\ task' = [task EXCEPT ![t] = "idle"]
      BY <1>2 DEF N!Refuse
    <2>2. /\ task' \in [Tasks -> N!NativeStates]
          /\ \A u \in Tasks : task'[u] = "asleep" => task[u] = "asleep"
      BY <1>0, <2>1 DEF N!NativeStates
    <2>3. \A u \in Tasks : task'[u] # "asleep"
      BY <2>1, <2>2 DEF NativeInv, N!NativeNoOversleep
    <2>. QED
      BY <2>1, <2>2, <2>3 DEF NativeInv, N!NativeTypeOK, N!NativeCountsMatch, N!NativeNoOversleep
  <1>3. ASSUME NEW t \in Tasks, N!Ring(t) \/ N!TakeLease(t)
        PROVE  NativeInv'
    <2>1. /\ UNCHANGED <<keyOf, since, slots, closed>>
          /\ \/ task[t] = "asleep" /\ task' = [task EXCEPT ![t] = "looking"]
                /\ alarm' = [alarm EXCEPT ![t] = N!NoAlarm]
             \/ task[t] = "leased" /\ task' = [task EXCEPT ![t] = "transferring"]
                /\ alarm' = alarm
      BY <1>3 DEF N!Ring, N!TakeLease
    <2>2. /\ task' \in [Tasks -> N!NativeStates]
          /\ alarm' \in [Tasks -> {N!NoAlarm} \cup Nat]
          /\ \A u \in Tasks \ {t} : task'[u] = task[u] /\ alarm'[u] = alarm[u]
          /\ task'[t] # "asleep"
      <3>1. alarm \in [Tasks -> {N!NoAlarm} \cup Nat]
        BY <1>0 DEF N!NativeTypeOK
      <3>2. {"looking", "transferring"} \subseteq N!NativeStates
        BY DEF N!NativeStates
      <3>. QED
        BY <1>0, <2>1, <3>1, <3>2
    <2>3. /\ N!NativeRunning' = N!NativeRunning
          /\ \A j \in Keys : N!NativeWaiting(j)' = N!NativeWaiting(j)
      <3>1. \A u \in Tasks :
               /\ task'[u] \in {"leased", "transferring"} <=> task[u] \in {"leased", "transferring"}
               /\ task'[u] \in {"looking", "asleep"} <=> task[u] \in {"looking", "asleep"}
        BY <1>0, <2>1, <2>2
      <3>2. \A j \in Keys : N!Of(j)' = N!Of(j)
        BY <2>1 DEF N!Of
      <3>3. \A j \in Keys : N!Of(j) \subseteq Tasks
        BY DEF N!Of
      <3>. QED
        BY <3>1, <3>2, <3>3 DEF N!NativeRunning, N!NativeWaiting
    <2>4. N!NativeCountsMatch'
      BY <2>1, <2>3 DEF NativeInv, N!NativeCountsMatch
    <2>5. N!NativeNoOversleep'
      BY <2>1, <2>2 DEF NativeInv, N!NativeNoOversleep, N!Remaining
    <2>. QED
      BY <2>1, <2>2, <2>4, <2>5 DEF NativeInv, N!NativeTypeOK
  <1>. QED
    BY <1>1, <1>2, <1>3

\* Time brings the alarms and what remains of the delays down together.
LEMMA NativeTickKeepsInv ==
  ASSUME NativeInv, N!NativeTick
  PROVE  NativeInv'
  <1>1. /\ since' = [j \in Keys |-> N!Older(since[j])]
        /\ slots' = [j \in DOMAIN slots |-> [slots[j] EXCEPT !.idle = N!Older(@)]]
        /\ alarm' = [t \in Tasks |-> IF alarm[t] > 0 THEN alarm[t] - 1 ELSE alarm[t]]
        /\ UNCHANGED <<keyOf, task, closed>>
    BY DEF N!NativeTick
  <1>2. /\ \A j \in Keys : since[j] \in 0 .. Horizon
        /\ \A t \in Tasks : alarm[t] \in {N!NoAlarm} \cup Nat
        /\ DOMAIN slots \subseteq Keys /\ \A j \in DOMAIN slots : slots[j] \in N!Slot
        /\ \A t \in Tasks : keyOf[t] \in Keys
    BY NativeTyped DEF NativeInv, N!NativeTypeOK
  <1>3. \A j \in Keys : since'[j] \in 0 .. Horizon /\ since'[j] >= since[j]
                        /\ since'[j] <= since[j] + 1
    BY <1>1, <1>2, SettingsType DEF N!Older
  <1>4. \A j \in DOMAIN slots :
           /\ slots'[j] \in N!Slot /\ slots'[j].active = slots[j].active
           /\ slots'[j].waiting = slots[j].waiting /\ slots'[j].started = slots[j].started
           /\ slots'[j].next = slots[j].next
    BY <1>1, <1>2, SettingsType DEF N!Slot, N!Older
  <1>5. N!NativeTypeOK'
    <2>1. alarm' \in [Tasks -> {N!NoAlarm} \cup Nat]
      BY <1>1, <1>2 DEF N!NoAlarm
    <2>2. since' \in [Keys -> 0 .. Horizon]
      BY <1>1, <1>3
    <2>3. DOMAIN slots' = DOMAIN slots
      BY <1>1
    <2>. QED
      BY <1>1, <1>2, <1>4, <2>1, <2>2, <2>3 DEF NativeInv, N!NativeTypeOK
  <1>6. N!NativeCountsMatch'
    <2>1. N!NativeRunning' = N!NativeRunning /\ \A j \in Keys : N!NativeWaiting(j)' = N!NativeWaiting(j)
      BY <1>1 DEF N!NativeRunning, N!NativeWaiting, N!Of
    <2>2. closed => slots' = <<>>
      BY <1>1 DEF NativeInv, N!NativeCountsMatch
    <2>3. DOMAIN slots' = DOMAIN slots
      BY <1>1
    <2>. QED
      BY <1>1, <1>4, <2>1, <2>2, <2>3 DEF NativeInv, N!NativeCountsMatch
  <1>7. N!NativeNoOversleep'
    <2>. SUFFICES ASSUME NEW t \in Tasks, task'[t] = "asleep"
                  PROVE  (/\ ~closed /\ keyOf[t] \in DOMAIN slots
                          /\ N!Cardinality(slots[keyOf[t]].active) < Concurrency[keyOf[t]] =>
                                alarm[t] \in 0 .. N!Remaining(slots[keyOf[t]], keyOf[t]))'
      BY DEF N!NativeNoOversleep
    <2>1. PICK k \in Keys : k = keyOf[t]
      BY <1>2
    <2>2. /\ ~closed /\ k \in DOMAIN slots
          /\ N!Cardinality(slots[k].active) < Concurrency[k] =>
                alarm[t] \in 0 .. N!Remaining(slots[k], k)
      BY <1>1, <2>1 DEF NativeInv, N!NativeNoOversleep
    <2>3. ASSUME alarm[t] \in 0 .. N!Remaining(slots[k], k)
          PROVE  alarm'[t] \in 0 .. N!Remaining(slots[k], k)'
      <3>1. slots[k] \in N!Slot /\ slots'[k] \in N!Slot
            /\ slots'[k].next = slots[k].next /\ slots'[k].started = slots[k].started
        BY <1>2, <1>4, <2>2
      <3>2. slots[k].next \in Nat /\ since[k] \in Nat /\ since'[k] \in Nat
            /\ since'[k] <= since[k] + 1
        BY <1>2, <1>3, <3>1 DEF N!Slot
      <3>3. alarm'[t] = IF alarm[t] > 0 THEN alarm[t] - 1 ELSE alarm[t]
        BY <1>1
      <3>4. N!Remaining(slots[k], k) = IF slots[k].started /\ slots[k].next > since[k]
                                       THEN slots[k].next - since[k] ELSE 0
        BY DEF N!Remaining
      <3>5. N!Remaining(slots[k], k)' = IF slots[k].started /\ slots[k].next > since'[k]
                                        THEN slots[k].next - since'[k] ELSE 0
        BY <3>1 DEF N!Remaining
      <3>. QED
        BY <2>3, <3>2, <3>3, <3>4, <3>5
    <2>. QED
      BY <1>1, <1>4, <2>1, <2>2, <2>3
  <1>. QED
    BY <1>5, <1>6, <1>7 DEF NativeInv

LEMMA NativeStepKeepsInv ==
  ASSUME NativeInv, N!NativeNext
  PROVE  NativeInv'
  BY GrantKeepsInv, DozeKeepsInv, ReleaseKeepsInv, ThrottledReleaseKeepsInv,
     DropWaiterKeepsInv, QuietStepsKeepInv, NativeTickKeepsInv
     DEF N!NativeNext, N!Look

-----------------------------------------------------------------------------

\* A slot is pruned after a pause that is longer than the interval it would have asked for.
LEMMA PrunedIsSpaced ==
  ASSUME PausesSpace, NEW held, DOMAIN held \subseteq Keys,
         \A j \in DOMAIN held : held[j] \in N!Slot,
         NEW ages \in [Keys -> Nat], Spaced(held, ages)
  PROVE  Spaced(N!Pruned(held), ages)
  <1>1. /\ DOMAIN N!Pruned(held) \subseteq DOMAIN held
        /\ \A k \in DOMAIN N!Pruned(held) : N!Pruned(held)[k] = held[k]
        /\ \A k \in DOMAIN held : k \notin DOMAIN N!Pruned(held) => held[k].idle > MaxIdle
    BY PrunedKeepsTasks
  <1>. SUFFICES ASSUME NEW k \in Keys, k \notin DOMAIN N!Pruned(held), k \in DOMAIN held
                PROVE  ages[k] >= Spacing[k]
    BY <1>1 DEF Spaced
  <1>2. held[k].idle > MaxIdle /\ held[k].idle \in Nat
    BY <1>1 DEF N!Slot
  <1>3. held[k].idle <= ages[k] /\ Spacing[k] <= MaxIdle /\ ages[k] \in Nat
    BY DEF Spaced, PausesSpace
  <1>. QED
    BY <1>2, <1>3, SettingsType, SpacingType

LEMMA FoundIsSpaced ==
  ASSUME NEW t \in Tasks, NativeInv, NativeSpaced, PausesSpace, N!Looks(t)
  PROVE  Spaced(N!Found(t), since)
  <1>. DEFINE f == N!Found(t)
  <1>0. PICK k \in Keys : k = keyOf[t]
    BY NativeTyped DEF NativeInv
  <1>1. Spaced(slots, since) /\ \A j \in Keys : since[j] \in Nat
    BY NativeTyped DEF NativeSpaced, NativeInv, N!Looks
  <1>2. /\ \A j \in DOMAIN f : j # k => j \in DOMAIN slots /\ f[j] = slots[j]
        /\ \/ /\ f[k].delay = Delay[k] /\ ~f[k].started /\ f[k].idle = 0
              /\ k \in DOMAIN slots => slots[k].idle > MaxIdle
           \/ /\ k \in DOMAIN slots
              /\ f[k].started = slots[k].started /\ f[k].next = slots[k].next
              /\ f[k].delay = slots[k].delay /\ f[k].idle = slots[k].idle
        /\ \A j \in DOMAIN slots \ DOMAIN f : slots[j].idle > MaxIdle
        /\ k \in DOMAIN f
    BY <1>0, FoundFits
  <1>3. ASSUME NEW j \in DOMAIN slots \cap Keys, slots[j].idle > MaxIdle
        PROVE  since[j] >= Spacing[j]
    <2>1. slots[j].idle \in Nat
      BY DEF NativeInv, N!NativeTypeOK, N!Slot
    <2>2. slots[j].idle <= since[j] /\ since[j] \in Nat /\ Spacing[j] <= MaxIdle
      BY <1>1 DEF Spaced, PausesSpace
    <2>. QED
      BY <1>3, <2>1, <2>2, SettingsType, SpacingType
  <1>. SUFFICES ASSUME NEW j \in Keys
                PROVE  IF j \in DOMAIN f
                       THEN /\ f[j].delay >= LeastDelay(j)
                            /\ f[j].idle <= since[j]
                            /\ IF f[j].started THEN f[j].next >= Spacing[j]
                               ELSE since[j] >= Spacing[j]
                       ELSE since[j] >= Spacing[j]
    BY DEF Spaced
  <1>. HIDE DEF f
  <1>4. CASE j = k
    <2>1. CASE /\ f[k].delay = Delay[k] /\ ~f[k].started /\ f[k].idle = 0
               /\ k \in DOMAIN slots => slots[k].idle > MaxIdle
      <3>1. since[k] >= Spacing[k]
        BY <1>1, <1>3, <2>1 DEF Spaced
      <3>. QED
        BY <1>1, <1>2, <1>4, <2>1, <3>1, SpacingType, SettingsType
    <2>2. CASE /\ k \in DOMAIN slots
               /\ f[k].started = slots[k].started /\ f[k].next = slots[k].next
               /\ f[k].delay = slots[k].delay /\ f[k].idle = slots[k].idle
      BY <1>1, <1>2, <1>4, <2>2 DEF Spaced
    <2>. QED
      BY <1>2, <2>1, <2>2
  <1>5. CASE j # k /\ j \in DOMAIN f
    BY <1>1, <1>2, <1>5 DEF Spaced
  <1>6. CASE j # k /\ j \notin DOMAIN f
    BY <1>1, <1>2, <1>3, <1>6 DEF Spaced
  <1>. QED
    BY <1>4, <1>5, <1>6

\* A start is only granted when the interval since the last one has passed.
LEMMA GrantIsSpaced ==
  ASSUME NEW t \in Tasks, NativeInv, NativeSpaced, PausesSpace, N!Grant(t)
  PROVE  since[keyOf[t]] >= Spacing[keyOf[t]] /\ NativeSpaced'
  <1>. DEFINE f == N!Found(t)
  <1>0. PICK k \in Keys : k = keyOf[t]
    BY NativeTyped DEF NativeInv
  <1>1. N!Looks(t)
    BY DEF N!Grant
  <1>2. Spaced(f, since) /\ k \in DOMAIN f /\ f[k] \in N!Slot
    BY <1>0, <1>1, FoundIsSpaced, FoundFits
  <1>3. since \in [Keys -> Nat] /\ since[k] \in Nat
    BY NativeTyped DEF NativeInv
  <1>4. since[k] >= Spacing[k]
    <2>1. N!Remaining(f[k], k) = 0
      BY <1>0 DEF N!Grant
    <2>2. f[k].started => ~(f[k].next > since[k])
      BY <2>1, <1>2, <1>3 DEF N!Remaining, N!Slot
    <2>3. f[k].next \in Nat
      BY <1>2 DEF N!Slot
    <2>. QED
      BY <2>2, <2>3, <1>2, <1>3, SpacingType DEF Spaced
  <1>5. PICK d \in N!Samples(k, f[k].delay) :
          slots' = [f EXCEPT ![k] =
                      [f[k] EXCEPT !.waiting = @ - 1, !.active = @ \cup {t},
                                   !.started = TRUE, !.idle = 0, !.next = d]]
    BY <1>0 DEF N!Grant
  <1>6. since' = [since EXCEPT ![k] = 0]
    BY <1>0 DEF N!Grant
  <1>7. f[k].delay \in Nat /\ f[k].delay >= LeastDelay(k)
    BY <1>2 DEF N!Slot, Spaced
  <1>8. d \in Nat /\ d >= Spacing[k]
    BY <1>7, SamplesKeepSpacing, SameSettings
  <1>. HIDE DEF f
  <1>9. /\ DOMAIN slots' = DOMAIN f
        /\ \A j \in DOMAIN f \ {k} : slots'[j] = f[j]
        /\ slots'[k].started = TRUE /\ slots'[k].idle = 0 /\ slots'[k].next = d
        /\ slots'[k].delay = f[k].delay
    BY <1>2, <1>5 DEF N!Slot
  <1>10. since'[k] = 0 /\ \A j \in Keys \ {k} : since'[j] = since[j]
    BY <1>3, <1>6
  <1>11. Spaced(slots', since')
    BY <1>2, <1>7, <1>8, <1>9, <1>10 DEF Spaced
  <1>. QED
    BY <1>0, <1>4, <1>11 DEF NativeSpaced

LEMMA LeavingIsSpaced ==
  ASSUME NEW t \in Tasks, NativeInv, NativeSpaced, PausesSpace,
         \/ N!Release(t) \/ N!DropLease(t) \/ N!DropWaiter(t)
         \/ \E l \in Latencies, ok \in BOOLEAN : N!ReleaseThrottled(t, l, ok)
  PROVE  NativeSpaced'
  <1>0. PICK k \in Keys : k = keyOf[t]
    BY NativeTyped DEF NativeInv
  <1>1. since' = since /\ closed' = closed /\ since \in [Keys -> Nat]
    BY NativeTyped DEF NativeInv, N!Release, N!DropLease, N!DropWaiter, N!ReleaseThrottled
  <1>. SUFFICES ASSUME ~closed
                PROVE  Spaced(slots', since)
    BY <1>1 DEF NativeSpaced
  <1>2. /\ Spaced(slots, since) /\ DOMAIN slots \subseteq Keys
        /\ \A j \in DOMAIN slots : slots[j] \in N!Slot
    BY DEF NativeSpaced, NativeInv, N!NativeTypeOK
  \* A slot that was used just now is as spaced as before.
  <1>3. ASSUME NEW h, DOMAIN h = DOMAIN slots, k \in DOMAIN slots,
               \A j \in DOMAIN slots \ {k} : h[j] = slots[j],
               h[k] \in N!Slot, h[k].idle = 0, h[k].started = slots[k].started,
               h[k].delay >= LeastDelay(k),
               h[k].next = slots[k].next \/ h[k].next >= Spacing[k]
        PROVE  Spaced(h, since) /\ Spaced(N!Pruned(h), since)
    <2>1. since[k] >= 0
      BY <1>1
    <2>2. Spaced(h, since)
      BY <1>2, <1>3, <2>1 DEF Spaced
    <2>3. \A j \in DOMAIN h : h[j] \in N!Slot
      BY <1>2, <1>3
    <2>. QED
      BY <1>1, <1>2, <1>3, <2>2, <2>3, PrunedIsSpaced
  <1>4. ASSUME task[t] \in {"leased", "transferring"}
        PROVE  LET w == N!Without(t)
               IN  /\ k \in DOMAIN slots /\ DOMAIN w = DOMAIN slots
                   /\ \A j \in DOMAIN slots \ {k} : w[j] = slots[j]
                   /\ w[k] \in N!Slot /\ w[k].idle = 0 /\ w[k].started = slots[k].started
                   /\ w[k].delay = slots[k].delay /\ w[k].next = slots[k].next
                   /\ w[k].delay >= LeastDelay(k)
    <2>1. /\ k \in DOMAIN slots /\ DOMAIN N!Without(t) = DOMAIN slots
          /\ \A j \in DOMAIN slots \ {k} : N!Without(t)[j] = slots[j]
          /\ N!Without(t)[k] \in N!Slot
          /\ N!Without(t)[k] = [slots[k] EXCEPT !.active = @ \ {t}, !.idle = 0]
          /\ slots[k] \in N!Slot
      BY <1>0, <1>4, WithoutFits
    <2>. QED
      BY <2>1, <1>2 DEF N!Slot, Spaced
  <1>5. CASE N!Release(t) \/ N!DropLease(t)
    <2>1. task[t] \in {"leased", "transferring"}
          /\ (slots' = N!Without(t) \/ slots' = N!Pruned(N!Without(t)))
      BY <1>5 DEF N!Release, N!DropLease
    <2>2. Spaced(N!Without(t), since) /\ Spaced(N!Pruned(N!Without(t)), since)
      BY <1>3, <1>4, <2>1
    <2>. QED
      BY <2>1, <2>2
  <1>6. CASE N!DropWaiter(t)
    <2>1. slots' = [slots EXCEPT ![k].waiting = @ - 1, ![k].idle = 0]
      BY <1>0, <1>6 DEF N!DropWaiter
    <2>2. /\ task[t] \in {"looking", "asleep"} /\ t \in N!NativeWaiting(k)
      BY <1>0, <1>6, NativeSets DEF N!DropWaiter
    <2>3. k \in DOMAIN slots
      BY <2>2 DEF NativeInv, N!NativeCountsMatch
    <2>4. NativeInv'
      BY <1>6, DropWaiterKeepsInv
    <2>5. /\ DOMAIN slots' = DOMAIN slots
          /\ \A j \in DOMAIN slots \ {k} : slots'[j] = slots[j]
          /\ slots'[k].idle = 0 /\ slots'[k].started = slots[k].started
          /\ slots'[k].delay = slots[k].delay /\ slots'[k].next = slots[k].next
      BY <1>2, <2>1, <2>3 DEF N!Slot
    <2>6. slots'[k] \in N!Slot /\ slots'[k].delay >= LeastDelay(k)
      BY <1>2, <2>3, <2>4, <2>5 DEF NativeInv, N!NativeTypeOK, Spaced
    <2>. QED
      BY <1>3, <2>3, <2>5, <2>6
  <1>7. ASSUME NEW l \in Latencies, NEW ok \in BOOLEAN, N!ReleaseThrottled(t, l, ok)
        PROVE  Spaced(slots', since)
    <2>. DEFINE w == N!Without(t)
                new == N!Throttled(w[k].delay, l)
    <2>1. /\ task[t] \in {"leased", "transferring"}
          /\ \/ slots' = N!Pruned(w)
             \/ \E d \in N!Samples(k, new) :
                   slots' = N!Pruned([w EXCEPT ![k] = [w[k] EXCEPT !.delay = new, !.next = d]])
      BY <1>0, <1>7 DEF N!ReleaseThrottled
    <2>2. /\ k \in DOMAIN slots /\ DOMAIN w = DOMAIN slots
          /\ \A j \in DOMAIN slots \ {k} : w[j] = slots[j]
          /\ w[k] \in N!Slot /\ w[k].idle = 0 /\ w[k].started = slots[k].started
          /\ w[k].delay = slots[k].delay /\ w[k].next = slots[k].next
          /\ w[k].delay >= LeastDelay(k)
      BY <1>4, <2>1
    <2>3. new \in Nat /\ new >= MinDelay
      BY <2>2, ThrottledInBounds, SameSettings DEF N!Slot
    <2>4. CASE slots' = N!Pruned(w)
      BY <1>3, <2>2, <2>4
    <2>5. ASSUME NEW d \in N!Samples(k, new),
                 slots' = N!Pruned([w EXCEPT ![k] = [w[k] EXCEPT !.delay = new, !.next = d]])
          PROVE  Spaced(slots', since)
      <3>1. new >= LeastDelay(k)
        BY <2>3, SpacingType, SettingsType
      <3>2. d \in Nat /\ d >= Spacing[k]
        BY <2>3, <3>1, SamplesKeepSpacing, SameSettings
      <3>. DEFINE h == [w EXCEPT ![k] = [w[k] EXCEPT !.delay = new, !.next = d]]
      <3>. HIDE DEF w, new
      <3>3. /\ DOMAIN h = DOMAIN slots /\ \A j \in DOMAIN slots \ {k} : h[j] = slots[j]
            /\ h[k] = [w[k] EXCEPT !.delay = new, !.next = d]
        BY <2>2
      <3>4. /\ h[k] \in N!Slot /\ h[k].idle = 0 /\ h[k].started = slots[k].started
            /\ h[k].delay = new /\ h[k].next = d
        BY <2>2, <2>3, <3>2, <3>3 DEF N!Slot
      <3>5. slots' = N!Pruned(h)
        BY <2>5 DEF w, new
      <3>. HIDE DEF h
      <3>. QED
        BY <1>3, <2>2, <3>1, <3>2, <3>3, <3>4, <3>5
    <2>. QED
      BY <2>1, <2>4, <2>5
  <1>. QED
    BY <1>5, <1>6, <1>7

LEMMA NativeTickIsSpaced ==
  ASSUME NativeInv, NativeSpaced, PausesSpace, N!NativeTick
  PROVE  NativeSpaced'
  <1>. SUFFICES ASSUME ~closed
                PROVE  Spaced(slots', since')
    BY DEF NativeSpaced, N!NativeTick
  <1>1. Spaced(slots, since)
    BY DEF NativeSpaced
  <1>2. /\ \A j \in Keys : since[j] \in 0 .. Horizon /\ since'[j] = N!Older(since[j])
        /\ DOMAIN slots \subseteq Keys /\ DOMAIN slots' = DOMAIN slots
        /\ \A j \in DOMAIN slots : /\ slots[j] \in N!Slot
                                   /\ slots'[j] = [slots[j] EXCEPT !.idle = N!Older(@)]
    BY DEF NativeInv, N!NativeTypeOK, N!NativeTick
  <1>3. ASSUME NEW j \in DOMAIN slots
        PROVE  /\ slots'[j].delay = slots[j].delay /\ slots'[j].next = slots[j].next
               /\ slots'[j].started = slots[j].started
               /\ slots'[j].idle = N!Older(slots[j].idle) /\ slots[j].idle \in Nat
    BY <1>2 DEF N!Slot
  <1>4. ASSUME NEW j \in Keys
        PROVE  /\ since[j] \in Nat /\ since'[j] \in Nat /\ since'[j] >= since[j]
               /\ since'[j] = IF since[j] < Horizon THEN since[j] + 1 ELSE since[j]
               /\ since[j] <= Horizon
    BY <1>2, SettingsType DEF N!Older
  <1>5. ASSUME NEW j \in DOMAIN slots
        PROVE  slots'[j].idle <= since'[j]
    <2>1. slots[j].idle <= since[j]
      BY <1>1, <1>2 DEF Spaced
    <2>. QED
      BY <2>1, <1>2, <1>3, <1>4, SettingsType DEF N!Older
  <1>. QED
    BY <1>1, <1>2, <1>3, <1>4, <1>5, SpacingType DEF Spaced

LEMMA NativeStepIsSpaced ==
  ASSUME NativeInv, NativeSpaced, PausesSpace, N!NativeNext
  PROVE  NativeSpaced'
  <1>1. CASE N!Close
    BY <1>1 DEF N!Close, NativeSpaced
  <1>2. CASE N!NativeTick
    BY <1>2, NativeTickIsSpaced
  <1>3. ASSUME NEW t \in Tasks, N!Doze(t)
        PROVE  NativeSpaced'
    BY <1>3, FoundIsSpaced DEF N!Doze, NativeSpaced
  <1>4. ASSUME NEW t \in Tasks, N!Refuse(t) \/ N!Ring(t) \/ N!TakeLease(t)
        PROVE  NativeSpaced'
    BY <1>4 DEF N!Refuse, N!Ring, N!TakeLease, NativeSpaced
  <1>. QED
    BY <1>1, <1>2, <1>3, <1>4, GrantIsSpaced, LeavingIsSpaced DEF N!NativeNext, N!Look

-----------------------------------------------------------------------------

\* The time since the last start of a slot, as far as Throttle minds.
Aged == [k \in Keys |-> IF since[k] < Spacing[k] THEN since[k] ELSE Spacing[k]]

LEMMA ThrottleVariables == T!vars = <<Running, Aged>>
  BY DEF T!vars, Aged

LEMMA CountsOfThrottle == \A S : T!Cardinality(S) = Cardinality(S)
  BY DEF T!Cardinality, Cardinality

\* The three steps of Throttle, in terms of what an engine does.
LEMMA ThrottleStarts ==
  ASSUME NEW k \in Keys, NEW t \in Tasks, since \in [Keys -> Nat],
         Running \in [Keys -> SUBSET Tasks], Running' \in [Keys -> SUBSET Tasks],
         t \notin Running[k], Cardinality(Running[k]) < Concurrency[k],
         since[k] >= Spacing[k], since' = [since EXCEPT ![k] = 0],
         Running'[k] = Running[k] \cup {t},
         \A j \in Keys \ {k} : Running'[j] = Running[j]
  PROVE  T!Next
  <1>1. Aged[k] = Spacing[k]
    BY SpacingType DEF Aged
  <1>2. Aged' = [Aged EXCEPT ![k] = 0]
    <2>1. Aged' = [j \in Keys |-> IF since'[j] < Spacing[j] THEN since'[j] ELSE Spacing[j]]
      BY DEF Aged, Spacing
    <2>2. \A j \in Keys : Aged'[j] = IF j = k THEN 0 ELSE Aged[j]
      BY <2>1, SpacingType DEF Aged
    <2>. QED
      BY <2>1, <2>2 DEF Aged
  <1>3. Running' = [Running EXCEPT ![k] = @ \cup {t}]
    OBVIOUS
  <1>4. T!Start(k, t)
    BY <1>1, <1>2, <1>3, CountsOfThrottle DEF T!Start, Aged
  <1>. QED
    BY <1>4 DEF T!Next

LEMMA ThrottleEnds ==
  ASSUME NEW k \in Keys, NEW t \in Tasks, since' = since,
         Running \in [Keys -> SUBSET Tasks], Running' \in [Keys -> SUBSET Tasks],
         t \in Running[k], Running'[k] = Running[k] \ {t},
         \A j \in Keys \ {k} : Running'[j] = Running[j]
  PROVE  T!Next
  <1>1. Aged' = Aged
    BY DEF Aged, Spacing
  <1>2. Running' = [Running EXCEPT ![k] = @ \ {t}]
    OBVIOUS
  <1>3. T!End(k, t)
    BY <1>1, <1>2 DEF T!End, Aged
  <1>. QED
    BY <1>3 DEF T!Next

LEMMA ThrottleTicks ==
  ASSUME Running' = Running, \A k \in Keys : since[k] \in 0 .. Horizon,
         \A k \in Keys : Spacing[k] <= Horizon,
         since' = [k \in Keys |-> IF since[k] < Horizon THEN since[k] + 1 ELSE since[k]]
  PROVE  T!Next
  <1>1. Aged' = [k \in Keys |-> IF Aged[k] < Spacing[k] THEN Aged[k] + 1 ELSE Aged[k]]
    <2>1. Aged' = [j \in Keys |-> IF since'[j] < Spacing[j] THEN since'[j] ELSE Spacing[j]]
      BY DEF Aged, Spacing
    <2>2. ASSUME NEW j \in Keys
          PROVE  Aged'[j] = IF Aged[j] < Spacing[j] THEN Aged[j] + 1 ELSE Aged[j]
      <3>1. /\ since[j] \in Nat /\ since[j] <= Horizon
            /\ Aged[j] = IF since[j] < Spacing[j] THEN since[j] ELSE Spacing[j]
            /\ Aged'[j] = IF since'[j] < Spacing[j] THEN since'[j] ELSE Spacing[j]
            /\ since'[j] = IF since[j] < Horizon THEN since[j] + 1 ELSE since[j]
            /\ Spacing[j] \in Nat /\ Spacing[j] <= Horizon /\ Horizon \in Nat
        BY <2>1, SpacingType, SettingsType DEF Aged
      <3>. QED
        BY <3>1
    <2>. QED
      BY <2>1, <2>2
  <1>. QED
    BY <1>1 DEF T!Next, T!Tick, Aged

LEMMA ThrottleIdles ==
  ASSUME since' = since, Running' = Running
  PROVE  UNCHANGED T!vars
  BY ThrottleVariables DEF T!vars, Spacing

LEMMA NativeRunningType ==
  ASSUME engine = "native", engine' = engine
  PROVE  /\ Running = N!NativeRunning /\ Running' = N!NativeRunning'
         /\ Running \in [Keys -> SUBSET Tasks] /\ Running' \in [Keys -> SUBSET Tasks]
  <1>1. Running = N!NativeRunning /\ Running' = N!NativeRunning'
    BY DEF Running
  <1>. QED
    BY <1>1 DEF N!NativeRunning, N!Of

\* The native slots start, end and age their transfers as Throttle allows.
LEMMA NativeStepThrottles ==
  ASSUME engine = "native", engine' = engine, NativeInv, NativeSpaced, PausesSpace,
         N!NativeNext
  PROVE  T!Next \/ UNCHANGED T!vars
  <1>1. /\ Running = N!NativeRunning /\ Running' = N!NativeRunning'
        /\ Running \in [Keys -> SUBSET Tasks] /\ Running' \in [Keys -> SUBSET Tasks]
        /\ since \in [Keys -> Nat] /\ \A k \in Keys : since[k] \in 0 .. Horizon
        /\ task \in [Tasks -> N!NativeStates] /\ keyOf \in [Tasks -> Keys]
    BY NativeRunningType, NativeTyped DEF NativeInv, N!NativeTypeOK
  <1>2. ASSUME NEW t \in Tasks, N!Grant(t)
        PROVE  T!Next
    <2>0. PICK k \in Keys : k = keyOf[t]
      BY <1>1
    <2>1. since[k] >= Spacing[k] /\ since' = [since EXCEPT ![k] = 0]
      BY <2>0, <1>2, GrantIsSpaced DEF N!Grant
    <2>2. /\ N!Looks(t) /\ keyOf' = keyOf /\ task[t] \in {"idle", "looking"}
          /\ N!Cardinality(N!Found(t)[k].active) < Concurrency[k]
          /\ task' = [task EXCEPT ![t] = "leased"]
      BY <2>0, <1>2 DEF N!Grant, N!Looks
    <2>3. N!Found(t)[k].active = N!NativeRunning[k]
      BY <2>0, <2>2, FoundFits
    <2>4. t \notin N!NativeRunning[k]
      BY <2>2, NativeSets
    <2>5. /\ N!NativeRunning'[k] = N!NativeRunning[k] \cup {t}
          /\ \A j \in Keys \ {k} : N!NativeRunning'[j] = N!NativeRunning[j]
      <3>1. /\ task' \in [Tasks -> N!NativeStates] /\ task'[t] = "leased"
            /\ \A u \in Tasks \ {t} : task'[u] = task[u]
        BY <1>1, <2>2 DEF N!NativeStates
      <3>. QED
        BY <2>0, <2>2, <3>1, NativeMoves DEF NativeInv
    <2>. QED
      BY <1>1, <2>1, <2>2, <2>3, <2>4, <2>5, SameCounts, ThrottleStarts
  <1>3. ASSUME NEW t \in Tasks, task[t] \in {"leased", "transferring"},
               N!NotifyAll(N!Gone(t)), UNCHANGED <<keyOf, since>>
        PROVE  T!Next
    <2>0. PICK k \in Keys : k = keyOf[t]
      BY <1>1
    <2>1. t \in N!NativeRunning[k]
      BY <2>0, <1>3, NativeSets
    <2>2. \A j \in Keys : N!NativeRunning'[j] =
                             N!NativeRunning[j] \ (IF j = k THEN {t} ELSE {})
      BY <2>0, <1>3, NativeLeaves
    <2>3. N!NativeRunning'[k] = N!NativeRunning[k] \ {t}
          /\ \A j \in Keys \ {k} : N!NativeRunning'[j] = N!NativeRunning[j]
      BY <2>2
    <2>. QED
      BY <1>1, <1>3, <2>1, <2>3, ThrottleEnds
  <1>4. ASSUME NEW t \in Tasks, N!DropWaiter(t)
        PROVE  UNCHANGED T!vars
    <2>1. /\ task[t] \in {"looking", "asleep"} /\ N!NotifyAll(N!Gone(t))
          /\ keyOf' = keyOf /\ since' = since
      BY <1>4 DEF N!DropWaiter
    <2>2. \A j \in Keys : N!NativeRunning'[j] =
                             N!NativeRunning[j] \ (IF j = keyOf[t] THEN {t} ELSE {})
      BY <2>1, NativeLeaves
    <2>3. \A j \in Keys : t \notin N!NativeRunning[j]
      BY <2>1, NativeSets
    <2>4. \A j \in Keys : N!NativeRunning'[j] = N!NativeRunning[j]
      BY <2>2, <2>3, ZenonT(60)
    <2>5. Running' = Running
      BY <1>1, <2>4
    <2>. QED
      BY <2>1, <2>5, ThrottleIdles
  <1>5. ASSUME \/ \E t \in Tasks : N!Doze(t) \/ N!Refuse(t) \/ N!Ring(t) \/ N!TakeLease(t)
               \/ N!Close
        PROVE  UNCHANGED T!vars
    <2>1. keyOf' = keyOf /\ since' = since
      BY <1>5 DEF N!Doze, N!Refuse, N!Ring, N!TakeLease, N!Close
    <2>2. \A u \in Tasks : task'[u] \in {"leased", "transferring"}
                              <=> task[u] \in {"leased", "transferring"}
      BY <1>1, <1>5 DEF N!Doze, N!Refuse, N!Ring, N!TakeLease, N!Close, N!Looks, N!NotifyAll
    <2>3. N!NativeRunning' = N!NativeRunning
      BY <2>1, <2>2 DEF N!NativeRunning, N!Of
    <2>. QED
      BY <1>1, <2>1, <2>3, ThrottleIdles
  <1>6. CASE N!NativeTick
    <2>1. \A k \in Keys : Spacing[k] <= Horizon
      BY SpacingType, SettingsType DEF PausesSpace
    <2>2. /\ since' = [k \in Keys |-> IF since[k] < Horizon THEN since[k] + 1 ELSE since[k]]
          /\ task' = task /\ keyOf' = keyOf
      BY <1>6 DEF N!NativeTick, N!Older
    <2>3. N!NativeRunning' = N!NativeRunning
      BY <2>2 DEF N!NativeRunning, N!Of
    <2>. QED
      BY <1>1, <2>1, <2>2, <2>3, ThrottleTicks
  <1>7. ASSUME NEW t \in Tasks,
               \/ N!Release(t) \/ N!DropLease(t)
               \/ \E l \in Latencies, ok \in BOOLEAN : N!ReleaseThrottled(t, l, ok)
        PROVE  T!Next
    BY <1>3, <1>7 DEF N!Release, N!DropLease, N!ReleaseThrottled
  <1>. QED
    BY <1>2, <1>4, <1>5, <1>6, <1>7 DEF N!NativeNext, N!Look

-----------------------------------------------------------------------------

Lines == [semaphore : Seq(Tasks), lock : Seq(Tasks)]

\* A line fits the tasks that wait for its slot and the number of its transfers: everybody
\* stands in it once, and for the semaphore only when all permits are out.
LineFits(q, waiting, transfers, limit) ==
    /\ q \in Lines
    /\ IsInjective(q.lock) /\ IsInjective(q.semaphore)
    /\ ToSet(q.lock) \cap ToSet(q.semaphore) = {}
    /\ ToSet(q.lock) \cup ToSet(q.semaphore) = waiting
    /\ Len(q.lock) + transfers <= limit
    /\ q.semaphore # <<>> => Len(q.lock) + transfers >= limit

PythonLines ==
    \A k \in Keys :
        LineFits(line[k], P!PythonWaiting(k), Cardinality(P!PythonRunning[k]), Concurrency[k])

Holds(t, k) == line[k].lock # <<>> /\ t = Head(line[k].lock)

\* Only the holder of a lock sleeps, and no longer than its slot's next start is away.
PythonSleeps ==
    \A t \in Tasks :
        IF Holds(t, keyOf[t]) THEN alarm[t] \in 0 .. due[keyOf[t]]
        ELSE alarm[t] = P!NoAlarm

PythonInv ==
    /\ P!PythonTypeOK
    /\ PythonLines
    /\ PythonSleeps

\* When the last start, the next start and the end of the holder's sleep are apart.
PythonSpaced ==
    \A k \in Keys :
        /\ delay[k] >= LeastDelay(k)
        /\ due[k] + since[k] >= Spacing[k]
        /\ \A t \in Tasks : keyOf[t] = k /\ Holds(t, k) => alarm[t] + since[k] >= Spacing[k]

LEMMA LineParts ==
  ASSUME NEW q \in Lines
  PROVE  /\ q.lock \in Seq(Tasks) /\ q.semaphore \in Seq(Tasks)
         /\ Len(q.lock) \in Nat
         /\ \A s \in Seq(Tasks) :
               /\ [q EXCEPT !.lock = s] \in Lines
               /\ [q EXCEPT !.lock = s].lock = s
               /\ [q EXCEPT !.lock = s].semaphore = q.semaphore
               /\ [q EXCEPT !.semaphore = s] \in Lines
               /\ [q EXCEPT !.semaphore = s].lock = q.lock
               /\ [q EXCEPT !.semaphore = s].semaphore = s
  BY LineIs DEF Lines

LEMMA LineJoins ==
  ASSUME NEW q, NEW W \in SUBSET Tasks, NEW n \in Nat, NEW c \in Nat, LineFits(q, W, n, c),
         NEW t \in Tasks, t \notin W
  PROVE  /\ Len(q.lock) + n < c =>
              LineFits([q EXCEPT !.lock = Append(@, t)], W \cup {t}, n, c)
         /\ ~(Len(q.lock) + n < c) =>
              LineFits([q EXCEPT !.semaphore = Append(@, t)], W \cup {t}, n, c)
  <1>1. /\ q \in Lines /\ q.lock \in Seq(Tasks) /\ q.semaphore \in Seq(Tasks)
        /\ IsInjective(q.lock) /\ IsInjective(q.semaphore)
        /\ t \notin ToSet(q.lock) /\ t \notin ToSet(q.semaphore) /\ Len(q.lock) \in Nat
    BY LineParts DEF LineFits
  <1>2. ASSUME Len(q.lock) + n < c
        PROVE  LineFits([q EXCEPT !.lock = Append(@, t)], W \cup {t}, n, c)
    <2>. DEFINE l == Append(q.lock, t)
                r == [q EXCEPT !.lock = l]
    <2>1. /\ l \in Seq(Tasks) /\ Len(l) = Len(q.lock) + 1 /\ IsInjective(l)
          /\ ToSet(l) = ToSet(q.lock) \cup {t}
      BY <1>1, LineGrows
    <2>. HIDE DEF l
    <2>2. r \in Lines /\ r.lock = l /\ r.semaphore = q.semaphore
      BY <1>1, <2>1, LineParts, ZenonT(60)
    <2>3. q.semaphore = <<>>
      BY <1>2, <1>1 DEF LineFits
    <2>. HIDE DEF r
    <2>4. LineFits(r, W \cup {t}, n, c)
      BY <1>1, <1>2, <2>1, <2>2, <2>3 DEF LineFits
    <2>. QED
      BY <2>4 DEF r, l
  <1>3. ASSUME ~(Len(q.lock) + n < c)
        PROVE  LineFits([q EXCEPT !.semaphore = Append(@, t)], W \cup {t}, n, c)
    <2>. DEFINE l == Append(q.semaphore, t)
                r == [q EXCEPT !.semaphore = l]
    <2>1. l \in Seq(Tasks) /\ IsInjective(l) /\ ToSet(l) = ToSet(q.semaphore) \cup {t}
      BY <1>1, LineGrows
    <2>. HIDE DEF l
    <2>2. r \in Lines /\ r.lock = q.lock /\ r.semaphore = l
      BY <1>1, <2>1, LineParts
    <2>. HIDE DEF r
    <2>4. LineFits(r, W \cup {t}, n, c)
      BY <1>1, <1>3, <2>1, <2>2 DEF LineFits
    <2>. QED
      BY <2>4 DEF r, l
  <1>. QED
    BY <1>2, <1>3

\* The holder of the lock starts its transfer.
LEMMA LineStarts ==
  ASSUME NEW q, NEW W \in SUBSET Tasks, NEW n \in Nat, NEW c \in Nat, LineFits(q, W, n, c),
         q.lock # <<>>
  PROVE  /\ LineFits([q EXCEPT !.lock = Tail(@)], W \ {Head(q.lock)}, n + 1, c)
         /\ n < c
         /\ Tail(q.lock) # <<>> => Head(Tail(q.lock)) # Head(q.lock)
  <1>. DEFINE l == Tail(q.lock)
              r == [q EXCEPT !.lock = l]
  <1>1. /\ q \in Lines /\ q.lock \in Seq(Tasks) /\ q.semaphore \in Seq(Tasks)
        /\ IsInjective(q.lock) /\ IsInjective(q.semaphore)
        /\ Len(q.lock) \in Nat
    BY LineParts DEF LineFits
  <1>2. /\ l \in Seq(Tasks) /\ Len(l) = Len(q.lock) - 1 /\ IsInjective(l)
        /\ ToSet(l) = ToSet(q.lock) \ {Head(q.lock)}
    BY <1>1, LineAdvances
  <1>3. Head(q.lock) \in ToSet(q.lock) /\ Len(q.lock) # 0
    BY <1>1, LineIs
  <1>4. l # <<>> => Head(l) # Head(q.lock)
    BY <1>2, LineIs
  <1>. HIDE DEF l
  <1>5. r \in Lines /\ r.lock = l /\ r.semaphore = q.semaphore
    BY <1>1, <1>2, LineParts
  <1>. HIDE DEF r
  <1>6. n < c
    BY <1>1, <1>3 DEF LineFits
  <1>7. LineFits(r, W \ {Head(q.lock)}, n + 1, c)
    BY <1>1, <1>2, <1>3, <1>5 DEF LineFits
  <1>. QED
    BY <1>4, <1>6, <1>7 DEF r, l

\* A permit comes back and goes to the first who waits for the semaphore.
LEMMA LineAdmits ==
  ASSUME NEW q, NEW W \in SUBSET Tasks, NEW n \in Nat, NEW c \in Nat,
         q \in Lines, IsInjective(q.lock), IsInjective(q.semaphore),
         ToSet(q.lock) \cap ToSet(q.semaphore) = {},
         ToSet(q.lock) \cup ToSet(q.semaphore) = W,
         Len(q.lock) + n < c,
         q.semaphore # <<>> => Len(q.lock) + n + 1 >= c
  PROVE  /\ LineFits(P!Admit(q), W, n, c)
         /\ q.lock # <<>> => P!Admit(q).lock # <<>> /\ Head(P!Admit(q).lock) = Head(q.lock)
  <1>1. q.lock \in Seq(Tasks) /\ q.semaphore \in Seq(Tasks) /\ Len(q.lock) \in Nat
    BY LineParts
  <1>2. CASE q.semaphore = <<>>
    <2>1. P!Admit(q) = q
      BY <1>2 DEF P!Admit
    <2>. QED
      BY <1>1, <1>2, <2>1 DEF LineFits
  <1>3. CASE q.semaphore # <<>>
    <2>. DEFINE h == Head(q.semaphore)
                l == Append(q.lock, h)
                s == Tail(q.semaphore)
                r == [semaphore |-> s, lock |-> l]
    <2>1. h \in ToSet(q.semaphore) /\ h \in Tasks /\ h \notin ToSet(q.lock)
      BY <1>1, <1>3, LineIs
    <2>2. /\ l \in Seq(Tasks) /\ Len(l) = Len(q.lock) + 1 /\ IsInjective(l)
          /\ ToSet(l) = ToSet(q.lock) \cup {h} /\ l # <<>>
          /\ q.lock # <<>> => Head(l) = Head(q.lock)
      BY <1>1, <2>1, LineGrows, SMTT(30)
    <2>3. s \in Seq(Tasks) /\ IsInjective(s) /\ ToSet(s) = ToSet(q.semaphore) \ {h}
      BY <1>1, <1>3, LineAdvances
    <2>4. P!Admit(q) = r
      BY <1>3 DEF P!Admit
    <2>. HIDE DEF h, l, s
    <2>5. r \in Lines /\ r.lock = l /\ r.semaphore = s
      BY <2>2, <2>3 DEF Lines
    <2>. HIDE DEF r
    <2>6. LineFits(r, W, n, c)
      BY <1>1, <1>3, <2>1, <2>2, <2>3, <2>5 DEF LineFits
    <2>. QED
      BY <2>2, <2>4, <2>5, <2>6
  <1>. QED
    BY <1>2, <1>3

\* A task is cancelled while it stands in line.
LEMMA LineDrops ==
  ASSUME NEW q, NEW W \in SUBSET Tasks, NEW n \in Nat, NEW c \in Nat, LineFits(q, W, n, c),
         NEW t \in W
  PROVE  LET d == [semaphore |-> RemoveFirst(q.semaphore, t),
                   lock |-> RemoveFirst(q.lock, t)]
             r == IF Contains(q.lock, t) THEN P!Admit(d) ELSE d
         IN  /\ LineFits(r, W \ {t}, n, c)
             /\ q.lock # <<>> /\ Head(q.lock) # t => r.lock # <<>> /\ Head(r.lock) = Head(q.lock)
  <1>. DEFINE s == RemoveFirst(q.semaphore, t)
              l == RemoveFirst(q.lock, t)
              d == [semaphore |-> s, lock |-> l]
  <1>1. /\ q \in Lines /\ q.lock \in Seq(Tasks) /\ q.semaphore \in Seq(Tasks)
        /\ IsInjective(q.lock) /\ IsInjective(q.semaphore)
        /\ ToSet(q.lock) \cap ToSet(q.semaphore) = {}
        /\ ToSet(q.lock) \cup ToSet(q.semaphore) = W
        /\ Len(q.lock) \in Nat /\ Len(q.lock) + n <= c
        /\ q.semaphore # <<>> => Len(q.lock) + n >= c
    BY LineParts DEF LineFits
  <1>2. Contains(q.lock, t) <=> t \in ToSet(q.lock)
    BY <1>1, LineIs
  <1>3. CASE t \in ToSet(q.lock)
    <2>1. s = q.semaphore
      BY <1>1, <1>3, LineLoses
    <2>2. /\ l \in Seq(Tasks) /\ Len(l) = Len(q.lock) - 1 /\ IsInjective(l)
          /\ ToSet(l) = ToSet(q.lock) \ {t}
          /\ Head(q.lock) # t => l # <<>> /\ Head(l) = Head(q.lock)
      BY <1>1, <1>3, LineLoses
    <2>. HIDE DEF l, s
    <2>3. d \in Lines /\ d.lock = l /\ d.semaphore = q.semaphore
      BY <1>1, <2>1, <2>2 DEF Lines
    <2>. HIDE DEF d
    <2>4. /\ ToSet(d.lock) \cap ToSet(d.semaphore) = {}
          /\ ToSet(d.lock) \cup ToSet(d.semaphore) = W \ {t}
          /\ Len(d.lock) + n < c
          /\ d.semaphore # <<>> => Len(d.lock) + n + 1 >= c
      BY <1>1, <1>3, <2>2, <2>3
    <2>5. /\ LineFits(P!Admit(d), W \ {t}, n, c)
          /\ d.lock # <<>> => P!Admit(d).lock # <<>> /\ Head(P!Admit(d).lock) = Head(d.lock)
      BY <1>1, <2>2, <2>3, <2>4, LineAdmits
    <2>. QED
      BY <1>2, <1>3, <2>2, <2>3, <2>5 DEF d, l, s
  <1>4. CASE t \notin ToSet(q.lock)
    <2>1. l = q.lock
      BY <1>1, <1>4, LineLoses
    <2>2. t \in ToSet(q.semaphore)
      BY <1>1, <1>4
    <2>3. s \in Seq(Tasks) /\ IsInjective(s) /\ ToSet(s) = ToSet(q.semaphore) \ {t}
      BY <1>1, <2>2, LineLoses
    <2>4. q.semaphore # <<>>
      BY <1>1, <2>2, LineIs
    <2>. HIDE DEF l, s
    <2>5. d \in Lines /\ d.lock = q.lock /\ d.semaphore = s
      BY <1>1, <2>1, <2>3 DEF Lines
    <2>. HIDE DEF d
    <2>6. LineFits(d, W \ {t}, n, c)
      BY <1>1, <1>4, <2>3, <2>4, <2>5 DEF LineFits
    <2>. QED
      BY <1>2, <1>4, <2>5, <2>6 DEF d, l, s
  <1>. QED
    BY <1>3, <1>4

LEMMA PythonTyped ==
  ASSUME PythonInv
  PROVE  /\ keyOf \in [Tasks -> Keys] /\ task \in [Tasks -> P!PythonStates]
         /\ line \in [Keys -> Lines] /\ delay \in [Keys -> Nat] /\ due \in [Keys -> Nat]
         /\ \A k \in Keys : since[k] \in 0 .. Horizon /\ since[k] \in Nat
         /\ alarm \in [Tasks -> {P!NoAlarm} \cup Nat]
  BY SlotAssumption, SettingsType DEF PythonInv, P!PythonTypeOK, Lines

LEMMA PythonSets ==
  ASSUME NEW k \in Keys
  PROVE  /\ P!PythonRunning[k] = {t \in Tasks : keyOf[t] = k /\ task[t] = "fetching"}
         /\ P!PythonWaiting(k) = {t \in Tasks : keyOf[t] = k /\ task[t] = "waiting"}
         /\ P!PythonRunning[k] \in SUBSET Tasks /\ P!PythonWaiting(k) \in SUBSET Tasks
         /\ Cardinality(P!PythonRunning[k]) \in Nat
  <1>1. P!PythonRunning[k] \in SUBSET Tasks
    BY DEF P!PythonRunning
  <1>2. Cardinality(P!PythonRunning[k]) \in Nat
    BY <1>1, SlotAssumption, FS_Subset, FS_CardinalityType
  <1>. QED
    BY <1>1, <1>2 DEF P!PythonRunning, P!PythonWaiting

\* A step of t takes it into or out of the sets of its slot.
LEMMA PythonMoves ==
  ASSUME PythonInv, NEW t \in Tasks, NEW to \in P!PythonStates, keyOf' = keyOf,
         task' = [task EXCEPT ![t] = to]
  PROVE  /\ task' \in [Tasks -> P!PythonStates]
         /\ \A j \in Keys :
               /\ P!PythonRunning'[j] =
                    IF j # keyOf[t] THEN P!PythonRunning[j]
                    ELSE IF to = "fetching" THEN P!PythonRunning[j] \cup {t}
                    ELSE P!PythonRunning[j] \ {t}
               /\ P!PythonWaiting(j)' =
                    IF j # keyOf[t] THEN P!PythonWaiting(j)
                    ELSE IF to = "waiting" THEN P!PythonWaiting(j) \cup {t}
                    ELSE P!PythonWaiting(j) \ {t}
  <1>1. task' \in [Tasks -> P!PythonStates] /\ task'[t] = to
        /\ \A u \in Tasks \ {t} : task'[u] = task[u]
    BY PythonTyped
  <1>2. ASSUME NEW j \in Keys
        PROVE  /\ P!PythonRunning'[j] =
                    IF j # keyOf[t] THEN P!PythonRunning[j]
                    ELSE IF to = "fetching" THEN P!PythonRunning[j] \cup {t}
                    ELSE P!PythonRunning[j] \ {t}
               /\ P!PythonWaiting(j)' =
                    IF j # keyOf[t] THEN P!PythonWaiting(j)
                    ELSE IF to = "waiting" THEN P!PythonWaiting(j) \cup {t}
                    ELSE P!PythonWaiting(j) \ {t}
    <2>1. /\ P!PythonRunning'[j] = {u \in Tasks : keyOf[u] = j /\ task'[u] = "fetching"}
          /\ P!PythonWaiting(j)' = {u \in Tasks : keyOf[u] = j /\ task'[u] = "waiting"}
      BY DEF P!PythonRunning, P!PythonWaiting
    <2>. QED
      BY <1>1, <2>1, PythonSets
  <1>. QED
    BY <1>1, <1>2

\* What becomes of the alarms when the line of k becomes q.
LEMMA AdvanceMoves ==
  ASSUME PythonInv, NEW k \in Keys, NEW q \in Lines, NEW wait \in Nat,
         P!Advance(k, q, wait), keyOf' = keyOf
  PROVE  /\ line' \in [Keys -> Lines] /\ line'[k] = q
         /\ \A j \in Keys \ {k} : line'[j] = line[j]
         /\ alarm' \in [Tasks -> {P!NoAlarm} \cup Nat]
         /\ \A t \in Tasks : keyOf[t] # k => alarm'[t] = alarm[t]
         /\ \A t \in Tasks : keyOf[t] = k =>
               alarm'[t] = IF q.lock # <<>> /\ t = Head(q.lock)
                           THEN IF Holds(t, k) THEN alarm[t] ELSE wait
                           ELSE P!NoAlarm
  <1>1. /\ line' = [line EXCEPT ![k] = q]
        /\ alarm' = [t \in Tasks |->
                       IF keyOf[t] # k THEN alarm[t]
                       ELSE IF q.lock = <<>> THEN P!NoAlarm
                       ELSE IF Head(q.lock) # t THEN P!NoAlarm
                       ELSE IF alarm[t] # P!NoAlarm THEN alarm[t]
                       ELSE P!Larger(0, wait)]
    BY DEF P!Advance
  <1>2. P!Larger(0, wait) = wait
    BY DEF P!Larger
  <1>3. /\ line \in [Keys -> Lines] /\ \A t \in Tasks : keyOf[t] \in Keys
        /\ \A t \in Tasks : alarm[t] \in {P!NoAlarm} \cup Nat
        /\ \A j \in Keys : due[j] \in Nat
    BY PythonTyped
  <1>4. \A t \in Tasks : alarm[t] # P!NoAlarm <=> Holds(t, keyOf[t])
    BY <1>3 DEF PythonInv, PythonSleeps, P!NoAlarm
  <1>5. \A t \in Tasks : keyOf[t] = k =>
               alarm'[t] = IF q.lock # <<>> /\ t = Head(q.lock)
                           THEN IF Holds(t, k) THEN alarm[t] ELSE wait
                           ELSE P!NoAlarm
    BY <1>1, <1>2, <1>4
  <1>6. \A t \in Tasks : alarm'[t] \in {P!NoAlarm} \cup Nat
    BY <1>1, <1>3, <1>5
  <1>7. alarm' = [t \in Tasks |-> alarm'[t]]
    BY <1>1
  <1>8. alarm' \in [Tasks -> {P!NoAlarm} \cup Nat]
    BY <1>6, <1>7
  <1>9. /\ line' \in [Keys -> Lines] /\ line'[k] = q
        /\ \A j \in Keys \ {k} : line'[j] = line[j]
    BY <1>1, <1>3
  <1>10. \A t \in Tasks : keyOf[t] # k => alarm'[t] = alarm[t]
    BY <1>1
  <1>. QED
    BY <1>5, <1>8, <1>9, <1>10

\* A new holder sleeps until the next start; the old one, if the next start has not moved
\* to an earlier time.
LEMMA AdvanceKeepsSleeps ==
  ASSUME PythonInv, NEW k \in Keys, NEW q \in Lines, NEW wait \in Nat,
         P!Advance(k, q, wait), keyOf' = keyOf, due' \in [Keys -> Nat],
         \A j \in Keys \ {k} : due'[j] = due[j],
         wait <= due'[k],
         \A t \in Tasks : Holds(t, k) /\ q.lock # <<>> /\ t = Head(q.lock) => due[k] <= due'[k]
  PROVE  PythonSleeps'
  <1>1. /\ line' \in [Keys -> Lines] /\ line'[k] = q
        /\ \A j \in Keys \ {k} : line'[j] = line[j]
        /\ \A t \in Tasks : keyOf[t] # k => alarm'[t] = alarm[t]
        /\ \A t \in Tasks : keyOf[t] = k =>
              alarm'[t] = IF q.lock # <<>> /\ t = Head(q.lock)
                          THEN IF Holds(t, k) THEN alarm[t] ELSE wait
                          ELSE P!NoAlarm
    BY AdvanceMoves
  <1>2. \A t \in Tasks : keyOf[t] \in Keys
    BY PythonTyped
  <1>3. ASSUME NEW t \in Tasks
        PROVE  IF line'[keyOf[t]].lock # <<>> /\ t = Head(line'[keyOf[t]].lock)
               THEN alarm'[t] \in 0 .. due'[keyOf[t]] ELSE alarm'[t] = P!NoAlarm
    <2>1. IF Holds(t, keyOf[t]) THEN alarm[t] \in 0 .. due[keyOf[t]] ELSE alarm[t] = P!NoAlarm
      BY DEF PythonInv, PythonSleeps
    <2>2. CASE keyOf[t] # k
      <3>1. /\ line'[keyOf[t]] = line[keyOf[t]] /\ alarm'[t] = alarm[t]
            /\ due'[keyOf[t]] = due[keyOf[t]]
        BY <1>1, <1>2, <2>2
      <3>. QED
        BY <2>1, <3>1 DEF Holds
    <2>3. CASE keyOf[t] = k
      <3>1. due'[k] \in Nat /\ due[k] \in Nat
        BY PythonTyped
      <3>2. CASE q.lock # <<>> /\ t = Head(q.lock) /\ Holds(t, k)
        BY <1>1, <2>1, <2>3, <3>1, <3>2
      <3>3. CASE q.lock # <<>> /\ t = Head(q.lock) /\ ~Holds(t, k)
        BY <1>1, <2>3, <3>1, <3>3
      <3>4. CASE ~(q.lock # <<>> /\ t = Head(q.lock))
        BY <1>1, <2>3, <3>4
      <3>. QED
        BY <3>2, <3>3, <3>4
    <2>. QED
      BY <2>2, <2>3
  <1>. QED
    BY <1>3 DEF PythonSleeps, Holds

LEMMA AdvanceKeepsSpace ==
  ASSUME PythonInv, PythonSpaced, NEW k \in Keys, NEW q \in Lines, NEW wait \in Nat,
         P!Advance(k, q, wait), keyOf' = keyOf,
         since' \in [Keys -> Nat], due' \in [Keys -> Nat], delay' \in [Keys -> Nat],
         \A j \in Keys \ {k} : since'[j] = since[j] /\ due'[j] = due[j] /\ delay'[j] = delay[j],
         delay'[k] >= LeastDelay(k),
         wait <= due'[k], wait + since'[k] >= Spacing[k],
         \A t \in Tasks : Holds(t, k) /\ q.lock # <<>> /\ t = Head(q.lock) => since'[k] = since[k]
  PROVE  PythonSpaced'
  <1>1. /\ line' \in [Keys -> Lines] /\ line'[k] = q
        /\ \A j \in Keys \ {k} : line'[j] = line[j]
        /\ \A t \in Tasks : keyOf[t] # k => alarm'[t] = alarm[t]
        /\ \A t \in Tasks : keyOf[t] = k =>
              alarm'[t] = IF q.lock # <<>> /\ t = Head(q.lock)
                          THEN IF Holds(t, k) THEN alarm[t] ELSE wait
                          ELSE P!NoAlarm
    BY AdvanceMoves
  <1>2. ASSUME NEW j \in Keys
        PROVE  /\ delay'[j] >= LeastDelay(j)
               /\ due'[j] + since'[j] >= Spacing[j]
               /\ \A t \in Tasks : keyOf[t] = j /\ line'[j].lock # <<>> /\ t = Head(line'[j].lock) =>
                     alarm'[t] + since'[j] >= Spacing[j]
    <2>1. CASE j # k
      BY <1>1, <2>1 DEF PythonSpaced, Holds
    <2>2. CASE j = k
      <3>1. due'[k] \in Nat /\ since'[k] \in Nat /\ Spacing[k] \in Nat
        BY SpacingType
      <3>2. ASSUME NEW t \in Tasks, keyOf[t] = k, q.lock # <<>>, t = Head(q.lock)
            PROVE  alarm'[t] + since'[k] >= Spacing[k]
        <4>1. CASE Holds(t, k)
          BY <1>1, <3>2, <4>1 DEF PythonSpaced
        <4>2. CASE ~Holds(t, k)
          BY <1>1, <3>2, <4>2
        <4>. QED
          BY <4>1, <4>2
      <3>. QED
        BY <1>1, <2>2, <3>1, <3>2
    <2>. QED
      BY <2>1, <2>2
  <1>. QED
    BY <1>2 DEF PythonSpaced, Holds, LeastDelay, Spacing

\* What a step of t has to do to the line of its slot, and to the slot's next start.
LEMMA LineStepKeepsInv ==
  ASSUME PythonInv, NEW t \in Tasks, NEW k \in Keys, k = keyOf[t], NEW to \in P!PythonStates,
         NEW q, NEW wait \in Nat, P!Advance(k, q, wait),
         keyOf' = keyOf, task' = [task EXCEPT ![t] = to],
         since' \in [Keys -> 0 .. Horizon], due' \in [Keys -> Nat], delay' \in [Keys -> Nat],
         LineFits(q, P!PythonWaiting(k)', Cardinality(P!PythonRunning'[k]), Concurrency[k]),
         \A j \in Keys \ {k} : due'[j] = due[j],
         wait <= due'[k],
         \A u \in Tasks : Holds(u, k) /\ q.lock # <<>> /\ u = Head(q.lock) => due[k] <= due'[k]
  PROVE  PythonInv'
  <1>1. q \in Lines
    BY DEF LineFits
  <1>2. PythonSleeps'
    BY <1>1, AdvanceKeepsSleeps
  <1>3. /\ line' \in [Keys -> Lines] /\ line'[k] = q
        /\ \A j \in Keys \ {k} : line'[j] = line[j]
        /\ alarm' \in [Tasks -> {P!NoAlarm} \cup Nat]
    BY <1>1, AdvanceMoves
  <1>4. /\ task' \in [Tasks -> P!PythonStates]
        /\ \A j \in Keys \ {k} : /\ P!PythonRunning'[j] = P!PythonRunning[j]
                                 /\ P!PythonWaiting(j)' = P!PythonWaiting(j)
    BY PythonMoves
  <1>5. P!PythonTypeOK'
    BY <1>3, <1>4 DEF PythonInv, P!PythonTypeOK, Lines, P!PythonStates, P!NoAlarm
  <1>6. ASSUME NEW j \in Keys
        PROVE  LineFits(line'[j], P!PythonWaiting(j)', Cardinality(P!PythonRunning'[j]),
                        Concurrency[j])
    <2>1. CASE j = k
      BY <1>3, <1>4, <2>1
    <2>2. CASE j # k
      BY <1>3, <1>4, <2>2 DEF PythonInv, PythonLines
    <2>. QED
      BY <2>1, <2>2
  <1>7. PythonLines'
    BY <1>6 DEF PythonLines, LineFits, Lines
  <1>. QED
    BY <1>2, <1>5, <1>7 DEF PythonInv

LEMMA EnterKeepsInv ==
  ASSUME PythonInv, NEW t \in Tasks, P!Enter(t)
  PROVE  PythonInv' /\ (PythonSpaced => PythonSpaced')
  <1>1. PICK k \in Keys : k = keyOf[t]
    BY PythonTyped
  <1>. DEFINE q == IF P!Free(k) THEN [line[k] EXCEPT !.lock = Append(@, t)]
                   ELSE [line[k] EXCEPT !.semaphore = Append(@, t)]
              W == P!PythonWaiting(k)
              R == P!PythonRunning[k]
  <1>2. /\ task[t] = "idle" /\ P!Advance(k, q, due[k]) /\ task' = [task EXCEPT ![t] = "waiting"]
        /\ keyOf' = keyOf /\ since' = since /\ delay' = delay /\ due' = due
    BY <1>1 DEF P!Enter
  <1>3. /\ W \in SUBSET Tasks /\ R \in SUBSET Tasks /\ Cardinality(R) \in Nat
        /\ t \notin W /\ t \notin R
    BY <1>2, PythonSets
  <1>4. LineFits(line[k], W, Cardinality(R), Concurrency[k])
    BY DEF PythonInv, PythonLines
  <1>5. P!Free(k) <=> Len(line[k].lock) + Cardinality(R) < Concurrency[k]
    BY SameCounts DEF P!Free
  <1>6. Concurrency[k] \in Nat
    BY SettingsType
  <1>. HIDE DEF W, R
  <1>7. LineFits(q, W \cup {t}, Cardinality(R), Concurrency[k])
    BY <1>3, <1>4, <1>5, <1>6, LineJoins
  <1>. HIDE DEF q
  <1>8. R \ {t} = R
    BY <1>3
  <1>9. due[k] \in Nat /\ due' \in [Keys -> Nat] /\ delay' \in [Keys -> Nat]
        /\ since' \in [Keys -> 0 .. Horizon] /\ since' \in [Keys -> Nat]
    BY <1>2, PythonTyped, SettingsType DEF PythonInv, P!PythonTypeOK
  <1>10. LineFits(q, P!PythonWaiting(k)', Cardinality(P!PythonRunning'[k]), Concurrency[k])
    <2>1. P!PythonWaiting(k)' = W \cup {t} /\ P!PythonRunning'[k] = R
      BY <1>1, <1>2, <1>8, PythonMoves DEF P!PythonStates, W, R
    <2>. QED
      BY <1>7, <2>1
  <1>11. PythonInv'
    <2>1. due[k] <= due'[k] /\ due' = due /\ "waiting" \in P!PythonStates
      BY <1>2, <1>9 DEF P!PythonStates
    <2>. QED
      BY <1>1, <1>2, <1>9, <1>10, <2>1, LineStepKeepsInv
  <1>12. ASSUME PythonSpaced
         PROVE  PythonSpaced'
    <2>1. q \in Lines
      BY <1>7 DEF LineFits
    <2>2. delay'[k] >= LeastDelay(k) /\ due[k] <= due'[k] /\ due[k] + since'[k] >= Spacing[k]
      BY <1>2, <1>9, <1>12 DEF PythonSpaced
    <2>. QED
      BY <1>2, <1>9, <1>12, <2>1, <2>2, AdvanceKeepsSpace
  <1>. QED
    BY <1>11, <1>12

\* Who starts holds the lock, and with it a permit that no transfer has.
LEMMA StarterHoldsTheLock ==
  ASSUME PythonInv, NEW t \in Tasks, NEW k \in Keys, k = keyOf[t], alarm[t] = 0
  PROVE  /\ Holds(t, k)
         /\ Cardinality(P!PythonRunning[k]) < Concurrency[k]
         /\ LET q == [line[k] EXCEPT !.lock = Tail(@)]
            IN  /\ LineFits(q, P!PythonWaiting(k) \ {t}, Cardinality(P!PythonRunning[k]) + 1,
                            Concurrency[k])
                /\ \A u \in Tasks : ~(Holds(u, k) /\ q.lock # <<>> /\ u = Head(q.lock))
  <1>1. Holds(t, k)
    BY DEF PythonInv, PythonSleeps, P!NoAlarm
  <1>. DEFINE W == P!PythonWaiting(k)
              n == Cardinality(P!PythonRunning[k])
              l == line[k]
  <1>2. LineFits(l, W, n, Concurrency[k]) /\ W \in SUBSET Tasks /\ n \in Nat
        /\ Concurrency[k] \in Nat
    BY PythonSets, SettingsType DEF PythonInv, PythonLines
  <1>3. l.lock # <<>> /\ t = Head(l.lock)
    BY <1>1 DEF Holds
  <1>4. [l EXCEPT !.lock = Tail(@)].lock = Tail(l.lock)
    BY <1>2, LineParts DEF LineFits, Lines
  <1>. HIDE DEF W, n, l
  <1>5. /\ LineFits([l EXCEPT !.lock = Tail(@)], W \ {t}, n + 1, Concurrency[k])
        /\ n < Concurrency[k]
        /\ Tail(l.lock) # <<>> => Head(Tail(l.lock)) # t
    BY <1>2, <1>3, LineStarts
  <1>6. \A u \in Tasks : Holds(u, k) => u = t
    BY <1>3 DEF Holds, l
  <1>. QED
    BY <1>1, <1>4, <1>5, <1>6 DEF W, n, l

LEMMA StartTransferKeepsInv ==
  ASSUME PythonInv, NEW t \in Tasks, P!StartTransfer(t)
  PROVE  PythonInv' /\ (PythonSpaced => PythonSpaced')
  <1>1. PICK k \in Keys : k = keyOf[t]
    BY PythonTyped
  <1>. DEFINE q == [line[k] EXCEPT !.lock = Tail(@)]
  <1>2. PICK d \in Samples(k, delay[k]) :
           /\ due' = [due EXCEPT ![k] = d]
           /\ since' = [since EXCEPT ![k] = 0]
           /\ P!Advance(k, q, d)
    BY <1>1, SameSettings DEF P!StartTransfer
  <1>3. /\ task[t] = "waiting" /\ alarm[t] = 0 /\ task' = [task EXCEPT ![t] = "fetching"]
        /\ keyOf' = keyOf /\ delay' = delay
    BY DEF P!StartTransfer
  <1>4. /\ LineFits(q, P!PythonWaiting(k) \ {t}, Cardinality(P!PythonRunning[k]) + 1,
                    Concurrency[k])
        /\ \A u \in Tasks : ~(Holds(u, k) /\ q.lock # <<>> /\ u = Head(q.lock))
    BY <1>1, <1>3, StarterHoldsTheLock
  <1>. HIDE DEF q
  <1>5. d \in Nat /\ delay[k] \in Nat /\ (delay[k] >= LeastDelay(k) => d >= Spacing[k])
    BY <1>2, PythonTyped, SamplesKeepSpacing
  <1>6. /\ due' \in [Keys -> Nat] /\ due'[k] = d /\ \A j \in Keys \ {k} : due'[j] = due[j]
        /\ since' \in [Keys -> 0 .. Horizon] /\ since' \in [Keys -> Nat] /\ since'[k] = 0
        /\ \A j \in Keys \ {k} : since'[j] = since[j]
        /\ delay' \in [Keys -> Nat]
    <2>1. 0 \in 0 .. Horizon /\ Horizon \in Nat
      BY SettingsType
    <2>. QED
      BY <1>2, <1>3, <1>5, <2>1, PythonTyped DEF PythonInv, P!PythonTypeOK
  <1>7. LineFits(q, P!PythonWaiting(k)', Cardinality(P!PythonRunning'[k]), Concurrency[k])
    <2>1. /\ P!PythonWaiting(k)' = P!PythonWaiting(k) \ {t}
          /\ P!PythonRunning'[k] = P!PythonRunning[k] \cup {t}
      BY <1>1, <1>3, PythonMoves DEF P!PythonStates
    <2>2. t \notin P!PythonRunning[k] /\ P!PythonRunning[k] \in SUBSET Tasks
      BY <1>3, PythonSets
    <2>3. Cardinality(P!PythonRunning[k] \cup {t}) = Cardinality(P!PythonRunning[k]) + 1
      BY <2>2, Counts
    <2>. QED
      BY <1>4, <2>1, <2>3
  <1>8. PythonInv'
    <2>1. d <= due'[k] /\ "fetching" \in P!PythonStates
      BY <1>5, <1>6 DEF P!PythonStates
    <2>2. \A u \in Tasks : Holds(u, k) /\ q.lock # <<>> /\ u = Head(q.lock) => due[k] <= due'[k]
      BY <1>4
    <2>3. P!Advance(k, q, d) /\ d \in Nat
      BY <1>2, <1>5
    <2>. QED
      BY <1>1, <1>3, <1>6, <1>7, <2>1, <2>2, <2>3, LineStepKeepsInv
  <1>9. ASSUME PythonSpaced
        PROVE  PythonSpaced'
    <2>1. q \in Lines
      BY <1>7 DEF LineFits
    <2>2. delay[k] >= LeastDelay(k)
      BY <1>9 DEF PythonSpaced
    <2>3. delay'[k] >= LeastDelay(k) /\ d <= due'[k] /\ d + since'[k] >= Spacing[k]
      BY <1>3, <1>5, <1>6, <2>2
    <2>. QED
      BY <1>2, <1>3, <1>4, <1>5, <1>6, <1>9, <2>1, <2>3, AdvanceKeepsSpace
  <1>. QED
    BY <1>8, <1>9

\* A transfer ends: its permit goes on.
LEMMA PermitGoesOn ==
  ASSUME PythonInv, NEW t \in Tasks, NEW k \in Keys, k = keyOf[t], task[t] = "fetching",
         keyOf' = keyOf, task' = [task EXCEPT ![t] = "idle"]
  PROVE  /\ LineFits(P!Admit(line[k]), P!PythonWaiting(k)', Cardinality(P!PythonRunning'[k]),
                     Concurrency[k])
         /\ t \in P!PythonRunning[k] /\ P!PythonRunning'[k] = P!PythonRunning[k] \ {t}
  <1>. DEFINE W == P!PythonWaiting(k)
              R == P!PythonRunning[k]
              l == line[k]
  <1>1. /\ LineFits(l, W, Cardinality(R), Concurrency[k]) /\ W \in SUBSET Tasks
        /\ R \in SUBSET Tasks /\ t \in R /\ t \notin W /\ Concurrency[k] \in Nat
    BY PythonSets, SettingsType DEF PythonInv, PythonLines
  <1>2. P!PythonWaiting(k)' = W \ {t} /\ P!PythonRunning'[k] = R \ {t}
    BY PythonMoves DEF P!PythonStates
  <1>. HIDE DEF W, R, l
  <1>3. W \ {t} = W
    BY <1>1
  <1>4. Cardinality(R \ {t}) = Cardinality(R) - 1 /\ Cardinality(R) \in Nat
        /\ Cardinality(R \ {t}) \in Nat
    <2>1. R \ {t} \in SUBSET Tasks
      BY <1>1
    <2>. QED
      BY <1>1, <2>1, Counts
  <1>5. l \in Lines /\ Len(l.lock) \in Nat
    BY <1>1, LineParts DEF LineFits
  <1>. DEFINE n == Cardinality(R \ {t})
  <1>6. Cardinality(R) = n + 1
    BY <1>4
  <1>. HIDE DEF n
  <1>7. n \in Nat
    BY <1>4 DEF n
  <1>8. /\ IsInjective(l.lock) /\ IsInjective(l.semaphore)
        /\ ToSet(l.lock) \cap ToSet(l.semaphore) = {}
        /\ ToSet(l.lock) \cup ToSet(l.semaphore) = W
        /\ Len(l.lock) + n < Concurrency[k]
        /\ l.semaphore # <<>> => Len(l.lock) + n + 1 >= Concurrency[k]
    <2>1. /\ IsInjective(l.lock) /\ IsInjective(l.semaphore)
          /\ ToSet(l.lock) \cap ToSet(l.semaphore) = {}
          /\ ToSet(l.lock) \cup ToSet(l.semaphore) = W
          /\ Len(l.lock) + (n + 1) <= Concurrency[k]
          /\ l.semaphore # <<>> => Len(l.lock) + (n + 1) >= Concurrency[k]
      BY <1>1, <1>6 DEF LineFits
    <2>2. \A i \in Nat, c \in Nat : /\ i + (n + 1) <= c => i + n < c
                                    /\ i + (n + 1) >= c => i + n + 1 >= c
      BY <1>7
    <2>3. Len(l.lock) \in Nat /\ Concurrency[k] \in Nat
      BY <1>1, <1>5
    <2>. QED
      BY <2>1, <2>2, <2>3
  <1>9. LineFits(P!Admit(l), W, n, Concurrency[k])
    <2>1. PICK c \in Nat : c = Concurrency[k]
      BY <1>1
    <2>2. Len(l.lock) + n < c /\ (l.semaphore # <<>> => Len(l.lock) + n + 1 >= c)
      BY <1>8, <2>1
    <2>3. LineFits(P!Admit(l), W, n, c)
      BY <1>1, <1>5, <1>7, <1>8, <2>2, LineAdmits
    <2>. QED
      BY <2>1, <2>3
  <1>. QED
    BY <1>1, <1>2, <1>3, <1>9 DEF W, R, l, n

LEMMA EndTransferKeepsInv ==
  ASSUME PythonInv, NEW t \in Tasks, P!EndTransfer(t)
  PROVE  PythonInv' /\ (PythonSpaced => PythonSpaced')
  <1>1. PICK k \in Keys : k = keyOf[t]
    BY PythonTyped
  <1>. DEFINE q == P!Admit(line[k])
  <1>2. /\ task[t] = "fetching" /\ P!Advance(k, q, due[k]) /\ task' = [task EXCEPT ![t] = "idle"]
        /\ keyOf' = keyOf /\ since' = since /\ delay' = delay /\ due' = due
    BY <1>1 DEF P!EndTransfer
  <1>3. LineFits(q, P!PythonWaiting(k)', Cardinality(P!PythonRunning'[k]), Concurrency[k])
    BY <1>1, <1>2, PermitGoesOn
  <1>. HIDE DEF q
  <1>4. due[k] \in Nat /\ due' \in [Keys -> Nat] /\ delay' \in [Keys -> Nat]
        /\ since' \in [Keys -> 0 .. Horizon] /\ since' \in [Keys -> Nat]
    BY <1>2, PythonTyped, SettingsType DEF PythonInv, P!PythonTypeOK
  <1>5. PythonInv'
    <2>1. due[k] <= due'[k] /\ due' = due /\ "idle" \in P!PythonStates
      BY <1>2, <1>4 DEF P!PythonStates
    <2>. QED
      BY <1>1, <1>2, <1>3, <1>4, <2>1, LineStepKeepsInv
  <1>6. ASSUME PythonSpaced
        PROVE  PythonSpaced'
    <2>1. q \in Lines
      BY <1>3 DEF LineFits
    <2>2. delay'[k] >= LeastDelay(k) /\ due[k] <= due'[k] /\ due[k] + since'[k] >= Spacing[k]
      BY <1>2, <1>4, <1>6 DEF PythonSpaced
    <2>. QED
      BY <1>2, <1>4, <1>6, <2>1, <2>2, AdvanceKeepsSpace
  <1>. QED
    BY <1>5, <1>6

\* AutoThrottle moves the next start of a slot to a later time, never to an earlier one.
LEMMA EndTransferThrottledKeepsInv ==
  ASSUME PythonInv, NEW t \in Tasks, NEW latency \in Latencies, NEW ok \in BOOLEAN,
         P!EndTransferThrottled(t, latency, ok)
  PROVE  PythonInv' /\ (PythonSpaced => PythonSpaced')
  <1>1. PICK k \in Keys : k = keyOf[t]
    BY PythonTyped
  <1>. DEFINE q == P!Admit(line[k])
              new == IF P!Ignored(delay[k], latency, ok) THEN delay[k]
                     ELSE P!Throttled(delay[k], latency)
              wait == P!Larger(due[k], new - since[k])
  <1>2. /\ task[t] = "fetching" /\ P!Advance(k, q, wait) /\ task' = [task EXCEPT ![t] = "idle"]
        /\ keyOf' = keyOf /\ since' = since /\ delay' = [delay EXCEPT ![k] = new]
        /\ due' = [due EXCEPT ![k] = wait]
    BY <1>1 DEF P!EndTransferThrottled
  <1>3. LineFits(q, P!PythonWaiting(k)', Cardinality(P!PythonRunning'[k]), Concurrency[k])
    BY <1>1, <1>2, PermitGoesOn
  <1>4. due[k] \in Nat /\ delay[k] \in Nat /\ since[k] \in Nat
    BY PythonTyped
  <1>5. new \in Nat /\ (delay[k] >= LeastDelay(k) => new >= LeastDelay(k))
    <2>1. Throttled(delay[k], latency) \in Nat /\ Throttled(delay[k], latency) >= MinDelay
      BY <1>4, ThrottledInBounds
    <2>2. MinDelay >= LeastDelay(k) /\ LeastDelay(k) \in Nat /\ MinDelay \in Nat
      BY SpacingType, SettingsType
    <2>3. new = delay[k] \/ new = Throttled(delay[k], latency)
      BY SameSettings
    <2>. HIDE DEF new
    <2>. QED
      BY <1>4, <2>1, <2>2, <2>3
  <1>. HIDE DEF q, new
  <1>6. wait \in Nat /\ wait >= due[k]
    BY <1>4, <1>5, SameSettings DEF Larger
  <1>. HIDE DEF wait
  <1>7. /\ due' \in [Keys -> Nat] /\ due'[k] = wait /\ \A j \in Keys \ {k} : due'[j] = due[j]
        /\ delay' \in [Keys -> Nat] /\ delay'[k] = new
        /\ \A j \in Keys \ {k} : delay'[j] = delay[j]
        /\ since' \in [Keys -> 0 .. Horizon] /\ since' \in [Keys -> Nat]
    BY <1>2, <1>5, <1>6, PythonTyped DEF PythonInv, P!PythonTypeOK
  <1>8. PythonInv'
    <2>1. wait <= due'[k] /\ due[k] <= due'[k] /\ "idle" \in P!PythonStates
      BY <1>4, <1>6, <1>7 DEF P!PythonStates
    <2>. QED
      BY <1>1, <1>2, <1>3, <1>6, <1>7, <2>1, LineStepKeepsInv
  <1>9. ASSUME PythonSpaced
        PROVE  PythonSpaced'
    <2>1. q \in Lines
      BY <1>3 DEF LineFits
    <2>2. delay[k] >= LeastDelay(k) /\ due[k] + since[k] >= Spacing[k] /\ Spacing[k] \in Nat
      BY <1>9, SpacingType DEF PythonSpaced
    <2>3. wait + since[k] >= Spacing[k]
      BY <1>4, <1>6, <2>2
    <2>4. delay'[k] >= LeastDelay(k) /\ wait <= due'[k] /\ wait + since'[k] >= Spacing[k]
      BY <1>2, <1>5, <1>6, <1>7, <2>2, <2>3
    <2>. QED
      BY <1>2, <1>6, <1>7, <1>9, <2>1, <2>4, AdvanceKeepsSpace
  <1>. QED
    BY <1>8, <1>9

LEMMA LeaveLineKeepsInv ==
  ASSUME PythonInv, NEW t \in Tasks, P!LeaveLine(t)
  PROVE  PythonInv' /\ (PythonSpaced => PythonSpaced')
  <1>1. PICK k \in Keys : k = keyOf[t]
    BY PythonTyped
  <1>. DEFINE W == P!PythonWaiting(k)
              R == P!PythonRunning[k]
              d == [semaphore |-> RemoveFirst(line[k].semaphore, t),
                    lock |-> RemoveFirst(line[k].lock, t)]
              q == IF Contains(line[k].lock, t) THEN P!Admit(d) ELSE d
  <1>2. /\ task[t] = "waiting" /\ P!Advance(k, q, due[k]) /\ task' = [task EXCEPT ![t] = "idle"]
        /\ keyOf' = keyOf /\ since' = since /\ delay' = delay /\ due' = due
    BY <1>1, SameLines DEF P!LeaveLine
  <1>3. /\ W \in SUBSET Tasks /\ R \in SUBSET Tasks /\ Cardinality(R) \in Nat
        /\ t \in W /\ t \notin R /\ Concurrency[k] \in Nat
        /\ LineFits(line[k], W, Cardinality(R), Concurrency[k])
    BY <1>1, <1>2, PythonSets, SettingsType DEF PythonInv, PythonLines
  <1>4. P!PythonWaiting(k)' = W \ {t} /\ P!PythonRunning'[k] = R
    <2>1. P!PythonWaiting(k)' = W \ {t} /\ P!PythonRunning'[k] = R \ {t}
      BY <1>1, <1>2, PythonMoves DEF P!PythonStates
    <2>. QED
      BY <1>3, <2>1
  <1>. HIDE DEF W, R
  <1>5. LineFits(q, W \ {t}, Cardinality(R), Concurrency[k])
    BY <1>3, LineDrops
  <1>. HIDE DEF q
  <1>6. LineFits(q, P!PythonWaiting(k)', Cardinality(P!PythonRunning'[k]), Concurrency[k])
    BY <1>4, <1>5
  <1>7. due[k] \in Nat /\ due' \in [Keys -> Nat] /\ delay' \in [Keys -> Nat]
        /\ since' \in [Keys -> 0 .. Horizon] /\ since' \in [Keys -> Nat]
    BY <1>2, PythonTyped, SettingsType DEF PythonInv, P!PythonTypeOK
  <1>8. PythonInv'
    <2>1. due[k] <= due'[k] /\ due' = due /\ "idle" \in P!PythonStates
      BY <1>2, <1>7 DEF P!PythonStates
    <2>. QED
      BY <1>1, <1>2, <1>6, <1>7, <2>1, LineStepKeepsInv
  <1>9. ASSUME PythonSpaced
        PROVE  PythonSpaced'
    <2>1. q \in Lines
      BY <1>6 DEF LineFits
    <2>2. delay'[k] >= LeastDelay(k) /\ due[k] <= due'[k] /\ due[k] + since'[k] >= Spacing[k]
      BY <1>2, <1>7, <1>9 DEF PythonSpaced
    <2>. QED
      BY <1>2, <1>7, <1>9, <2>1, <2>2, AdvanceKeepsSpace
  <1>. QED
    BY <1>8, <1>9

\* Time takes the same from the holder's sleep as from its slot's next start.
LEMMA PythonTickKeepsInv ==
  ASSUME PythonInv, P!PythonTick
  PROVE  /\ PythonInv'
         /\ PythonSpaced /\ (\A k \in Keys : Spacing[k] <= Horizon) => PythonSpaced'
  <1>1. /\ since' = [k \in Keys |-> IF since[k] < Horizon THEN since[k] + 1 ELSE since[k]]
        /\ due' = [k \in Keys |-> IF due[k] > 0 THEN due[k] - 1 ELSE 0]
        /\ alarm' = [t \in Tasks |-> IF alarm[t] > 0 THEN alarm[t] - 1 ELSE alarm[t]]
        /\ keyOf' = keyOf /\ task' = task /\ line' = line /\ delay' = delay
    BY DEF P!PythonTick
  <1>2. /\ \A k \in Keys : since[k] \in 0 .. Horizon /\ due[k] \in Nat
        /\ \A t \in Tasks : alarm[t] \in {P!NoAlarm} \cup Nat /\ keyOf[t] \in Keys
        /\ Horizon \in Nat
    BY PythonTyped, SettingsType
  <1>3. P!PythonTypeOK'
    <2>1. since' \in [Keys -> 0 .. Horizon]
      <3>1. \A k \in Keys : since'[k] \in 0 .. Horizon
        BY <1>1, <1>2
      <3>. QED
        BY <1>1, <3>1
    <2>2. due' \in [Keys -> Nat]
      <3>1. \A k \in Keys : due'[k] \in Nat
        BY <1>1, <1>2
      <3>. QED
        BY <1>1, <3>1
    <2>3. alarm' \in [Tasks -> {P!NoAlarm} \cup Nat]
      <3>1. \A t \in Tasks : alarm'[t] \in {P!NoAlarm} \cup Nat
        BY <1>1, <1>2 DEF P!NoAlarm
      <3>. QED
        BY <1>1, <3>1
    <2>. QED
      BY <1>1, <2>1, <2>2, <2>3 DEF PythonInv, P!PythonTypeOK, P!PythonStates, P!NoAlarm
  <1>4. PythonLines'
    <2>1. P!PythonRunning' = P!PythonRunning /\ \A k : P!PythonWaiting(k)' = P!PythonWaiting(k)
      BY <1>1 DEF P!PythonRunning, P!PythonWaiting
    <2>. QED
      BY <1>1, <2>1 DEF PythonInv, PythonLines, LineFits, Lines
  <1>5. PythonSleeps'
    <2>1. ASSUME NEW t \in Tasks
          PROVE  IF Holds(t, keyOf[t]) THEN alarm'[t] \in 0 .. due'[keyOf[t]]
                 ELSE alarm'[t] = P!NoAlarm
      <3>1. IF Holds(t, keyOf[t]) THEN alarm[t] \in 0 .. due[keyOf[t]] ELSE alarm[t] = P!NoAlarm
        BY DEF PythonInv, PythonSleeps
      <3>2. PICK k \in Keys : k = keyOf[t]
        BY <1>2
      <3>3. /\ alarm'[t] = IF alarm[t] > 0 THEN alarm[t] - 1 ELSE alarm[t]
            /\ due'[k] = IF due[k] > 0 THEN due[k] - 1 ELSE 0
            /\ due[k] \in Nat
        BY <1>1, <1>2
      <3>. QED
        BY <3>1, <3>2, <3>3 DEF P!NoAlarm
    <2>. QED
      BY <1>1, <2>1 DEF PythonSleeps, Holds
  <1>6. ASSUME PythonSpaced, \A k \in Keys : Spacing[k] <= Horizon
        PROVE  PythonSpaced'
    <2>1. ASSUME NEW k \in Keys
          PROVE  /\ due'[k] + since'[k] >= Spacing[k]
                 /\ \A t \in Tasks : keyOf[t] = k /\ Holds(t, k) =>
                       alarm'[t] + since'[k] >= Spacing[k]
      <3>1. /\ due[k] + since[k] >= Spacing[k] /\ Spacing[k] \in Nat /\ Spacing[k] <= Horizon
            /\ since[k] \in 0 .. Horizon /\ due[k] \in Nat /\ Horizon \in Nat
            /\ since'[k] = IF since[k] < Horizon THEN since[k] + 1 ELSE since[k]
            /\ due'[k] = IF due[k] > 0 THEN due[k] - 1 ELSE 0
        BY <1>1, <1>2, <1>6, SpacingType DEF PythonSpaced
      <3>2. ASSUME NEW t \in Tasks, keyOf[t] = k, Holds(t, k)
            PROVE  alarm'[t] + since'[k] >= Spacing[k]
        <4>1. alarm[t] + since[k] >= Spacing[k] /\ alarm[t] \in 0 .. due[k]
          BY <1>6, <3>2 DEF PythonSpaced, PythonInv, PythonSleeps
        <4>2. alarm'[t] = IF alarm[t] > 0 THEN alarm[t] - 1 ELSE alarm[t]
          BY <1>1
        <4>. QED
          BY <3>1, <4>1, <4>2
      <3>3. due'[k] + since'[k] >= Spacing[k]
        BY <3>1
      <3>. QED
        BY <3>2, <3>3
    <2>. QED
      BY <1>1, <1>6, <2>1 DEF PythonSpaced, Holds, LeastDelay, Spacing
  <1>. QED
    BY <1>3, <1>4, <1>5, <1>6 DEF PythonInv

LEMMA PythonStepKeepsInv ==
  ASSUME PythonInv, P!PythonNext
  PROVE  /\ PythonInv'
         /\ PythonSpaced /\ (\A k \in Keys : Spacing[k] <= Horizon) => PythonSpaced'
  <1>1. CASE P!PythonTick
    BY <1>1, PythonTickKeepsInv
  <1>2. ASSUME NEW t \in Tasks, P!Enter(t)
        PROVE  PythonInv' /\ (PythonSpaced => PythonSpaced')
    BY <1>2, EnterKeepsInv
  <1>3. ASSUME NEW t \in Tasks, P!StartTransfer(t)
        PROVE  PythonInv' /\ (PythonSpaced => PythonSpaced')
    BY <1>3, StartTransferKeepsInv
  <1>4. ASSUME NEW t \in Tasks, P!EndTransfer(t)
        PROVE  PythonInv' /\ (PythonSpaced => PythonSpaced')
    BY <1>4, EndTransferKeepsInv
  <1>5. ASSUME NEW t \in Tasks, P!LeaveLine(t)
        PROVE  PythonInv' /\ (PythonSpaced => PythonSpaced')
    BY <1>5, LeaveLineKeepsInv
  <1>6. ASSUME NEW t \in Tasks, NEW l \in Latencies, NEW ok \in BOOLEAN,
               P!EndTransferThrottled(t, l, ok)
        PROVE  PythonInv' /\ (PythonSpaced => PythonSpaced')
    BY <1>6, EndTransferThrottledKeepsInv
  <1>. QED
    BY <1>1, <1>2, <1>3, <1>4, <1>5, <1>6 DEF P!PythonNext

\* The queues agree with the tasks, and nobody oversleeps.
LEMMA PythonInvServes ==
  ASSUME PythonInv
  PROVE  P!PythonCountsMatch /\ P!PythonNoOversleep
  <1>1. ASSUME NEW k \in Keys
        PROVE  LET whole == line[k].semaphore \o line[k].lock
               IN  /\ Len(whole) = P!Cardinality(P!PythonWaiting(k))
                   /\ ToSet(whole) = P!PythonWaiting(k)
                   /\ line[k].semaphore # <<>> => ~P!Free(k)
    <2>1. LineFits(line[k], P!PythonWaiting(k), Cardinality(P!PythonRunning[k]), Concurrency[k])
      BY DEF PythonInv, PythonLines
    <2>2. /\ line[k].lock \in Seq(Tasks) /\ line[k].semaphore \in Seq(Tasks)
          /\ Len(line[k].lock) \in Nat
      BY <2>1, LineParts DEF LineFits
    <2>3. /\ IsInjective(line[k].lock) /\ IsInjective(line[k].semaphore)
          /\ ToSet(line[k].semaphore) \cap ToSet(line[k].lock) = {}
          /\ ToSet(line[k].semaphore) \cup ToSet(line[k].lock) = P!PythonWaiting(k)
      BY <2>1 DEF LineFits
    <2>4. /\ Len(line[k].semaphore \o line[k].lock) = Cardinality(P!PythonWaiting(k))
          /\ ToSet(line[k].semaphore \o line[k].lock) = P!PythonWaiting(k)
      <3>1. PICK a \in Seq(Tasks), b \in Seq(Tasks) : a = line[k].semaphore /\ b = line[k].lock
        BY <2>2
      <3>2. IsInjective(a) /\ IsInjective(b) /\ ToSet(a) \cap ToSet(b) = {}
        BY <2>3, <3>1
      <3>3. /\ Len(a \o b) = Cardinality(ToSet(a) \cup ToSet(b))
            /\ ToSet(a \o b) = ToSet(a) \cup ToSet(b)
        BY <3>2, LinesCount
      <3>. QED
        BY <2>3, <3>1, <3>3
    <2>5. line[k].semaphore # <<>> => ~P!Free(k)
      <3>1. Cardinality(P!PythonRunning[k]) \in Nat /\ Concurrency[k] \in Nat
        BY PythonSets, SettingsType
      <3>. QED
        BY <2>1, <2>2, <3>1, SameCounts DEF LineFits, P!Free
    <2>. QED
      BY <2>4, <2>5, SameCounts
  <1>2. ASSUME NEW k \in Keys, line[k].lock # <<>>
        PROVE  alarm[Head(line[k].lock)] \in 0 .. due[k]
    <2>1. LineFits(line[k], P!PythonWaiting(k), Cardinality(P!PythonRunning[k]), Concurrency[k])
      BY DEF PythonInv, PythonLines
    <2>2. Head(line[k].lock) \in P!PythonWaiting(k)
      BY <1>2, <2>1, LineParts, LineIs DEF LineFits
    <2>3. Head(line[k].lock) \in Tasks /\ keyOf[Head(line[k].lock)] = k
      BY <2>2, PythonSets
    <2>. QED
      BY <1>2, <2>3 DEF PythonInv, PythonSleeps, Holds
  <1>. QED
    BY <1>1, <1>2, SameLines DEF P!PythonCountsMatch, P!PythonNoOversleep

\* The Python slots start, end and age their transfers as Throttle allows.
LEMMA PythonStepThrottles ==
  ASSUME engine # "native", engine' = engine, PythonInv, PythonSpaced,
         \A k \in Keys : Spacing[k] <= Horizon,
         P!PythonNext
  PROVE  T!Next \/ UNCHANGED T!vars
  <1>1. /\ Running = P!PythonRunning /\ Running' = P!PythonRunning'
        /\ Running \in [Keys -> SUBSET Tasks] /\ Running' \in [Keys -> SUBSET Tasks]
        /\ since \in [Keys -> Nat] /\ \A k \in Keys : since[k] \in 0 .. Horizon
        /\ \A t \in Tasks : keyOf[t] \in Keys
    <2>1. Running = P!PythonRunning /\ Running' = P!PythonRunning'
      BY DEF Running
    <2>2. since \in [Keys -> Nat]
      BY PythonTyped DEF PythonInv, P!PythonTypeOK
    <2>. QED
      BY <2>1, <2>2, PythonTyped DEF P!PythonRunning
  <1>2. ASSUME NEW t \in Tasks, P!StartTransfer(t)
        PROVE  T!Next
    <2>1. PICK k \in Keys : k = keyOf[t]
      BY <1>1
    <2>2. /\ task[t] = "waiting" /\ alarm[t] = 0 /\ task' = [task EXCEPT ![t] = "fetching"]
          /\ keyOf' = keyOf /\ since' = [since EXCEPT ![k] = 0]
      BY <1>2, <2>1 DEF P!StartTransfer
    <2>3. Holds(t, k) /\ Cardinality(Running[k]) < Concurrency[k]
      BY <1>1, <2>1, <2>2, StarterHoldsTheLock
    <2>4. since[k] >= Spacing[k]
      BY <1>1, <2>1, <2>2, <2>3 DEF PythonSpaced
    <2>5. t \notin Running[k]
      BY <1>1, <2>2, PythonSets
    <2>6. Running'[k] = Running[k] \cup {t} /\ \A j \in Keys \ {k} : Running'[j] = Running[j]
      BY <1>1, <2>1, <2>2, PythonMoves DEF P!PythonStates
    <2>. QED
      BY <1>1, <2>2, <2>3, <2>4, <2>5, <2>6, ThrottleStarts
  <1>3. ASSUME NEW t \in Tasks,
               \/ P!EndTransfer(t)
               \/ \E l \in Latencies, ok \in BOOLEAN : P!EndTransferThrottled(t, l, ok)
        PROVE  T!Next
    <2>1. PICK k \in Keys : k = keyOf[t]
      BY <1>1
    <2>2. /\ task[t] = "fetching" /\ task' = [task EXCEPT ![t] = "idle"]
          /\ keyOf' = keyOf /\ since' = since
      BY <1>3 DEF P!EndTransfer, P!EndTransferThrottled
    <2>3. t \in Running[k]
      BY <1>1, <2>1, <2>2, PythonSets
    <2>4. Running'[k] = Running[k] \ {t} /\ \A j \in Keys \ {k} : Running'[j] = Running[j]
      BY <1>1, <2>1, <2>2, PythonMoves DEF P!PythonStates
    <2>. QED
      BY <1>1, <2>2, <2>3, <2>4, ThrottleEnds
  <1>4. ASSUME NEW t \in Tasks, P!Enter(t) \/ P!LeaveLine(t)
        PROVE  UNCHANGED T!vars
    <2>1. /\ keyOf' = keyOf /\ since' = since
          /\ \E to \in {"waiting", "idle"} : task' = [task EXCEPT ![t] = to]
          /\ task[t] \in {"idle", "waiting"}
      BY <1>4 DEF P!Enter, P!LeaveLine
    <2>2. PICK to \in {"waiting", "idle"} : task' = [task EXCEPT ![t] = to]
      BY <2>1
    <2>3. \A j \in Keys : t \notin Running[j]
      BY <1>1, <2>1, PythonSets
    <2>4. \A j \in Keys : Running'[j] = Running[j] \/ Running'[j] = Running[j] \ {t}
      BY <1>1, <2>1, <2>2, PythonMoves DEF P!PythonStates
    <2>5. \A j \in Keys : Running'[j] = Running[j]
      BY <2>3, <2>4
    <2>6. Running' = Running
      BY <1>1, <2>5
    <2>. QED
      BY <2>1, <2>6, ThrottleIdles
  <1>5. CASE P!PythonTick
    <2>1. /\ since' = [k \in Keys |-> IF since[k] < Horizon THEN since[k] + 1 ELSE since[k]]
          /\ P!PythonRunning' = P!PythonRunning
      BY <1>5 DEF P!PythonTick, P!PythonRunning
    <2>. QED
      BY <1>1, <2>1, ThrottleTicks
  <1>. QED
    BY <1>2, <1>3, <1>4, <1>5 DEF P!PythonNext

-----------------------------------------------------------------------------

\* What holds of the implementation that the crawl has.
SlotsInv ==
    /\ engine \in Engines
    /\ IF engine = "native" THEN NativeInv ELSE PythonInv

SlotsSpaced == IF engine = "native" THEN NativeSpaced ELSE PythonSpaced

\* Throttle's interval is within what the native slots remember through a pause, and within
\* the bound on the ages.
SpacingHolds ==
    /\ "native" \in Engines => PausesSpace
    /\ \A k \in Keys : Spacing[k] <= Horizon

LEMMA NativeInit ==
  ASSUME N!NativeInit
  PROVE  /\ NativeInv
         /\ (\A k \in Keys : Spacing[k] <= Horizon) => NativeSpaced
  <1>1. /\ keyOf \in Layouts /\ task = [t \in Tasks |-> "idle"]
        /\ alarm = [t \in Tasks |-> N!NoAlarm] /\ since = [k \in Keys |-> Horizon]
        /\ slots = <<>> /\ closed = FALSE
        /\ Horizon \in Nat
    BY SettingsType DEF N!NativeInit
  <1>2. DOMAIN slots = {}
    BY <1>1
  <1>3. N!NativeTypeOK
    <2>1. /\ task \in [Tasks -> N!NativeStates]
          /\ alarm \in [Tasks -> {N!NoAlarm} \cup Nat]
          /\ since \in [Keys -> 0 .. Horizon]
      BY <1>1 DEF N!NativeStates
    <2>2. /\ DOMAIN slots \subseteq Keys
          /\ \A k \in DOMAIN slots : slots[k] \in N!Slot
          /\ closed \in BOOLEAN
      BY <1>1, <1>2
    <2>. QED
      BY <1>1, <2>1, <2>2 DEF N!NativeTypeOK
  <1>4. N!NativeCountsMatch
    <2>1. \A k \in Keys : N!NativeRunning[k] = {} /\ N!NativeWaiting(k) = {}
      BY <1>1 DEF N!NativeRunning, N!NativeWaiting, N!Of
    <2>2. \A k \in Keys : k \notin DOMAIN slots
      BY <1>2
    <2>. QED
      BY <1>1, <2>1, <2>2 DEF N!NativeCountsMatch
  <1>5. N!NativeNoOversleep
    BY <1>1 DEF N!NativeNoOversleep
  <1>. QED
    BY <1>1, <1>2, <1>3, <1>4, <1>5 DEF NativeInv, NativeSpaced, Spaced

LEMMA PythonInit ==
  ASSUME P!PythonInit
  PROVE  /\ PythonInv
         /\ (\A k \in Keys : Spacing[k] <= Horizon) => PythonSpaced
  <1>1. /\ keyOf \in Layouts /\ task = [t \in Tasks |-> "idle"]
        /\ alarm = [t \in Tasks |-> P!NoAlarm] /\ since = [k \in Keys |-> Horizon]
        /\ line = [k \in Keys |-> [semaphore |-> <<>>, lock |-> <<>>]]
        /\ delay = Delay /\ due = [k \in Keys |-> 0]
    BY DEF P!PythonInit
  <1>2. \A k \in Keys : line[k].lock = <<>> /\ line[k].semaphore = <<>> /\ line[k] \in Lines
    BY <1>1 DEF Lines
  <1>3. P!PythonTypeOK
    <2>1. line \in [Keys -> Lines] /\ Delay \in [Keys -> Nat] /\ Horizon \in Nat
      BY <1>1, <1>2, SlotAssumption
    <2>. QED
      BY <1>1, <2>1 DEF P!PythonTypeOK, P!PythonStates, Lines
  <1>4. PythonSleeps
    BY <1>1, <1>2, SlotAssumption DEF PythonSleeps, Holds
  <1>5. PythonLines
    <2>1. ASSUME NEW k \in Keys
          PROVE  LineFits(line[k], P!PythonWaiting(k), Cardinality(P!PythonRunning[k]),
                          Concurrency[k])
      <3>1. P!PythonWaiting(k) = {} /\ P!PythonRunning[k] = {}
        BY <1>1, PythonSets
      <3>2. Cardinality({}) = 0 /\ Concurrency[k] \in Nat /\ Len(<<>>) = 0
        BY FS_EmptySet, SettingsType
      <3>3. <<>> \in Seq(Tasks) /\ ToSet(<<>>) = {} /\ IsInjective(<<>>)
        <4>1. <<>> \in Seq(Tasks) /\ Len(<<>>) = 0
          OBVIOUS
        <4>. DEFINE s == <<>>
        <4>. HIDE DEF s
        <4>2. s \in Seq(Tasks) /\ s = <<>> /\ Len(s) = 0
          BY <4>1 DEF s
        <4>3. ToSet(s) = {}
          BY <4>2, LineIs
        <4>4. IsInjective(s)
          BY <4>2 DEF IsInjective
        <4>. QED
          BY <4>1, <4>3, <4>4 DEF s
      <3>. QED
        BY <1>2, <3>1, <3>2, <3>3 DEF LineFits
    <2>. QED
      BY <2>1 DEF PythonLines
  <1>6. ASSUME \A k \in Keys : Spacing[k] <= Horizon
        PROVE  PythonSpaced
    BY <1>1, <1>2, <1>6, SpacingType, SettingsType DEF PythonSpaced, Holds
  <1>. QED
    BY <1>3, <1>4, <1>5, <1>6 DEF PythonInv

LEMMA InitEstablishesInv == Init => SlotsInv /\ (SpacingHolds => SlotsSpaced)
  BY NativeInit, PythonInit DEF Init, SlotsInv, SlotsSpaced, SpacingHolds

LEMMA StutterKeepsInv ==
  ASSUME UNCHANGED vars
  PROVE  /\ SlotsInv => SlotsInv'
         /\ SlotsSpaced => SlotsSpaced'
         /\ UNCHANGED T!vars
  <1>1. NativeInv => NativeInv'
    <2>1. /\ N!NativeRunning' = N!NativeRunning
          /\ \A k : N!NativeWaiting(k)' = N!NativeWaiting(k)
      BY DEF vars, N!NativeRunning, N!NativeWaiting, N!Of
    <2>2. N!NativeTypeOK => N!NativeTypeOK'
      BY DEF vars, N!NativeTypeOK, N!NativeStates, N!Slot, N!NoAlarm
    <2>3. N!NativeCountsMatch => N!NativeCountsMatch'
      BY <2>1 DEF vars, N!NativeCountsMatch, N!Cardinality
    <2>4. N!NativeNoOversleep => N!NativeNoOversleep'
      BY DEF vars, N!NativeNoOversleep, N!Remaining, N!Cardinality
    <2>. QED
      BY <2>2, <2>3, <2>4 DEF NativeInv
  <1>2. PythonInv => PythonInv'
    <2>1. P!PythonTypeOK => P!PythonTypeOK'
      BY DEF vars, P!PythonTypeOK
    <2>2. /\ P!PythonRunning' = P!PythonRunning
          /\ \A k : P!PythonWaiting(k)' = P!PythonWaiting(k)
          /\ line' = line
      BY DEF vars, P!PythonRunning, P!PythonWaiting
    <2>3. PythonLines => PythonLines'
      BY <2>2 DEF PythonLines
    <2>4. PythonSleeps => PythonSleeps'
      BY DEF vars, PythonSleeps, Holds
    <2>. QED
      BY <2>1, <2>3, <2>4 DEF PythonInv
  <1>3. NativeSpaced => NativeSpaced'
    BY DEF vars, NativeSpaced, Spaced, Spacing, LeastDelay
  <1>4. PythonSpaced => PythonSpaced'
    BY DEF vars, PythonSpaced, Spacing, LeastDelay, Holds
  <1>5. Running' = Running /\ since' = since
    BY DEF vars, Running, N!NativeRunning, N!Of, P!PythonRunning
  <1>. QED
    BY <1>1, <1>2, <1>3, <1>4, <1>5, ThrottleIdles DEF vars, SlotsInv, SlotsSpaced

LEMMA NextKeepsInv ==
  ASSUME SlotsInv, [Next]_vars
  PROVE  SlotsInv'
  <1>1. CASE NativeStep(N!NativeNext)
    BY <1>1, NativeStepKeepsInv DEF NativeStep, SlotsInv
  <1>2. CASE PythonStep(P!PythonNext)
    BY <1>2, PythonStepKeepsInv DEF PythonStep, SlotsInv
  <1>. QED
    BY <1>1, <1>2, StutterKeepsInv DEF Next

LEMMA NextKeepsSpace ==
  ASSUME SlotsInv, SlotsSpaced, SpacingHolds, [Next]_vars
  PROVE  SlotsSpaced' /\ (T!Next \/ UNCHANGED T!vars)
  <1>1. CASE NativeStep(N!NativeNext)
    <2>1. /\ engine = "native" /\ engine' = engine /\ N!NativeNext
          /\ NativeInv /\ NativeSpaced /\ PausesSpace
      BY <1>1 DEF NativeStep, SlotsInv, SlotsSpaced, SpacingHolds
    <2>. QED
      BY <2>1, NativeStepIsSpaced, NativeStepThrottles DEF SlotsSpaced
  <1>2. CASE PythonStep(P!PythonNext)
    <2>1. /\ engine # "native" /\ engine' = engine /\ P!PythonNext
          /\ PythonInv /\ PythonSpaced /\ \A k \in Keys : Spacing[k] <= Horizon
      BY <1>2 DEF PythonStep, SlotsInv, SlotsSpaced, SpacingHolds
    <2>. QED
      BY <2>1, PythonStepKeepsInv, PythonStepThrottles DEF SlotsSpaced
  <1>3. CASE UNCHANGED vars
    BY <1>3, StutterKeepsInv
  <1>. QED
    BY <1>1, <1>2, <1>3 DEF Next

LEMMA SlotsInvHolds == Spec => []SlotsInv
  <1>1. Init => SlotsInv
    BY InitEstablishesInv
  <1>2. SlotsInv /\ [Next]_vars => SlotsInv'
    BY NextKeepsInv
  <1>. QED
    BY <1>1, <1>2, PTL DEF Spec

\* Whichever implementation a crawl has, its slots, sleeps and queues keep their shape: a
\* task is in one of the states its implementation knows, ages stay within their bound, and
\* a slot that is forgotten is not written to.
THEOREM SlotsKeepTheirShape == Spec => []SlotsTypeOK
  <1>1. SlotsInv => SlotsTypeOK
    BY DEF SlotsInv, NativeInv, PythonInv, SlotsTypeOK
  <1>. QED
    BY <1>1, SlotsInvHolds, PTL

\* However tasks are granted, cancelled, refused, throttled, pruned or closed down, for any
\* number of them: what slots.rs counts in a slot is what its tasks do, and in
\* python_slots.py every waiting task stands in line once while no permit lies idle.
THEOREM CountsAreKept == Spec => []CountsMatchTasks
  <1>1. SlotsInv => CountsMatchTasks
    BY PythonInvServes DEF SlotsInv, NativeInv, CountsMatchTasks
  <1>. QED
    BY <1>1, SlotsInvHolds, PTL

\* A task that sleeps for a slot never sleeps past the moment it could have it: its timer
\* rings by then, or somebody else has still to end and will wake it.
THEOREM NobodyOversleeps == Spec => []NoOversleep
  <1>1. SlotsInv => NoOversleep
    BY PythonInvServes DEF SlotsInv, NativeInv, NoOversleep
  <1>. QED
    BY <1>1, SlotsInvHolds, PTL

\* Both implementations keep the concurrency of each slot and the interval between the
\* starts of its transfers, whatever delays AutoThrottle sets and whatever is pruned, as
\* long as the least interval is no longer than a native slot is remembered (60 seconds).
THEOREM SlotsImplementThrottle ==
  ASSUME SpacingHolds
  PROVE  Spec => ImplementsThrottle
  <1>1. Init => T!Init
    <2>. SUFFICES ASSUME Init PROVE T!Init
      OBVIOUS
    <2>1. task = [t \in Tasks |-> "idle"] /\ since = [k \in Keys |-> Horizon]
      BY DEF Init, P!PythonInit
    <2>2. Running = [k \in Keys |-> {}]
      BY <2>1 DEF Running, N!NativeRunning, P!PythonRunning, N!Of
    <2>3. Aged = Spacing
      <3>1. \A k \in Keys : Aged[k] = Spacing[k]
        BY <2>1, SpacingType, SettingsType DEF Aged, SpacingHolds
      <3>. QED
        BY <3>1 DEF Aged, Spacing
    <2>. QED
      BY <2>2, <2>3 DEF T!Init, Aged
  <1>2. Init => SlotsInv /\ SlotsSpaced
    BY InitEstablishesInv
  <1>3. SlotsInv /\ SlotsSpaced /\ [Next]_vars
           => SlotsInv' /\ SlotsSpaced' /\ [T!Next]_(T!vars)
    BY NextKeepsInv, NextKeepsSpace
  <1>. QED
    BY <1>1, <1>2, <1>3, PTL DEF Spec, ImplementsThrottle, T!Spec
=============================================================================
