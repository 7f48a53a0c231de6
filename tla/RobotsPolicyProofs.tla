------------------------- MODULE RobotsPolicyProofs -------------------------
(***************************************************************************)
(* Proofs about RobotsPolicy, for any tasks, origins, pages, permits and   *)
(* policies: robots.txt is fetched once and obeyed, its waiters are woken, *)
(* and the gate of the internal downloads loses no permit.                 *)
(*                                                                         *)
(* The inductive invariant names the one task that fetches a policy, so    *)
(* that whatever ends its fetch is known to end the waiting, and relates   *)
(* the line at the gate to the permits that are out.                       *)
(***************************************************************************)
EXTENDS RobotsPolicy, SequenceLemmas

Fetchers(o) == {t \in Tasks : task[t] = "fetching" /\ Origin(t) = o}

\* An origin whose policy is being fetched has one fetcher, and the others have none.
FetchersKnown ==
    ~closed => \A o \in Origins :
        IF policy[o] = "fetching" THEN \E t \in Tasks : Fetchers(o) = {t}
        ELSE Fetchers(o) = {}

Held(tasks) == {t \in Callers : tasks[t] \notin {"idle", "gate"}}

\* The line at the gate fits the states of the tasks.
GateFits(queue, tasks) ==
    /\ queue \in Seq(Callers)
    /\ IsInjective(queue)
    /\ ToSet(queue) = {t \in Tasks : tasks[t] = "gate"}
    /\ Cardinality(Held(tasks)) <= Concurrency
    /\ queue # <<>> => Cardinality(Held(tasks)) = Concurrency

RobotsInv ==
    /\ RobotsTypeOK
    /\ FetchersKnown
    /\ DownloadsAreAllowed
    /\ SleepersAreWoken
    /\ GateFits(gate, task)

LEMMA RobotsTyped ==
  ASSUME RobotsInv
  PROVE  /\ task \in [Tasks -> States] /\ page \in [Tasks -> Pages]
         /\ \A t \in Tasks : Origin(t) \in Origins
         /\ policy \in [Origins -> {"unknown", "fetching", "ready", "unavailable"}]
  BY RobotsAssumption DEF RobotsInv, RobotsTypeOK, Origin

-----------------------------------------------------------------------------

\* Steps that leave the tasks at the gate and the idle ones alone.
LEMMA GateStays ==
  ASSUME RobotsInv, NEW tasks, gate' = gate, task' = tasks,
         \A u \in Tasks : /\ tasks[u] = "gate" <=> task[u] = "gate"
                          /\ tasks[u] = "idle" <=> task[u] = "idle"
  PROVE  GateFits(gate', task')
  <1>1. Held(tasks) = Held(task)
    BY DEF Held, Tasks
  <1>2. {t \in Tasks : tasks[t] = "gate"} = {t \in Tasks : task[t] = "gate"}
    OBVIOUS
  <1>. QED
    BY <1>1, <1>2 DEF RobotsInv, GateFits

LEMMA PermitsCount ==
  ASSUME NEW S \in SUBSET Callers, NEW t \in Callers
  PROVE  /\ Cardinality(S) \in Nat
         /\ t \in S => Cardinality(S \ {t}) = Cardinality(S) - 1
         /\ t \notin S => Cardinality(S \cup {t}) = Cardinality(S) + 1
  <1>1. IsFiniteSet(S)
    BY RobotsAssumption, FS_Subset
  <1>. QED
    BY <1>1, FS_CardinalityType, FS_RemoveElement, FS_AddElement

\* A task leaves: it has no permit and no place any more, and at most the first of the line
\* moves besides, who takes over the permit.
LEMMA LeavingIs ==
  ASSUME RobotsInv, NEW t \in Tasks, task[t] # "idle"
  PROVE  /\ Left(t) \in [Tasks -> States]
         /\ Left(t)[t] = "idle"
         /\ \A u \in Tasks \ {t} :
               Left(t)[u] = task[u] \/ (task[u] = "gate" /\ Left(t)[u] = "checking")
         /\ GateFits(GateAfter(t), Left(t))
  <1>. DEFINE gone == [task EXCEPT ![t] = "idle"]
              H == Held(task)
  <1>1. /\ gate \in Seq(Callers) /\ IsInjective(gate)
        /\ ToSet(gate) = {u \in Tasks : task[u] = "gate"}
        /\ Cardinality(H) <= Concurrency
        /\ gate # <<>> => Cardinality(H) = Concurrency
        /\ H \in SUBSET Callers /\ Callers \subseteq Tasks
        /\ Concurrency \in Nat /\ InGate = H
    BY RobotsAssumption DEF RobotsInv, GateFits, Held, InGate, Tasks
  <1>2. gone \in [Tasks -> States] /\ gone[t] = "idle" /\ \A u \in Tasks \ {t} : gone[u] = task[u]
    BY RobotsTyped DEF States
  <1>3. CASE t \in InGate /\ gate # <<>>
    <2>. DEFINE h == Head(gate)
    <2>1. h \in Callers /\ h \in Tasks /\ task[h] = "gate" /\ h # t /\ h \notin H
      <3>1. h \in ToSet(gate)
        BY <1>1, <1>3, LineIs
      <3>. QED
        BY <1>1, <1>3, <3>1, LineIs DEF InGate, Held
    <2>2. Left(t) = [gone EXCEPT ![h] = "checking"] /\ GateAfter(t) = Tail(gate)
      BY <1>3 DEF Left, GateAfter
    <2>3. /\ Tail(gate) \in Seq(Callers) /\ IsInjective(Tail(gate))
          /\ ToSet(Tail(gate)) = ToSet(gate) \ {h}
      BY <1>1, <1>3, LineAdvances
    <2>. HIDE DEF h, gone
    <2>4. /\ Left(t) \in [Tasks -> States] /\ Left(t)[t] = "idle" /\ Left(t)[h] = "checking"
          /\ \A u \in Tasks \ {t, h} : Left(t)[u] = task[u]
      BY <1>2, <2>1, <2>2 DEF States
    <2>5. Held(Left(t)) = (H \ {t}) \cup {h}
      BY <1>1, <1>3, <2>1, <2>4 DEF Held
    <2>6. t \in H /\ t \in Callers
      BY <1>1, <1>3
    <2>. HIDE DEF H
    <2>7. Cardinality(H \ {t}) = Cardinality(H) - 1 /\ Cardinality(H) \in Nat
      BY <1>1, <2>6, PermitsCount
    <2>8. Cardinality((H \ {t}) \cup {h}) = Cardinality(H \ {t}) + 1
      <3>1. H \ {t} \in SUBSET Callers /\ h \notin H \ {t}
        BY <1>1, <2>1
      <3>. QED
        BY <2>1, <3>1, PermitsCount
    <2>9. Cardinality(Held(Left(t))) = Concurrency
      BY <1>1, <1>3, <2>5, <2>7, <2>8
    <2>10. ToSet(Tail(gate)) = {u \in Tasks : Left(t)[u] = "gate"}
      BY <1>1, <2>1, <2>3, <2>4, <1>3 DEF InGate
    <2>11. GateFits(GateAfter(t), Left(t))
      BY <1>1, <2>2, <2>3, <2>9, <2>10 DEF GateFits
    <2>. QED
      BY <2>1, <2>4, <2>11
  <1>4. CASE ~(t \in InGate /\ gate # <<>>)
    <2>1. Left(t) = gone /\ GateAfter(t) = RemoveFirst(gate, t)
      BY <1>4 DEF Left, GateAfter
    <2>. HIDE DEF gone
    <2>2. /\ RemoveFirst(gate, t) \in Seq(Callers) /\ IsInjective(RemoveFirst(gate, t))
          /\ ToSet(RemoveFirst(gate, t)) = ToSet(gate) \ {t}
      <3>1. CASE t \in ToSet(gate)
        BY <1>1, <3>1, LineLoses, LineIs
      <3>2. CASE t \notin ToSet(gate)
        <4>1. RemoveFirst(gate, t) = gate
          <5>1. ~\E i \in 1 .. Len(gate) : gate[i] = t
            BY <1>1, <3>2, LineIs
          <5>. QED
            BY <5>1 DEF RemoveFirst
        <4>. QED
          BY <1>1, <3>2, <4>1
      <3>. QED
        BY <3>1, <3>2
    <2>3. Held(gone) = H \ {t}
      BY <1>1, <1>2 DEF Held
    <2>4. ToSet(gate) \ {t} = {u \in Tasks : gone[u] = "gate"}
      BY <1>1, <1>2
    <2>. HIDE DEF H
    <2>5. Cardinality(H \ {t}) <= Concurrency
          /\ (RemoveFirst(gate, t) # <<>> => Cardinality(H \ {t}) = Concurrency)
      <3>1. CASE t \in H
        <4>1. gate = <<>> /\ t \in Callers
          BY <1>1, <1>4, <3>1
        <4>2. Cardinality(H \ {t}) = Cardinality(H) - 1 /\ Cardinality(H) \in Nat
          BY <1>1, <3>1, <4>1, PermitsCount
        <4>3. RemoveFirst(gate, t) = <<>>
          <5>1. ToSet(gate) = {}
            BY <1>1, <4>1, LineIs
          <5>2. ToSet(RemoveFirst(gate, t)) = {}
            BY <2>2, <5>1
          <5>. QED
            BY <2>2, <5>2, LineIs
        <4>. QED
          BY <1>1, <4>2, <4>3
      <3>2. CASE t \notin H
        <4>1. H \ {t} = H
          BY <3>2
        <4>2. RemoveFirst(gate, t) # <<>> => gate # <<>>
          BY <1>1, <2>2, LineIs
        <4>. QED
          BY <1>1, <4>1, <4>2
      <3>. QED
        BY <3>1, <3>2
    <2>6. GateFits(GateAfter(t), Left(t))
      BY <2>1, <2>2, <2>3, <2>4, <2>5 DEF GateFits
    <2>. QED
      BY <1>2, <2>1, <2>6
  <1>. QED
    BY <1>3, <1>4

-----------------------------------------------------------------------------

MayDownload(p, o) ==
    \/ p \in Exempt
    \/ policy[o] = "unavailable"
    \/ policy[o] = "ready" /\ p \in allows[o]

\* Steps that change no policy: no fetch begins or ends unless the runtime is closed, nobody
\* changes the page it fetches, and who starts to sleep or to download may.
LEMMA PolicyStays ==
  ASSUME RobotsInv, UNCHANGED robotsVars,
         ~closed => \A u \in Tasks : /\ task'[u] = "fetching" <=> task[u] = "fetching"
                                     /\ task[u] = "fetching" => page'[u] = page[u],
         \A u \in Tasks : task'[u] \in {"asleep", "downloading"} => page'[u] = page[u],
         \A u \in Tasks : task'[u] = "asleep" =>
            task[u] = "asleep" \/ (~closed /\ policy[Origin(u)] = "fetching"),
         ~closed => \A u \in Tasks : task'[u] = "downloading" =>
            task[u] = "downloading" \/ MayDownload(page[u], Origin(u))
  PROVE  FetchersKnown' /\ DownloadsAreAllowed' /\ SleepersAreWoken'
  <1>1. policy' = policy /\ allows' = allows /\ closed' = closed
    BY DEF robotsVars
  <1>2. FetchersKnown'
    <2>1. ASSUME ~closed, NEW o \in Origins
          PROVE  Fetchers(o)' = Fetchers(o)
      BY <2>1 DEF Fetchers, Origin
    <2>. QED
      BY <1>1, <2>1 DEF RobotsInv, FetchersKnown
  <1>3. DownloadsAreAllowed'
    <2>1. ASSUME ~closed, NEW u \in Tasks, task'[u] = "downloading", page[u] \notin Exempt
          PROVE  \/ policy[Origin(u)] = "unavailable"
                 \/ policy[Origin(u)] = "ready" /\ page[u] \in allows[Origin(u)]
      BY <2>1 DEF RobotsInv, DownloadsAreAllowed, MayDownload
    <2>. QED
      BY <1>1, <2>1 DEF DownloadsAreAllowed, Origin
  <1>4. SleepersAreWoken'
    <2>1. ASSUME NEW u \in Tasks, task'[u] = "asleep"
          PROVE  ~closed /\ policy[Origin(u)] = "fetching"
      BY <2>1 DEF RobotsInv, SleepersAreWoken
    <2>. QED
      BY <1>1, <2>1 DEF SleepersAreWoken, Origin
  <1>. QED
    BY <1>2, <1>3, <1>4

\* A task leaves while the policies stay as they are.
LEMMA LeavesKeepsInv ==
  ASSUME RobotsInv, NEW t \in Tasks, task[t] # "idle", closed \/ task[t] # "fetching",
         Leaves(t), UNCHANGED robotsVars
  PROVE  RobotsInv'
  <1>1. task' = Left(t) /\ gate' = GateAfter(t) /\ page' = page /\ hops' = hops
    BY DEF Leaves
  <1>2. /\ task' \in [Tasks -> States] /\ task'[t] = "idle"
        /\ \A u \in Tasks \ {t} :
              task'[u] = task[u] \/ (task[u] = "gate" /\ task'[u] = "checking")
        /\ GateFits(gate', task')
    BY <1>1, LeavingIs
  <1>3. FetchersKnown' /\ DownloadsAreAllowed' /\ SleepersAreWoken'
    BY <1>1, <1>2, PolicyStays
  <1>4. RobotsTypeOK'
    BY <1>1, <1>2 DEF RobotsInv, RobotsTypeOK, robotsVars, GateFits
  <1>. QED
    BY <1>2, <1>3, <1>4 DEF RobotsInv, GateFits, Held

LEMMA AskKeepsInv ==
  ASSUME RobotsInv, NEW t \in Tasks, NEW p \in Pages, Ask(t, p)
  PROVE  RobotsInv'
  <1>1. /\ task[t] = "idle" /\ page' = [page EXCEPT ![t] = p] /\ hops' = [hops EXCEPT ![t] = 0]
        /\ UNCHANGED robotsVars
    BY DEF Ask
  <1>2. PICK to \in {"gate", "checking"} : task' = [task EXCEPT ![t] = to]
    BY DEF Ask
  <1>3. /\ task' \in [Tasks -> States] /\ task'[t] = to /\ \A u \in Tasks \ {t} : task'[u] = task[u]
        /\ page' \in [Tasks -> Pages] /\ \A u \in Tasks \ {t} : page'[u] = page[u]
    BY <1>1, <1>2, RobotsTyped DEF States
  <1>4. FetchersKnown' /\ DownloadsAreAllowed' /\ SleepersAreWoken'
    BY <1>1, <1>3, PolicyStays
  <1>5. GateFits(gate', task')
    <2>1. /\ gate \in Seq(Callers) /\ IsInjective(gate)
          /\ ToSet(gate) = {u \in Tasks : task[u] = "gate"}
          /\ Cardinality(Held(task)) <= Concurrency
          /\ gate # <<>> => Cardinality(Held(task)) = Concurrency
          /\ Held(task) \in SUBSET Callers /\ Concurrency \in Nat /\ InGate = Held(task)
          /\ t \notin Held(task)
      BY <1>1, RobotsAssumption DEF RobotsInv, GateFits, Held, InGate
    <2>2. Cardinality(Held(task)) \in Nat
      BY <2>1, RobotsAssumption, FS_Subset, FS_CardinalityType
    <2>3. CASE t \in Callers /\ Cardinality(InGate) >= Concurrency
      <3>1. task' = [task EXCEPT ![t] = "gate"] /\ gate' = Append(gate, t)
        BY <2>3 DEF Ask
      <3>2. task'[t] = "gate"
        BY <3>1, RobotsTyped
      <3>3. Held(task') = Held(task)
        BY <1>1, <1>3, <3>2 DEF Held, Tasks
      <3>4. /\ Append(gate, t) \in Seq(Callers) /\ IsInjective(Append(gate, t))
            /\ ToSet(Append(gate, t)) = ToSet(gate) \cup {t}
        BY <1>1, <2>1, <2>3, LineGrows
      <3>5. ToSet(gate) \cup {t} = {u \in Tasks : task'[u] = "gate"}
        BY <1>3, <2>1, <3>2
      <3>6. Cardinality(Held(task)) = Concurrency
        BY <2>1, <2>2, <2>3
      <3>. QED
        BY <2>1, <3>1, <3>3, <3>4, <3>5, <3>6 DEF GateFits
    <2>4. CASE ~(t \in Callers /\ Cardinality(InGate) >= Concurrency)
      <3>1. task' = [task EXCEPT ![t] = "checking"] /\ gate' = gate
        BY <2>4 DEF Ask
      <3>2. task'[t] = "checking"
        BY <3>1, RobotsTyped
      <3>3. {u \in Tasks : task'[u] = "gate"} = {u \in Tasks : task[u] = "gate"}
        BY <1>1, <1>3, <3>2
      <3>4. CASE t \in Callers
        <4>1. Held(task') = Held(task) \cup {t}
          BY <1>3, <3>2, <3>4 DEF Held, Tasks
        <4>2. Cardinality(Held(task) \cup {t}) = Cardinality(Held(task)) + 1
          BY <2>1, <3>4, PermitsCount
        <4>3. Cardinality(Held(task)) + 1 <= Concurrency /\ gate = <<>>
          BY <2>1, <2>2, <2>4, <3>4
        <4>. QED
          BY <2>1, <3>1, <3>3, <4>1, <4>2, <4>3 DEF GateFits
      <3>5. CASE t \notin Callers
        <4>1. Held(task') = Held(task)
          BY <1>3, <3>5 DEF Held, Tasks
        <4>. QED
          BY <2>1, <3>1, <3>3, <4>1 DEF GateFits
      <3>. QED
        BY <3>4, <3>5
    <2>. QED
      BY <2>3, <2>4
  <1>6. RobotsTypeOK'
    <2>1. hops' \in [Tasks -> 0 .. MaxHops]
      BY <1>1, RobotsAssumption DEF RobotsInv, RobotsTypeOK
    <2>. QED
      BY <1>1, <1>3, <1>5, <2>1 DEF RobotsInv, RobotsTypeOK, robotsVars, GateFits
  <1>. QED
    BY <1>4, <1>5, <1>6 DEF RobotsInv, GateFits, Held

\* Steps of one task that pass no gate and change no policy.
LEMMA QuietStepsKeepInv ==
  ASSUME RobotsInv, NEW t \in Tasks,
         CheckAllows(t) \/ CheckWaits(t) \/ WaitLooks(t) \/ \E p \in Pages : DownloadHops(t, p)
  PROVE  RobotsInv'
  <1>1. CASE WaitLooks(t) /\ closed
    BY <1>1, LeavesKeepsInv DEF WaitLooks
  <1>2. CASE ~(WaitLooks(t) /\ closed)
    <2>1. /\ UNCHANGED robotsVars /\ gate' = gate
          /\ \E to \in {"downloading", "polling", "asleep", "checking"} :
                /\ task' = [task EXCEPT ![t] = to]
                /\ to = "asleep" => ~closed /\ policy[Origin(t)] = "fetching"
                /\ to = "downloading" /\ ~closed => MayDownload(page[t], Origin(t))
                /\ to # "checking" => page' = page
          /\ task[t] \in {"checking", "polling", "downloading"}
          /\ page' = page \/ \E p \in Pages : page' = [page EXCEPT ![t] = p]
          /\ hops' = hops \/ (hops[t] < MaxHops /\ hops' = [hops EXCEPT ![t] = @ + 1])
      BY <1>2 DEF CheckAllows, CheckWaits, WaitLooks, DownloadHops, Goes, MayDownload
    <2>2. PICK to \in {"downloading", "polling", "asleep", "checking"} :
             /\ task' = [task EXCEPT ![t] = to]
             /\ to = "asleep" => ~closed /\ policy[Origin(t)] = "fetching"
             /\ to = "downloading" /\ ~closed => MayDownload(page[t], Origin(t))
             /\ to # "checking" => page' = page
      BY <2>1
    <2>3. /\ task' \in [Tasks -> States] /\ task'[t] = to
          /\ \A u \in Tasks \ {t} : task'[u] = task[u]
      BY <2>2, RobotsTyped DEF States
    <2>4. page' \in [Tasks -> Pages] /\ \A u \in Tasks \ {t} : page'[u] = page[u]
      BY <2>1, RobotsTyped
    <2>5. hops' \in [Tasks -> 0 .. MaxHops]
      <3>1. hops \in [Tasks -> 0 .. MaxHops] /\ MaxHops \in Nat
        BY RobotsAssumption DEF RobotsInv, RobotsTypeOK
      <3>2. hops[t] < MaxHops => hops[t] + 1 \in 0 .. MaxHops
        BY <3>1
      <3>. QED
        BY <2>1, <3>1, <3>2
    <2>6. FetchersKnown' /\ DownloadsAreAllowed' /\ SleepersAreWoken'
      BY <2>1, <2>2, <2>3, <2>4, PolicyStays, SMTT(30)
    <2>7. GateFits(gate', task')
      BY <2>1, <2>3, GateStays, ZenonT(60)
    <2>8. RobotsTypeOK'
      BY <2>1, <2>3, <2>4, <2>5 DEF RobotsInv, RobotsTypeOK, robotsVars
    <2>. QED
      BY <2>6, <2>7, <2>8 DEF RobotsInv, GateFits, Held
  <1>. QED
    BY <1>1, <1>2

LEMMA CheckFetchesKeepsInv ==
  ASSUME RobotsInv, NEW t \in Tasks, CheckFetches(t)
  PROVE  RobotsInv'
  <1>. PICK o \in Origins : o = Origin(t)
    BY RobotsTyped
  <1>1. /\ task[t] = "checking" /\ ~closed /\ policy[o] = "unknown"
        /\ policy' = [policy EXCEPT ![o] = "fetching"] /\ task' = [task EXCEPT ![t] = "fetching"]
        /\ page' = page /\ hops' = hops /\ gate' = gate /\ allows' = allows /\ closed' = closed
    BY DEF CheckFetches, Goes
  <1>2. /\ task' \in [Tasks -> States] /\ task'[t] = "fetching"
        /\ \A u \in Tasks \ {t} : task'[u] = task[u]
        /\ policy' \in [Origins -> {"unknown", "fetching", "ready", "unavailable"}]
        /\ policy'[o] = "fetching" /\ \A r \in Origins \ {o} : policy'[r] = policy[r]
        /\ \A u : Origin(u)' = Origin(u)
    BY <1>1, RobotsTyped DEF States, Origin
  <1>3. FetchersKnown'
    <2>1. Fetchers(o) = {} /\ \A r \in Origins \ {o} :
             IF policy[r] = "fetching" THEN \E u \in Tasks : Fetchers(r) = {u}
             ELSE Fetchers(r) = {}
      BY <1>1 DEF RobotsInv, FetchersKnown
    <2>2. Fetchers(o)' = {t}
      BY <1>1, <1>2, <2>1 DEF Fetchers
    <2>3. \A r \in Origins \ {o} : Fetchers(r)' = Fetchers(r)
      BY <1>1, <1>2 DEF Fetchers
    <2>. QED
      BY <1>2, <2>1, <2>2, <2>3 DEF FetchersKnown
  <1>4. DownloadsAreAllowed'
    <2>1. ASSUME NEW u \in Tasks, task'[u] = "downloading", page[u] \notin Exempt
          PROVE  \/ policy'[Origin(u)] = "unavailable"
                 \/ policy'[Origin(u)] = "ready" /\ page[u] \in allows[Origin(u)]
      <3>1. /\ u # t
            /\ \/ policy[Origin(u)] = "unavailable"
               \/ policy[Origin(u)] = "ready" /\ page[u] \in allows[Origin(u)]
        BY <1>1, <1>2, <2>1 DEF RobotsInv, DownloadsAreAllowed
      <3>2. Origin(u) \in Origins \ {o}
        BY <1>1, <3>1, RobotsTyped
      <3>. QED
        BY <1>2, <3>1, <3>2
    <2>. QED
      BY <1>1, <1>2, <2>1 DEF DownloadsAreAllowed
  <1>5. SleepersAreWoken'
    <2>1. ASSUME NEW u \in Tasks, task'[u] = "asleep"
          PROVE  policy'[Origin(u)] = "fetching"
      <3>1. policy[Origin(u)] = "fetching" /\ Origin(u) \in Origins
        BY <1>2, <2>1, RobotsTyped DEF RobotsInv, SleepersAreWoken
      <3>. QED
        BY <1>2, <3>1
    <2>. QED
      BY <1>1, <1>2, <2>1 DEF SleepersAreWoken
  <1>6. GateFits(gate', task')
    BY <1>1, <1>2, GateStays
  <1>7. RobotsTypeOK'
    BY <1>1, <1>2 DEF RobotsInv, RobotsTypeOK
  <1>. QED
    BY <1>3, <1>4, <1>5, <1>6, <1>7 DEF RobotsInv, GateFits, Held

\* The fetch of t ends, well, badly or cancelled: there was no other for its origin, and
\* everybody who slept on it looks again.
LEMMA SettleKeepsInv ==
  ASSUME RobotsInv, NEW t \in Tasks, task[t] = "fetching",
         NEW outcome \in {"ready", "unavailable"}, NEW tasks \in [Tasks -> States],
         tasks[t] \in {"idle", "checking"},
         \A u \in Tasks \ {t} :
            tasks[u] = task[u] \/ (task[u] = "gate" /\ tasks[u] = "checking"),
         Settle(t, outcome, tasks), GateFits(gate', tasks),
         page' = page, hops' = hops, allows' \in [Origins -> SUBSET Pages],
         \A r \in Origins \ {Origin(t)} : allows'[r] = allows[r]
  PROVE  RobotsInv'
  <1>. PICK o \in Origins : o = Origin(t)
    BY RobotsTyped
  <1>1. /\ ~closed /\ closed' = closed /\ policy' = [policy EXCEPT ![o] = outcome]
        /\ task' = [u \in Tasks |-> IF tasks[u] = "asleep" /\ Origin(u) = o
                                    THEN "polling" ELSE tasks[u]]
    BY DEF Settle, Notified
  <1>2. /\ policy' \in [Origins -> {"unknown", "fetching", "ready", "unavailable"}]
        /\ policy'[o] = outcome /\ \A r \in Origins \ {o} : policy'[r] = policy[r]
        /\ \A u : Origin(u)' = Origin(u)
    BY <1>1, RobotsTyped DEF Origin
  <1>3. /\ task' \in [Tasks -> States]
        /\ \A u \in Tasks : /\ task'[u] = "gate" <=> tasks[u] = "gate"
                            /\ task'[u] = "idle" <=> tasks[u] = "idle"
                            /\ task'[u] = "fetching" <=> u # t /\ task[u] = "fetching"
                            /\ task'[u] = "downloading" => task[u] = "downloading"
                            /\ task'[u] = "asleep" => task[u] = "asleep" /\ Origin(u) # o
    <2>1. \A u \in Tasks : task'[u] \in States
      BY <1>1 DEF States
    <2>. QED
      BY <1>1, <2>1
  <1>4. \A r \in Origins :
           IF policy[r] = "fetching" THEN \E u \in Tasks : Fetchers(r) = {u}
           ELSE Fetchers(r) = {}
    BY <1>1 DEF RobotsInv, FetchersKnown
  <1>5. Fetchers(o) = {t} /\ policy[o] = "fetching"
    <2>1. t \in Fetchers(o)
      BY DEF Fetchers
    <2>. QED
      BY <1>4, <2>1
  <1>6. FetchersKnown'
    <2>1. Fetchers(o)' = {}
      BY <1>2, <1>3, <1>5 DEF Fetchers
    <2>2. \A r \in Origins \ {o} : Fetchers(r)' = Fetchers(r)
      BY <1>2, <1>3 DEF Fetchers
    <2>3. policy'[o] # "fetching"
      BY <1>2
    <2>. QED
      BY <1>2, <1>4, <2>1, <2>2, <2>3 DEF FetchersKnown
  <1>7. DownloadsAreAllowed'
    <2>1. ASSUME NEW u \in Tasks, task'[u] = "downloading", page[u] \notin Exempt
          PROVE  \/ policy'[Origin(u)] = "unavailable"
                 \/ policy'[Origin(u)] = "ready" /\ page[u] \in allows'[Origin(u)]
      <3>1. \/ policy[Origin(u)] = "unavailable"
            \/ policy[Origin(u)] = "ready" /\ page[u] \in allows[Origin(u)]
        BY <1>1, <1>3, <2>1 DEF RobotsInv, DownloadsAreAllowed
      <3>2. Origin(u) \in Origins \ {o}
        BY <1>5, <3>1, RobotsTyped
      <3>. QED
        BY <1>2, <3>1, <3>2
    <2>. QED
      BY <1>2, <2>1 DEF DownloadsAreAllowed
  <1>8. SleepersAreWoken'
    <2>1. ASSUME NEW u \in Tasks, task'[u] = "asleep"
          PROVE  policy'[Origin(u)] = "fetching"
      <3>1. policy[Origin(u)] = "fetching" /\ Origin(u) \in Origins \ {o}
        BY <1>3, <2>1, RobotsTyped DEF RobotsInv, SleepersAreWoken
      <3>. QED
        BY <1>2, <3>1
    <2>. QED
      BY <1>1, <1>2, <2>1 DEF SleepersAreWoken
  <1>9. GateFits(gate', task')
    <2>1. Held(task') = Held(tasks) /\
          {u \in Tasks : task'[u] = "gate"} = {u \in Tasks : tasks[u] = "gate"}
      BY <1>3 DEF Held, Tasks
    <2>. QED
      BY <2>1 DEF GateFits
  <1>10. RobotsTypeOK'
    BY <1>1, <1>2, <1>3, <1>9 DEF RobotsInv, RobotsTypeOK, GateFits
  <1>. QED
    BY <1>6, <1>7, <1>8, <1>9, <1>10 DEF RobotsInv, GateFits, Held

LEMMA FetchEndsKeepsInv ==
  ASSUME RobotsInv, NEW t \in Tasks, FetchAnswered(t) \/ FetchFails(t) \/ FetchCancelled(t)
  PROVE  RobotsInv'
  <1>1. task[t] = "fetching" /\ page' = page /\ hops' = hops
        /\ allows \in [Origins -> SUBSET Pages] /\ Origin(t) \in Origins
    BY RobotsTyped DEF FetchAnswered, FetchFails, FetchCancelled, RobotsInv, RobotsTypeOK
  <1>. DEFINE stays == [task EXCEPT ![t] = "checking"]
  <1>2. /\ stays \in [Tasks -> States] /\ stays[t] = "checking"
        /\ \A u \in Tasks \ {t} : stays[u] = task[u]
    BY RobotsTyped DEF States
  <1>3. ASSUME gate' = gate
        PROVE  GateFits(gate', stays)
    <2>. HIDE DEF stays
    <2>1. Held(stays) = Held(task)
          /\ {u \in Tasks : stays[u] = "gate"} = {u \in Tasks : task[u] = "gate"}
      BY <1>1, <1>2 DEF Held, Tasks
    <2>. QED
      BY <1>3, <2>1 DEF RobotsInv, GateFits
  <1>4. CASE FetchCancelled(t)
    <2>1. Settle(t, "unavailable", Left(t)) /\ gate' = GateAfter(t) /\ allows' = allows
      BY <1>4 DEF FetchCancelled
    <2>2. /\ Left(t) \in [Tasks -> States] /\ Left(t)[t] = "idle"
          /\ \A u \in Tasks \ {t} :
                Left(t)[u] = task[u] \/ (task[u] = "gate" /\ Left(t)[u] = "checking")
          /\ GateFits(gate', Left(t))
      BY <1>1, <2>1, LeavingIs
    <2>. QED
      BY <1>1, <2>1, <2>2, SettleKeepsInv
  <1>5. CASE FetchFails(t)
    <2>1. Settle(t, "unavailable", stays) /\ gate' = gate /\ allows' = allows
      BY <1>5 DEF FetchFails
    <2>. HIDE DEF stays
    <2>. QED
      BY <1>1, <1>2, <1>3, <2>1, SettleKeepsInv
  <1>6. CASE FetchAnswered(t)
    <2>1. /\ Settle(t, "ready", stays) /\ gate' = gate
          /\ \E allowed \in SUBSET Pages : allows' = [allows EXCEPT ![Origin(t)] = allowed]
      BY <1>6 DEF FetchAnswered
    <2>2. /\ allows' \in [Origins -> SUBSET Pages]
          /\ \A r \in Origins \ {Origin(t)} : allows'[r] = allows[r]
      BY <1>1, <2>1
    <2>. HIDE DEF stays
    <2>. QED
      BY <1>1, <1>2, <1>3, <2>1, <2>2, SettleKeepsInv
  <1>. QED
    BY <1>4, <1>5, <1>6

LEMMA CloseKeepsInv ==
  ASSUME RobotsInv, Close
  PROVE  RobotsInv'
  <1>1. /\ closed' = TRUE /\ policy' = [o \in Origins |-> "unknown"]
        /\ task' = [t \in Tasks |-> IF task[t] = "asleep" THEN "polling" ELSE task[t]]
        /\ allows' = allows /\ page' = page /\ hops' = hops /\ gate' = gate
    BY DEF Close
  <1>2. \A u \in Tasks : /\ task'[u] \in States
                         /\ task'[u] = "gate" <=> task[u] = "gate"
                         /\ task'[u] = "idle" <=> task[u] = "idle"
                         /\ task'[u] # "asleep"
    BY <1>1, RobotsTyped DEF States
  <1>3. task' \in [Tasks -> States]
    BY <1>1, <1>2
  <1>4. GateFits(gate', task')
    BY <1>1, <1>2, GateStays
  <1>5. FetchersKnown' /\ DownloadsAreAllowed' /\ SleepersAreWoken'
    BY <1>1, <1>2 DEF FetchersKnown, DownloadsAreAllowed, SleepersAreWoken
  <1>6. RobotsTypeOK'
    BY <1>1, <1>3 DEF RobotsInv, RobotsTypeOK
  <1>. QED
    BY <1>4, <1>5, <1>6 DEF RobotsInv, GateFits, Held

LEMMA RobotsInit == Init => RobotsInv
  <1>. SUFFICES ASSUME Init PROVE RobotsInv
    OBVIOUS
  <1>1. /\ policy = [o \in Origins |-> "unknown"] /\ allows = [o \in Origins |-> {}]
        /\ closed = FALSE /\ task = [t \in Tasks |-> "idle"]
        /\ page = [t \in Tasks |-> CHOOSE p \in Pages : TRUE] /\ hops = [t \in Tasks |-> 0]
        /\ gate = <<>>
    BY DEF Init
  <1>2. RobotsTypeOK
    <2>. DEFINE some == CHOOSE p \in Pages : TRUE
    <2>1. some \in Pages /\ 0 \in 0 .. MaxHops
      BY RobotsAssumption
    <2>2. page = [t \in Tasks |-> some] /\ gate \in Seq(Callers)
      BY <1>1
    <2>. HIDE DEF some
    <2>3. page \in [Tasks -> Pages] /\ hops \in [Tasks -> 0 .. MaxHops]
      BY <1>1, <2>1, <2>2
    <2>4. /\ policy \in [Origins -> {"unknown", "fetching", "ready", "unavailable"}]
          /\ allows \in [Origins -> SUBSET Pages] /\ closed \in BOOLEAN
          /\ task \in [Tasks -> States]
      BY <1>1 DEF States
    <2>. QED
      BY <2>2, <2>3, <2>4 DEF RobotsTypeOK
  <1>3. FetchersKnown /\ DownloadsAreAllowed /\ SleepersAreWoken
    <2>1. \A o \in Origins : Fetchers(o) = {} /\ policy[o] # "fetching"
      BY <1>1 DEF Fetchers
    <2>. QED
      BY <1>1, <2>1 DEF FetchersKnown, DownloadsAreAllowed, SleepersAreWoken
  <1>4. GateFits(gate, task)
    <2>1. Held(task) = {} /\ {t \in Tasks : task[t] = "gate"} = {}
      BY <1>1 DEF Held, Tasks
    <2>2. Cardinality({}) = 0 /\ Concurrency \in Nat
      BY FS_EmptySet, RobotsAssumption
    <2>3. gate \in Seq(Callers) /\ ToSet(gate) = {} /\ IsInjective(gate)
      <3>1. gate \in Seq(Callers) /\ gate = <<>>
        BY <1>1
      <3>2. ToSet(gate) = {}
        BY <3>1, LineIs
      <3>3. IsInjective(gate)
        BY <3>1 DEF IsInjective
      <3>. QED
        BY <3>1, <3>2, <3>3
    <2>. QED
      BY <1>1, <2>1, <2>2, <2>3 DEF GateFits
  <1>. QED
    BY <1>2, <1>3, <1>4 DEF RobotsInv

LEMMA RobotsStep == RobotsInv /\ [Next]_vars => RobotsInv'
  <1>. SUFFICES ASSUME RobotsInv, [Next]_vars PROVE RobotsInv'
    OBVIOUS
  <1>1. ASSUME NEW t \in Tasks,
               CheckRaises(t) \/ FetchTooLate(t) \/ DownloadEnds(t) \/ Cancelled(t)
        PROVE  RobotsInv'
    <2>1. /\ Leaves(t) /\ UNCHANGED robotsVars
          /\ task[t] # "idle" /\ (closed \/ task[t] # "fetching")
      BY <1>1 DEF CheckRaises, FetchTooLate, DownloadEnds, Cancelled
    <2>. QED
      BY <2>1, LeavesKeepsInv
  <1>2. CASE UNCHANGED vars
    <2>1. UNCHANGED <<policy, allows, closed, task, page, hops, gate>>
      BY <1>2 DEF vars
    <2>2. FetchersKnown' /\ DownloadsAreAllowed' /\ SleepersAreWoken'
      BY <2>1, PolicyStays DEF robotsVars
    <2>3. GateFits(gate', task')
      BY <2>1, GateStays
    <2>4. RobotsTypeOK'
      BY <2>1 DEF RobotsInv, RobotsTypeOK
    <2>. QED
      BY <2>2, <2>3, <2>4 DEF RobotsInv, GateFits, Held
  <1>3. CASE Close
    BY <1>3, CloseKeepsInv
  <1>4. ASSUME NEW t \in Tasks, NEW p \in Pages, Ask(t, p)
        PROVE  RobotsInv'
    BY <1>4, AskKeepsInv
  <1>5. ASSUME NEW t \in Tasks,
               \/ CheckAllows(t) \/ CheckWaits(t) \/ WaitLooks(t)
               \/ \E p \in Pages : DownloadHops(t, p)
        PROVE  RobotsInv'
    BY <1>5, QuietStepsKeepInv
  <1>6. ASSUME NEW t \in Tasks, CheckFetches(t)
        PROVE  RobotsInv'
    BY <1>6, CheckFetchesKeepsInv
  <1>7. ASSUME NEW t \in Tasks, FetchAnswered(t) \/ FetchFails(t) \/ FetchCancelled(t)
        PROVE  RobotsInv'
    BY <1>7, FetchEndsKeepsInv
  <1>. QED
    BY <1>1, <1>2, <1>3, <1>4, <1>5, <1>6, <1>7 DEF Next, Check, FetchEnds

LEMMA RobotsInvHolds == Spec => []RobotsInv
  BY RobotsInit, RobotsStep, PTL DEF Spec

\* The shape of the policies, the downloads and the gate, for any tasks and pages.
THEOREM RobotsTypeCorrect == Spec => []RobotsTypeOK
  <1>1. RobotsInv => RobotsTypeOK
    BY DEF RobotsInv
  <1>. QED
    BY <1>1, RobotsInvHolds, PTL

\* The middleware obeys robots.txt: each origin's file is fetched by exactly one download at
\* a time, however fetches end; no page is under download against the policy as it stands;
\* and who sleeps on a policy sleeps on one that somebody still fetches.
THEOREM RobotsAreObeyed == Spec => []PolicyIsRespected
  <1>1. RobotsInv => PolicyIsRespected
    <2>. SUFFICES ASSUME RobotsInv PROVE PolicyIsRespected
      OBVIOUS
    <2>1. ASSUME ~closed, NEW o \in Origins
          PROVE  Cardinality(Fetchers(o)) = IF policy[o] = "fetching" THEN 1 ELSE 0
      <3>1. CASE policy[o] = "fetching"
        <4>1. PICK t \in Tasks : Fetchers(o) = {t}
          BY <2>1, <3>1 DEF RobotsInv, FetchersKnown
        <4>. QED
          BY <3>1, <4>1, FS_Singleton
      <3>2. CASE policy[o] # "fetching"
        <4>1. Fetchers(o) = {}
          BY <2>1, <3>2 DEF RobotsInv, FetchersKnown
        <4>. QED
          BY <3>2, <4>1, FS_EmptySet
      <3>. QED
        BY <3>1, <3>2
    <2>2. OneFetcher
      BY <2>1 DEF OneFetcher, Fetchers
    <2>. QED
      BY <2>2 DEF RobotsInv, PolicyIsRespected
  <1>. QED
    BY <1>1, RobotsInvHolds, PTL

\* The gate of download_async: at most CONCURRENT_REQUESTS downloads of extensions and
\* pipelines are under way at once, nobody waits in line while a permit is free, and
\* however downloads end, are cancelled or raise, no permit is lost and none is made.
THEOREM GateLosesNoPermit == Spec => []GateIsKept
  <1>1. RobotsInv => GateIsKept
    <2>. SUFFICES ASSUME RobotsInv PROVE GateIsKept
      OBVIOUS
    <2>1. InGate = Held(task)
      BY DEF InGate, Held
    <2>. QED
      BY <2>1 DEF RobotsInv, GateFits, GateIsKept
  <1>. QED
    BY <1>1, RobotsInvHolds, PTL
=============================================================================
