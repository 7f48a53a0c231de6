---------------------------- MODULE PythonSlots ----------------------------
(***************************************************************************)
(* The download slots of the Python engine (python_slots.py) with the      *)
(* AutoThrottle extension (operational.py).                                *)
(*                                                                         *)
(* A request goes through the slot's semaphore, then through its lock,     *)
(* under which it sleeps until the slot's next start, and transfers while  *)
(* it holds the semaphore.  Both are fair queues: line[k].lock holds the   *)
(* tasks that have the semaphore and have not started, its head being the  *)
(* holder of the lock.                                                     *)
(***************************************************************************)
EXTENDS SlotSettings, SequencesExt

VARIABLES
    keyOf,
    task,
    alarm,      \* per task: time its sleep under the lock still takes, or NoAlarm
    since,      \* per key: age of last_start
    line,       \* per key: the tasks that wait for the semaphore and for the lock
    delay,      \* per key: the slot's delay
    due         \* per key: next_start less the present time

pythonVars == <<keyOf, task, alarm, since, line, delay, due>>

NoAlarm == -1

PythonStates == {"idle", "waiting", "fetching"}

PythonInit ==
    /\ keyOf \in Layouts
    /\ task = [t \in Tasks |-> "idle"]
    /\ alarm = [t \in Tasks |-> NoAlarm]
    /\ since = [k \in Keys |-> Horizon]
    /\ line = [k \in Keys |-> [semaphore |-> <<>>, lock |-> <<>>]]
    /\ delay = Delay
    /\ due = [k \in Keys |-> 0]

PythonRunning == [k \in Keys |-> {t \in Tasks : keyOf[t] = k /\ task[t] = "fetching"}]

Free(k) == Len(line[k].lock) + Cardinality(PythonRunning[k]) < Concurrency[k]

(***************************************************************************)
(* The line of k becomes q.  A task that comes to the head of the lock     *)
(* falls asleep until next_start, which is wait units away by then.        *)
(***************************************************************************)
Advance(k, q, wait) ==
    /\ line' = [line EXCEPT ![k] = q]
    /\ alarm' = [t \in Tasks |->
                   IF keyOf[t] # k THEN alarm[t]
                   ELSE IF q.lock = <<>> THEN NoAlarm
                   ELSE IF Head(q.lock) # t THEN NoAlarm
                   ELSE IF alarm[t] # NoAlarm THEN alarm[t]
                   ELSE Larger(0, wait)]

\* One task leaves the semaphore: the first that waits for it goes on to the lock.
Admit(q) ==
    IF q.semaphore = <<>> THEN q
    ELSE [semaphore |-> Tail(q.semaphore), lock |-> Append(q.lock, Head(q.semaphore))]

Enter(t) ==
    /\ task[t] = "idle"
    /\ LET k == keyOf[t]
       IN  Advance(k,
                   IF Free(k) THEN [line[k] EXCEPT !.lock = Append(@, t)]
                   ELSE [line[k] EXCEPT !.semaphore = Append(@, t)],
                   due[k])
    /\ task' = [task EXCEPT ![t] = "waiting"]
    /\ UNCHANGED <<keyOf, since, delay, due>>

StartUnspaced(t) ==
    /\ task[t] = "waiting"
    /\ alarm[t] = 0
    /\ LET k == keyOf[t]
       IN  /\ due' = [due EXCEPT ![k] = 0]
           /\ since' = [since EXCEPT ![k] = 0]
           /\ Advance(k, [line[k] EXCEPT !.lock = Tail(@)], 0)
    /\ task' = [task EXCEPT ![t] = "fetching"]
    /\ UNCHANGED <<keyOf, delay>>

\* The sleep ends: the slot's next start is set, the lock given up, the transfer begun.
StartTransfer(t) ==
    /\ task[t] = "waiting"
    /\ alarm[t] = 0
    /\ LET k == keyOf[t]
       IN  \E d \in Samples(k, delay[k]) :
              /\ due' = [due EXCEPT ![k] = d]
              /\ since' = [since EXCEPT ![k] = 0]
              /\ Advance(k, [line[k] EXCEPT !.lock = Tail(@)], d)
    /\ task' = [task EXCEPT ![t] = "fetching"]
    /\ UNCHANGED <<keyOf, delay>>

\* A transfer that fails or is cancelled, or whose response AutoThrottle leaves alone.
EndTransfer(t) ==
    /\ task[t] = "fetching"
    /\ Advance(keyOf[t], Admit(line[keyOf[t]]), due[keyOf[t]])
    /\ task' = [task EXCEPT ![t] = "idle"]
    /\ UNCHANGED <<keyOf, since, delay, due>>

(***************************************************************************)
(* response_downloaded is sent without a suspension after the semaphore is *)
(* released, hence before the next task computes its sleep; the task that  *)
(* sleeps under the lock keeps the sleep it has.                           *)
(***************************************************************************)
EndTransferThrottled(t, latency, ok) ==
    /\ task[t] = "fetching"
    /\ LET k == keyOf[t]
           new == IF Ignored(delay[k], latency, ok) THEN delay[k]
                  ELSE Throttled(delay[k], latency)
           wait == Larger(due[k], new - since[k])
       IN  /\ delay' = [delay EXCEPT ![k] = new]
           /\ due' = [due EXCEPT ![k] = wait]
           /\ Advance(k, Admit(line[k]), wait)
    /\ task' = [task EXCEPT ![t] = "idle"]
    /\ UNCHANGED <<keyOf, since>>

\* The task is cancelled while it waits or sleeps.
LeaveLine(t) ==
    /\ task[t] = "waiting"
    /\ LET k == keyOf[t]
           q == [semaphore |-> RemoveFirst(line[k].semaphore, t),
                 lock |-> RemoveFirst(line[k].lock, t)]
       IN  Advance(k, IF Contains(line[k].lock, t) THEN Admit(q) ELSE q, due[k])
    /\ task' = [task EXCEPT ![t] = "idle"]
    /\ UNCHANGED <<keyOf, since, delay, due>>

PythonTick ==
    /\ since' = [k \in Keys |-> IF since[k] < Horizon THEN since[k] + 1 ELSE since[k]]
    /\ due' = [k \in Keys |-> IF due[k] > 0 THEN due[k] - 1 ELSE 0]
    /\ alarm' = [t \in Tasks |-> IF alarm[t] > 0 THEN alarm[t] - 1 ELSE alarm[t]]
    /\ UNCHANGED <<keyOf, task, line, delay>>

PythonNext ==
    \/ \E t \in Tasks :
          \/ Enter(t) \/ StartTransfer(t) \/ EndTransfer(t) \/ LeaveLine(t)
          \/ \E latency \in Latencies, ok \in BOOLEAN : EndTransferThrottled(t, latency, ok)
    \/ PythonTick

-----------------------------------------------------------------------------

PythonWaiting(k) == {t \in Tasks : keyOf[t] = k /\ task[t] = "waiting"}

PythonTypeOK ==
    /\ keyOf \in Layouts
    /\ task \in [Tasks -> PythonStates]
    /\ alarm \in [Tasks -> {NoAlarm} \cup Nat]
    /\ since \in [Keys -> 0 .. Horizon]
    /\ line \in [Keys -> [semaphore : Seq(Tasks), lock : Seq(Tasks)]]
    /\ {delay, due} \subseteq [Keys -> Nat]

\* Every waiting task stands in line once, and no permit of the semaphore is lost.
PythonCountsMatch ==
    \A k \in Keys :
        LET whole == line[k].semaphore \o line[k].lock
        IN  /\ Len(whole) = Cardinality(PythonWaiting(k))
            /\ ToSet(whole) = PythonWaiting(k)
            /\ line[k].semaphore # <<>> => ~Free(k)

\* The holder of the lock sleeps, and not past the slot's next start.
PythonNoOversleep ==
    \A k \in Keys :
        line[k].lock # <<>> => alarm[Head(line[k].lock)] \in 0 .. due[k]
=============================================================================
