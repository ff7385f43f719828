----------------------------- MODULE CoreProofs -----------------------------
(***************************************************************************)
(* Proofs about core/queue.ts for every set of tasks and every             *)
(* concurrency, about plugins/antiflood.ts, which is built on it, for      *)
(* every set of messages and every delay, and about core/plugins.ts, for   *)
(* every dependency graph and every request.  The queue and the loader     *)
(* share nothing: each has its specification, Spec and LoaderSpec.         *)
(***************************************************************************)
EXTENDS Antiflood, PluginLoader, FiniteSetTheorems, SequenceTheorems, TLAPS

(* How many tasks have left the queue's line: started, or settled since.   *)
Started == Len(added) - Len(queue)

(* The tail of `added` is exactly what waits, in the same order; what came *)
(* before it has started.                                                  *)
Line == /\ Len(queue) <= Len(added)
        /\ \A i \in 1 .. Len(queue) : queue[i] = added[Started + i]
        /\ \A i \in 1 .. Len(added) :
             IF i <= Started THEN status[added[i]] \in {"running"} \cup Outcome
                             ELSE status[added[i]] = "waiting"

(* Every task is added at most once, and is new until then.                *)
AddedOnce == /\ \A i, j \in 1 .. Len(added) : added[i] = added[j] => i = j
             /\ \A i \in 1 .. Len(added) : status[added[i]] # "new"
             /\ \A t \in Task : status[t] # "new" =>
                                  \E i \in 1 .. Len(added) : added[i] = t

(* Slots and tasks are counted alike.                                      *)
Counted == /\ IsFiniteSet(Running) /\ IsFiniteSet(Settled)
           /\ pending = Cardinality(Running)
           /\ Cardinality(Settled) + pending = Started
           /\ queue # <<>> => pending = Concurrency

IInv == TypeOK /\ Line /\ AddedOnce /\ Counted

-----------------------------------------------------------------------------
LEMMA InitIInv == Init => IInv
<1> SUFFICES ASSUME Init PROVE IInv
  OBVIOUS
<1>1. TypeOK
  BY ConcurrencyAssumption DEF Init, TypeOK, Status
<1>2. Running = {} /\ Settled = {}
  BY DEF Init, Running, Settled, Outcome
<1>3. Counted
  BY <1>2, FS_EmptySet DEF Init, Counted, Started
<1>4. Line /\ AddedOnce
  BY DEF Init, Line, AddedOnce, Started
<1> QED
  BY <1>1, <1>3, <1>4 DEF IInv

(* What add() does to the history is the same in both its branches.        *)
LEMMA AddedGrows ==
  ASSUME IInv, NEW t \in Task, NEW s \in Status \ {"new"}, status[t] = "new",
         status' = [status EXCEPT ![t] = s], added' = Append(added, t)
  PROVE  /\ added' \in Seq(Task) /\ Len(added') = Len(added) + 1
         /\ added'[Len(added) + 1] = t /\ status'[t] = s
         /\ \A i \in 1 .. Len(added) : /\ added'[i] = added[i]
                                       /\ added[i] \in Task \ {t}
                                       /\ status'[added[i]] = status[added[i]]
         /\ AddedOnce'
<1> USE DEF IInv
<1>1. /\ added' \in Seq(Task) /\ Len(added') = Len(added) + 1
      /\ added'[Len(added) + 1] = t /\ status'[t] = s
      /\ \A i \in 1 .. Len(added) : added'[i] = added[i] /\ added[i] \in Task
  BY DEF TypeOK
<1>2. \A i \in 1 .. Len(added) : added[i] # t
  BY DEF AddedOnce
<1>3. \A i \in 1 .. Len(added) : status'[added[i]] = status[added[i]]
  BY <1>1, <1>2 DEF TypeOK
<1>4. \A i, j \in 1 .. Len(added') : added'[i] = added'[j] => i = j
  BY <1>1, <1>2 DEF AddedOnce, TypeOK
<1>5. \A i \in 1 .. Len(added') : status'[added'[i]] # "new"
  <2> SUFFICES ASSUME NEW i \in 1 .. Len(added') PROVE status'[added'[i]] # "new"
    OBVIOUS
  <2>1. CASE i = Len(added) + 1
    BY <1>1, <2>1
  <2>2. CASE i \in 1 .. Len(added)
    BY <1>1, <1>3, <2>2 DEF AddedOnce
  <2> QED
    BY <1>1, <2>1, <2>2 DEF TypeOK
<1>6. ASSUME NEW u \in Task, status'[u] # "new"
      PROVE  \E i \in 1 .. Len(added') : added'[i] = u
  <2>1. CASE u = t
    BY <1>1, <2>1 DEF TypeOK
  <2>2. CASE u # t
    <3>1. status[u] # "new"
      BY <2>2, <1>6 DEF TypeOK
    <3>2. PICK i \in 1 .. Len(added) : added[i] = u
      BY <3>1 DEF AddedOnce
    <3> QED
      BY <3>2, <1>1 DEF TypeOK
  <2> QED
    BY <2>1, <2>2
<1> QED
  BY <1>1, <1>2, <1>3, <1>4, <1>5, <1>6 DEF AddedOnce

(* A new task that takes a free slot (nothing waits then).                 *)
LEMMA AddRunsIInv ==
  ASSUME IInv, NEW t \in Task, status[t] = "new", AddRuns(t), added' = Append(added, t)
  PROVE  IInv'
<1> USE DEF IInv
<1>1. /\ queue = <<>> /\ queue' = <<>> /\ Len(queue) = 0
      /\ pending' = pending + 1 /\ pending < Concurrency /\ pending \in Nat
  BY ConcurrencyAssumption DEF Counted, AddRuns, HasSlot, TypeOK
<1>2. status' = [status EXCEPT ![t] = "running"] /\ status \in [Task -> Status]
  BY DEF AddRuns, TypeOK
<1>3. /\ added' \in Seq(Task) /\ Len(added') = Len(added) + 1
      /\ added'[Len(added) + 1] = t /\ status'[t] = "running"
      /\ \A i \in 1 .. Len(added) : /\ added'[i] = added[i]
                                    /\ added[i] \in Task \ {t}
                                    /\ status'[added[i]] = status[added[i]]
      /\ AddedOnce'
  BY <1>2, AddedGrows DEF Status
<1>4. Started = Len(added) /\ Started' = Len(added) + 1 /\ Len(added) \in Nat
  BY <1>1, <1>3 DEF Started, TypeOK
<1>5. TypeOK'
  BY <1>1, <1>2, <1>3, ConcurrencyAssumption DEF TypeOK, Status
<1>6. Line'
  BY <1>1, <1>3, <1>4 DEF Line
<1>7. Counted'
  <2>1. Running' = Running \cup {t} /\ t \notin Running /\ Settled' = Settled
    BY <1>2 DEF Running, Settled, Outcome
  <2>2. IsFiniteSet(Running') /\ Cardinality(Running') = Cardinality(Running) + 1
    BY <2>1, FS_AddElement DEF Counted
  <2>3. Cardinality(Settled) \in Nat
    BY FS_CardinalityType DEF Counted
  <2> QED
    BY <1>1, <1>4, <2>1, <2>2, <2>3 DEF Counted
<1> QED
  BY <1>3, <1>5, <1>6, <1>7

(* A new task that has to wait goes to the end of the line.                *)
LEMMA AddWaitsIInv ==
  ASSUME IInv, NEW t \in Task, status[t] = "new", AddWaits(t), added' = Append(added, t)
  PROVE  IInv'
<1> USE DEF IInv
<1>1. pending = Concurrency /\ pending' = pending
  BY ConcurrencyAssumption DEF AddWaits, HasSlot, TypeOK
<1>2. status' = [status EXCEPT ![t] = "waiting"] /\ status \in [Task -> Status]
  BY DEF AddWaits, TypeOK
<1>3. /\ added' \in Seq(Task) /\ Len(added') = Len(added) + 1
      /\ added'[Len(added) + 1] = t /\ status'[t] = "waiting"
      /\ \A i \in 1 .. Len(added) : /\ added'[i] = added[i]
                                    /\ added[i] \in Task \ {t}
                                    /\ status'[added[i]] = status[added[i]]
      /\ AddedOnce'
  BY <1>2, AddedGrows DEF Status
<1>4. /\ Len(queue') = Len(queue) + 1
      /\ \A i \in 1 .. Len(queue) : queue'[i] = queue[i]
      /\ queue'[Len(queue) + 1] = t
      /\ queue' \in Seq(Task)
  BY DEF AddWaits, TypeOK
<1>5. /\ Started' = Started /\ Started + Len(queue) = Len(added)
      /\ Started \in Nat /\ Len(added) \in Nat /\ Len(queue) \in Nat
  BY <1>3, <1>4 DEF Started, Line, TypeOK
<1>6. TypeOK'
  BY <1>1, <1>2, <1>3, <1>4 DEF TypeOK, Status
<1>7. Line'
  <2>1. ASSUME NEW i \in 1 .. Len(queue') PROVE queue'[i] = added'[Started + i]
    <3>1. CASE i = Len(queue) + 1
      <4>1. Started + i = Len(added) + 1
        BY <1>5, <3>1
      <4> QED
        BY <1>3, <1>4, <3>1, <4>1
    <3>2. CASE i \in 1 .. Len(queue)
      <4>1. queue[i] = added[Started + i] /\ Started + i \in 1 .. Len(added)
        BY <1>5, <3>2 DEF Line
      <4> QED
        BY <1>3, <1>4, <3>2, <4>1
    <3> QED
      BY <1>4, <1>5, <3>1, <3>2
  <2>2. ASSUME NEW i \in 1 .. Len(added')
        PROVE  IF i <= Started THEN status'[added'[i]] \in {"running"} \cup Outcome
                               ELSE status'[added'[i]] = "waiting"
    <3>1. CASE i = Len(added) + 1
      BY <1>3, <1>5, <3>1
    <3>2. CASE i \in 1 .. Len(added)
      BY <1>3, <3>2 DEF Line
    <3> QED
      BY <1>3, <1>5, <3>1, <3>2
  <2> QED
    BY <1>3, <1>4, <1>5, <2>1, <2>2 DEF Line
<1>8. Counted'
  <2>1. Running' = Running /\ Settled' = Settled
    BY <1>2 DEF Running, Settled, Outcome
  <2> QED
    BY <1>1, <1>5, <2>1 DEF Counted
<1> QED
  BY <1>3, <1>6, <1>7, <1>8

(* A task settles and nobody waits: a slot becomes free.                   *)
LEMMA ReleaseIdleIInv ==
  ASSUME IInv, NEW t \in Task, NEW o \in Outcome, status[t] = "running",
         ReleaseIdle(t, o), UNCHANGED added
  PROVE  IInv'
<1> USE DEF IInv
<1>1. /\ queue = <<>> /\ queue' = <<>> /\ pending' = pending - 1 /\ added' = added
      /\ status' = [status EXCEPT ![t] = o] /\ status \in [Task -> Status]
  BY DEF ReleaseIdle, TypeOK
<1>2. Running' = Running \ {t} /\ t \in Running
  BY <1>1 DEF Running, Outcome
<1>3. Settled' = Settled \cup {t} /\ t \notin Settled
  BY <1>1 DEF Settled, Outcome
<1>4. /\ IsFiniteSet(Running') /\ Cardinality(Running') = Cardinality(Running) - 1
      /\ IsFiniteSet(Settled') /\ Cardinality(Settled') = Cardinality(Settled) + 1
  BY <1>2, <1>3, FS_AddElement, FS_RemoveElement DEF Counted
<1>5. Started' = Started
  BY <1>1 DEF Started
<1>6. Cardinality(Running') \in Nat /\ Cardinality(Settled) \in Nat
  BY <1>4, FS_CardinalityType DEF Counted
<1>7. Counted'
  BY <1>1, <1>4, <1>5, <1>6 DEF Counted, TypeOK
<1>8. TypeOK'
  BY <1>1, <1>4, <1>6, ConcurrencyAssumption DEF TypeOK, Counted, Status
<1>9. Line'
  BY <1>1, <1>5 DEF Line, TypeOK
<1>10. AddedOnce'
  BY <1>1 DEF AddedOnce, TypeOK, Outcome
<1> QED
  BY <1>7, <1>8, <1>9, <1>10

(* A task settles and hands its slot to the first of those that wait.      *)
LEMMA ReleaseNextIInv ==
  ASSUME IInv, NEW t \in Task, NEW o \in Outcome, status[t] = "running",
         ReleaseNext(t, o), UNCHANGED added
  PROVE  IInv'
<1> USE DEF IInv
<1> DEFINE h == queue[1]
<1>1. /\ queue # <<>> /\ queue' = Tail(queue) /\ pending' = pending /\ added' = added
      /\ status' = [status EXCEPT ![t] = o, ![h] = "running"]
      /\ status \in [Task -> Status]
  BY DEF ReleaseNext, Shift, TypeOK
<1>2. /\ Len(queue) \in Nat \ {0} /\ Len(queue') = Len(queue) - 1 /\ queue' \in Seq(Task)
      /\ \A i \in 1 .. Len(queue') : queue'[i] = queue[i + 1]
  BY <1>1 DEF TypeOK
<1>3. /\ Started' = Started + 1 /\ Started \in Nat /\ Started + 1 \in 1 .. Len(added)
      /\ Len(added) \in Nat
  BY <1>1, <1>2 DEF Started, Line, TypeOK
<1>4. h \in Task /\ h = added[Started + 1] /\ status[h] = "waiting" /\ h # t
  BY <1>2, <1>3 DEF Line, TypeOK
<1>5. Running' = (Running \ {t}) \cup {h} /\ t \in Running /\ h \notin Running
  BY <1>1, <1>4 DEF Running, Outcome
<1>6. Settled' = Settled \cup {t} /\ t \notin Settled
  BY <1>1, <1>4 DEF Settled, Outcome
<1>7. Counted'
  <2>1. IsFiniteSet(Running \ {t}) /\ Cardinality(Running \ {t}) = Cardinality(Running) - 1
    BY <1>5, FS_RemoveElement DEF Counted
  <2>2. IsFiniteSet(Running') /\ Cardinality(Running') = Cardinality(Running \ {t}) + 1
    BY <1>5, <2>1, FS_AddElement
  <2>3. IsFiniteSet(Settled') /\ Cardinality(Settled') = Cardinality(Settled) + 1
    BY <1>6, FS_AddElement DEF Counted
  <2>4. Cardinality(Running) \in Nat /\ Cardinality(Settled) \in Nat
    BY FS_CardinalityType DEF Counted
  <2> QED
    BY <1>1, <1>3, <2>1, <2>2, <2>3, <2>4 DEF Counted, TypeOK
<1>8. TypeOK'
  BY <1>1, <1>2 DEF TypeOK, Status
<1>9. Line'
  <2>1. ASSUME NEW i \in 1 .. Len(queue') PROVE queue'[i] = added[Started' + i]
    <3>1. queue'[i] = queue[i + 1] /\ i + 1 \in 1 .. Len(queue)
      BY <1>2
    <3>2. queue[i + 1] = added[Started + (i + 1)]
      BY <3>1 DEF Line
    <3> QED
      BY <1>3, <3>1, <3>2
  <2>2. ASSUME NEW i \in 1 .. Len(added)
        PROVE  IF i <= Started' THEN status'[added[i]] \in {"running"} \cup Outcome
                                ELSE status'[added[i]] = "waiting"
    <3>1. added[i] \in Task
      BY DEF TypeOK
    <3>2. CASE i = Started + 1
      BY <1>1, <1>3, <1>4, <3>1, <3>2
    <3>3. CASE i <= Started
      BY <1>1, <1>3, <3>1, <3>3 DEF Line
    <3>4. CASE i > Started + 1
      <4>1. added[i] # h
        BY <1>3, <1>4, <3>4 DEF AddedOnce
      <4>2. status[added[i]] = "waiting"
        BY <1>3, <3>4 DEF Line
      <4> QED
        BY <1>1, <1>3, <3>1, <3>4, <4>1, <4>2
    <3> QED
      BY <1>3, <3>2, <3>3, <3>4
  <2>3. Len(queue') <= Len(added')
    BY <1>1, <1>2, <1>3 DEF Started
  <2> QED
    BY <1>1, <2>1, <2>2, <2>3 DEF Line
<1>10. AddedOnce'
  <2>1. \A u \in Task : status'[u] = "new" <=> status[u] = "new"
    BY <1>1, <1>4 DEF Outcome
  <2> QED
    BY <1>1, <2>1 DEF AddedOnce, TypeOK
<1> QED
  BY <1>7, <1>8, <1>9, <1>10

(* One step of the queue, action by action.                                *)
LEMMA NextIInv == IInv /\ [Next]_vars => IInv'
<1> SUFFICES ASSUME IInv, [Next]_vars PROVE IInv'
  OBVIOUS
<1>1. CASE UNCHANGED vars
  <2>1. Started' = Started /\ Running' = Running /\ Settled' = Settled
    BY <1>1 DEF vars, Started, Running, Settled
  <2> QED
    BY <1>1, <2>1 DEF vars, IInv, TypeOK, Line, AddedOnce, Counted
<1>2. ASSUME NEW t \in Task, Add(t) PROVE IInv'
  BY <1>2, AddRunsIInv, AddWaitsIInv DEF Add
<1>3. ASSUME NEW t \in Task, NEW o \in Outcome, Settle(t, o) PROVE IInv'
  BY <1>3, ReleaseIdleIInv, ReleaseNextIInv DEF Settle
<1> QED
  BY <1>1, <1>2, <1>3 DEF Next

LEMMA Invariance == Spec => []IInv
<1> QED
  BY InitIInv, NextIInv, PTL DEF Spec

(* The variables of core/queue.ts keep their types and `pending` never     *)
(* leaves 0 .. concurrency.                                                *)
THEOREM TypeCorrect == Spec => []TypeOK
<1>1. IInv => TypeOK
  BY DEF IInv
<1> QED
  BY <1>1, Invariance, PTL

(* `pending` is the number of tasks that run, never more than concurrency, *)
(* and no task waits while a slot is free.                                 *)
THEOREM SlotsAreExact == Spec => []SlotsExact
<1>1. IInv => SlotsExact
  BY ConcurrencyAssumption DEF IInv, Counted, TypeOK, SlotsExact
<1> QED
  BY <1>1, Invariance, PTL

-----------------------------------------------------------------------------
(* The abstract server counts as the queue does.                           *)
LEMMA ServerCardinality == ASSUME NEW S PROVE Server!Cardinality(S) = Cardinality(S)
BY DEF Server!Cardinality, Cardinality

(* In every reachable state the running tasks are the ones the abstract    *)
(* server serves: the earliest unfinished arrivals.                        *)
LEMMA RunningIsInService == IInv => Running = Server!InService
<1> SUFFICES ASSUME IInv PROVE Running = Server!InService
  OBVIOUS
<1> USE DEF IInv
<1>1. /\ Started \in 0 .. Len(added) /\ Len(added) \in Nat /\ Len(queue) \in Nat
      /\ pending \in 0 .. Concurrency /\ Cardinality(Settled) \in Nat
      /\ Concurrency \in Nat
  BY FS_CardinalityType, ConcurrencyAssumption DEF Counted, Line, Started, TypeOK
<1>2. \A i \in 1 .. Len(added) : i <= Started <=> i <= Cardinality(Settled) + Concurrency
  <2>1. CASE queue = <<>>
    BY <1>1, <2>1 DEF Counted, Started
  <2>2. CASE queue # <<>>
    BY <1>1, <2>2 DEF Counted
  <2> QED
    BY <2>1, <2>2
<1>3. Server!Admitted = {i \in 1 .. Len(added) : i <= Started}
  BY <1>1, <1>2, ServerCardinality DEF Server!Admitted, TypeOK
<1>4. ASSUME NEW u \in Running PROVE u \in Server!InService
  <2>1. PICK i \in 1 .. Len(added) : added[i] = u
    BY <1>4 DEF Running, AddedOnce
  <2>2. i <= Started
    BY <1>4, <2>1 DEF Running, Line, Outcome
  <2>3. u \notin Settled
    BY <1>4 DEF Running, Settled, Outcome
  <2>4. i \in Server!Admitted
    BY <1>3, <2>2
  <2> QED
    BY <2>1, <2>3, <2>4 DEF Server!InService
<1>5. ASSUME NEW u \in Server!InService PROVE u \in Running
  <2>1. PICK i \in Server!Admitted : added[i] = u
    BY <1>5 DEF Server!InService
  <2>2. i \in 1 .. Len(added) /\ status[u] \in {"running"} \cup Outcome /\ u \in Task
    BY <1>3, <2>1 DEF Line, TypeOK
  <2> QED
    BY <1>5, <2>2 DEF Server!InService, Running, Settled
<1> QED
  BY <1>4, <1>5

(* core/queue.ts steps like a FIFO server with `concurrency` places: each  *)
(* add() is an arrival, each settlement finishes a task in service.        *)
THEOREM QueueRefinesServer == Spec => Server!Init /\ [][Server!Next]_Server!vars
<1>1. Init => Server!Init
  BY DEF Init, Server!Init, Settled, Outcome
<1>2. IInv /\ [Next]_vars => [Server!Next]_Server!vars
  <2> SUFFICES ASSUME IInv, [Next]_vars PROVE [Server!Next]_Server!vars
    OBVIOUS
  <2>1. CASE UNCHANGED vars
    BY <2>1 DEF vars, Server!vars, Settled
  <2>2. ASSUME NEW t \in Task, Add(t) PROVE Server!Arrive(t)
    <3>1. t \notin Server!Arrived
      BY <2>2 DEF Add, IInv, AddedOnce, TypeOK, Server!Arrived
    <3>2. Settled' = Settled
      BY <2>2 DEF Add, AddRuns, AddWaits, IInv, TypeOK, Settled, Outcome
    <3> QED
      BY <2>2, <3>1, <3>2 DEF Add, Server!Arrive
  <2>3. ASSUME NEW t \in Task, NEW o \in Outcome, Settle(t, o) PROVE Server!Finish(t)
    <3>1. t \in Server!InService
      BY <2>3, RunningIsInService DEF Settle, Running
    <3>2. Settled' = Settled \cup {t}
      <4>1. CASE ReleaseIdle(t, o)
        BY <2>3, <4>1 DEF ReleaseIdle, Settled, IInv, TypeOK, Outcome
      <4>2. CASE ReleaseNext(t, o)
        <5>1. queue[1] \in Task /\ status[queue[1]] = "waiting"
          <6>1. /\ Len(queue) \in Nat \ {0} /\ Len(added) \in Nat
                /\ queue[1] = added[Started + 1] /\ Started + 1 \in 1 .. Len(added)
            BY <4>2 DEF ReleaseNext, IInv, TypeOK, Line, Started
          <6> QED
            BY <6>1 DEF IInv, TypeOK, Line, Started
        <5>2. status' = [status EXCEPT ![t] = o, ![queue[1]] = "running"]
          BY <4>2 DEF ReleaseNext, Shift, IInv, TypeOK
        <5> QED
          BY <2>3, <5>1, <5>2 DEF Settle, Settled, IInv, TypeOK, Outcome
      <4> QED
        BY <2>3, <4>1, <4>2 DEF Settle
    <3> QED
      BY <2>3, <3>1, <3>2 DEF Settle, Server!Finish
  <2> QED
    BY <2>1, <2>2, <2>3 DEF Next, Server!Next
<1> QED
  BY <1>1, <1>2, Invariance, PTL DEF Spec

-----------------------------------------------------------------------------
(* plugins/antiflood.ts, on top of the invariant of its queue.             *)

(* The types of the plugin's variables.                                    *)
FloodTypeOK == /\ phase \in [Task -> {"idle", "sending", "delaying"}]
               /\ remaining \in [Task -> Nat]
               /\ since \in [Message -> 0 .. Delay]
               /\ written \in Seq(Message)
               /\ confirmed \subseteq Message

(* The tasks that run are those that await something.                      *)
Busy == \A t \in Task : phase[t] # "idle" <=> status[t] = "running"

(* What was written has left the queue's line.                             *)
WrittenHasStarted ==
  \A t \in Task : Written(t) => status[t] \in {"running"} \cup Outcome

(* The delay of a message that was sent has passed, unless it still keeps  *)
(* the slot, and then its timer is not due before.                         *)
DelayKept ==
  \A t \in confirmed \cap Task :
    /\ Written(t)
    /\ since[t] # Delay => phase[t] = "delaying" /\ since[t] + remaining[t] >= Delay

FInv == FloodTypeOK /\ Busy /\ WrittenHasStarted /\ DelayKept

-----------------------------------------------------------------------------
(* With one slot, one task runs at most, and none when the slot is free.   *)
LEMMA OneRuns ==
  ASSUME IInv
  PROVE  /\ \A t, u \in Running : t = u
         /\ HasSlot => Running = {}
<1>1. IsFiniteSet(Running) /\ Cardinality(Running) = pending /\ pending \in 0 .. 1
  BY AntifloodAssumption DEF IInv, Counted, TypeOK
<1>2. CASE pending = 0
  BY <1>1, <1>2, FS_EmptySet
<1>3. CASE pending = 1
  BY <1>1, <1>3, FS_Singleton, AntifloodAssumption DEF HasSlot
<1> QED
  BY <1>1, <1>2, <1>3

(* add() starts its own task or none.                                      *)
LEMMA AddStarts ==
  ASSUME IInv, NEW t \in Task, Add(t)
  PROVE  /\ status[t] = "new" /\ added' = Append(added, t)
         /\ \/ Running = {} /\ status' = [status EXCEPT ![t] = "running"] /\ Starting = {t}
            \/ status' = [status EXCEPT ![t] = "waiting"] /\ Starting = {}
<1>1. status \in [Task -> Status]
  BY DEF IInv, TypeOK
<1> QED
  BY <1>1, OneRuns DEF Add, AddRuns, AddWaits, Starting

(* A task that settles starts the first that waits, if any.                *)
LEMMA SettleStarts ==
  ASSUME IInv, NEW t \in Task, NEW o \in Outcome, Settle(t, o)
  PROVE  /\ Running = {t} /\ added' = added
         /\ \/ status' = [status EXCEPT ![t] = o] /\ Starting = {}
            \/ \E h \in Task \ {t} :
                 /\ status[h] = "waiting" /\ Starting = {h}
                 /\ status' = [status EXCEPT ![t] = o, ![h] = "running"]
                 /\ Started + 1 \in 1 .. Len(added) /\ h = added[Started + 1]
<1>1. status \in [Task -> Status] /\ status[t] = "running" /\ added' = added /\ o # "running"
  BY DEF IInv, TypeOK, Settle, Outcome
<1>2. Running = {t}
  BY <1>1, OneRuns DEF Running
<1>3. CASE ReleaseIdle(t, o)
  <2>1. status' = [status EXCEPT ![t] = o]
    BY <1>3 DEF ReleaseIdle
  <2>2. Starting = {}
    BY <1>1, <2>1 DEF Starting
  <2> QED
    BY <1>1, <1>2, <2>1, <2>2
<1>4. CASE ReleaseNext(t, o)
  <2> DEFINE h == queue[1]
  <2>1. /\ queue # <<>> /\ queue \in Seq(Task) /\ Len(queue) \in Nat \ {0}
        /\ status' = [status EXCEPT ![t] = o, ![h] = "running"]
    BY <1>4 DEF ReleaseNext, Shift, IInv, TypeOK
  <2>2. Started + 1 \in 1 .. Len(added) /\ h = added[Started + 1] /\ h \in Task
    BY <2>1 DEF IInv, TypeOK, Line, Started
  <2>3. status[h] = "waiting" /\ h # t
    BY <1>1, <2>2 DEF IInv, Line, Started
  <2>4. Starting = {h}
    BY <1>1, <2>1, <2>2, <2>3 DEF Starting
  <2> QED
    BY <1>1, <1>2, <2>1, <2>2, <2>3, <2>4
<1> QED
  BY <1>3, <1>4 DEF Settle

-----------------------------------------------------------------------------
(* What is written once more.                                              *)
LEMMA WrittenGrows ==
  ASSUME written \in Seq(Message), NEW m \in Message, written' = Append(written, m)
  PROVE  written' \in Seq(Message) /\ \A n : Written(n)' <=> Written(n) \/ n = m
<1>1. /\ written' \in Seq(Message) /\ Len(written') = Len(written) + 1 /\ Len(written) \in Nat
      /\ written'[Len(written) + 1] = m
      /\ \A i \in 1 .. Len(written) : written'[i] = written[i]
  OBVIOUS
<1>2. ASSUME NEW n, Written(n)' PROVE Written(n) \/ n = m
  BY <1>1, <1>2 DEF Written
<1>3. ASSUME NEW n, Written(n) \/ n = m PROVE Written(n)'
  <2>1. CASE n = m
    BY <1>1, <2>1 DEF Written
  <2>2. CASE Written(n)
    BY <1>1, <2>2 DEF Written
  <2> QED
    BY <1>3, <2>1, <2>2
<1> QED
  BY <1>1, <1>2, <1>3

(* Which tasks await what after StartNext(t).                              *)
PhasesMove(t) ==
  \A u \in Task : /\ u \in Starting => phase'[u] = "sending"
                  /\ u \notin Starting /\ u = t => phase'[u] = "idle"
                  /\ u \notin Starting /\ u # t => phase'[u] = phase[u]

(* StartNext(t) in a step that starts nothing or one task `h` that was     *)
(* idle: what is written since is h, if anything, and h is sending.        *)
LEMMA StartNextWrites ==
  ASSUME FloodTypeOK, NEW t \in Task, StartNext(t),
         Starting = {} \/ \E h \in Task : Starting = {h}
  PROVE  /\ written' \in Seq(Message)
         /\ \A n : Written(n)' => Written(n) \/ n \in Starting
         /\ \A n : Written(n) => Written(n)'
         /\ phase' \in [Task -> {"idle", "sending", "delaying"}]
         /\ PhasesMove(t)
         /\ UNCHANGED <<remaining, since>>
<1>1. phase' \in [Task -> {"idle", "sending", "delaying"}]
  BY DEF StartNext, FloodTypeOK
<1>2. PhasesMove(t)
  <2>1. phase' = [u \in Task |-> IF u \in Starting THEN "sending"
                                 ELSE IF u = t THEN "idle" ELSE phase[u]]
    BY DEF StartNext
  <2> QED
    BY <2>1, Zenon DEF PhasesMove
<1>3. /\ written' \in Seq(Message)
      /\ \A n : Written(n)' => Written(n) \/ n \in Starting
      /\ \A n : Written(n) => Written(n)'
  <2>1. CASE written' = written
    BY <2>1 DEF Written, FloodTypeOK
  <2>2. CASE written' # written
    <3>1. PICK h \in Task : Starting = {h}
      BY <2>2 DEF StartNext
    <3>2. written' = Append(written, h) /\ h \in Message
      BY <2>2, <3>1 DEF StartNext, Message
    <3> QED
      BY <3>1, <3>2, WrittenGrows DEF FloodTypeOK
  <2> QED
    BY <2>1, <2>2
<1> QED
  BY <1>1, <1>2, <1>3 DEF StartNext

LEMMA InitFInv == FloodInit => FInv
<1> SUFFICES ASSUME FloodInit PROVE FInv
  OBVIOUS
<1>1. FloodTypeOK
  BY AntifloodAssumption DEF FloodInit, FloodTypeOK
<1>2. \A m : ~Written(m)
  BY DEF FloodInit, Written
<1> QED
  BY <1>1, <1>2 DEF FloodInit, Init, FInv, Busy, WrittenHasStarted, DelayKept

(* Every step of the plugin is one of its queue, or leaves it alone.       *)
LEMMA StepsOfQueue == FloodNext => [Next]_vars
<1> SUFFICES ASSUME FloodNext PROVE [Next]_vars
  OBVIOUS
<1>1. ASSUME NEW t \in Task, CallSend(t) PROVE Next
  BY <1>1 DEF CallSend, Next
<1>2. ASSUME NEW t \in Task, Sent(t) PROVE UNCHANGED vars
  BY <1>2 DEF Sent
<1>3. ASSUME NEW t \in Task, NEW o \in Outcome, NotSent(t, o) PROVE Next
  BY <1>3 DEF NotSent, Next
<1>4. ASSUME NEW t \in Task, DelayOver(t) PROVE Next
  BY <1>4 DEF DelayOver, Next, Outcome
<1>5. ASSUME NEW m \in Tagged, CallSendTagged(m) PROVE UNCHANGED vars
  BY <1>5 DEF CallSendTagged
<1>6. CASE Tick
  BY <1>6 DEF Tick
<1>7. CASE ConnChanges
  BY <1>7 DEF ConnChanges
<1> QED
  BY <1>1, <1>2, <1>3, <1>4, <1>5, <1>6, <1>7 DEF FloodNext

(* send() is called.                                                       *)
LEMMA CallSendFInv ==
  ASSUME IInv, FInv, NEW t \in Task, CallSend(t)
  PROVE  /\ FInv'
         /\ \A u \in Task : Written(u)' /\ ~Written(u) => Running = {} /\ u = t
<1>1. /\ status[t] = "new" /\ status \in [Task -> Status]
      /\ \/ Running = {} /\ status' = [status EXCEPT ![t] = "running"] /\ Starting = {t}
         \/ status' = [status EXCEPT ![t] = "waiting"] /\ Starting = {}
  BY AddStarts DEF CallSend, IInv, TypeOK
<1>2. FloodTypeOK /\ StartNext(t) /\ confirmed' = confirmed
  BY DEF FInv, CallSend
<1>3. /\ written' \in Seq(Message)
      /\ \A n : Written(n)' => Written(n) \/ n \in Starting
      /\ \A n : Written(n) => Written(n)'
      /\ phase' \in [Task -> {"idle", "sending", "delaying"}]
      /\ PhasesMove(t)
      /\ UNCHANGED <<remaining, since>>
  BY <1>1, <1>2, StartNextWrites
<1>4. FloodTypeOK'
  BY <1>2, <1>3 DEF FloodTypeOK
<1>5. Busy'
  BY <1>1, <1>3 DEF FInv, Busy, PhasesMove
<1>6. WrittenHasStarted'
  BY <1>1, <1>3 DEF FInv, WrittenHasStarted, Outcome
<1>7. phase[t] = "idle"
  BY <1>1 DEF FInv, Busy
<1>8. DelayKept'
  BY <1>1, <1>2, <1>3, <1>7 DEF FInv, DelayKept, PhasesMove
<1> QED
  BY <1>1, <1>3, <1>4, <1>5, <1>6, <1>8 DEF FInv

(* A task settles: `o` is what becomes of it, and it has not to wait.      *)
LEMMA SettleFInv ==
  ASSUME IInv, FInv, NEW t \in Task, NEW o \in Outcome, Settle(t, o), StartNext(t),
         UNCHANGED confirmed, t \in confirmed => since[t] = Delay
  PROVE  /\ FInv'
         /\ \A u \in Task : Written(u)' /\ ~Written(u) =>
              /\ Running = {t} /\ added' = added
              /\ Started + 1 \in 1 .. Len(added) /\ u = added[Started + 1]
<1>1. /\ Running = {t} /\ added' = added /\ status \in [Task -> Status]
      /\ \/ status' = [status EXCEPT ![t] = o] /\ Starting = {}
         \/ \E h \in Task \ {t} :
              /\ status[h] = "waiting" /\ Starting = {h}
              /\ status' = [status EXCEPT ![t] = o, ![h] = "running"]
              /\ Started + 1 \in 1 .. Len(added) /\ h = added[Started + 1]
  BY SettleStarts DEF IInv, TypeOK
<1>2. /\ written' \in Seq(Message)
      /\ \A n : Written(n)' => Written(n) \/ n \in Starting
      /\ \A n : Written(n) => Written(n)'
      /\ phase' \in [Task -> {"idle", "sending", "delaying"}]
      /\ PhasesMove(t)
      /\ UNCHANGED <<remaining, since>>
  BY <1>1, StartNextWrites DEF FInv
<1>3. FloodTypeOK'
  BY <1>2 DEF FInv, FloodTypeOK
<1>4. Busy'
  BY <1>1, <1>2 DEF FInv, Busy, PhasesMove, Outcome
<1>5. WrittenHasStarted'
  BY <1>1, <1>2 DEF FInv, WrittenHasStarted, Outcome
<1>6. \A u \in Starting : phase[u] = "idle"
  BY <1>1 DEF FInv, Busy
<1>7. DelayKept'
  BY <1>2, <1>6 DEF FInv, DelayKept, PhasesMove
<1> QED
  BY <1>1, <1>2, <1>3, <1>4, <1>5, <1>7 DEF FInv

(* send() gave the message: the task waits for its timer, which is not due *)
(* before the delay has passed.                                            *)
LEMMA SentFInv ==
  ASSUME FInv, NEW t \in Task, Sent(t)
  PROVE  FInv' /\ written' = written
<1>1. /\ FloodTypeOK /\ t \in Message /\ Delay \in Nat /\ phase[t] = "sending" /\ Written(t)
      /\ phase' = [phase EXCEPT ![t] = "delaying"]
      /\ remaining' = [remaining EXCEPT ![t] = Delay]
      /\ confirmed' = confirmed \cup {t}
      /\ UNCHANGED <<status, since, written>>
  BY AntifloodAssumption DEF Sent, FInv, vars, Message
<1>2. FloodTypeOK'
  BY <1>1 DEF FloodTypeOK
<1>3. Busy'
  BY <1>1 DEF FInv, Busy, FloodTypeOK
<1>4. \A n : Written(n)' <=> Written(n)
  BY <1>1 DEF Written
<1>5. WrittenHasStarted'
  BY <1>1, <1>4 DEF FInv, WrittenHasStarted
<1>6. DelayKept'
  <2> SUFFICES ASSUME NEW u \in confirmed' \cap Task
               PROVE  /\ Written(u)'
                      /\ since'[u] # Delay =>
                           phase'[u] = "delaying" /\ since'[u] + remaining'[u] >= Delay
    BY DEF DelayKept
  <2>1. CASE u = t
    <3>1. since[t] \in Nat /\ remaining'[t] = Delay /\ phase'[t] = "delaying"
      BY <1>1 DEF FloodTypeOK
    <3> QED
      BY <1>1, <1>4, <2>1, <3>1
  <2>2. CASE u # t
    BY <1>1, <1>4, <2>2 DEF FInv, DelayKept, FloodTypeOK
  <2> QED
    BY <2>1, <2>2
<1> QED
  BY <1>1, <1>2, <1>3, <1>5, <1>6 DEF FInv

(* A message that is not queued.                                           *)
LEMMA CallSendTaggedFInv ==
  ASSUME FInv, NEW m \in Tagged, CallSendTagged(m)
  PROVE  FInv' /\ \A u \in Task : Written(u)' => Written(u)
<1>1. /\ FloodTypeOK /\ m \in Message /\ m \notin Task
      /\ written' = Append(written, m) /\ confirmed' = confirmed \cup {m}
      /\ UNCHANGED <<status, phase, remaining, since>>
  BY AntifloodAssumption DEF CallSendTagged, FInv, vars, Message
<1>2. written' \in Seq(Message) /\ \A n : Written(n)' <=> Written(n) \/ n = m
  BY <1>1, WrittenGrows DEF FloodTypeOK
<1>3. FloodTypeOK'
  BY <1>1, <1>2 DEF FloodTypeOK
<1>4. Busy' /\ WrittenHasStarted' /\ DelayKept'
  BY <1>1, <1>2 DEF FInv, Busy, WrittenHasStarted, DelayKept
<1> QED
  BY <1>1, <1>2, <1>3, <1>4 DEF FInv

(* Time passes for the timers and for what was written alike.              *)
LEMMA TickFInv ==
  ASSUME FInv, Tick
  PROVE  FInv' /\ written' = written
<1>1. /\ FloodTypeOK /\ Delay \in Nat
      /\ since' = [m \in Message |-> IF m \in Aging THEN since[m] + 1 ELSE since[m]]
      /\ remaining' = [t \in Task |-> IF remaining[t] > 0 THEN remaining[t] - 1 ELSE 0]
      /\ UNCHANGED <<status, phase, written, confirmed>>
  BY AntifloodAssumption DEF Tick, FInv, vars
<1>2. \A m \in Message : /\ since[m] \in 0 .. Delay
                         /\ since'[m] = IF m \in Aging THEN since[m] + 1 ELSE since[m]
                         /\ m \in Aging <=> Written(m) /\ since[m] < Delay
  BY <1>1 DEF FloodTypeOK, Aging
<1>3. since' \in [Message -> 0 .. Delay]
  BY <1>1, <1>2
<1>4. remaining' \in [Task -> Nat]
  BY <1>1 DEF FloodTypeOK
<1>5. FloodTypeOK'
  BY <1>1, <1>3, <1>4 DEF FloodTypeOK
<1>6. \A n : Written(n)' <=> Written(n)
  BY <1>1 DEF Written
<1>7. DelayKept'
  <2> SUFFICES ASSUME NEW u \in confirmed \cap Task
               PROVE  /\ Written(u)
                      /\ since'[u] # Delay =>
                           phase[u] = "delaying" /\ since'[u] + remaining'[u] >= Delay
    BY <1>1, <1>6 DEF DelayKept
  <2>1. /\ Written(u) /\ u \in Message /\ u \in Task
        /\ since[u] # Delay => phase[u] = "delaying" /\ since[u] + remaining[u] >= Delay
    BY DEF FInv, DelayKept, Message
  <2>2. /\ since[u] \in 0 .. Delay /\ remaining[u] \in Nat
        /\ remaining'[u] = IF remaining[u] > 0 THEN remaining[u] - 1 ELSE 0
        /\ since'[u] = IF since[u] < Delay THEN since[u] + 1 ELSE since[u]
    BY <1>1, <1>2, <2>1 DEF FloodTypeOK
  <2> QED
    BY <1>1, <2>1, <2>2
<1>8. Busy' /\ WrittenHasStarted'
  BY <1>1, <1>6 DEF FInv, Busy, WrittenHasStarted
<1> QED
  BY <1>1, <1>5, <1>7, <1>8 DEF FInv

(* A task settles when its message was not sent, or when its timer fired:  *)
(* in both cases nothing has to be waited for any more.                    *)
LEMMA Settles ==
  ASSUME FInv, NEW t \in Task,
         phase[t] = "sending" \/ (phase[t] = "delaying" /\ remaining[t] = 0)
  PROVE  t \in confirmed => since[t] = Delay
<1>1. t \in Message /\ since[t] \in 0 .. Delay /\ Delay \in Nat
  BY AntifloodAssumption DEF FInv, FloodTypeOK, Message
<1> QED
  BY <1>1 DEF FInv, DelayKept

-----------------------------------------------------------------------------
(* One step of the plugin, action by action.                               *)
LEMMA FloodNextFInv == IInv /\ FInv /\ [FloodNext]_allVars => IInv' /\ FInv'
<1> SUFFICES ASSUME IInv, FInv, [FloodNext]_allVars PROVE IInv' /\ FInv'
  OBVIOUS
<1>1. IInv'
  BY StepsOfQueue, NextIInv DEF allVars
<1>2. CASE UNCHANGED allVars
  <2>1. UNCHANGED <<status, phase, remaining, since, written, confirmed>>
    BY <1>2 DEF allVars, vars, floodVars
  <2>2. \A n : Written(n)' <=> Written(n)
    BY <2>1 DEF Written
  <2> QED
    BY <1>1, <2>1, <2>2 DEF FInv, FloodTypeOK, Busy, WrittenHasStarted, DelayKept
<1>3. ASSUME NEW t \in Task, CallSend(t) PROVE FInv'
  BY <1>3, CallSendFInv
<1>4. ASSUME NEW t \in Task, Sent(t) PROVE FInv'
  BY <1>4, SentFInv
<1>5. ASSUME NEW t \in Task, NEW o \in Outcome, NotSent(t, o) PROVE FInv'
  <2>1. phase[t] = "sending" /\ Settle(t, o) /\ StartNext(t) /\ UNCHANGED confirmed
    BY <1>5 DEF NotSent
  <2>2. t \in confirmed => since[t] = Delay
    BY <2>1, Settles
  <2> QED
    BY <2>1, <2>2, SettleFInv
<1>6. ASSUME NEW t \in Task, DelayOver(t) PROVE FInv'
  BY <1>6, Settles, SettleFInv DEF DelayOver, Outcome
<1>7. ASSUME NEW m \in Tagged, CallSendTagged(m) PROVE FInv'
  BY <1>7, CallSendTaggedFInv
<1>8. CASE Tick
  BY <1>1, <1>8, TickFInv
<1>9. CASE ConnChanges
  <2>1. UNCHANGED <<status, phase, remaining, since, written, confirmed>>
    BY <1>9 DEF ConnChanges, vars
  <2>2. \A n : Written(n)' <=> Written(n)
    BY <2>1 DEF Written
  <2> QED
    BY <1>1, <2>1, <2>2 DEF FInv, FloodTypeOK, Busy, WrittenHasStarted, DelayKept
<1> QED
  BY <1>1, <1>2, <1>3, <1>4, <1>5, <1>6, <1>7, <1>8, <1>9 DEF FloodNext

(* Each task is added once, so its place among the calls is the one place  *)
(* it has.                                                                 *)
LEMMA CallsOf == IInv => \A i \in 1 .. Len(added) : Calls(added[i]) = i
<1> SUFFICES ASSUME IInv, NEW i \in 1 .. Len(added) PROVE Calls(added[i]) = i
  OBVIOUS
<1>1. DOMAIN added = 1 .. Len(added)
  BY DEF IInv, TypeOK
<1>2. \A j \in DOMAIN added : added[j] = added[i] <=> j = i
  BY <1>1 DEF IInv, AddedOnce
<1> QED
  BY <1>1, <1>2 DEF Calls

(* What was written comes before everything that still waits.              *)
LEMMA WrittenIsEarly ==
  ASSUME IInv, FInv, NEW m \in Task, Written(m)
  PROVE  Calls(m) \in 1 .. Len(added) /\ Calls(m) <= Started
<1>1. status[m] \in {"running"} \cup Outcome
  BY DEF FInv, WrittenHasStarted
<1>2. PICK i \in 1 .. Len(added) : added[i] = m
  BY <1>1 DEF IInv, AddedOnce, Outcome
<1>3. i <= Started
  BY <1>1, <1>2 DEF IInv, Line, Outcome
<1> QED
  BY <1>2, <1>3, CallsOf

(* A task that is written now was written after those of earlier calls,    *)
(* each of which has kept its delay.                                       *)
LEMMA WritesInOrder ==
  ASSUME IInv, FInv, IInv', [FloodNext]_allVars, NEW t \in Task, Written(t)', ~Written(t)
  PROVE  /\ \A m \in Task : Written(m) => Calls(m) < Calls(t)'
         /\ \A m \in confirmed \cap Task : since[m] = Delay
<1>1. Len(added) \in Nat /\ Len(queue) \in Nat /\ Started <= Len(added) /\ Started \in Int
  BY DEF IInv, TypeOK, Started
<1>2. \A m \in confirmed \cap Task : since[m] # Delay => m \in Running
  BY DEF FInv, DelayKept, Busy, Running
<1>3. ASSUME NEW u \in Task, CallSend(u)
      PROVE  /\ \A m \in Task : Written(m) => Calls(m) < Calls(t)'
             /\ \A m \in confirmed \cap Task : since[m] = Delay
  <2>1. Running = {} /\ u = t /\ added' = Append(added, t)
    BY <1>3, CallSendFInv, AddStarts DEF CallSend
  <2>2. Len(added') = Len(added) + 1 /\ added'[Len(added) + 1] = t
    BY <2>1 DEF IInv, TypeOK
  <2>3. IInv' => (\A i \in 1 .. Len(added) : Calls(added[i]) = i)'
    BY CallsOf, PTL
  <2>4. Calls(t)' = Len(added) + 1
    BY <1>1, <2>2, <2>3
  <2> QED
    BY <1>1, <1>2, <2>1, <2>4, WrittenIsEarly
<1>4. ASSUME NEW u \in Task, NEW o \in Outcome, Settle(u, o), StartNext(u),
             UNCHANGED confirmed, u \in confirmed => since[u] = Delay
      PROVE  /\ \A m \in Task : Written(m) => Calls(m) < Calls(t)'
             /\ \A m \in confirmed \cap Task : since[m] = Delay
  <2>1. /\ Running = {u} /\ added' = added
        /\ Started + 1 \in 1 .. Len(added) /\ t = added[Started + 1]
    BY <1>4, SettleFInv
  <2>2. Calls(t)' = Started + 1
    BY <2>1, CallsOf DEF Calls
  <2> QED
    BY <1>1, <1>2, <1>4, <2>1, <2>2, WrittenIsEarly
<1>5. ASSUME written' = written PROVE FALSE
  BY <1>5 DEF Written
<1>6. ASSUME NEW u \in Task, NEW o \in Outcome, NotSent(u, o)
      PROVE  /\ \A m \in Task : Written(m) => Calls(m) < Calls(t)'
             /\ \A m \in confirmed \cap Task : since[m] = Delay
  <2>1. phase[u] = "sending" /\ Settle(u, o) /\ StartNext(u) /\ UNCHANGED confirmed
    BY <1>6 DEF NotSent
  <2>2. u \in confirmed => since[u] = Delay
    BY <2>1, Settles
  <2> QED
    BY <1>4, <2>1, <2>2
<1>7. ASSUME NEW u \in Task, DelayOver(u)
      PROVE  /\ \A m \in Task : Written(m) => Calls(m) < Calls(t)'
             /\ \A m \in confirmed \cap Task : since[m] = Delay
  BY <1>4, <1>7, Settles DEF DelayOver, Outcome
<1>8. ASSUME NEW u \in Task, Sent(u) PROVE FALSE
  BY <1>5, <1>8, SentFInv
<1>9. ASSUME NEW m \in Tagged, CallSendTagged(m) PROVE FALSE
  BY <1>9, CallSendTaggedFInv
<1>10. Tick \/ ConnChanges \/ UNCHANGED allVars => FALSE
  BY <1>5 DEF Tick, ConnChanges, allVars, floodVars
<1> QED
  BY <1>3, <1>6, <1>7, <1>8, <1>9, <1>10 DEF FloodNext

(* Whatever is lost, failed or reconnected in between, the messages of the *)
(* queue are written in the order of the calls, and none before the delay  *)
(* after each one that was sent has passed.                                *)
THEOREM OrderAndSpacing == FloodSpec => SpacedInOrder
<1> DEFINE Both == IInv /\ FInv
           Good == \A t \in Task : Written(t)' /\ ~Written(t) =>
                     /\ \A m \in Task : Written(m) => Calls(m) < Calls(t)'
                     /\ \A m \in confirmed \cap Task : since[m] = Delay
<1>1. FloodInit => Both
  BY InitIInv, InitFInv DEF FloodInit
<1>2. Both /\ [FloodNext]_allVars => Both'
  BY FloodNextFInv
<1>3. Both /\ [FloodNext]_allVars => [Good]_allVars
  BY FloodNextFInv, WritesInOrder
<1> HIDE DEF Both, Good
<1>4. FloodInit /\ [][FloodNext]_allVars => [][Good]_allVars
  BY <1>1, <1>2, <1>3, PTL
<1> QED
  BY <1>4, PTL DEF FloodSpec, SpacedInOrder, Good

-----------------------------------------------------------------------------
(* The order in which loadPlugins() initialises plugins.  The argument:    *)
(* while nothing is thrown, a frame has only loaded dependencies behind    *)
(* it, except that the one it is waiting for is the plugin of the next     *)
(* frame; and the plugins of the frames are distinct and not loaded.       *)
LoaderTypes == /\ deps \in Graphs /\ plugins \in Requests
               /\ at \in 0 .. Len(plugins)
               /\ stack \in Seq(Frame)
               /\ loaded \in Seq(Plugin)
               /\ thrown \in BOOLEAN

(* The dependencies a frame has behind it.                                 *)
Behind(i) == {deps[stack[i].plugin][k] : k \in 1 .. stack[i].done}
Awaited(i) == IF i < Len(stack) THEN {stack[i + 1].plugin} ELSE {}

Walk == /\ \A i \in 1 .. Len(stack) : /\ stack[i].done <= Len(deps[stack[i].plugin])
                                      /\ Behind(i) \subseteq Loaded \cup Awaited(i)
        /\ \A i \in 1 .. Len(stack) : stack[i].plugin \notin Loaded

Distinct == \A i, j \in DOMAIN stack : i # j => stack[i].plugin # stack[j].plugin

LoaderInv == /\ LoaderTypes
             /\ Distinct
             /\ ~thrown => Walk
             /\ DepsFirst
             /\ LoadedOnce

LEMMA Graph ==
  ASSUME deps \in Graphs
  PROVE  \A p \in Plugin : deps[p] \in Seq(Plugin)
  BY LoaderAssumption

LEMMA FrontOfSeq ==
  ASSUME NEW S, NEW s \in Seq(S), s # <<>>
  PROVE  /\ Len(s) \in Nat \ {0}
         /\ s[Len(s)] \in S
         /\ SubSeq(s, 1, Len(s) - 1) \in Seq(S)
         /\ Len(SubSeq(s, 1, Len(s) - 1)) = Len(s) - 1
         /\ \A i \in 1 .. Len(s) - 1 : SubSeq(s, 1, Len(s) - 1)[i] = s[i]
  <1>1. Len(s) \in Nat \ {0} /\ s[Len(s)] \in S
    BY EmptySeq, LenProperties, ElementOfSeq
  <1>2. \A i \in 1 .. Len(s) - 1 : s[i] \in S
    BY <1>1, ElementOfSeq
  <1>3. Len(s) - 1 \in Int /\ Len(s) - 1 - 1 + 1 = Len(s) - 1 /\ \A i \in 1 .. Len(s) - 1 : 1 + i - 1 = i
    BY <1>1
  <1>4. /\ SubSeq(s, 1, Len(s) - 1) \in Seq(S)
        /\ Len(SubSeq(s, 1, Len(s) - 1)) = IF 1 <= Len(s) - 1 THEN Len(s) - 1 - 1 + 1 ELSE 0
        /\ \A i \in 1 .. Len(s) - 1 - 1 + 1 : SubSeq(s, 1, Len(s) - 1)[i] = s[1 + i - 1]
    BY <1>2, <1>3, SubSeqProperties
  <1> QED  BY <1>1, <1>3, <1>4

LEMMA AppendToSeq ==
  ASSUME NEW S, NEW s \in Seq(S), NEW e \in S
  PROVE  /\ Append(s, e) \in Seq(S)
         /\ Len(s) \in Nat
         /\ Len(Append(s, e)) = Len(s) + 1
         /\ \A i \in 1 .. Len(s) : Append(s, e)[i] = s[i]
         /\ Append(s, e)[Len(s) + 1] = e
  BY AppendProperties, LenProperties

LEMMA TopOfStack ==
  ASSUME LoaderTypes, stack # <<>>
  PROVE  /\ Len(stack) \in Nat \ {0}
         /\ Top = stack[Len(stack)]
         /\ Top \in Frame
         /\ Top.plugin \in Plugin
         /\ Top.done \in Nat
         /\ Below \in Seq(Frame)
         /\ Len(Below) = Len(stack) - 1
         /\ \A i \in 1 .. Len(stack) - 1 : Below[i] = stack[i]
  <1>1. stack \in Seq(Frame)
    BY DEF LoaderTypes
  <1>2. Top \in Frame
    BY <1>1, FrontOfSeq DEF Top
  <1>3. Top.plugin \in Plugin /\ Top.done \in Nat
    BY <1>2 DEF Frame
  <1>4. /\ Len(stack) \in Nat \ {0}
        /\ Below \in Seq(Frame)
        /\ Len(Below) = Len(stack) - 1
        /\ \A i \in 1 .. Len(stack) - 1 : Below[i] = stack[i]
    BY <1>1, FrontOfSeq DEF Below
  <1> QED  BY <1>2, <1>3, <1>4 DEF Top

LEMMA InitLoaderInv == LoaderInit => LoaderInv
  <1> SUFFICES ASSUME LoaderInit PROVE LoaderInv
    OBVIOUS
  <1>1. plugins \in Seq(Plugin) /\ Len(plugins) \in Nat
    BY LoaderAssumption DEF LoaderInit
  <1>2. Len(stack) = 0 /\ Len(loaded) = 0 /\ DOMAIN stack = {} /\ DOMAIN loaded = {}
    BY DEF LoaderInit
  <1>3. LoaderTypes
    <2>1. stack \in Seq(Frame) /\ loaded \in Seq(Plugin)
      BY DEF LoaderInit
    <2>2. at \in 0 .. Len(plugins)
      BY <1>1 DEF LoaderInit
    <2> QED  BY <2>1, <2>2 DEF LoaderInit, LoaderTypes
  <1> QED  BY <1>2, <1>3 DEF LoaderInit, LoaderInv, Distinct, Walk, DepsFirst, LoadedOnce

(* Resolve(p, rest) when `rest` is the stack with one more dependency of   *)
(* the top frame behind it.                                                *)
LEMMA ResolveDepInv ==
  ASSUME LoaderInv, ResolveDep
  PROVE  LoaderInv'
  <1> DEFINE n == Len(stack)
             p == deps[Top.plugin][Top.done + 1]
             rest == Append(Below, [plugin |-> Top.plugin, done |-> Top.done + 1])
  <1>1. /\ n \in Nat \ {0}
        /\ Top = stack[n]
        /\ Top \in Frame
        /\ Top.plugin \in Plugin
        /\ Top.done \in Nat
        /\ ~thrown
    BY TopOfStack DEF LoaderInv, ResolveDep
  <1>2. /\ deps[Top.plugin] \in Seq(Plugin)
        /\ Len(deps[Top.plugin]) \in Nat
        /\ Top.done < Len(deps[Top.plugin])
    BY <1>1, Graph DEF LoaderInv, LoaderTypes, ResolveDep
  <1>3. p \in Plugin
    BY <1>1, <1>2
  <1>4. /\ rest \in Seq(Frame)
        /\ Len(rest) = n
        /\ \A i \in 1 .. n - 1 : rest[i] = stack[i]
        /\ rest[n].plugin = Top.plugin
        /\ rest[n].done = Top.done + 1
    <2> DEFINE next == [plugin |-> Top.plugin, done |-> Top.done + 1]
    <2>1. next \in Frame
      BY <1>1 DEF Frame
    <2>2. next.plugin = Top.plugin /\ next.done = Top.done + 1
      OBVIOUS
    <2> HIDE DEF next
    <2>3. /\ Below \in Seq(Frame)
          /\ Len(Below) = n - 1
          /\ \A i \in 1 .. n - 1 : Below[i] = stack[i]
      BY TopOfStack DEF LoaderInv, ResolveDep
    <2>4. rest = Append(Below, next)
      BY DEF next
    <2> HIDE DEF rest
    <2>5. /\ rest \in Seq(Frame)
          /\ Len(rest) = n
          /\ \A i \in 1 .. n - 1 : rest[i] = Below[i]
          /\ rest[n] = next
      BY <1>1, <2>1, <2>3, <2>4, AppendToSeq
    <2> QED  BY <2>2, <2>3, <2>5
  <1>5. /\ Resolve(p, rest)
        /\ deps' = deps /\ plugins' = plugins /\ at' = at /\ loaded' = loaded
    BY DEF ResolveDep
  <1>6. Loaded' = Loaded /\ DepsFirst' /\ LoadedOnce'
    <2>1. Loaded' = Loaded /\ LoadedOnce'
      BY <1>5 DEF Loaded, LoaderInv, LoadedOnce
    <2>2. \A q : DepSet(q)' = DepSet(q)
      BY <1>5 DEF DepSet
    <2>3. DepsFirst'
      BY <1>5, <2>2 DEF LoaderInv, DepsFirst
    <2> QED  BY <2>1, <2>3
  <1>7. \A i \in 1 .. n : rest[i] \in Frame /\ rest[i].plugin = stack[i].plugin
    <2>1. \A i \in 1 .. n : rest[i] \in Frame
      BY <1>1, <1>4
    <2>2. \A i \in 1 .. n : i = n \/ i \in 1 .. n - 1
      BY <1>1
    <2> QED  BY <1>1, <1>4, <2>1, <2>2
  <1> HIDE DEF p, rest
  <1>8. ASSUME stack' = rest PROVE Distinct' /\ stack' \in Seq(Frame)
    <2>1. \A i, j \in 1 .. n : i # j => stack[i].plugin # stack[j].plugin
      BY <1>1 DEF LoaderInv, LoaderTypes, Distinct
    <2>2. DOMAIN stack' = 1 .. n
      BY <1>4, <1>8
    <2> QED  BY <1>4, <1>7, <1>8, <2>1, <2>2 DEF Distinct
  (* What every frame of `rest` has behind it.                             *)
  <1>9. ASSUME NEW i \in 1 .. n
        PROVE  /\ rest[i].done <= Len(deps[rest[i].plugin])
               /\ rest[i].plugin \notin Loaded
               /\ {deps[rest[i].plugin][k] : k \in 1 .. rest[i].done}
                    \subseteq Loaded \cup (IF i < n THEN {rest[i + 1].plugin} ELSE {p})
    <2>1. Walk
      BY <1>1 DEF LoaderInv
    <2>2. CASE i < n
      <3>1. i \in 1 .. n - 1 /\ i + 1 \in 1 .. n
        BY <1>1, <2>2
      <3>2. Awaited(i) = {stack[i + 1].plugin}
        BY <2>2 DEF Awaited
      <3>3. rest[i] = stack[i] /\ rest[i + 1].plugin = stack[i + 1].plugin
        BY <1>4, <1>7, <3>1
      <3>4. /\ stack[i].done <= Len(deps[stack[i].plugin])
            /\ Behind(i) \subseteq Loaded \cup Awaited(i)
            /\ stack[i].plugin \notin Loaded
        BY <2>1 DEF Walk
      <3>5. Behind(i) = {deps[stack[i].plugin][k] : k \in 1 .. stack[i].done}
        BY DEF Behind
      <3> QED  BY <2>2, <3>2, <3>3, <3>4, <3>5
    <2>3. CASE i = n
      <3>1. Behind(n) \subseteq Loaded
        <4>1. Awaited(n) = {}
          BY <1>1 DEF Awaited
        <4> QED  BY <1>1, <2>1, <4>1 DEF Walk
      <3>2. ASSUME NEW k \in 1 .. Top.done + 1
            PROVE  deps[Top.plugin][k] \in Loaded \cup {p}
        <4>1. CASE k = Top.done + 1
          BY <4>1 DEF p
        <4>2. CASE k \in 1 .. Top.done
          BY <1>1, <3>1, <4>2 DEF Behind
        <4> QED  BY <1>1, <4>1, <4>2
      <3>3. stack[n].plugin \notin Loaded
        BY <1>1, <2>1 DEF Walk
      <3> QED  BY <1>1, <1>2, <1>4, <2>3, <3>2, <3>3
    <2> QED  BY <1>1, <2>2, <2>3
  <1>10. CASE /\ p \in Loaded
              /\ stack' = rest
              /\ thrown' = thrown
    <2>1. Walk'
      <3>1. ASSUME NEW i \in 1 .. n
            PROVE  /\ stack'[i].done <= Len(deps'[stack'[i].plugin])
                   /\ Behind(i)' \subseteq Loaded' \cup Awaited(i)'
                   /\ stack'[i].plugin \notin Loaded'
        BY <1>1, <1>4, <1>5, <1>6, <1>9, <1>10 DEF Behind, Awaited
      <3> QED  BY <1>4, <1>10, <3>1 DEF Walk
    <2> QED  BY <1>5, <1>6, <1>8, <1>10, <2>1 DEF LoaderInv, LoaderTypes
  <1>11. CASE stack' = rest /\ thrown' = TRUE
    BY <1>5, <1>6, <1>8, <1>11 DEF LoaderInv, LoaderTypes
  <1>12. CASE /\ p \notin Loaded
              /\ p \notin OnStack
              /\ stack' = Append(rest, [plugin |-> p, done |-> 0])
              /\ thrown' = thrown
    <2> DEFINE new == [plugin |-> p, done |-> 0]
    <2>1. new \in Frame /\ new.plugin = p /\ new.done = 0
      BY <1>3 DEF Frame, p
    <2> HIDE DEF new
    <2>2. /\ stack' \in Seq(Frame)
          /\ Len(stack') = n + 1
          /\ \A i \in 1 .. n : stack'[i] = rest[i]
          /\ stack'[n + 1] = new
      BY <1>1, <1>4, <1>12, <2>1 DEF new
    <2>3. \A i \in 1 .. n : stack[i].plugin # p
      BY <1>1, <1>12 DEF OnStack, LoaderInv, LoaderTypes
    <2>4. \A i \in 1 .. n + 1 : i = n + 1 \/ i \in 1 .. n
      BY <1>1
    <2>5. Distinct'
      <3>1. \A i, j \in 1 .. n : i # j => stack[i].plugin # stack[j].plugin
        BY <1>1 DEF LoaderInv, LoaderTypes, Distinct
      <3>2. \A i \in 1 .. n : stack'[i].plugin = stack[i].plugin
        BY <1>7, <2>2
      <3>3. DOMAIN stack' = 1 .. n + 1
        BY <1>1, <2>2
      <3> QED  BY <2>1, <2>2, <2>3, <2>4, <3>1, <3>2, <3>3 DEF Distinct
    <2>6. Walk'
      <3>1. ASSUME NEW i \in 1 .. n + 1
            PROVE  /\ stack'[i].done <= Len(deps'[stack'[i].plugin])
                   /\ Behind(i)' \subseteq Loaded' \cup Awaited(i)'
                   /\ stack'[i].plugin \notin Loaded'
        <4>1. CASE i = n + 1
          <5>1. deps[p] \in Seq(Plugin)
            BY <1>3, Graph DEF LoaderInv, LoaderTypes, p
          <5> QED  BY <1>1, <1>5, <1>6, <1>12, <2>1, <2>2, <4>1, <5>1 DEF Behind, Awaited
        <4>2. CASE i \in 1 .. n - 1
          <5>1. i \in 1 .. n /\ i + 1 \in 1 .. n /\ i < n /\ i < n + 1
            BY <1>1, <4>2
          <5> QED  BY <1>1, <1>5, <1>6, <1>9, <2>2, <5>1 DEF Behind, Awaited
        <4>3. CASE i = n
          <5>1. n \in 1 .. n /\ n < n + 1 /\ ~(n < n)
            BY <1>1
          <5>2. stack'[n] = rest[n] /\ stack'[n + 1].plugin = p
            BY <2>1, <2>2, <5>1
          <5>3. Awaited(i)' = {p}
            BY <2>2, <4>3, <5>1, <5>2 DEF Awaited
          <5>4. Behind(i)' = {deps[rest[n].plugin][k] : k \in 1 .. rest[n].done}
            BY <1>5, <4>3, <5>2 DEF Behind
          <5>5. /\ rest[n].done <= Len(deps[rest[n].plugin])
                /\ rest[n].plugin \notin Loaded
                /\ {deps[rest[n].plugin][k] : k \in 1 .. rest[n].done} \subseteq Loaded \cup {p}
            BY <1>9, <5>1
          <5> QED  BY <1>5, <1>6, <4>3, <5>2, <5>3, <5>4, <5>5
        <4> QED  BY <1>1, <4>1, <4>2, <4>3
      <3> QED  BY <2>2, <3>1 DEF Walk
    <2> QED  BY <1>5, <1>6, <1>12, <2>2, <2>5, <2>6 DEF LoaderInv, LoaderTypes
  <1> QED  BY <1>5, <1>10, <1>11, <1>12 DEF Resolve

LEMMA ResolveRequestInv ==
  ASSUME LoaderInv, ResolveRequest
  PROVE  LoaderInv'
  <1> DEFINE p == plugins[at + 1]
             new == [plugin |-> p, done |-> 0]
  <1>1. plugins \in Seq(Plugin) /\ at \in Nat /\ at < Len(plugins) /\ Len(plugins) \in Nat
    BY LoaderAssumption DEF LoaderInv, LoaderTypes, ResolveRequest
  <1>2. p \in Plugin
    BY <1>1
  <1>3. new \in Frame /\ new.plugin = p /\ new.done = 0
    BY <1>2 DEF Frame
  <1>4. /\ Resolve(p, <<>>)
        /\ stack = <<>> /\ ~thrown
        /\ deps' = deps /\ plugins' = plugins /\ at' = at + 1 /\ loaded' = loaded
    BY DEF ResolveRequest
  <1>5. Loaded' = Loaded /\ DepsFirst' /\ LoadedOnce' /\ at' \in 0 .. Len(plugins)
    <2>1. at' \in 0 .. Len(plugins)
      BY <1>1, <1>4
    <2>2. deps' = deps /\ loaded' = loaded
      BY <1>4
    <2>3. Loaded' = Loaded /\ DepsFirst' /\ LoadedOnce'
      BY <2>2 DEF Loaded, LoaderInv, DepsFirst, LoadedOnce, DepSet
    <2> QED  BY <2>1, <2>3
  <1>6. CASE stack' = <<>> /\ thrown' = thrown
    <2>1. Len(stack') = 0 /\ DOMAIN stack' = {} /\ stack' \in Seq(Frame)
      BY <1>6
    <2>2. Distinct' /\ Walk'
      BY <2>1 DEF Distinct, Walk
    <2> QED  BY <1>4, <1>5, <1>6, <2>1, <2>2 DEF LoaderInv, LoaderTypes
  <1> HIDE DEF new, p
  <1>7. CASE p \notin Loaded /\ stack' = <<new>> /\ thrown' = thrown
    <2>1. stack' \in Seq(Frame) /\ Len(stack') = 1 /\ stack'[1] = new /\ DOMAIN stack' = {1}
      BY <1>3, <1>7
    <2>2. Distinct'
      BY <2>1 DEF Distinct
    <2>3. deps[p] \in Seq(Plugin) /\ Len(deps[p]) \in Nat
      BY <1>2, Graph DEF LoaderInv, LoaderTypes
    <2>4. Behind(1)' = {}
      BY <1>3, <2>1 DEF Behind
    <2>5. Walk'
      BY <1>3, <1>4, <1>5, <1>7, <2>1, <2>3, <2>4 DEF Walk
    <2> QED  BY <1>4, <1>5, <1>7, <2>1, <2>2, <2>5 DEF LoaderInv, LoaderTypes
  <1>8. p \notin OnStack
    BY <1>4 DEF OnStack
  <1>9. Append(<<>>, new) = <<new>>
    OBVIOUS
  <1> QED  BY <1>4, <1>6, <1>7, <1>8, <1>9 DEF Resolve, new

LEMMA InitialiseInv ==
  ASSUME LoaderInv, Initialise
  PROVE  LoaderInv'
  <1> DEFINE n == Len(stack)
             m == Len(loaded)
             q == Top.plugin
  <1>1. /\ n \in Nat \ {0}
        /\ Top = stack[n]
        /\ Top \in Frame
        /\ q \in Plugin
        /\ Top.done \in Nat
        /\ ~thrown
        /\ m \in Nat
        /\ loaded \in Seq(Plugin)
    BY TopOfStack, LenProperties DEF LoaderInv, LoaderTypes, Initialise
  <1>2. /\ deps[q] \in Seq(Plugin)
        /\ Len(deps[q]) \in Nat
        /\ Top.done = Len(deps[q])
    BY <1>1, Graph DEF LoaderInv, LoaderTypes, Initialise
  <1>3. Walk /\ Distinct
    BY <1>1 DEF LoaderInv
  <1>4. DepSet(q) \subseteq Loaded
    <2>1. Behind(n) \subseteq Loaded
      <3>1. Awaited(n) = {}
        BY <1>1 DEF Awaited
      <3> QED  BY <1>1, <1>3, <3>1 DEF Walk
    <2> QED  BY <1>1, <1>2, <2>1 DEF Behind, DepSet
  <1>5. q \notin Loaded
    BY <1>1, <1>3 DEF Walk
  <1>6. /\ loaded' = Append(loaded, q)
        /\ stack' = Below
        /\ deps' = deps /\ plugins' = plugins /\ at' = at /\ thrown' = thrown
    BY DEF Initialise
  <1>7. /\ stack' \in Seq(Frame)
        /\ Len(stack') = n - 1
        /\ DOMAIN stack' = 1 .. n - 1
        /\ \A i \in 1 .. n - 1 : stack'[i] = stack[i]
    BY <1>1, <1>6, TopOfStack, LenProperties DEF LoaderInv, Initialise
  <1> HIDE DEF q
  <1>8. /\ loaded' \in Seq(Plugin)
        /\ Len(loaded') = m + 1
        /\ DOMAIN loaded' = 1 .. m + 1
        /\ \A i \in 1 .. m : loaded'[i] = loaded[i]
        /\ loaded'[m + 1] = q
    BY <1>1, <1>6
  <1>9. DOMAIN loaded = 1 .. m /\ \A i \in 1 .. m + 1 : i = m + 1 \/ i \in 1 .. m
    BY <1>1
  <1>10. Loaded' = Loaded \cup {q}
    BY <1>1, <1>8, <1>9 DEF Loaded
  <1>11. LoadedOnce'
    <2>1. \A i \in 1 .. m : loaded[i] # q
      BY <1>5, <1>9 DEF Loaded
    <2>2. \A i, j \in 1 .. m : i # j => loaded[i] # loaded[j]
      BY <1>9 DEF LoaderInv, LoadedOnce
    <2> QED  BY <1>8, <1>9, <2>1, <2>2 DEF LoadedOnce
  <1>12. DepsFirst'
    <2>1. ASSUME NEW i \in 1 .. m + 1
          PROVE  DepSet(loaded'[i]) \subseteq {loaded'[j] : j \in 1 .. i - 1}
      <3>1. CASE i = m + 1
        <4>1. {loaded'[j] : j \in 1 .. m} = Loaded
          BY <1>8, <1>9 DEF Loaded
        <4>2. loaded'[i] = q /\ i - 1 = m
          BY <1>1, <1>8, <3>1
        <4> QED  BY <1>4, <4>1, <4>2
      <3>2. CASE i \in 1 .. m
        <4>1. \A j \in 1 .. i - 1 : j \in 1 .. m
          BY <1>1, <3>2
        <4>2. {loaded'[j] : j \in 1 .. i - 1} = {loaded[j] : j \in 1 .. i - 1}
          BY <1>8, <4>1
        <4>3. DepSet(loaded[i]) \subseteq {loaded[j] : j \in 1 .. i - 1}
          BY <1>9, <3>2 DEF LoaderInv, DepsFirst
        <4>4. loaded'[i] = loaded[i]
          BY <1>8, <3>2
        <4> QED  BY <4>2, <4>3, <4>4
      <3> QED  BY <1>9, <3>1, <3>2
    <2>2. deps' = deps
      BY <1>6
    <2>3. DOMAIN loaded' = 1 .. m + 1
      BY <1>8
    <2>4. \A i \in DOMAIN loaded' : DepSet(loaded'[i]) = {deps'[loaded'[i]][k] : k \in DOMAIN deps'[loaded'[i]]}
      BY <2>2 DEF DepSet
    <2> HIDE DEF m
    <2> QED  BY <2>1, <2>3, <2>4 DEF DepsFirst, DepSet
  <1>13. Distinct'
    <2>1. \A i \in 1 .. n - 1 : i \in 1 .. n
      BY <1>1
    <2>2. DOMAIN stack = 1 .. n
      BY <1>1 DEF LoaderInv, LoaderTypes
    <2> QED  BY <1>3, <1>7, <2>1, <2>2 DEF Distinct
  <1>14. Walk'
    <2>1. ASSUME NEW i \in 1 .. n - 1
          PROVE  /\ stack'[i].done <= Len(deps'[stack'[i].plugin])
                 /\ Behind(i)' \subseteq Loaded' \cup Awaited(i)'
                 /\ stack'[i].plugin \notin Loaded'
      <3>1. i \in 1 .. n /\ i + 1 \in 1 .. n /\ n \in 1 .. n /\ i # n /\ i < n
        BY <1>1
      <3>2. stack[i].plugin # q
        <4>1. DOMAIN stack = 1 .. n
          BY <1>1 DEF LoaderInv, LoaderTypes
        <4> QED  BY <1>1, <1>3, <3>1, <4>1 DEF Distinct, q
      <3>3. Behind(i)' = Behind(i)
        BY <1>6, <1>7 DEF Behind
      <3>4. Awaited(i) \subseteq Loaded' \cup Awaited(i)'
        <4>1. CASE i + 1 = n
          BY <1>1, <1>10, <4>1 DEF Awaited, q
        <4>2. CASE i + 1 \in 1 .. n - 1
          BY <1>1, <1>7, <4>2 DEF Awaited
        <4> QED  BY <1>1, <4>1, <4>2
      <3> QED  BY <1>3, <1>6, <1>7, <1>10, <3>1, <3>2, <3>3, <3>4 DEF Walk
    <2> QED  BY <1>7, <2>1 DEF Walk
  <1> QED  BY <1>6, <1>7, <1>8, <1>11, <1>12, <1>13, <1>14 DEF LoaderInv, LoaderTypes

LEMMA LoaderNextInv == LoaderInv /\ [LoaderNext]_loaderVars => LoaderInv'
  <1> SUFFICES ASSUME LoaderInv, [LoaderNext]_loaderVars PROVE LoaderInv'
    OBVIOUS
  <1>1. CASE UNCHANGED loaderVars
    <2>1. /\ deps' = deps /\ plugins' = plugins /\ at' = at /\ stack' = stack
          /\ loaded' = loaded /\ thrown' = thrown
      BY <1>1 DEF loaderVars
    <2>2. LoaderTypes'  BY <2>1 DEF LoaderInv, LoaderTypes
    <2>3. Loaded' = Loaded /\ DepsFirst' /\ LoadedOnce'
      BY <2>1 DEF LoaderInv, Loaded, DepsFirst, LoadedOnce, DepSet
    <2>4. Distinct'  BY <2>1 DEF LoaderInv, Distinct
    <2>5. \A i : Behind(i)' = Behind(i) /\ Awaited(i)' = Awaited(i)
      BY <2>1 DEF Behind, Awaited
    <2>6. (~thrown => Walk)'
      BY <2>1, <2>3, <2>5 DEF LoaderInv, Walk
    <2> QED  BY <2>2, <2>3, <2>4, <2>6 DEF LoaderInv
  <1> QED  BY <1>1, ResolveDepInv, ResolveRequestInv, InitialiseInv DEF LoaderNext

LEMMA LoaderInvariance == LoaderSpec => []LoaderInv
  BY InitLoaderInv, LoaderNextInv, PTL DEF LoaderSpec

(* The loader's variables keep their types, and no plugin is on the stack  *)
(* twice.                                                                  *)
THEOREM LoaderTypeCorrect == LoaderSpec => []LoaderTypeOK
  <1>1. LoaderInv => LoaderTypeOK  BY DEF LoaderInv, LoaderTypes, Distinct, LoaderTypeOK
  <1> QED  BY <1>1, LoaderInvariance, PTL

(* A plugin is initialised after all of its dependencies.                  *)
THEOREM DependenciesFirst == LoaderSpec => []DepsFirst
  <1>1. LoaderInv => DepsFirst  BY DEF LoaderInv
  <1> QED  BY <1>1, LoaderInvariance, PTL

(* No plugin is initialised twice.                                         *)
THEOREM InitialisedOnce == LoaderSpec => []LoadedOnce
  <1>1. LoaderInv => LoadedOnce  BY DEF LoaderInv
  <1> QED  BY <1>1, LoaderInvariance, PTL

-----------------------------------------------------------------------------
(* What is loaded in the end.  The stack is a path of the graph; what is   *)
(* loaded or on it is needed, and whatever was requested up to `at` is     *)
(* loaded or on it; a cycle that is reported is a part of the path.        *)
Path == \A i \in 1 .. Len(stack) - 1 : stack[i + 1].plugin \in DepSet(stack[i].plugin)
Reached == \A T \in SUBSET Plugin : Closed(T) => Loaded \cup OnStack \subseteq T
Walked == \A i \in 1 .. at : plugins[i] \in Loaded \cup OnStack
Report == \E S \in SUBSET OnStack : Cyclic(S)
NeedInv == /\ Path
           /\ Reached
           /\ ~thrown => Walked
           /\ thrown => Report

LEMMA NeededIs ==
  ASSUME deps \in Graphs, plugins \in Requests
  PROVE  /\ Needed \in SUBSET Plugin /\ Closed(Needed)
         /\ \A T \in SUBSET Plugin : Closed(T) => Needed \subseteq T
  <1> DEFINE M == {p \in Plugin : \A T \in SUBSET Plugin : Closed(T) => p \in T}
  <1>1. Requested \subseteq Plugin /\ \A p \in Plugin : DepSet(p) \subseteq Plugin
    <2>1. Requested \subseteq Plugin
      BY LoaderAssumption DEF Requested
    <2>2. ASSUME NEW p \in Plugin PROVE DepSet(p) \subseteq Plugin
      BY Graph DEF DepSet
    <2> QED  BY <2>1, <2>2
  <1>2. Closed(M)
    BY <1>1 DEF Closed
  <1>3. \A T \in SUBSET Plugin : Closed(T) => M \subseteq T
    OBVIOUS
  <1>4. M \in SUBSET Plugin
    OBVIOUS
  <1> HIDE DEF M
  <1>5. \E S \in SUBSET Plugin : Closed(S) /\ \A T \in SUBSET Plugin : Closed(T) => S \subseteq T
    BY <1>2, <1>3, <1>4
  <1> QED  BY <1>5, Zenon DEF Needed

(* The plugins of the frames, as a dependency of the top one is resolved.  *)
LEMMA DepFrames ==
  ASSUME LoaderInv, ResolveDep, NEW p, p = deps[Top.plugin][Top.done + 1]
  PROVE  /\ Len(stack) \in Nat \ {0} /\ Top = stack[Len(stack)]
         /\ p \in DepSet(Top.plugin)
         /\ \/ /\ Len(stack') = Len(stack)
               /\ \A i \in 1 .. Len(stack) : stack'[i].plugin = stack[i].plugin
               /\ thrown' = thrown \/ p \in OnStack
            \/ /\ Len(stack') = Len(stack) + 1
               /\ \A i \in 1 .. Len(stack) : stack'[i].plugin = stack[i].plugin
               /\ stack'[Len(stack) + 1].plugin = p
               /\ thrown' = thrown
  <1> DEFINE next == [plugin |-> Top.plugin, done |-> Top.done + 1]
             new == [plugin |-> p, done |-> 0]
             rest == Append(Below, next)
  <1>1. /\ Len(stack) \in Nat \ {0} /\ Top = stack[Len(stack)]
        /\ Top.plugin \in Plugin /\ Top.done \in Nat
        /\ Below \in Seq(Frame) /\ Len(Below) = Len(stack) - 1
        /\ \A i \in 1 .. Len(stack) - 1 : Below[i] = stack[i]
    BY TopOfStack DEF LoaderInv, ResolveDep
  <1>2. deps[Top.plugin] \in Seq(Plugin) /\ Top.done + 1 \in DOMAIN deps[Top.plugin]
    BY <1>1, Graph DEF LoaderInv, LoaderTypes, ResolveDep
  <1>3. p \in Plugin /\ p \in DepSet(Top.plugin)
    BY <1>2 DEF DepSet
  <1>4. /\ next \in Frame /\ next.plugin = Top.plugin
        /\ new \in Frame /\ new.plugin = p
    BY <1>1, <1>3 DEF Frame
  <1> HIDE DEF next, new
  <1>5. rest \in Seq(Frame) /\ Len(rest) = Len(stack)
        /\ \A i \in 1 .. Len(stack) : rest[i].plugin = stack[i].plugin
    BY <1>1, <1>4, AppendToSeq
  <1> HIDE DEF rest
  <1>6. \/ stack' = rest /\ (thrown' = thrown \/ p \in OnStack)
        \/ stack' = Append(rest, new) /\ thrown' = thrown
    BY DEF ResolveDep, Resolve, rest, next, new
  <1>7. CASE stack' = rest /\ (thrown' = thrown \/ p \in OnStack)
    BY <1>1, <1>3, <1>5, <1>7
  <1>8. CASE stack' = Append(rest, new) /\ thrown' = thrown
    <2>1. /\ Len(stack') = Len(stack) + 1 /\ stack'[Len(stack) + 1] = new
          /\ \A i \in 1 .. Len(stack) : stack'[i] = rest[i]
      BY <1>4, <1>5, <1>8, AppendToSeq
    <2> QED  BY <1>1, <1>3, <1>4, <1>5, <1>8, <2>1
  <1> QED  BY <1>6, <1>7, <1>8

LEMMA ResolveDepReaches ==
  ASSUME LoaderInv, NeedInv, ResolveDep
  PROVE  NeedInv'
  <1> DEFINE n == Len(stack)
  <1>1. PICK p : p = deps[Top.plugin][Top.done + 1]
    OBVIOUS
  <1>2. /\ n \in Nat \ {0} /\ Top = stack[n] /\ p \in DepSet(Top.plugin)
        /\ \/ /\ Len(stack') = n
              /\ \A i \in 1 .. n : stack'[i].plugin = stack[i].plugin
              /\ thrown' = thrown \/ p \in OnStack
           \/ /\ Len(stack') = n + 1
              /\ \A i \in 1 .. n : stack'[i].plugin = stack[i].plugin
              /\ stack'[n + 1].plugin = p
              /\ thrown' = thrown
    BY <1>1, DepFrames
  <1>3. /\ ~thrown
        /\ deps' = deps /\ plugins' = plugins /\ at' = at /\ loaded' = loaded
    BY DEF ResolveDep
  <1>4. Loaded' = Loaded /\ \A q : DepSet(q)' = DepSet(q)
    BY <1>3 DEF Loaded, DepSet
  <1>5. \A T \in SUBSET Plugin : Closed(T)' => Closed(T)
    BY <1>3, <1>4 DEF Closed, Requested
  <1>6. DOMAIN stack = 1 .. n /\ DOMAIN stack' = 1 .. Len(stack')
    <2>1. stack \in Seq(Frame) /\ stack' \in Seq(Frame)
      BY ResolveDepInv DEF LoaderInv, LoaderTypes
    <2> QED  BY <2>1
  <1>7. Top.plugin \in OnStack
    <2>1. n \in 1 .. n
      BY <1>2
    <2> QED  BY <1>2, <1>6, <2>1 DEF OnStack
  <1>8. OnStack' \subseteq OnStack \cup {p} /\ OnStack \subseteq OnStack'
    <2>1. OnStack = {stack[i].plugin : i \in 1 .. n}
      BY <1>6 DEF OnStack
    <2>2. OnStack' = {stack'[i].plugin : i \in 1 .. Len(stack')}
      BY <1>6 DEF OnStack
    <2>3. CASE Len(stack') = n
      BY <1>2, <2>1, <2>2, <2>3
    <2>4. CASE Len(stack') = n + 1 /\ stack'[n + 1].plugin = p
      <3>1. \A i \in 1 .. n + 1 : i \in 1 .. n \/ i = n + 1
        BY <1>2
      <3>2. \A i \in 1 .. n : i \in 1 .. n + 1
        BY <1>2
      <3> QED  BY <1>2, <2>1, <2>2, <2>4, <3>1, <3>2
    <2> QED  BY <1>2, <2>3, <2>4
  <1>9. ASSUME NEW T \in SUBSET Plugin, Closed(T)' PROVE (Loaded \cup OnStack)' \subseteq T
    <2>1. Closed(T) /\ Loaded \cup OnStack \subseteq T
      BY <1>5, <1>9 DEF NeedInv, Reached
    <2>2. p \in T
      BY <1>2, <1>7, <2>1 DEF Closed
    <2> QED  BY <1>4, <1>8, <2>1, <2>2
  <1>10. Walked'
    BY <1>3, <1>4, <1>8 DEF NeedInv, Walked
  <1>11. \A i \in 1 .. n - 1 : stack[i + 1].plugin \in DepSet(stack[i].plugin)
    BY DEF NeedInv, Path
  <1>12. Path'
    <2>1. ASSUME NEW i \in 1 .. Len(stack') - 1
          PROVE  stack'[i + 1].plugin \in DepSet(stack'[i].plugin)
      <3>1. CASE i \in 1 .. n - 1
        BY <1>2, <1>11, <3>1
      <3>2. CASE i \notin 1 .. n - 1
        <4>1. i = n /\ Len(stack') = n + 1
          BY <1>2, <3>2
        <4> QED  BY <1>2, <4>1
      <3> QED  BY <3>1, <3>2
    <2> QED  BY <1>4, <2>1 DEF Path
  <1>13. ASSUME thrown' PROVE Report'
    <2>1. p \in OnStack /\ OnStack' = OnStack
      BY <1>2, <1>3, <1>6, <1>13 DEF OnStack
    <2>2. PICK k \in 1 .. n : stack[k].plugin = p
      BY <1>6, <2>1 DEF OnStack
    <2> DEFINE S == {stack[i].plugin : i \in k .. n}
    <2>3. S \in SUBSET OnStack
      <3>1. n \in Int /\ k \in Int /\ 1 <= k
        BY <1>2
      <3>2. \A i \in k .. n : i \in 1 .. n
        BY <3>1
      <3> QED  BY <1>6, <3>2 DEF OnStack
    <2>4. p \in S
      BY <1>2, <2>2
    <2>5. ASSUME NEW q \in S PROVE DepSet(q) \cap S # {}
      <3>1. PICK i \in k .. n : q = stack[i].plugin
        OBVIOUS
      <3>2. CASE i = n
        BY <1>2, <2>4, <3>1, <3>2
      <3>3. CASE i # n
        <4>1. i \in 1 .. n - 1 /\ i + 1 \in k .. n
          BY <1>2, <3>3
        <4>2. stack[i + 1].plugin \in DepSet(q) /\ stack[i + 1].plugin \in S
          BY <1>11, <3>1, <4>1
        <4> QED  BY <4>2
      <3> QED  BY <3>2, <3>3
    <2> HIDE DEF S
    <2>6. PICK C \in SUBSET OnStack : C # {} /\ \A q \in C : DepSet(q) \cap C # {}
      BY <2>3, <2>4, <2>5
    <2>7. Cyclic(C)'
      BY <1>4, <2>6 DEF Cyclic
    <2> QED  BY <2>1, <2>6, <2>7 DEF Report
  <1>14. Reached'
    BY <1>9 DEF Reached
  <1> QED  BY <1>10, <1>12, <1>13, <1>14 DEF NeedInv

LEMMA ResolveRequestReaches ==
  ASSUME LoaderInv, NeedInv, ResolveRequest
  PROVE  NeedInv'
  <1>1. /\ plugins \in Seq(Plugin) /\ at \in Nat /\ at < Len(plugins)
        /\ Len(plugins) \in Nat
    BY LoaderAssumption DEF LoaderInv, LoaderTypes, ResolveRequest
  <1>2. PICK p : p = plugins[at + 1]
    OBVIOUS
  <1>3. p \in Plugin /\ p \in Requested
    BY <1>1, <1>2 DEF Requested
  <1> DEFINE new == [plugin |-> p, done |-> 0]
  <1>4. /\ ~thrown /\ stack = <<>> /\ OnStack = {}
        /\ deps' = deps /\ plugins' = plugins /\ at' = at + 1 /\ loaded' = loaded
        /\ thrown' = thrown
        /\ \/ p \in Loaded /\ stack' = <<>>
           \/ stack' = <<new>>
    <2>1. stack = <<>> /\ OnStack = {}
      BY DEF ResolveRequest, OnStack
    <2>2. Append(<<>>, new) = <<new>>
      OBVIOUS
    <2> QED  BY <1>2, <2>1, <2>2 DEF ResolveRequest, Resolve
  <1>5. Loaded' = Loaded /\ \A q : DepSet(q)' = DepSet(q)
    BY <1>4 DEF Loaded, DepSet
  <1>6. new.plugin = p
    OBVIOUS
  <1> HIDE DEF new
  <1>7. Path' /\ OnStack' \subseteq {p} /\ p \in (Loaded \cup OnStack)'
    <2>1. CASE p \in Loaded /\ stack' = <<>>
      BY <1>5, <2>1 DEF Path, OnStack
    <2>2. CASE stack' = <<new>>
      <3>1. DOMAIN stack' = {1} /\ Len(stack') = 1 /\ stack'[1] = new
        BY <2>2
      <3> QED  BY <1>6, <3>1 DEF Path, OnStack
    <2> QED  BY <1>4, <2>1, <2>2
  <1>8. ASSUME NEW T \in SUBSET Plugin, Closed(T)' PROVE (Loaded \cup OnStack)' \subseteq T
    <2>1. Closed(T)
      BY <1>4, <1>5, <1>8 DEF Closed, Requested
    <2>2. Loaded \subseteq T /\ p \in T
      BY <1>3, <2>1 DEF NeedInv, Reached, Closed
    <2> QED  BY <1>5, <1>7, <2>2
  <1>9. Walked'
    <2>1. ASSUME NEW i \in 1 .. at + 1 PROVE plugins'[i] \in (Loaded \cup OnStack)'
      <3>1. CASE i \in 1 .. at
        BY <1>4, <1>5, <3>1 DEF NeedInv, Walked
      <3>2. CASE i = at + 1
        BY <1>2, <1>4, <1>7, <3>2
      <3> QED  BY <1>1, <3>1, <3>2
    <2> QED  BY <1>4, <2>1 DEF Walked
  <1> QED  BY <1>4, <1>7, <1>8, <1>9 DEF NeedInv, Reached

LEMMA InitialiseReaches ==
  ASSUME LoaderInv, NeedInv, Initialise
  PROVE  NeedInv'
  <1> DEFINE n == Len(stack)
             m == Len(loaded)
  <1>1. /\ n \in Nat \ {0} /\ Top = stack[n] /\ Top.plugin \in Plugin
        /\ Below \in Seq(Frame) /\ Len(Below) = n - 1
        /\ \A i \in 1 .. n - 1 : Below[i] = stack[i]
        /\ DOMAIN stack = 1 .. n
    BY TopOfStack DEF LoaderInv, LoaderTypes, Initialise
  <1>2. /\ ~thrown /\ thrown' = thrown
        /\ deps' = deps /\ plugins' = plugins /\ at' = at
        /\ stack' = Below /\ loaded' = Append(loaded, Top.plugin)
    BY DEF Initialise
  <1>3. /\ Len(stack') = n - 1 /\ DOMAIN stack' = 1 .. n - 1
        /\ \A i \in 1 .. n - 1 : stack'[i] = stack[i]
    BY <1>1, <1>2, LenProperties
  <1>4. /\ m \in Nat /\ DOMAIN loaded = 1 .. m /\ DOMAIN loaded' = 1 .. m + 1
        /\ \A i \in 1 .. m : loaded'[i] = loaded[i]
        /\ loaded'[m + 1] = Top.plugin
    <2>1. loaded \in Seq(Plugin)
      BY DEF LoaderInv, LoaderTypes
    <2>2. loaded' \in Seq(Plugin) /\ Len(loaded') = m + 1 /\ m \in Nat
      BY <1>1, <1>2, <2>1, AppendToSeq
    <2> QED  BY <1>1, <1>2, <2>1, <2>2, AppendToSeq
  <1>5. Loaded' = Loaded \cup {Top.plugin}
    BY <1>4 DEF Loaded
  <1>6. OnStack = OnStack' \cup {Top.plugin}
    BY <1>1, <1>3 DEF OnStack
  <1>7. (Loaded \cup OnStack)' = Loaded \cup OnStack
    BY <1>5, <1>6
  <1>8. \A q : DepSet(q)' = DepSet(q)
    BY <1>2 DEF DepSet
  <1>9. Path'
    <2>1. \A i \in 1 .. n - 1 : stack[i + 1].plugin \in DepSet(stack[i].plugin)
      BY DEF NeedInv, Path
    <2>2. ASSUME NEW i \in 1 .. Len(stack') - 1
          PROVE  stack'[i + 1].plugin \in DepSet(stack'[i].plugin)
      <3>1. i \in 1 .. n - 1 /\ i + 1 \in 1 .. n - 1
        BY <1>1, <1>3
      <3> QED  BY <1>3, <2>1, <3>1
    <2> QED  BY <1>8, <2>2 DEF Path
  <1>10. Reached'
    <2>1. \A T \in SUBSET Plugin : Closed(T)' => Closed(T)
      BY <1>2, <1>8 DEF Closed, Requested
    <2> QED  BY <1>7, <2>1 DEF NeedInv, Reached
  <1>11. Walked'
    BY <1>2, <1>7 DEF NeedInv, Walked
  <1> QED  BY <1>2, <1>9, <1>10, <1>11 DEF NeedInv

LEMMA Reaches == LoaderSpec => [](LoaderInv /\ NeedInv)
  <1>1. LoaderInit => NeedInv
    <2> SUFFICES ASSUME LoaderInit PROVE NeedInv
      OBVIOUS
    <2>1. /\ Len(stack) = 0 /\ DOMAIN stack = {} /\ DOMAIN loaded = {}
      BY DEF LoaderInit
    <2>2. OnStack = {} /\ Loaded = {}
      BY <2>1 DEF OnStack, Loaded
    <2> QED  BY <2>1, <2>2 DEF LoaderInit, NeedInv, Path, Reached, Walked
  <1>2. LoaderInv /\ NeedInv /\ [LoaderNext]_loaderVars => NeedInv'
    <2> SUFFICES ASSUME LoaderInv, NeedInv, [LoaderNext]_loaderVars PROVE NeedInv'
      OBVIOUS
    <2>1. CASE UNCHANGED loaderVars
      <3>1. /\ Loaded' = Loaded /\ OnStack' = OnStack /\ at' = at /\ thrown' = thrown
            /\ plugins' = plugins /\ stack' = stack
            /\ \A q : DepSet(q)' = DepSet(q)
        BY <2>1 DEF loaderVars, Loaded, OnStack, DepSet
      <3>2. \A T : Closed(T)' = Closed(T) /\ Cyclic(T)' = Cyclic(T)
        BY <3>1 DEF Closed, Cyclic, Requested
      <3> QED  BY <3>1, <3>2 DEF NeedInv, Path, Reached, Walked, Report
    <2> QED
      BY <2>1, ResolveDepReaches, ResolveRequestReaches, InitialiseReaches DEF LoaderNext
  <1> QED  BY <1>1, <1>2, InitLoaderInv, LoaderNextInv, PTL DEF LoaderSpec

(* loadPlugins() returns with exactly the plugins that were requested and  *)
(* what they need, and throws only if these contain a cycle.               *)
THEOREM NeededAreLoaded == LoaderSpec => []LoadsWhatIsNeeded
  <1>1. LoaderInv /\ NeedInv => LoadsWhatIsNeeded
    <2> SUFFICES ASSUME LoaderInv, NeedInv PROVE LoadsWhatIsNeeded
      OBVIOUS
    <2>1. /\ deps \in Graphs /\ plugins \in Requests /\ loaded \in Seq(Plugin)
          /\ plugins \in Seq(Plugin)
      BY LoaderAssumption DEF LoaderInv, LoaderTypes
    <2>2. /\ Needed \in SUBSET Plugin /\ Closed(Needed)
          /\ \A T \in SUBSET Plugin : Closed(T) => Needed \subseteq T
      BY <2>1, NeededIs
    <2>3. Loaded \cup OnStack \subseteq Needed
      BY <2>2 DEF NeedInv, Reached
    <2>4. ASSUME Returned PROVE Loaded = Needed
      <3>1. OnStack = {} /\ Walked /\ at = Len(plugins)
        BY <2>4 DEF Returned, OnStack, NeedInv
      <3>2. Requested \subseteq Loaded
        BY <2>1, <3>1 DEF Requested, Walked
      <3>3. ASSUME NEW p \in Loaded PROVE DepSet(p) \subseteq Loaded
        <4>1. PICK i \in DOMAIN loaded : loaded[i] = p
          BY DEF Loaded
        <4>2. DepSet(p) \subseteq {loaded[j] : j \in 1 .. i - 1}
          BY <4>1 DEF LoaderInv, DepsFirst
        <4>3. \A j \in 1 .. i - 1 : j \in DOMAIN loaded
          BY <2>1, <4>1
        <4> QED  BY <4>2, <4>3 DEF Loaded
      <3>4. Loaded \in SUBSET Plugin
        BY <2>1 DEF Loaded
      <3> QED  BY <2>2, <2>3, <3>2, <3>3, <3>4 DEF Closed
    <2>5. ASSUME thrown PROVE \E S \in SUBSET Needed : Cyclic(S)
      BY <2>3, <2>5 DEF NeedInv, Report
    <2> QED  BY <2>4, <2>5 DEF LoadsWhatIsNeeded
  <1> QED  BY <1>1, Reaches, PTL
=============================================================================
