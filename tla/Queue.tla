------------------------------- MODULE Queue --------------------------------
(***************************************************************************)
(* The async queue of core/queue.ts.  `newQueue(concurrency)` keeps a      *)
(* counter `pending` of running tasks and an array `queue` of the ones     *)
(* that wait.  A task is an async function: it starts inside add() or      *)
(* inside the `finally` of another task, and its promise settles later,    *)
(* in an order of its own.                                                 *)
(***************************************************************************)
EXTENDS Integers, Sequences, FiniteSets

CONSTANTS Task,          \* the functions given to add(), each at most once
          Concurrency    \* the argument of newQueue()

ASSUME ConcurrencyAssumption == Concurrency \in Nat \ {0}

VARIABLES pending,       \* `pending`
          queue,         \* `queue`, as the tasks whose run() it holds
          status,        \* what has become of each task
          added          \* history: the tasks in the order of their add()

vars == <<pending, queue, status, added>>

Outcome == {"fulfilled", "rejected"}
Status == {"new", "waiting", "running"} \cup Outcome

Running == {t \in Task : status[t] = "running"}
Settled == {t \in Task : status[t] \in Outcome}

Init == /\ pending = 0
        /\ queue = <<>>
        /\ status = [t \in Task |-> "new"]
        /\ added = <<>>

HasSlot_Bug_OffByOne == pending <= Concurrency
HasSlot == pending < Concurrency

(* add(fn) with a free slot: run() counts itself and calls fn at once.     *)
AddRuns(t) == /\ HasSlot
              /\ pending' = pending + 1
              /\ status' = [status EXCEPT ![t] = "running"]
              /\ UNCHANGED queue

(* add(fn) with every slot taken: run is pushed.                           *)
AddWaits(t) == /\ ~HasSlot
               /\ queue' = Append(queue, t)
               /\ status' = [status EXCEPT ![t] = "waiting"]
               /\ UNCHANGED pending

Add(t) == /\ status[t] = "new"
          /\ added' = Append(added, t)
          /\ AddRuns(t) \/ AddWaits(t)

(* queue.shift(): who starts next, and who goes on waiting.                *)
Shift_Bug_Pop == [next |-> queue[Len(queue)], rest |-> SubSeq(queue, 1, Len(queue) - 1)]
Shift == [next |-> Head(queue), rest |-> Tail(queue)]

(* The `finally` of run() gives the slot back; if a task waits, the first  *)
(* one starts and takes the slot again.                                    *)
ReleaseIdle(t, outcome) == /\ queue = <<>>
                           /\ pending' = pending - 1
                           /\ status' = [status EXCEPT ![t] = outcome]
                           /\ UNCHANGED queue

ReleaseNext(t, outcome) == /\ queue # <<>>
                           /\ queue' = Shift.rest
                           /\ status' = [status EXCEPT ![t] = outcome,
                                                      ![Shift.next] = "running"]
                           /\ UNCHANGED pending

(* The promise of fn settles: run() passes the outcome on and releases.    *)
Settle(t, outcome) == /\ status[t] = "running"
                      /\ ReleaseIdle(t, outcome) \/ ReleaseNext(t, outcome)
                      /\ UNCHANGED added

Next == \E t \in Task : Add(t) \/ \E outcome \in Outcome : Settle(t, outcome)

(* A running task settles sooner or later: the queue never cancels one.    *)
Fairness == \A t \in Task : WF_vars(\E o \in Outcome : Settle(t, o))

Spec == Init /\ [][Next]_vars /\ Fairness

-----------------------------------------------------------------------------
(* Type invariant of the queue's two variables and the two histories.      *)
TypeOK == /\ pending \in 0 .. Concurrency
          /\ queue \in Seq(Task)
          /\ status \in [Task -> Status]
          /\ added \in Seq(Task)

(* Nothing waits while a slot is free, the counter is the number of tasks  *)
(* really running, and so at most Concurrency run at once: the reason for  *)
(* core/queue.ts to exist.                                                 *)
SlotsExact == /\ pending = Cardinality(Running)
              /\ pending <= Concurrency
              /\ queue # <<>> => pending = Concurrency

(* A queue is a work-conserving FIFO server with Concurrency places,       *)
(* whatever the order in which the tasks settle and whether they fulfil    *)
(* or reject; in particular every added task is started and settles.       *)
Server == INSTANCE FifoServer WITH Servers <- Concurrency, done <- Settled
IsFifoServer == Server!Spec
=============================================================================
