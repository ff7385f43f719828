----------------------------- MODULE FifoServer -----------------------------
(***************************************************************************)
(* What a bounded work queue promises, with no mechanism: tasks arrive in  *)
(* an order, at any moment the ones being served are the earliest          *)
(* unfinished arrivals, as many as there are servers, and finishing one    *)
(* leaves room for the next arrival in line.                               *)
(***************************************************************************)
EXTENDS Integers, Sequences, FiniteSets

CONSTANTS Task,        \* the things to be served
          Servers      \* how many are served at the same time

VARIABLES added,       \* every arrival so far, in order of arrival
          done         \* the tasks that have been served

vars == <<added, done>>

Arrived == {added[i] : i \in DOMAIN added}

(* The first |done| + Servers arrivals have been admitted; those not done  *)
(* are being served now.                                                   *)
Admitted == {i \in DOMAIN added : i <= Cardinality(done) + Servers}
InService == {added[i] : i \in Admitted} \ done

Init == added = <<>> /\ done = {}

Arrive(t) == /\ t \notin Arrived
             /\ added' = Append(added, t)
             /\ UNCHANGED done

Finish(t) == /\ t \in InService
             /\ done' = done \cup {t}
             /\ UNCHANGED added

Next == \E t \in Task : Arrive(t) \/ Finish(t)

Spec == /\ Init /\ [][Next]_vars
        /\ \A t \in Task : WF_vars(Finish(t))
=============================================================================
