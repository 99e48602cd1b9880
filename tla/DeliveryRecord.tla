--------------------------- MODULE DeliveryRecord ---------------------------
(***************************************************************************)
(* Classes DeliveryRecord (src/vpn_server.py) and ClientDeliveryRecord     *)
(* (src/vpn_client.py): a log under a lock, to which the receive and TUN   *)
(* threads append, and in which callers of wait_for look for a record they *)
(* describe, sleeping on an event between two looks.  The event is set     *)
(* under the lock, but wait_for clears it without.                         *)
(***************************************************************************)
EXTENDS Integers, FiniteSets

CONSTANTS
  Recorders,      \* threads that append
  Waiters,        \* threads in wait_for; each waits for a record of its own
  None,
  MaxRecords,     \* bound: records ever appended
  MaxClears       \* bound: calls of clear

ASSUME DeliveryAssumption ==
  /\ None \notin Recorders \cup Waiters
  /\ MaxRecords \in Nat /\ MaxClears \in Nat

VARIABLES
  records,      \* self._records: the waiters whose predicate some record meets
  event,        \* self._event is set
  lock,         \* who holds self._lock: a recorder, "clear" or None
  waiter,       \* where each waiter is
  expired,      \* the waiter's deadline has passed
  result,       \* what wait_for returned: None or a record
  appended, cleared,      \* how many records and calls of clear there were
  in_time       \* history: the waiter's record came before its deadline and is
                \* still there

vars == <<records, event, lock, waiter, expired, result, appended, cleared, in_time>>

Init ==
  /\ records = {} /\ event = FALSE /\ lock = None
  /\ waiter = [w \in Waiters |-> "loop"]
  /\ expired = [w \in Waiters |-> FALSE]
  /\ result = [w \in Waiters |-> None]
  /\ appended = 0 /\ cleared = 0
  /\ in_time = [w \in Waiters |-> FALSE]

-----------------------------------------------------------------------------
(* record and clear: two steps each, with the lock held.                   *)

Append(r) ==
  /\ lock = None /\ appended < MaxRecords
  /\ lock' = r
  /\ appended' = appended + 1
  /\ \E w \in Waiters :
       /\ records' = records \cup {w}
       /\ in_time' = [in_time EXCEPT ![w] = @ \/ ~expired[w]]
  /\ UNCHANGED <<event, waiter, expired, result, cleared>>

\* Whoever sleeps is woken.
SetEvent(r) ==
  /\ lock = r
  /\ lock' = None
  /\ event' = TRUE
  /\ waiter' = [w \in Waiters |-> IF waiter[w] = "asleep" THEN "loop" ELSE waiter[w]]
  /\ UNCHANGED <<records, expired, result, appended, cleared, in_time>>

ClearRecords ==
  /\ lock = None /\ cleared < MaxClears
  /\ lock' = "clear"
  /\ cleared' = cleared + 1
  /\ records' = {}
  /\ in_time' = [w \in Waiters |-> FALSE]
  /\ UNCHANGED <<event, waiter, expired, result, appended>>

ClearEvent ==
  /\ lock = "clear"
  /\ lock' = None
  /\ event' = FALSE
  /\ UNCHANGED <<records, waiter, expired, result, appended, cleared, in_time>>

-----------------------------------------------------------------------------
(* wait_for.                                                               *)

\* A look through the log, under the lock.
Search(w, otherwise) ==
  /\ lock = None
  /\ waiter' = [waiter EXCEPT ![w] = IF w \in records THEN "done" ELSE otherwise]
  /\ result' = [result EXCEPT ![w] = IF w \in records THEN w ELSE None]

Look(w) ==
  /\ waiter[w] = "loop"
  /\ \/ /\ ~expired[w]
        /\ Search(w, "searched")
     \/ /\ expired[w]
        /\ waiter' = [waiter EXCEPT ![w] = "last"]
        /\ UNCHANGED result
  /\ UNCHANGED <<records, event, lock, expired, appended, cleared, in_time>>

\* Nothing was found: the event is cleared, not under the lock, and then
\* waited for, which is over at once if it has been set again in between.
ClearAfterSearch(w) ==
  /\ waiter[w] = "searched"
  /\ waiter' = [waiter EXCEPT ![w] = IF expired[w] THEN "last" ELSE "clear"]
  /\ event' = IF expired[w] THEN event ELSE FALSE
  /\ UNCHANGED <<records, lock, expired, result, appended, cleared, in_time>>

Wait(w) ==
  /\ waiter[w] = "clear"
  /\ waiter' = [waiter EXCEPT ![w] = IF event THEN "loop" ELSE "asleep"]
  /\ UNCHANGED <<records, event, lock, expired, result, appended, cleared, in_time>>

\* Mutant: the sleep lasts until the deadline, not for 0.1 seconds.
SleepToDeadline(w) ==
  /\ waiter[w] = "asleep" /\ expired[w]
  /\ waiter' = [waiter EXCEPT ![w] = "loop"]
  /\ UNCHANGED <<records, event, lock, expired, result, appended, cleared, in_time>>

\* Mutant: the sleep has no limit at all.
SleepUntilSet(w) ==
  /\ waiter[w] = "asleep" /\ event
  /\ waiter' = [waiter EXCEPT ![w] = "loop"]
  /\ UNCHANGED <<records, event, lock, expired, result, appended, cleared, in_time>>

\* min(0.1, remaining) seconds are over.
PollIntervalEnds(w) ==
  /\ waiter[w] = "asleep"
  /\ waiter' = [waiter EXCEPT ![w] = "loop"]
  /\ UNCHANGED <<records, event, lock, expired, result, appended, cleared, in_time>>

\* Mutant: the deadline ends the call without another look.
GiveUp(w) ==
  /\ waiter[w] = "last"
  /\ waiter' = [waiter EXCEPT ![w] = "done"]
  /\ UNCHANGED <<records, event, lock, expired, result, appended, cleared, in_time>>

LastLook(w) ==
  /\ waiter[w] = "last"
  /\ Search(w, "done")
  /\ UNCHANGED <<records, event, lock, expired, appended, cleared, in_time>>

DeadlinePasses(w) ==
  /\ waiter[w] # "done" /\ ~expired[w]
  /\ expired' = [expired EXCEPT ![w] = TRUE]
  /\ UNCHANGED <<records, event, lock, waiter, result, appended, cleared, in_time>>

-----------------------------------------------------------------------------

WaiterStep(w) ==
  Look(w) \/ ClearAfterSearch(w) \/ Wait(w) \/ PollIntervalEnds(w) \/ LastLook(w)

LogStep == (\E r \in Recorders : Append(r) \/ SetEvent(r)) \/ ClearRecords \/ ClearEvent

Next == LogStep \/ \E w \in Waiters : WaiterStep(w) \/ DeadlinePasses(w)

Spec == Init /\ [][Next]_vars

\* A thread that can run is scheduled, whoever holds the lock lets go of it,
\* and a poll interval ends.  The deadline need not pass.
FairSpec ==
  /\ Spec
  /\ \A r \in Recorders : WF_vars(SetEvent(r))
  /\ WF_vars(ClearEvent)
  /\ \A w \in Waiters : WF_vars(WaiterStep(w))

-----------------------------------------------------------------------------
(* Properties.                                                             *)

\* A call that returned nothing has missed no record that came before its
\* deadline and was not cleared since, however the looks fell.
NothingInTimeIsMissed ==
  \A w \in Waiters : waiter[w] = "done" /\ result[w] = None => ~in_time[w]

\* A waiter whose record stays in the log returns it, and does not need its
\* deadline for that: the wake-up that is lost when the event is cleared after
\* a search costs one poll interval and no more.
RecordIsFound ==
  \A w \in Waiters : <>[](w \in records) => <>(waiter[w] = "done")

\* A call whose deadline passes returns, with or without a record.
DeadlineEndsTheCall ==
  \A w \in Waiters : expired[w] ~> waiter[w] = "done"

-----------------------------------------------------------------------------
(* Stronger than what the code does.                                       *)

\* Nobody sleeps while its record is in the log and the event has been set.
NoLostWakeUp ==
  \A w \in Waiters : waiter[w] = "asleep" /\ lock = None => w \notin records
=============================================================================
