------------------------ MODULE DeliveryRecordProofs ------------------------
(***************************************************************************)
(* Why wait_for misses no record that came in time, for any number of      *)
(* threads, records and calls of clear.  Two facts carry the argument: the *)
(* record that in_time speaks of is still in the log, and the look that    *)
(* ends a call empty-handed comes after the deadline, when no record can   *)
(* be in time any more.                                                    *)
(***************************************************************************)
EXTENDS DeliveryRecord, TLAPS

Places == {"loop", "searched", "clear", "asleep", "last", "done"}

Typed ==
  /\ records \subseteq Waiters
  /\ waiter \in [Waiters -> Places]
  /\ expired \in [Waiters -> BOOLEAN]
  /\ result \in [Waiters -> Waiters \cup {None}]
  /\ in_time \in [Waiters -> BOOLEAN]

\* A record in time is in the log.
InTimeIsLogged == \A w \in Waiters : in_time[w] => w \in records

\* The last look comes after the deadline.
LastLookIsLate == \A w \in Waiters : waiter[w] = "last" => expired[w]

\* A call that returned nothing did so after the deadline, with nothing that
\* came in time in the log.
EmptyHandedIsLate ==
  \A w \in Waiters :
    waiter[w] = "done" /\ result[w] = None => expired[w] /\ ~in_time[w]

Invariant == Typed /\ InTimeIsLogged /\ LastLookIsLate /\ EmptyHandedIsLate

-----------------------------------------------------------------------------

\* record and clear keep the log and the history in step, and a record that
\* comes after the deadline does not count as one in time.
LEMMA LogKeeps ==
  Invariant /\ LogStep => Invariant'
<1> SUFFICES ASSUME Invariant, LogStep PROVE Invariant'
  OBVIOUS
<1> USE DEF Invariant, Typed
<1>1. ASSUME NEW r \in Recorders, Append(r) PROVE Invariant'
  <2> PICK v \in Waiters : /\ records' = records \cup {v}
                           /\ in_time' = [in_time EXCEPT ![v] = @ \/ ~expired[v]]
    BY <1>1 DEF Append
  <2> UNCHANGED <<waiter, expired, result>>
    BY <1>1 DEF Append
  <2>1. Typed'
    OBVIOUS
  <2>2. \A w \in Waiters : in_time'[w] => in_time[w] \/ (w = v /\ ~expired[w])
    OBVIOUS
  <2>3. InTimeIsLogged'
    BY <2>2 DEF InTimeIsLogged
  <2>4. LastLookIsLate' /\ EmptyHandedIsLate'
    BY <2>2 DEF LastLookIsLate, EmptyHandedIsLate
  <2> QED BY <2>1, <2>3, <2>4
<1>2. ASSUME NEW r \in Recorders, SetEvent(r) PROVE Invariant'
  <2> UNCHANGED <<records, expired, result, in_time>>
    BY <1>2 DEF SetEvent
  <2>1. waiter' \in [Waiters -> Places]
        /\ \A w \in Waiters : waiter'[w] \in {"last", "done"} => waiter'[w] = waiter[w]
    BY <1>2 DEF SetEvent, Places
  <2> QED BY <2>1 DEF InTimeIsLogged, LastLookIsLate, EmptyHandedIsLate
<1>3. ASSUME ClearRecords PROVE Invariant'
  <2> UNCHANGED <<waiter, expired, result>> /\ records' = {}
    BY <1>3 DEF ClearRecords
  <2>1. in_time' \in [Waiters -> BOOLEAN] /\ \A w \in Waiters : ~in_time'[w]
    BY <1>3 DEF ClearRecords
  <2> QED BY <2>1 DEF InTimeIsLogged, LastLookIsLate, EmptyHandedIsLate
<1>4. ASSUME ClearEvent PROVE Invariant'
  BY <1>4 DEF ClearEvent, InTimeIsLogged, LastLookIsLate, EmptyHandedIsLate
<1> QED BY <1>1, <1>2, <1>3, <1>4 DEF LogStep

\* A look ends the call with the record that is in the log; one that finds
\* nothing ends it only where "otherwise" says so.
LEMMA SearchKeeps ==
  ASSUME Invariant, NEW w \in Waiters, NEW otherwise \in Places,
         Search(w, otherwise), otherwise = "done" => expired[w],
         otherwise # "last",
         UNCHANGED <<records, expired, in_time>>
  PROVE  Invariant'
<1> USE DEF Invariant, Typed
<1>1. Typed'
  BY DEF Search, Places
<1>2. LastLookIsLate'
  BY DEF LastLookIsLate, Search
<1>3. EmptyHandedIsLate'
  <2>1. CASE w \in records
    BY <2>1, DeliveryAssumption DEF EmptyHandedIsLate, Search
  <2>2. CASE w \notin records
    BY <2>2 DEF EmptyHandedIsLate, InTimeIsLogged, Search
  <2> QED BY <2>1, <2>2
<1> QED BY <1>1, <1>2, <1>3 DEF InTimeIsLogged

\* A step of a call of wait_for.
LEMMA WaiterKeeps ==
  ASSUME Invariant, NEW w \in Waiters, WaiterStep(w) \/ DeadlinePasses(w)
  PROVE  Invariant'
<1>1. CASE Look(w)
  <2>1. CASE ~expired[w] /\ Search(w, "searched")
    BY <1>1, <2>1, SearchKeeps DEF Look, Places
  <2>2. CASE expired[w] /\ waiter' = [waiter EXCEPT ![w] = "last"] /\ UNCHANGED result
    BY <1>1, <2>2 DEF Look, Places, Invariant, Typed, InTimeIsLogged,
                      LastLookIsLate, EmptyHandedIsLate
  <2> QED BY <1>1, <2>1, <2>2 DEF Look
<1>2. CASE ClearAfterSearch(w)
  BY <1>2 DEF ClearAfterSearch, Places, Invariant, Typed, InTimeIsLogged,
              LastLookIsLate, EmptyHandedIsLate
<1>3. CASE Wait(w) \/ PollIntervalEnds(w)
  BY <1>3 DEF Wait, PollIntervalEnds, Places, Invariant, Typed, InTimeIsLogged,
              LastLookIsLate, EmptyHandedIsLate
<1>4. CASE LastLook(w)
  <2>1. expired[w]
    BY <1>4 DEF LastLook, Invariant, LastLookIsLate
  <2> QED BY <1>4, <2>1, SearchKeeps DEF LastLook, Places
<1>5. CASE DeadlinePasses(w)
  BY <1>5 DEF DeadlinePasses, Invariant, Typed, InTimeIsLogged,
              LastLookIsLate, EmptyHandedIsLate
<1> QED BY <1>1, <1>2, <1>3, <1>4, <1>5 DEF WaiterStep

-----------------------------------------------------------------------------

\* The log, the history and every call of wait_for agree in each reachable
\* state, whatever the threads and the bounds are.
THEOREM InvariantHolds == Spec => []Invariant
<1>1. Init => Invariant
  BY DEF Init, Invariant, Typed, Places, InTimeIsLogged, LastLookIsLate,
         EmptyHandedIsLate
<1>2. Invariant /\ [Next]_vars => Invariant'
  <2> SUFFICES ASSUME Invariant, [Next]_vars PROVE Invariant'
    OBVIOUS
  <2>1. CASE LogStep
    BY <2>1, LogKeeps
  <2>2. ASSUME NEW w \in Waiters, WaiterStep(w) \/ DeadlinePasses(w) PROVE Invariant'
    BY <2>2, WaiterKeeps
  <2>3. CASE UNCHANGED vars
    BY <2>3 DEF vars, Invariant, Typed, InTimeIsLogged, LastLookIsLate,
                EmptyHandedIsLate
  <2> QED BY <2>1, <2>2, <2>3 DEF Next
<1> QED BY <1>1, <1>2, PTL DEF Spec

\* wait_for (src/vpn_server.py, src/vpn_client.py) returns None only if no
\* record it asked for came before its deadline and is still in the log: the
\* event that is cleared without the lock loses time, never a record.
THEOREM NothingMissed == Spec => []NothingInTimeIsMissed
<1>1. Invariant => NothingInTimeIsMissed
  BY DEF Invariant, EmptyHandedIsLate, NothingInTimeIsMissed
<1> QED BY <1>1, InvariantHolds, PTL
=============================================================================
