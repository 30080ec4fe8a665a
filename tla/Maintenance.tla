---------------------------- MODULE Maintenance ----------------------------
(***************************************************************************)
(* The cloud's source maintenance (src/services/cloud/source_maintenance.  *)
(* py): every server has one thread whose passes go through the devices by *)
(* id, a bounded number at a time, from a cursor in memory.  A pass is one *)
(* transaction under a database-wide lock; a device that is contended or   *)
(* fails is passed over, a pass may run out of its budget, fail or be      *)
(* cancelled, and a server may be stopped or die.  What cleaning a device  *)
(* does is in CloudSources.                                                *)
(***************************************************************************)
EXTENDS Integers, FiniteSets

CONSTANTS
  Servers,
  Devices,       \* ids, in their order
  DevicesPerPass,
  Vacant,        \* nobody's pass
  MaxTrouble     \* bound: locks, failures, exhausted budgets, stops, deaths

ASSUME MaintenanceAssumption ==
  /\ Devices \subseteq Nat \ {0} /\ IsFiniteSet(Devices) /\ DevicesPerPass \in Nat \ {0}
  /\ Vacant \notin Servers /\ MaxTrouble \in Nat

VARIABLES
  workers,   \* SourceMaintenance of each server
  owner,     \* OWNER_LOCK
  overdueAt, \* devices with rows to clean up
  locked,    \* devices whose row or organisation another transaction holds
  trouble,   \* count of what MaxTrouble bounds
  round      \* history: devices each cursor has passed since it last began

maintenanceVars == <<workers, owner, overdueAt, locked, trouble, round>>

\* cursor: _cursor, 0 for None; place, todo, cleaned, passed: those of _pass.
Resting(at, cursor, stopping) ==
  [at |-> at, cursor |-> cursor, stopping |-> stopping,
   place |-> 0, todo |-> {}, cleaned |-> {}, passed |-> {}]

MaintenanceInit ==
  /\ workers = [s \in Servers |-> Resting("OFF", 0, FALSE)]
  /\ owner = Vacant /\ overdueAt = {} /\ locked = {} /\ trouble = 0
  /\ round = [s \in Servers |-> {}]

-----------------------------------------------------------------------------

Troubled == trouble < MaxTrouble /\ trouble' = trouble + 1
Turn(s, w) == workers' = [workers EXCEPT ![s] = w]

\* start, from the server's lifespan
StartThread(s) ==
  /\ workers[s].at = "OFF" /\ Turn(s, Resting("WAITING", workers[s].cursor, FALSE))
  /\ UNCHANGED <<owner, overdueAt, locked, trouble, round>>

\* The devices after a place, a pass's worth of them.
After(place) ==
  LET later == {d \in Devices : d > place} IN
  {d \in later : Cardinality({e \in later : e < d}) < DevicesPerPass}

\* A cursor that never starts over.
BeginsBehind(cursor) == cursor

\* Past the last device a pass starts over.
BeginsAt(cursor) == IF After(cursor) = {} THEN 0 ELSE cursor

BeginPass(s) ==
  LET from == BeginsAt(workers[s].cursor) IN
  /\ workers[s].at = "WAITING" /\ ~workers[s].stopping /\ owner = Vacant
  /\ owner' = s
  /\ Turn(s, [at |-> "PASS", cursor |-> workers[s].cursor, stopping |-> FALSE, place |-> from,
              todo |-> After(from), cleaned |-> {},
              passed |-> IF from = 0 THEN {} ELSE round[s]])
  /\ UNCHANGED <<overdueAt, locked, trouble, round>>

\* The loop's next device, and the place of the pass behind it.
NextDevice(w, d) == d \in w.todo /\ \A e \in w.todo : d <= e
Past(w, d, cleaned) ==
  [w EXCEPT !.place = d, !.todo = w.todo \ {d}, !.passed = w.passed \cup {d}, !.cleaned = cleaned]

\* One device: cleaned in a savepoint, or passed over because it is locked.
Visit(s) ==
  /\ workers[s].at = "PASS" /\ ~workers[s].stopping
  /\ \E d \in Devices :
       /\ NextDevice(workers[s], d)
       /\ Turn(s, Past(workers[s], d, IF d \in locked THEN workers[s].cleaned
                                       ELSE workers[s].cleaned \cup {d}))
  /\ UNCHANGED <<owner, overdueAt, locked, trouble, round>>

\* Its savepoint is rolled back, and the cursor passes it all the same.
VisitFails(s) ==
  /\ Troubled /\ workers[s].at = "PASS" /\ ~workers[s].stopping
  /\ \E d \in Devices : NextDevice(workers[s], d) /\ Turn(s, Past(workers[s], d, workers[s].cleaned))
  /\ UNCHANGED <<owner, overdueAt, locked, round>>

BudgetEnds(s) ==
  /\ Troubled /\ workers[s].at = "PASS" /\ workers[s].todo # {}
  /\ Turn(s, [workers[s] EXCEPT !.todo = {}])
  /\ UNCHANGED <<owner, overdueAt, locked, round>>

Advanced(w) == Resting("WAITING", w.place, w.stopping)
\* A pass that publishes its cursor although it was rolled back.
AbandonedAhead(w) == Resting("WAITING", w.place, w.stopping)

AbandonedPass(w) == Resting("WAITING", w.cursor, w.stopping)

\* The transaction commits, and then the cursor is published.
CommitPass(s) ==
  /\ workers[s].at = "PASS" /\ workers[s].todo = {}
  /\ overdueAt' = overdueAt \ workers[s].cleaned
  /\ round' = [round EXCEPT ![s] = workers[s].passed]
  /\ Turn(s, Advanced(workers[s])) /\ owner' = Vacant
  /\ UNCHANGED <<locked, trouble>>

\* The transaction is rolled back, with every device it had cleaned.
PassFails(s) ==
  /\ Troubled /\ workers[s].at = "PASS"
  /\ Turn(s, AbandonedPass(workers[s])) /\ owner' = Vacant
  /\ UNCHANGED <<overdueAt, locked, round>>

\* stop sets the event and cancels the connection; the thread ends at its
\* next look, unless its pass had nothing left to look at before the commit.
StopThread(s) ==
  /\ Troubled /\ workers[s].at # "OFF" /\ ~workers[s].stopping
  /\ Turn(s, [workers[s] EXCEPT !.stopping = TRUE])
  /\ UNCHANGED <<owner, overdueAt, locked, round>>

ThreadEnds(s) ==
  /\ workers[s].stopping
  /\ Turn(s, Resting("OFF", workers[s].cursor, FALSE))
  /\ owner' = IF owner = s THEN Vacant ELSE owner
  /\ UNCHANGED <<overdueAt, locked, trouble, round>>

\* The process dies; the database releases what it held.
ServerDies(s) ==
  /\ Troubled /\ workers[s].at # "OFF" /\ Turn(s, Resting("OFF", 0, FALSE))
  /\ owner' = IF owner = s THEN Vacant ELSE owner
  /\ round' = [round EXCEPT ![s] = {}] /\ UNCHANGED <<overdueAt, locked>>

\* Requests of the device or its organisation, and rows that fall due.
Lock(d) ==
  /\ Troubled /\ locked' = locked \cup {d}
  /\ UNCHANGED <<workers, owner, overdueAt, round>>
Unlock(d) ==
  /\ d \in locked /\ locked' = locked \ {d}
  /\ UNCHANGED <<workers, owner, overdueAt, trouble, round>>
FallDue(d) ==
  /\ overdueAt' = overdueAt \cup {d}
  /\ UNCHANGED <<workers, owner, locked, trouble, round>>

Work(s) == StartThread(s) \/ BeginPass(s) \/ Visit(s) \/ CommitPass(s) \/ ThreadEnds(s)

MaintenanceNext ==
  \/ \E s \in Servers : \/ Work(s) \/ VisitFails(s) \/ BudgetEnds(s) \/ PassFails(s)
                        \/ StopThread(s) \/ ServerDies(s)
  \/ \E d \in Devices : Lock(d) \/ Unlock(d) \/ FallDue(d)

\* Threads that run take their steps, a stopped server is deployed again, and
\* transactions end; strong, because servers take the owner's lock in turn.
MaintenanceFairness ==
  /\ \A s \in Servers : SF_maintenanceVars(Work(s))
  /\ \A d \in Devices : WF_maintenanceVars(Unlock(d))

MaintenanceSpec == MaintenanceInit /\ [][MaintenanceNext]_maintenanceVars /\ MaintenanceFairness

-----------------------------------------------------------------------------
(* Properties *)

\* A cursor never gets past a device that no committed pass came to, whatever
\* was rolled back, cancelled, out of budget or passed over on the way.
RoundIsComplete ==
  \A s \in Servers : \A d \in Devices : d <= workers[s].cursor => d \in round[s]

\* Passes of different servers exclude each other, so that none commits what
\* another has half done.
OnePass ==
  \A s \in Servers : workers[s].at = "PASS" <=> owner = s

\* A device whose rows are due comes round, however it was contended before.
DeviceComesRound == \A d \in Devices : d \in overdueAt ~> d \notin overdueAt

\* Passes exclude each other, and a cursor leaves nobody out.
MaintenanceInv == OnePass /\ RoundIsComplete
=============================================================================
