------------------------------- MODULE Outbox -------------------------------
(***************************************************************************)
(* The durable cloud outbox of the pharmacy laptop                         *)
(* (src/services/api/cloud_outbox.py): bindings to the control plane, one  *)
(* row per exported source, the installation's single send reservation,    *)
(* and every operation of class Outbox, mark_restored, and the keyless     *)
(* pause of cloud_connection.py.  Each operation runs in one savepoint     *)
(* (_operation), so it is one step; an operation that raises rolls the     *)
(* savepoint back and is a disabled step.  Callers pass their own clock    *)
(* reading t, which may step back: only a binding's clock_ms fences it.    *)
(***************************************************************************)
EXTENDS Integers, Sequences, FiniteSets, FiniteSetsExt

CONSTANTS
  Bindings,          \* binding identifiers of this installation
  Sources,           \* source event identifiers, UNIQUE(binding_id, source_event_id)
  BindingOf,         \* the binding a source event identifier is derived from
  Admitted,          \* admitted_ms of the source's observation
  Deadline,          \* deadline_ms of the source's observation
  ObsBytes,          \* length of its encrypted observation
  WithdrawalBytes,   \* length of an encrypted withdrawal
  Reserve,           \* WITHDRAWAL_RESERVE
  Day,               \* DAY_MS
  Retain,            \* 31 * DAY_MS
  MaxGeneration,     \* 2147483647 in BindingRef and mark_restored
  MaxAttempts,       \* 2147483647, where attempts saturates
  BindingLimits,     \* [pending, records, bytes] per binding
  InstallationLimits,\* [pending, records, bytes] per installation
  DailyLimit,        \* daily_per_binding
  Times,             \* bound: the clock readings callers may pass
  Leases,            \* bound: the lease lengths callers may ask for
  Delays,            \* bound: the backoffs callers may ask for
  Receipts,          \* bound: receipt identifiers the control plane issues
  MaxClaims          \* bound: claims issued in a behaviour

None == -1           \* SQL NULL, in integer columns

ASSUME SourceAssumption ==
  /\ BindingOf \in [Sources -> Bindings]
  /\ Admitted \in [Sources -> Nat]
  /\ Deadline \in [Sources -> Nat]
  \* enqueue refuses any other deadline with INVALID_DEADLINE
  /\ \A s \in Sources : Admitted[s] < Deadline[s] /\ Deadline[s] <= Admitted[s] + Day

ASSUME SizeAssumption ==
  /\ ObsBytes \in [Sources -> Nat]
  /\ WithdrawalBytes \in Nat /\ Reserve \in Nat
  \* _withdraw raises WITHDRAWAL_RESERVE_INVALID otherwise
  /\ WithdrawalBytes <= Reserve

ASSUME TimeAssumption ==
  /\ Day \in Nat /\ Retain \in Nat /\ Day <= Retain
  /\ Times \subseteq Nat
  /\ Leases \subseteq Nat \ {0} /\ Delays \subseteq Nat \ {0}

ASSUME BoundAssumption ==
  /\ MaxGeneration \in Nat \ {0}
  /\ MaxAttempts \in Nat \ {0}
  /\ Receipts \subseteq Nat
  /\ MaxClaims \in Nat
  /\ DailyLimit \in Nat
  /\ BindingLimits \in [{"pending", "records", "bytes"} -> Nat]
  /\ InstallationLimits \in [{"pending", "records", "bytes"} -> Nat]

VARIABLES
  bindings,   \* cloud_sync_bindings
  items,      \* cloud_sync_items, "NONE" where the row is absent
  capacity,   \* cloud_sync_capacity, the one send reservation
  claims      \* every Claim handed to a caller, in order; a token is its index
              \* here, and `fate' (history) is how its lease was settled

vars == <<bindings, items, capacity, claims>>

-----------------------------------------------------------------------------
(* Rows *)

Live == {"ACTIVE", "PAUSED"}
BindingStates == Live \cup {"NONE", "DISCONNECTED", "RESTORED"}
ItemStates == {"NONE", "PENDING", "LEASED", "RECEIVED", "WITHDRAWN",
               "EXPIRED", "CANCELLED", "BLOCKED"}
Operations == {"OBSERVATION", "WITHDRAWAL"}
Reasons == {"LOCAL_DELETED", "LOCAL_EXPIRED", "LOCAL_EXPORT_REMOVED"}

NatOrNone == Nat \cup {None}

Binding == [st : BindingStates, gen : Nat, activated : Nat, clock : Nat]

Item == [op : Operations, st : ItemStates, bytes : Nat, attempts : Nat,
         created : Nat, next : Nat,
         token : NatOrNone, until : NatOrNone, gen : NatOrNone,
         receipt : NatOrNone, obsReceipt : NatOrNone,
         settled : NatOrNone, terminal : NatOrNone]

Claim == [source : Sources, token : Nat, gen : Nat, op : Operations,
          at : Nat, until : Nat,
          fate : {"OPEN", "RETRIED", "ACKNOWLEDGED", "REJECTED"}]

Capacity == [token : NatOrNone, until : NatOrNone]
NoCapacity == [token |-> None, until |-> None]

NoItem == [op |-> "OBSERVATION", st |-> "NONE", bytes |-> 0, attempts |-> 0,
           created |-> 0, next |-> 0, token |-> None, until |-> None,
           gen |-> None, receipt |-> None, obsReceipt |-> None,
           settled |-> None, terminal |-> None]

Rows(b) == {s \in Sources : BindingOf[s] = b /\ items[s].st # "NONE"}
AllRows == {s \in Sources : items[s].st # "NONE"}

\* A row charged only for what it holds now, not for the withdrawal it may need.
ChargeWithoutReserve(r) == r.bytes

\* What a row costs in _quota: nothing once it can never need a withdrawal,
\* else at least the room its withdrawal will take.
Charge(r) ==
  IF \/ r.st \in {"CANCELLED", "EXPIRED"} /\ r.attempts = 0
     \/ r.st = "WITHDRAWN" /\ r.receipt # None
  THEN 0
  ELSE IF r.bytes > Reserve THEN r.bytes ELSE Reserve

IsPending(r) == r.op = "OBSERVATION" /\ r.st \in {"PENDING", "LEASED", "BLOCKED"}

Within(rows, limits, s) ==
  LET cost == [i \in Sources |-> Charge(items[i])] IN
  /\ Cardinality(rows) < limits.records
  /\ Cardinality({i \in rows : IsPending(items[i])}) < limits.pending
  /\ SumFunctionOnSet(cost, rows)
       + (IF ObsBytes[s] > Reserve THEN ObsBytes[s] ELSE Reserve) <= limits.bytes

\* _quota
QuotaAllows(s, t) ==
  LET b == BindingOf[s] IN
  /\ Within(Rows(b), BindingLimits, s)
  /\ Within(AllRows, InstallationLimits, s)
  /\ Cardinality({i \in Rows(b) : items[i].created > t - Day}) < DailyLimit

Unleased(r) == [r EXCEPT !.token = None, !.until = None, !.gen = None]

\* _release of one row
Released(r) == IF r.st = "LEASED" THEN [Unleased(r) EXCEPT !.st = "PENDING"] ELSE r

\* A withdrawal that forgets the observation may already have been sent.
WithdrawingUnsent(r, reason, t) ==
  [Unleased(r) EXCEPT !.st = "CANCELLED", !.bytes = 0, !.terminal = t]

\* _withdraw of one row
Withdrawing(r, reason, t) ==
  IF r.op = "WITHDRAWAL" THEN r
  ELSE IF r.attempts = 0
  THEN [Unleased(r) EXCEPT
          !.st = IF reason = "LOCAL_EXPIRED" THEN "EXPIRED" ELSE "CANCELLED",
          !.bytes = 0, !.terminal = t]
  ELSE [Unleased(r) EXCEPT
          !.op = "WITHDRAWAL", !.st = "PENDING", !.bytes = WithdrawalBytes,
          !.next = t, !.settled = None, !.terminal = None]

\* _expire over the rows of binding b
Expirable(b, t) ==
  {s \in Rows(b) : /\ items[s].op = "OBSERVATION"
                   /\ Deadline[s] <= t
                   /\ items[s].st \notin {"EXPIRED", "CANCELLED"}}

Expired(b, t) ==
  [s \in Sources |-> IF s \in Expirable(b, t)
                     THEN Withdrawing(items[s], "LOCAL_EXPIRED", t) ELSE items[s]]

\* ... and, in claim, the leases of b that ran out.
Swept(b, t) ==
  LET rows == Expired(b, t) IN
  [s \in Sources |-> IF /\ BindingOf[s] = b
                        /\ rows[s].st = "LEASED" /\ rows[s].until <= t
                     THEN Released(rows[s]) ELSE rows[s]]

ReleaseAll(b, rows) ==
  [s \in Sources |-> IF BindingOf[s] = b THEN Released(rows[s]) ELSE rows[s]]

-----------------------------------------------------------------------------
(* Operations *)

\* _binding: the caller's reference carries the current generation and its
\* clock has not gone back behind the binding's.
Current(b, t) == bindings[b].st # "NONE" /\ t >= bindings[b].clock

Touch(b, t) == bindings' = [bindings EXCEPT ![b].clock = t]

Init ==
  /\ bindings = [b \in Bindings |->
                   [st |-> "NONE", gen |-> 0, activated |-> 0, clock |-> 0]]
  /\ items = [s \in Sources |-> NoItem]
  /\ capacity = NoCapacity
  /\ claims = <<>>

\* create_binding: one ACTIVE or PAUSED binding per installation, begins paused.
CreateBinding(b, t) ==
  /\ bindings[b].st = "NONE"
  /\ \A o \in Bindings : bindings[o].st \notin Live
  /\ bindings' = [bindings EXCEPT ![b] =
                    [st |-> "PAUSED", gen |-> 1, activated |-> t, clock |-> t]]
  /\ UNCHANGED <<items, capacity, claims>>

\* set_paused(paused=True)
Pause(b, t) ==
  /\ Current(b, t)
  /\ bindings[b].st = "ACTIVE"
  /\ bindings[b].gen < MaxGeneration
  /\ bindings' = [bindings EXCEPT ![b] =
                    [bindings[b] EXCEPT !.st = "PAUSED", !.gen = @ + 1, !.clock = t]]
  /\ items' = ReleaseAll(b, items)
  /\ UNCHANGED <<capacity, claims>>

\* set_paused(paused=False)
Resume(b, t) ==
  /\ Current(b, t)
  /\ bindings[b].st = "PAUSED"
  /\ bindings[b].gen < MaxGeneration
  /\ bindings' = [bindings EXCEPT ![b] =
                    [bindings[b] EXCEPT !.st = "ACTIVE", !.gen = @ + 1,
                                        !.activated = t, !.clock = t]]
  /\ items' = ReleaseAll(b, items)
  /\ UNCHANGED <<capacity, claims>>

\* cloud_connection._pause_row: needs neither the key nor the clock, and closes
\* the gate even when no generation is left.
PauseKeyless(b) ==
  /\ bindings[b].st \in Live
  /\ bindings' = [bindings EXCEPT ![b] =
                    [bindings[b] EXCEPT !.st = "PAUSED",
                                        !.gen = IF @ < MaxGeneration THEN @ + 1 ELSE @]]
  /\ items' = ReleaseAll(b, items)
  /\ UNCHANGED <<capacity, claims>>

\* enqueue: admits a new source, or replays one it already holds.
Enqueue(s, t) ==
  LET b == BindingOf[s] IN
  /\ Current(b, t)
  /\ bindings[b].st = "ACTIVE"
  /\ Admitted[s] <= t
  /\ Touch(b, t)
  /\ \/ /\ items[s].st # "NONE"
        /\ UNCHANGED items
     \/ /\ items[s].st = "NONE"
        /\ Admitted[s] >= bindings[b].activated
        /\ t < Deadline[s]
        /\ QuotaAllows(s, t)
        /\ items' = [items EXCEPT ![s] =
             [NoItem EXCEPT !.st = "PENDING", !.bytes = ObsBytes[s],
                            !.created = t, !.next = t]]
  /\ UNCHANGED <<capacity, claims>>

\* withdraw
Withdraw(s, reason, t) ==
  LET b == BindingOf[s] IN
  /\ Current(b, t)
  /\ items[s].st # "NONE"
  /\ Touch(b, t)
  /\ items' = [items EXCEPT ![s] = Withdrawing(@, reason, t)]
  /\ UNCHANGED <<capacity, claims>>

\* expire
Expire(b, t) ==
  /\ Current(b, t)
  /\ Touch(b, t)
  /\ items' = Expired(b, t)
  /\ UNCHANGED <<capacity, claims>>

\* disconnect
Disconnect(b, restored, t) ==
  /\ Current(b, t)
  /\ bindings[b].st \in Live
  /\ bindings[b].gen < MaxGeneration
  /\ items' = ReleaseAll(b, [s \in Sources |->
                IF s \in Rows(b) THEN Withdrawing(items[s], "LOCAL_EXPORT_REMOVED", t)
                ELSE items[s]])
  /\ bindings' = [bindings EXCEPT ![b] =
                    [bindings[b] EXCEPT
                       !.st = IF restored THEN "RESTORED" ELSE "DISCONNECTED",
                       !.gen = @ + 1, !.clock = t]]
  /\ UNCHANGED <<capacity, claims>>

\* A token that repeats the last one.
UsedToken == Len(claims)

\* uuid4: a token no other claim has.
FreshToken == Len(claims) + 1

\* A reservation that ends with its row's lease.
ReservedByRow(t) == \E s \in Sources : items[s].st = "LEASED" /\ items[s].until > t

\* A request may still be in flight: claim's `held'.
Reserved(t) == capacity.until > t

\* The rows claim may choose from, and the ones its ORDER BY puts first; ties
\* are broken by a random uuid.
Due(b, t, rows) ==
  {s \in Sources : /\ BindingOf[s] = b
                   /\ rows[s].st = "PENDING" /\ rows[s].next <= t
                   /\ rows[s].op = "WITHDRAWAL" \/ bindings[b].st = "ACTIVE"}

FirstDue(b, t, rows) ==
  {s \in Due(b, t, rows) : \A o \in Due(b, t, rows) :
     IF rows[s].op = rows[o].op THEN rows[s].created <= rows[o].created
                                ELSE rows[s].op = "WITHDRAWAL"}

Smaller(m, n) == IF m < n THEN m ELSE n

LeaseUntil(s, op, t, lease) ==
  IF op = "OBSERVATION" THEN Smaller(t + lease, Deadline[s]) ELSE t + lease

\* claim that returns None: expiry and lapsed leases are swept all the same.
ClaimNothing(b, t) ==
  /\ Current(b, t)
  /\ bindings[b].st \in Live
  /\ Reserved(t) \/ Due(b, t, Swept(b, t)) = {}
  /\ Touch(b, t)
  /\ items' = Swept(b, t)
  /\ UNCHANGED <<capacity, claims>>

\* claim
ClaimOne(b, s, t, lease) ==
  LET rows == Swept(b, t)
      row == rows[s]
      token == FreshToken
      until == LeaseUntil(s, row.op, t, lease)
  IN
  /\ Current(b, t)
  /\ bindings[b].st \in Live
  /\ ~Reserved(t)
  /\ s \in FirstDue(b, t, rows)
  /\ Len(claims) < MaxClaims
  /\ Touch(b, t)
  /\ items' = [rows EXCEPT ![s] =
       [row EXCEPT !.st = "LEASED", !.token = token, !.until = until,
                   !.gen = bindings[b].gen,
                   !.attempts = IF row.attempts < MaxAttempts
                                THEN row.attempts + 1 ELSE row.attempts]]
  /\ capacity' = [token |-> token, until |-> until]
  /\ claims' = Append(claims, [source |-> s, token |-> token,
       gen |-> bindings[b].gen, op |-> row.op, at |-> t, until |-> until,
       fate |-> "OPEN"])

\* _lease: the claim n still owns its row.
HoldsLease(n, t) ==
  LET c == claims[n]
      b == BindingOf[c.source]
      row == items[c.source]
  IN
  /\ Current(b, t)
  /\ bindings[b].gen = c.gen
  /\ bindings[b].st \in Live
  /\ row.st = "LEASED" /\ row.token = c.token /\ row.gen = c.gen
  /\ row.until > t /\ row.op = c.op

FreeCapacity(n) ==
  capacity' = IF capacity.token = claims[n].token THEN NoCapacity ELSE capacity

Settle(n, fate) == claims' = [claims EXCEPT ![n].fate = fate]

\* retry
Retry(n, t, delay) ==
  LET s == claims[n].source IN
  /\ HoldsLease(n, t)
  /\ Touch(BindingOf[s], t)
  /\ items' = [items EXCEPT ![s] =
                 [Unleased(items[s]) EXCEPT !.st = "PENDING", !.next = t + delay]]
  /\ FreeCapacity(n)
  /\ Settle(n, "RETRIED")

\* acknowledge
Acknowledge(n, receipt, t) ==
  LET s == claims[n].source
      row == items[s]
  IN
  /\ HoldsLease(n, t)
  /\ Touch(BindingOf[s], t)
  /\ items' = [items EXCEPT ![s] =
       [Unleased(row) EXCEPT
          !.st = IF row.op = "OBSERVATION" THEN "RECEIVED" ELSE "WITHDRAWN",
          !.bytes = 0, !.receipt = receipt,
          !.obsReceipt = IF row.op = "OBSERVATION" THEN receipt ELSE row.obsReceipt,
          !.settled = claims[n].token, !.terminal = t]]
  /\ FreeCapacity(n)
  /\ Settle(n, "ACKNOWLEDGED")

\* acknowledge of a claim already settled with the same receipt
AcknowledgeAgain(n, receipt, t) ==
  LET c == claims[n]
      row == items[c.source]
  IN
  /\ Current(BindingOf[c.source], t)
  /\ bindings[BindingOf[c.source]].gen = c.gen
  /\ row.st \in {"RECEIVED", "WITHDRAWN"}
  /\ row.settled = c.token /\ row.receipt = receipt
  /\ Touch(BindingOf[c.source], t)
  /\ UNCHANGED <<items, capacity, claims>>

\* reject
Reject(n, t) ==
  LET s == claims[n].source
      row == items[s]
  IN
  /\ HoldsLease(n, t)
  /\ Touch(BindingOf[s], t)
  /\ items' = [items EXCEPT ![s] =
       IF row.op = "OBSERVATION" THEN Withdrawing(row, "LOCAL_EXPORT_REMOVED", t)
       ELSE [Unleased(row) EXCEPT !.st = "BLOCKED", !.bytes = 0, !.terminal = t]]
  /\ FreeCapacity(n)
  /\ Settle(n, "REJECTED")

\* Pruning that does not wait for the retention to pass.
PrunableAtOnce(b, t) ==
  {s \in Rows(b) : items[s].terminal # None /\ items[s].terminal <= t
                   /\ items[s].st \in {"CANCELLED", "EXPIRED", "WITHDRAWN"}}

\* prune_terminal
Prunable(b, t) ==
  {s \in Rows(b) :
     /\ items[s].terminal # None /\ items[s].terminal <= t - Retain
     /\ \/ items[s].st \in {"CANCELLED", "EXPIRED"} /\ items[s].attempts = 0
        \/ items[s].st = "WITHDRAWN" /\ items[s].receipt # None}

PruneTerminal(b, t) ==
  /\ Current(b, t)
  /\ Touch(b, t)
  /\ items' = [s \in Sources |-> IF s \in Prunable(b, t) THEN NoItem ELSE items[s]]
  /\ UNCHANGED <<capacity, claims>>

\* inspect, and every operation that finds nothing to do
Inspect(b, t) ==
  /\ Current(b, t)
  /\ Touch(b, t)
  /\ UNCHANGED <<items, capacity, claims>>

\* A restore that trusts the saved state of a row.
AttemptedByState(r) == r.st \in {"LEASED", "RECEIVED"}

\* mark_restored: the row may have been delivered.
Attempted(r) ==
  \/ r.attempts > 0 \/ r.receipt # None \/ r.obsReceipt # None
  \/ r.st \in {"LEASED", "RECEIVED"}

\* mark_restored of one row
Restoring(r, t) ==
  LET bare == [Unleased(r) EXCEPT !.bytes = 0, !.settled = None] IN
  IF r.st = "NONE" THEN r
  ELSE IF r.st = "WITHDRAWN" /\ r.receipt # None THEN bare
  ELSE IF Attempted(r)
  THEN [bare EXCEPT !.op = "WITHDRAWAL", !.st = "BLOCKED", !.terminal = None]
  ELSE [bare EXCEPT !.st = "CANCELLED", !.terminal = IF r.terminal = None THEN t ELSE r.terminal]

\* mark_restored
MarkRestored(t) ==
  /\ \A b \in Bindings : bindings[b].st \notin {"NONE", "RESTORED"}
                           => bindings[b].gen < MaxGeneration
  /\ bindings' = [b \in Bindings |->
       IF bindings[b].st \in {"NONE", "RESTORED"} THEN bindings[b]
       ELSE [bindings[b] EXCEPT !.st = "RESTORED", !.gen = @ + 1,
                                !.clock = IF @ > t THEN @ ELSE t]]
  /\ items' = [s \in Sources |-> Restoring(items[s], t)]
  /\ capacity' = NoCapacity
  /\ UNCHANGED claims

-----------------------------------------------------------------------------
BindingStep(b, t) ==
  \/ CreateBinding(b, t) \/ Pause(b, t) \/ Resume(b, t)
  \/ Expire(b, t) \/ ClaimNothing(b, t)
  \/ PruneTerminal(b, t) \/ Inspect(b, t)
  \/ \E restored \in BOOLEAN : Disconnect(b, restored, t)
  \/ \E s \in Sources, lease \in Leases : ClaimOne(b, s, t, lease)

SourceStep(s, t) ==
  \/ Enqueue(s, t)
  \/ \E reason \in Reasons : Withdraw(s, reason, t)

SettlementStep(n, t) ==
  \/ Reject(n, t)
  \/ \E delay \in Delays : Retry(n, t, delay)
  \/ \E receipt \in Receipts : Acknowledge(n, receipt, t) \/ AcknowledgeAgain(n, receipt, t)

Next ==
  \/ \E b \in Bindings, t \in Times : BindingStep(b, t)
  \/ \E s \in Sources, t \in Times : SourceStep(s, t)
  \/ \E n \in DOMAIN claims, t \in Times : SettlementStep(n, t)
  \/ \E t \in Times : MarkRestored(t)
  \/ \E b \in Bindings : PauseKeyless(b)

Spec == Init /\ [][Next]_vars

-----------------------------------------------------------------------------
(* Properties *)

TypeOK ==
  /\ bindings \in [Bindings -> Binding]
  /\ items \in [Sources -> Item]
  /\ capacity \in Capacity
  /\ claims \in Seq(Claim)
  /\ \A n \in DOMAIN claims : claims[n].token = n

\* A leased row belongs to the current generation of the live binding, and the
\* installation's one send reservation is its own: no pause, resume, expiry,
\* disconnect or restore leaves a row leased that nobody can settle, and no two
\* rows are leased at once.
LeaseHoldsCapacity ==
  \A s \in Sources : items[s].st = "LEASED" =>
    /\ bindings[BindingOf[s]].st \in Live
    /\ items[s].gen = bindings[BindingOf[s]].gen
    /\ capacity = [token |-> items[s].token, until |-> items[s].until]
    /\ \A o \in Sources : items[o].st = "LEASED" => o = s

\* Two requests never overlap: a lease is settled, or over by the clock of the
\* next claim, before the next claim is issued -- though the row it was taken
\* for may be withdrawn, or its binding paused, disconnected and replaced, while
\* the request is still in flight.  Only a restore, which starts from a machine
\* with no sender, forgets the reservation.
ClaimsNeverOverlap ==
  \A n \in DOMAIN claims : n + 1 \in DOMAIN claims =>
    \/ claims[n].fate # "OPEN"
    \/ claims[n].until <= claims[n + 1].at
    \/ bindings[BindingOf[claims[n].source]].st = "RESTORED"

Exposed(s) == \E n \in DOMAIN claims : claims[n].source = s /\ claims[n].op = "OBSERVATION"

Retracted(s) ==
  \E n \in DOMAIN claims : /\ claims[n].source = s /\ claims[n].op = "WITHDRAWAL"
                           /\ claims[n].fate = "ACKNOWLEDGED"

\* An observation that may have been sent is never forgotten: until a withdrawal
\* of it was acknowledged, its row stays and says so, whatever the order of
\* deletion, expiry, rejection, disconnection, restore and pruning.
ObligationKept ==
  \A s \in Sources : Exposed(s) /\ ~Retracted(s) =>
    items[s].st \in {"PENDING", "LEASED", "RECEIVED", "BLOCKED"}

\* A withdrawn source is never observed again, not even after its row is pruned
\* and the same entity is offered once more.
NoResurrection ==
  \A m, n \in DOMAIN claims :
    /\ claims[m].source = claims[n].source
    /\ claims[m].op = "WITHDRAWAL" /\ m < n
    => claims[n].op = "WITHDRAWAL"

\* The store never outgrows its byte limits: room for the withdrawal of every
\* row is reserved when the row is admitted, so deleting everything fits.
StoredBytes(rows) == SumFunctionOnSet([i \in Sources |-> items[i].bytes], rows)

StorageBounded ==
  /\ \A b \in Bindings : StoredBytes(Rows(b)) <= BindingLimits.bytes
  /\ StoredBytes(AllRows) <= InstallationLimits.bytes

\* An acknowledged withdrawal is final: its receipt and state stay until the row
\* is pruned, under every later operation, restores included.
AcknowledgedWithdrawalFinal ==
  [][\A s \in Sources : items[s].st = "WITHDRAWN" =>
       \/ items'[s] = NoItem
       \/ /\ items'[s].st = "WITHDRAWN" /\ items'[s].op = "WITHDRAWAL"
          /\ items'[s].receipt = items[s].receipt
          /\ items'[s].obsReceipt = items[s].obsReceipt
          /\ items'[s].terminal = items[s].terminal]_vars

-----------------------------------------------------------------------------
(* The promise of SourceExport, per source *)

Phase(s) ==
  LET row == items[s] IN
  IF row.st = "NONE" THEN (IF Exposed(s) THEN "Forgotten" ELSE "Absent")
  ELSE IF row.st \in {"CANCELLED", "EXPIRED"} THEN "Dropped"
  ELSE IF row.st = "WITHDRAWN" THEN "Retracted"
  ELSE IF row.op = "WITHDRAWAL" THEN "Owed"
  ELSE IF row.attempts > 0 THEN "Exposed" ELSE "Queued"

Export == INSTANCE SourceExport WITH phase <- [s \in Sources |-> Phase(s)]

\* The outbox keeps the promise of SourceExport: a source that may have been
\* sent leaves the store only through an acknowledged withdrawal, nothing
\* withdrawn is sent again, and no step exposes two sources.
KeepsPromise == Export!Spec
=============================================================================
