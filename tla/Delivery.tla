------------------------------ MODULE Delivery ------------------------------
(***************************************************************************)
(* The delivery worker of the pharmacy laptop beside everything it races   *)
(* with (src/services/api/cloud_delivery.py, cloud_hooks.py and the manager*)
(* controls of cloud_connection.py): records that are published, changed   *)
(* and deleted, a manager who pauses, resumes and disconnects, a network   *)
(* that delays and loses, a cloud that may act on a request its sender has *)
(* given up, a stop at any moment, a crash between any two transactions,   *)
(* and the errors that halt the uploader until the application is started  *)
(* again: an unreadable key or row, a clock that was set back.             *)
(* The queue is Outbox, whose operations are the database steps here.      *)
(***************************************************************************)
EXTENDS Outbox

CONSTANTS
  Lease,        \* DeliveryPolicy.lease_seconds
  Margin,       \* the two seconds run_once keeps of a lease
  Backoff,      \* the delay before a retry; its growth is abstracted away
  ObsAttempts,  \* DeliveryPolicy.observation_attempts
  TotalAttempts,\* DeliveryPolicy.total_attempts
  PageRows,     \* DeliveryPolicy.reconciliation_rows
  Rank,         \* the order of the row ids, which are random
  MaxTime,      \* bound: the last clock reading
  CalmFrom      \* bound: from here on the network answers, nothing crashes, and
                \* nobody touches the records or the connection

ASSUME DeliveryAssumption ==
  /\ Times = 0..MaxTime /\ MaxTime \in Nat /\ CalmFrom \in Nat
  /\ Lease \in Leases /\ Backoff \in Delays /\ Margin \in Nat
  /\ ObsAttempts \in Nat /\ TotalAttempts \in Nat /\ ObsAttempts < TotalAttempts
  /\ PageRows \in Nat /\ Rank \in [Sources -> Nat]

VARIABLES
  now,       \* the laptop's clock
  adjusted,  \* bound: the clock was set back, which happens once
  source,    \* each source's record among the local entities
  worker,    \* CloudDelivery: where run_once stands, its claim, the response
  stopping,  \* CloudDelivery._stop
  halted,    \* CloudDelivery._halted
  cursor,    \* CloudDelivery._cursor: the row the reconciliation has come to
  wire,      \* requests the cloud may still act on, by token
  answered,  \* the request whose receipt is on its way back to the worker
  cloud,     \* what the control plane holds of each source
  raced,     \* history: the source went after the authorization in force saw it
  refused    \* history: the sources whose withdrawal the cloud refused for good

clock == <<now, adjusted>>
uploader == <<stopping, halted, cursor>>
network == <<wire, answered, cloud>>
history == <<raced, refused>>
everything == <<vars, clock, source, worker, uploader, network, history>>

\* A pass inside its first transaction holds SQLite's write lock.
Locked == {"RECONCILING", "CLAIMING"}
Requesting == {"CLAIMED", "AUTHORIZED", "SENT"}
WorkerStates == Locked \cup Requesting \cup {"IDLE", "SETTLING"}
Responses == {"NONE", "OK", "CANCELLED", "CONTEXT_CHANGED", "REQUEST_TIMEOUT",
              "REFUSED", "ACCESS_REVOKED", "HALT"}  \* HALT: one of HALT_CODES

\* DeliveryContext: the binding the pass serves, the rows its reconciliation
\* has read, and the one claim it made.
Idle == [pc |-> "IDLE", binding |-> None, page |-> {}, claim |-> 0, response |-> "NONE"]

Unlocked == worker.pc \notin Locked
Trouble == now < CalmFrom

DeliveryInit ==
  /\ Init
  /\ now = 0 /\ adjusted = FALSE
  /\ source = [s \in Sources |-> "ABSENT"]
  /\ worker = Idle
  /\ stopping = FALSE /\ halted = FALSE /\ cursor = None
  /\ wire = {} /\ answered = {} /\ refused = {}
  /\ cloud = [s \in Sources |-> "UNKNOWN"]
  /\ raced = FALSE

-----------------------------------------------------------------------------
(* The records *)

\* CloudHooks.publish, in the transaction that stores the record.  Whatever
\* keeps it from being queued, the record itself is stored.
Publish(s) ==
  /\ Unlocked
  /\ Trouble
  /\ source[s] = "ABSENT"
  /\ source' = [source EXCEPT ![s] = "AVAILABLE"]
  /\ \/ items[s].st = "NONE" /\ Enqueue(s, now)
     \/ UNCHANGED vars
  /\ UNCHANGED <<clock, worker, uploader, network, history>>

\* A record is deleted; CloudHooks.withdraw runs in the same transaction, and a
\* connection that is closed or unreadable does not prevent the deletion.
Delete(s) ==
  /\ Unlocked
  /\ Trouble
  /\ source[s] \in {"AVAILABLE", "INELIGIBLE"}
  /\ source' = [source EXCEPT ![s] = "DELETED"]
  /\ \/ bindings[BindingOf[s]].st \in Live /\ Withdraw(s, "LOCAL_DELETED", now)
     \/ UNCHANGED vars
  /\ raced' = (raced \/ worker.pc = "AUTHORIZED")
  /\ UNCHANGED <<clock, worker, uploader, network, refused>>

\* A record changes so that source_state no longer maps it to what was queued.
Change(s) ==
  /\ Unlocked
  /\ Trouble
  /\ source[s] = "AVAILABLE"
  /\ source' = [source EXCEPT ![s] = "INELIGIBLE"]
  /\ raced' = (raced \/ worker.pc = "AUTHORIZED")
  /\ UNCHANGED <<vars, clock, worker, uploader, network, refused>>

\* _source_reason
Gone(s) == Deadline[s] <= now \/ source[s] # "AVAILABLE"

Reason(s) ==
  IF Deadline[s] <= now THEN "LOCAL_EXPIRED"
  ELSE IF source[s] = "INELIGIBLE" THEN "LOCAL_EXPORT_REMOVED" ELSE "LOCAL_DELETED"

-----------------------------------------------------------------------------
(* The manager *)

Manage ==
  /\ Unlocked
  /\ Trouble
  /\ \E b \in Bindings :
       \/ CreateBinding(b, now) \/ Resume(b, now)
       \/ ~adjusted /\ (PauseKeyless(b) \/ Disconnect(b, FALSE, now))
  /\ UNCHANGED <<clock, source, worker, uploader, network, history>>

\* bound: the clock is set back only in a connection no one has paused yet, and
\* the manager pauses and disconnects only where it was not set back.
Undisturbed == \A b \in Bindings : bindings[b].gen <= 2

\* CloudDelivery.stop, when the application ends
Stop ==
  /\ ~stopping /\ ~halted /\ Trouble
  /\ stopping' = TRUE
  /\ UNCHANGED <<vars, clock, source, worker, halted, cursor, network, history>>

\* A new CloudDelivery begins to run: the application has been started again.
Fresh == stopping' = FALSE /\ halted' = FALSE /\ cursor' = None

Start ==
  /\ stopping \/ halted
  /\ worker.pc = "IDLE"
  /\ Fresh
  /\ UNCHANGED <<vars, clock, source, worker, network, history>>

\* From CalmFrom on a pass takes no time, except while it waits for the cloud;
\* otherwise the last clock readings would leave a lease no time to run out.  A
\* pass reads the clock once for its first transaction.
Tick ==
  /\ now < MaxTime /\ Unlocked
  /\ Trouble \/ worker.pc \in {"IDLE", "SENT"}
  /\ now' = now + 1
  /\ UNCHANGED <<vars, adjusted, source, worker, uploader, network, history>>

\* Somebody sets the clock back behind what the queue has seen; before that it
\* might as well have stood still.
SetBack ==
  /\ ~adjusted /\ Undisturbed
  /\ Unlocked /\ Trouble
  /\ now > 0 /\ \E b \in Bindings : bindings[b].clock = now
  /\ now' = now - 1
  /\ adjusted' = TRUE
  /\ UNCHANGED <<vars, source, worker, uploader, network, history>>

-----------------------------------------------------------------------------
(* One pass: run_once *)

Binding1 == worker.binding
Claim1 == claims[worker.claim]
Served == Claim1.source

Goes(pc) == worker' = [worker EXCEPT !.pc = pc]

Ends == worker' = Idle

\* The end of the request; a receipt that comes later finds nobody waiting.
Responds(response) ==
  /\ worker' = [worker EXCEPT !.pc = "SETTLING", !.response = response]
  /\ answered' = {}

\* The rows _reconcile reads: a page from the cursor on, or from the start when
\* the cursor has passed the last of them.
Page(b) ==
  LET rows == {s \in Rows(b) : /\ items[s].op = "OBSERVATION"
                               /\ items[s].st \in {"PENDING", "LEASED", "RECEIVED"}}
      ahead == {s \in rows : /\ cursor # None /\ BindingOf[cursor] = b
                             /\ Rank[cursor] < Rank[s]}
      from == IF ahead = {} THEN rows ELSE ahead
  IN {s \in from : Cardinality({r \in from : Rank[r] < Rank[s]}) < PageRows}

\* The cursor after the rows of a page; an empty one has wrapped around.
MovesPast(page) ==
  \/ page = {} /\ cursor' = None
  \/ \E s \in page : cursor' = s /\ \A r \in page : Rank[r] <= Rank[s]

MayBegin(b) ==
  /\ worker.pc = "IDLE" /\ ~stopping /\ ~halted
  /\ bindings[b].st = "ACTIVE"
  /\ Len(claims) < MaxClaims

BeginPass(b) ==
  /\ MayBegin(b) /\ Current(b, now)
  /\ worker' = [Idle EXCEPT !.pc = "RECONCILING", !.binding = b, !.page = Page(b)]
  /\ MovesPast(Page(b))
  /\ UNCHANGED <<vars, clock, source, stopping, halted, network, history>>

\* The first transaction of a pass fails and is rolled back; the cursor is not.
\* An unreadable key or row, and a clock behind the binding's, halt the worker
\* and pause the connection in a transaction that may fail as well.
BreakPass(b) ==
  /\ MayBegin(b)
  /\ Trouble \/ ~Current(b, now)
  /\ cursor' \in {cursor, None} \cup Page(b)
  /\ \/ halted' = TRUE /\ PauseKeyless(b)
     \/ Trouble /\ halted' \in BOOLEAN /\ UNCHANGED vars
  /\ UNCHANGED <<clock, source, worker, stopping, network, history>>

\* The rows of the page _reconcile withdraws, one after the other.
Stale == {s \in worker.page : items[s].op = "OBSERVATION" /\ Gone(s)}

ReconcileRow(s) ==
  /\ worker.pc = "RECONCILING"
  /\ s \in Stale
  /\ Withdraw(s, Reason(s), now)
  /\ worker' = [worker EXCEPT !.page = @ \ {s}]
  /\ UNCHANGED <<clock, source, uploader, network, history>>

EndReconcile ==
  /\ worker.pc = "RECONCILING"
  /\ Stale = {}
  /\ PruneTerminal(Binding1, now)
  /\ worker' = [worker EXCEPT !.pc = "CLAIMING", !.page = {}]
  /\ UNCHANGED <<clock, source, uploader, network, history>>

TakeClaim ==
  /\ worker.pc = "CLAIMING"
  /\ \E s \in Sources : ClaimOne(Binding1, s, now, Lease)
  /\ worker' = [worker EXCEPT !.pc = "CLAIMED", !.claim = FreshToken]
  /\ UNCHANGED <<clock, source, uploader, network, history>>

NothingToClaim ==
  /\ worker.pc = "CLAIMING"
  /\ ClaimNothing(Binding1, now)
  /\ Ends
  /\ UNCHANGED <<clock, source, uploader, network, history>>

\* run_once does not start a request its lease cannot cover.
TooLate ==
  /\ worker.pc = "CLAIMED"
  /\ Claim1.until <= now + Margin
  /\ Ends
  /\ UNCHANGED <<vars, clock, source, uploader, network, history>>

\* _same
InContext ==
  /\ bindings[Binding1].st = "ACTIVE"
  /\ bindings[Binding1].gen = Claim1.gen

\* The row check of _authorize and _settle: HoldsLease but for the clock.
OwnsRow ==
  LET row == items[Served] IN
  /\ InContext
  /\ row.st = "LEASED" /\ row.token = Claim1.token /\ row.gen = Claim1.gen
  /\ row.op = Claim1.op /\ row.until > now

\* The clock is behind the one the queue was last used at; _authorize looks at it
\* where the row is still there.
RolledBack == InContext /\ ~Current(Binding1, now)
ClockBehind == RolledBack /\ items[Served].st # "NONE"

\* An authorization that looks at the lease only.
GoneUnchecked == FALSE

ServedGone == Claim1.op = "OBSERVATION" /\ Gone(Served)

\* _authorize, before the request is handed to the child process ...
Authorize ==
  /\ worker.pc = "CLAIMED" /\ Claim1.until > now + Margin
  /\ ~stopping /\ OwnsRow /\ ~RolledBack
  /\ ~ServedGone
  /\ Goes("AUTHORIZED")
  /\ raced' = FALSE
  /\ UNCHANGED <<vars, clock, source, uploader, network, refused>>

\* ... and again while the child runs; a refusal ends the request ...
Refuse ==
  /\ worker.pc \in {"CLAIMED", "SENT"}
  /\ worker.pc = "CLAIMED" => Claim1.until > now + Margin
  /\ \/ /\ stopping \/ (~OwnsRow /\ ~ClockBehind)
        /\ UNCHANGED vars
     \/ /\ ~stopping /\ OwnsRow /\ ~RolledBack
        /\ ServedGone
        /\ Withdraw(Served, Reason(Served), now)
  /\ Responds("CONTEXT_CHANGED")
  /\ UNCHANGED <<clock, source, uploader, wire, cloud, history>>

\* ... and so does an error that halts the worker.
RefuseAndHalt ==
  /\ worker.pc \in {"CLAIMED", "SENT"}
  /\ worker.pc = "CLAIMED" => Claim1.until > now + Margin
  /\ ~stopping
  /\ Trouble \/ ClockBehind
  /\ Responds("HALT")
  /\ UNCHANGED <<vars, clock, source, uploader, wire, cloud, history>>

\* The watchdog closes the request of a stopping worker.
Cancel ==
  /\ worker.pc \in Requesting /\ stopping
  /\ Responds("CANCELLED")
  /\ raced' = FALSE
  /\ UNCHANGED <<vars, clock, source, uploader, wire, cloud, refused>>

\* The authorization has committed and the payload goes to the child; nothing
\* is locked here.
Send ==
  /\ worker.pc = "AUTHORIZED"
  /\ Goes("SENT")
  /\ wire' = wire \cup {worker.claim}
  /\ raced' = FALSE
  /\ UNCHANGED <<vars, clock, source, uploader, answered, cloud, refused>>

\* A timeout or a network error: the cloud may act on the request all the same.
\* Once authorized, a deadline that has passed counts as a refusal.
TimeOut ==
  /\ \/ Trouble
     \/ worker.pc = "SENT" /\ worker.claim \notin (wire \cup answered)
  /\ \/ worker.pc \in {"CLAIMED", "SENT"} /\ Responds("REQUEST_TIMEOUT")
     \/ worker.pc = "AUTHORIZED" /\ Responds("CONTEXT_CHANGED")
  /\ raced' = FALSE
  /\ UNCHANGED <<vars, clock, source, uploader, wire, cloud, refused>>

\* A client that takes the end of its request for a receipt.
ReceiveUnanswered ==
  /\ worker.pc = "SENT"
  /\ Responds("OK")
  /\ UNCHANGED <<vars, clock, source, uploader, wire, cloud, history>>

\* A valid receipt
Receive ==
  /\ worker.pc = "SENT"
  /\ worker.claim \in answered
  /\ Responds("OK")
  /\ UNCHANGED <<vars, clock, source, uploader, wire, cloud, history>>

\* The cloud refuses the request for good, or the device; or its receipt does not
\* match what was sent, which counts as a refusal too.
BeRefused ==
  /\ Trouble
  /\ worker.pc = "SENT"
  /\ worker.claim \in wire \cup answered
  /\ wire' = wire \ {worker.claim}
  /\ \/ Responds("REFUSED")
     \/ worker.claim \in wire /\ Responds("ACCESS_REVOKED")
  /\ UNCHANGED <<vars, clock, source, uploader, cloud, history>>

\* The child process outlives being killed: the worker halts, as it stands.
Hang ==
  /\ Trouble
  /\ worker.pc \in Requesting
  /\ Ends
  /\ halted' = TRUE
  /\ answered' = {} /\ raced' = FALSE
  /\ UNCHANGED <<vars, clock, source, stopping, cursor, wire, cloud, refused>>

NothingToSettle == worker.response \in {"CANCELLED", "CONTEXT_CHANGED"} /\ ~ServedGone

\* _settle when stopped, out of context or without the lease, or when its
\* transaction fails; the row keeps its lease until it runs out or is released
\* by whoever changed the context.
SettleFenced ==
  /\ worker.pc = "SETTLING"
  /\ \/ stopping \/ ~InContext \/ Trouble
     \/ /\ worker.response \notin {"ACCESS_REVOKED", "HALT"}
        /\ ~OwnsRow \/ NothingToSettle
  /\ Ends
  /\ UNCHANGED <<vars, clock, source, uploader, network, history>>

\* access_revoked
SettleRevoked ==
  /\ worker.pc = "SETTLING" /\ worker.response = "ACCESS_REVOKED"
  /\ ~stopping /\ InContext
  /\ PauseKeyless(Binding1)
  /\ Ends
  /\ UNCHANGED <<clock, source, uploader, network, history>>

\* The rest of _settle, with the lease in hand
Settling ==
  /\ worker.pc = "SETTLING" /\ worker.response \notin {"ACCESS_REVOKED", "HALT"}
  /\ ~stopping /\ OwnsRow

\* pause_error after a response that halts, or in a transaction of its own when
\* the clock or an unreadable key made that of _settle fail; this may fail too.
SettleHalted ==
  /\ worker.pc = "SETTLING"
  /\ ~stopping
  /\ \/ /\ InContext
        /\ \/ worker.response = "HALT" \/ Trouble
           \/ /\ Settling /\ RolledBack
              /\ ~NothingToSettle
        /\ PauseKeyless(Binding1)
     \/ Trouble /\ UNCHANGED vars
  /\ halted' = TRUE
  /\ Ends
  /\ UNCHANGED <<clock, source, stopping, cursor, network, history>>

SettleGone ==
  /\ Settling
  /\ ServedGone
  /\ Withdraw(Served, Reason(Served), now)
  /\ Ends
  /\ UNCHANGED <<clock, source, uploader, network, history>>

SettleReceipt ==
  /\ Settling
  /\ ~ServedGone
  /\ worker.response = "OK"
  /\ \E receipt \in Receipts : Acknowledge(worker.claim, receipt, now)
  /\ Ends
  /\ UNCHANGED <<clock, source, uploader, network, history>>

\* A worker that gives a withdrawal up as early as an observation.
SpentAlike == worker.response = "REFUSED" \/ items[Served].attempts >= ObsAttempts

Spent ==
  LET most == IF Claim1.op = "OBSERVATION" THEN ObsAttempts ELSE TotalAttempts IN
  worker.response = "REFUSED" \/ items[Served].attempts >= most

SettleFailure ==
  /\ Settling
  /\ ~ServedGone
  /\ worker.response \in {"REQUEST_TIMEOUT", "REFUSED"}
  /\ IF Spent THEN Reject(worker.claim, now)
              ELSE Retry(worker.claim, now, Backoff)
  /\ refused' = IF worker.response = "REFUSED" /\ Claim1.op = "WITHDRAWAL"
                THEN refused \cup {Served} ELSE refused
  /\ Ends
  /\ UNCHANGED <<clock, source, uploader, network, raced>>

\* The process dies between two transactions; the next one starts afresh, and
\* its owned child is gone, but not what it sent.
Crash ==
  /\ Trouble
  /\ Unlocked /\ worker.pc # "IDLE"
  /\ Ends /\ Fresh
  /\ answered' = {} /\ raced' = FALSE
  /\ UNCHANGED <<vars, clock, source, wire, cloud, refused>>

-----------------------------------------------------------------------------
(* The network and the control plane *)

\* device_sync: a withdrawn source stays withdrawn.
Arriving(held, op) ==
  IF op = "OBSERVATION" /\ held # "WITHDRAWN" THEN "AVAILABLE" ELSE "WITHDRAWN"

Arrive(n) ==
  /\ n \in wire
  /\ wire' = wire \ {n}
  /\ cloud' = [cloud EXCEPT ![claims[n].source] = Arriving(@, claims[n].op)]
  /\ \/ worker.pc = "SENT" /\ worker.claim = n /\ answered' = {n}
     \/ (Trouble \/ worker.pc # "SENT" \/ worker.claim # n) /\ UNCHANGED answered
  /\ UNCHANGED <<vars, clock, source, worker, uploader, history>>

Lose(n) ==
  /\ Trouble
  /\ n \in wire
  /\ wire' = wire \ {n}
  /\ UNCHANGED <<vars, clock, source, worker, uploader, answered, cloud, history>>

-----------------------------------------------------------------------------
Pass ==
  \/ \E b \in Bindings : BeginPass(b)
  \/ \E s \in Sources : ReconcileRow(s)
  \/ EndReconcile \/ TakeClaim \/ NothingToClaim \/ TooLate
  \/ Authorize \/ Refuse \/ RefuseAndHalt \/ Cancel \/ Send \/ Receive
  \/ SettleFenced \/ SettleRevoked \/ SettleHalted
  \/ SettleGone \/ SettleReceipt \/ SettleFailure

Adversity ==
  \/ TimeOut \/ BeRefused \/ Hang \/ Crash \/ Stop
  \/ \E n \in wire : Lose(n)
  \/ \E b \in Bindings : BreakPass(b)

DeliveryNext ==
  \/ Pass \/ Adversity \/ Manage \/ Start \/ Tick \/ SetBack
  \/ \E s \in Sources : Publish(s) \/ Delete(s) \/ Change(s)
  \/ \E n \in wire : Arrive(n)

DeliverySpec == DeliveryInit /\ [][DeliveryNext]_everything

\* The worker thread runs, time passes, a request that reached the cloud is
\* answered, and an application whose worker stopped or halted is started again
\* in the end; nothing else starts a halted worker.
Fairness ==
  /\ WF_everything(Pass \/ TimeOut \/ Start)
  /\ SF_everything(Tick)
  /\ WF_everything(\E n \in wire : Arrive(n))

FairDeliverySpec == DeliverySpec /\ Fairness

-----------------------------------------------------------------------------
(* Properties *)

DeliveryTypeOK ==
  /\ now \in Times /\ adjusted \in BOOLEAN
  /\ source \in [Sources -> {"ABSENT", "AVAILABLE", "INELIGIBLE", "DELETED"}]
  /\ worker \in [pc : WorkerStates, binding : Bindings \cup {None},
                 page : SUBSET Sources, claim : 0..Len(claims), response : Responses]
  /\ worker.pc = "IDLE" => worker = Idle
  /\ stopping \in BOOLEAN /\ halted \in BOOLEAN /\ raced \in BOOLEAN
  /\ cursor \in Sources \cup {None} /\ refused \subseteq Sources
  /\ wire \subseteq DOMAIN claims /\ answered \subseteq DOMAIN claims
  /\ cloud \in [Sources -> {"UNKNOWN", "AVAILABLE", "WITHDRAWN"}]

\* What the cloud shows, the laptop answers for: no crash, timeout, stop, late
\* arrival or change of context lets the cloud hold a source whose row is gone
\* or says that it was never sent.
ExposureIsOwned ==
  \A s \in Sources : cloud[s] = "AVAILABLE" =>
    /\ items[s].st \in {"PENDING", "LEASED", "RECEIVED", "BLOCKED"}
    /\ items[s].attempts > 0

\* A local receipt is the truth: a row counted as withdrawn is withdrawn at the
\* cloud, and stays so whatever requests are still on their way there.
ReceiptIsTruth ==
  \A s \in Sources :
    /\ items[s].st = "WITHDRAWN" => cloud[s] = "WITHDRAWN"
    /\ items[s].st = "RECEIVED" => cloud[s] # "UNKNOWN"

\* An observation leaves the laptop only if its record was there at the last
\* authorization: a source deleted earlier is never sent, not even by a pass
\* that had claimed it; only the moment between the authorization's commit and
\* the send remains.
SentOnlyIfThere ==
  [][worker.pc = "AUTHORIZED" /\ worker'.pc = "SENT" /\ Claim1.op = "OBSERVATION"
       => source[Served] = "AVAILABLE" \/ raced]_everything

\* The uploader has given a withdrawal up: the cloud refused it for good, or the
\* row was tried as often as it may be.  What the cloud holds then expires there.
GivenUp(s) ==
  /\ items[s].op = "WITHDRAWAL" /\ items[s].st = "BLOCKED"
  /\ s \in refused \/ items[s].attempts >= TotalAttempts

\* As long as sharing ends up on, everything the cloud holds of a source that
\* was deleted, changed or expired here is withdrawn there in the end, even if
\* the deletion's own hook failed, the first withdrawals were lost and the worker
\* halted; unless the withdrawal is given up, for one of the two reasons the
\* code has for that and for no other.
GoneLeavesTheCloud ==
  \A s \in Sources :
    <>[](bindings[BindingOf[s]].st = "ACTIVE") =>
      ((Gone(s) /\ cloud[s] = "AVAILABLE") ~> (cloud[s] = "WITHDRAWN" \/ GivenUp(s)))

\* Between them, the laptop's rows answer for what the cloud shows and tell the
\* truth about it, in every state the worker can be interrupted in.
DeliveryInv == DeliveryTypeOK /\ ExposureIsOwned /\ ReceiptIsTruth
=============================================================================
