# AisleSignals: a TLA+ verification project

AisleSignals watches retail pharmacies for possible product concealment. Cameras
are analysed on a laptop in the pharmacy; what staff confirm, and what they
choose to share, goes to a cloud control service. This directory holds TLA+
models of the parts of that system whose correctness depends on the order in
which things happen, TLC configurations that check them on small instances, and
TLAPS proofs that hold for every value of the constants.

Paths below are relative to the repository root (`src/` in `PROJECT.json`).

1. [The system](#1-the-system)
2. [Modules](#2-modules)
3. [What each module says, and how it corresponds to the code](#3-correspondence)
4. [Runs, bounds and fairness](#4-runs)
5. [Proofs](#5-proofs)
6. [Where the code and its documents disagree](#6-findings)
7. [What is not modelled, and why](#7-not-modelled)
8. [What would come next](#8-what-would-come-next)

## 1. The system

### 1.1 Inventory

Pharmacy laptop, one process (`services/api`, FastAPI and SQLite):

| Component | State it keeps | Operations | Correct when |
|---|---|---|---|
| Cloud outbox (`cloud_outbox.py`) | bindings with state, generation and clock fence; a row per exported source; the one send reservation | create, pause, resume, enqueue, withdraw, expire, claim, retry, acknowledge, reject, disconnect, prune, restore | what may have been sent is never forgotten before its withdrawal is acknowledged, nothing withdrawn is sent again, requests never overlap, storage stays within its limits |
| Media outbox (`cloud_media_outbox.py`) | a picture per observation, referencing its row | queue, mirror the parent, claim, settle manifest and content, prune, restore | pictures are covered by an observation whose withdrawal removes them; they share the reservation |
| Delivery worker (`cloud_delivery.py`) | the claim in hand, the request's child process, the reconciliation's cursor, the stop and the halt flag | one pass: reconcile a page, prune, claim, authorize, send, settle, give up; start, stop, halt | nothing deleted is sent after an authorization that could see it; receipts on the laptop are true; what is gone leaves the cloud unless its withdrawal is given up |
| Connection (`cloud_connection.py`, `cloud_transport.py`) | attempts, bindings, private files | prepare, confirm, pause, resume, disconnect, with requests to the cloud between two transactions of one of them | a code is spent once, what the cloud registered is known here, one connection, a stop holds, whoever asked is still a manager |
| Hooks and mapping (`cloud_hooks.py`, `cloud_observation.py`) | none of their own | admit, publish, withdraw, source_state | nothing leaves that is uncalibrated, recorded video, overdue or of another binding |
| Interaction jobs (`interactions.py`) | a row per job, frames on disk, the inference slot, active jobs, database lock | submit, worker, cancel, delete, review, list, janitor, recovery, shutdown | one owner of the slot, every unfinished row owned, frames kept while needed and removed afterwards, the lock held while anyone works |
| Vision (`interaction_vision.py`) | the provider | the rules over a model's reply | attention, strength and window agree; a provider that is off stays off |
| External reviews (`xai_verifier.py`) | budget, reviews, retry keys, breaker | reserve, ask, finish, sweep | every post is paid for once, an answer is not undone, a review is about what it saw |
| Custody (`custody_engine.py`) | a record per episode, in memory | observe, assess, reset | no alarm about what was paid for, returned or not covered, and none while something was forgotten |
| Workflow (`app.py`, `models.py`) | observations, cases with money, tasks and drafts, retry keys, the shift, events | decide, create, update, report, acknowledge | a key makes one thing per route, an observation is decided once, money belongs to a confirmed loss, drafts are current |
| Sign-in (`app.py`, `store.py`) | sessions, the rows that count wrong passphrases | sign in, switch branch, sign out | nobody overstays, a cookie is committed, tries are limited |
| Local store (`store.py`) | the database file, its mode and identity | look, create, harden, migrate, check before a transaction | nobody's database is converted |
| Identity (`pilot_identity.py`, `pilot_admin.py`) | accounts, memberships, sessions, the setup code | claim, invite, role changes, disabling | a branch keeps a manager, sessions end with the access they stand for, one founding |
| Backup (`evidence_backup.py`, `evidence_crypto.py`) | archives, the new directory | back up, restore | a restored copy is powerless, owes what it knew, has its frames |
| Layout calibration (`layout_calibration.py`) | none | polygons | geometry |

Cloud control service, several instances (`services/cloud`, FastAPI and PostgreSQL, an R2 object store):

| Component | State it keeps | Operations | Correct when |
|---|---|---|---|
| Device synchronisation (`device_sync.py`) | a receipt per source, alerts | observation, withdrawal, cleanup | a withdrawn source is never shown again |
| Evidence (`evidence_sync.py`, `evidence_cleanup.py`, `evidence_r2.py`) | a row per piece of evidence, envelopes in the store | manifest, upload, download, cleanup pass | what is called ready is stored; what is stored is tracked and goes away |
| Source maintenance (`source_maintenance.py`) | a cursor per server, one lock | a pass per interval, start, stop | every device comes round, none is skipped, passes exclude each other |
| Operations (`control_operations.py`) | devices, alerts, reviews, incidents, tasks | enrol, revoke, heartbeat, legacy alert intake, review | one alert lifecycle across both intakes |
| Authentication (`control_auth.py`, `control_store.py`, `control_models.py`) | accounts, challenges, sessions, invitations | sign in, invite, accept, change access | an active owner remains, sessions are for the account as it is, a code opens one session |
| Service shell (`app.py`, `config.py`, `database.py`, `migrate.py`, `start_*.py`, `prepare_release.py`, `evidence_crypto.py`, `evidence_store.py`) | schema version | start-up checks, migration | sequential |

Around them: the web application (`apps/web`), the control application
(`apps/control`), the companion's read-only probes (`services/companion`), the
launcher, backup, update and release scripts (`scripts`), deployment checks
(`deployment`) and packaging (`packaging`).

### 1.2 How they interact

- A request of the web application is one SQLite transaction. When it stores a
  finished interaction or an incident, it calls `CloudHooks.publish`, and when
  it deletes one, `CloudHooks.withdraw`, *inside that transaction*; both write
  the outbox's tables.
- The delivery worker is a thread of the same process. A pass is a transaction
  (reconcile, prune, claim), then a child process that makes one HTTP request
  while the worker re-authorizes it in transactions of its own, then a
  transaction that settles the claim. Between these, requests, the manager's
  pause, resume and disconnect, the clock and a stop come in any order.
- The cloud answers a device's request in one PostgreSQL transaction under the
  organisation's and the device's locks, except for an upload and a cleanup
  pass, whose object-store requests lie between two transactions.
- An interaction job is a request that takes the inference slot, writes files,
  commits a row and starts a thread, which analyses outside every transaction
  and publishes in another. The janitor thread, cancellations, deletions and
  the shutdown meet it anywhere.
- Pairing and an external review have the same shape: a transaction that records
  the intent, a request to somebody else, a transaction that may no longer act on
  what the first one saw.
- Two launchers may open one database file; backup and restore work on files
  beside the laptop that goes on.

### 1.3 What is hard

The list, each entry at its line, is `hazards` in `PROJECT.json`. In short:
requests whose outcome is unknown when everything about their source has already
changed; a reservation that must outlive the row it was taken for; clocks that
step back; two transactions with a network or model call between them, acting on
what the first one saw; files that do not roll back with the transaction that
removed them; crashes between any two steps; and retention rules whose windows
have to fit one another (30 days of intake against 31 days of receipts, 30 days
of media against 31 days of parents, a 24-hour deadline against 31 days of rows).

## 2. Modules

| Module | Models |
|---|---|
| `SourceExport` | abstract: what the laptop promises about each exported source |
| `Outbox` | `cloud_outbox.py`, and the keyless pause of `cloud_connection.py` |
| `MediaOutbox` | `cloud_media_outbox.py` composed with `Outbox` (EXTENDS) |
| `Delivery` | `cloud_delivery.py`, `cloud_hooks.py`, the manager's controls, the network and the cloud's view of a source, composed with `Outbox` (EXTENDS) |
| `Interactions` | `interactions.py` |
| `CloudSources` | `device_sync.py`, manifests of `evidence_sync.py`, legacy intake, review and revocation of `control_operations.py`, what a pass of `source_maintenance.py` does to a device |
| `CloudEvidence` | uploads and cleanup passes (`evidence_sync.py`, `evidence_cleanup.py`, `evidence_r2.py`) composed with `CloudSources` (EXTENDS) |
| `Accounts` | `pilot_identity.py`, `pilot_admin.py` and the sessions their changes end |
| `SignIn` | the sessions of one browser in `app.py` and `store.py`, with the commit that comes after the answer |
| `Passphrases` | `login_attempts`: the limits on wrong passphrases and setup codes |
| `Casework` | observations, cases, tasks and drafts of `app.py` |
| `Intake` | shift, events, simulated observations and assistance of `app.py` |
| `Projection` | the rules of `interaction_vision.py`, `cloud_observation.py` and the admission of `cloud_hooks.py` |
| `Database` | opening a database in `store.py` |
| `Recovery` | `evidence_backup.py`, with `mark_restored` of `cloud_outbox.py` |
| `Verifier` | `xai_verifier.py` |
| `Custody` | `custody_engine.py` |
| `Connection` | `cloud_connection.py`, and what `cloud_transport.py` can answer |
| `ControlAuth` | `control_auth.py` with `control_store.py` |
| `Maintenance` | `source_maintenance.py` |
| `SumProofs` | what a sum over a finite set is: lemmas about `SumFunctionOnSet` |
| `OutboxProofs` | the inductive invariant of `Outbox`, the theorems from it, and that `Outbox` implements `SourceExport` |
| `SendingProofs` | `Delivery` and `MediaOutbox`, both over `OutboxProofs` |
| `CloudProofs` | `CloudSources` and `CloudEvidence` |
| `HousekeepingProofs` | `Interactions` and `Maintenance` |
| `InstallationProofs` | `Connection`, `Database` and `Recovery` |
| `PeopleProofs` | `Accounts`, `SignIn`, `Passphrases` and `ControlAuth` |
| `WorkflowProofs` | `Casework`, `Intake`, `Verifier`, `Projection` and `Custody` |
| `MCParts`, `MCHousekeeping` | parts that share no state, side by side in one run (section 4) |
| `MC*` | small instances for TLC |

`map` in `PROJECT.json` names, for every definition, the lines it stands for. A
definition that exists only as the mutated form of another (for example
`PrunableAtOnce` before `Prunable`) is used by no behaviour; it states a
plausible mistake that the properties are known to catch.

## 3. Correspondence

### Outbox

`bindings`, `items` and `capacity` are the three tables; a row that is absent has
state `NONE`. Every operation of class `Outbox` runs in one savepoint and is one
action; an operation that raises rolls back and is a disabled step. `t` is the
clock reading a caller passes: it is chosen freely from `Times`, so clocks step
back, and only a binding's `clock` fences it, as in `_binding`. A token is the
index of the claim in `claims`, which also records, as history, how each lease
was settled. Identifiers, hashes, encryption and the contents of rows are
abstracted; lengths are kept where quotas count them (`Charge`, `QuotaAllows`).
`ClaimOne` is the whole of `claim`: expiry, lapsed leases, the reservation, the
order (withdrawals first, oldest first) and the lease. `PauseKeyless` is
`_pause_row` of the connection. `MarkRestored` starts from the database as it is;
restoring an *older* snapshot is in `Recovery`.

`SourceExport` gives each source a phase. `Outbox!Phase` computes it from the row
and the claims issued, and `KeepsPromise` is the refinement.

### MediaOutbox

One media row per source beside its parent. `_sync_parent` is `Mirrors`, called
wherever the code calls it; a delivery pass holds one transaction, so `pass`
marks that the next step belongs to it. `run_once` settles the claim it began
with, which `LatestClaim` and `LatestUpload` state. A prune that a media row
still references raises in the code and rolls back the pass, so it is a disabled
step here; `ForeignKeyNeverBlocksPruning` asks whether that happens.
`RequestsNeverOverlap` compares each request with the next one of either queue.
It says no more than that: a clock is fenced by its own binding only, so the
request after next, issued under a newer binding, may carry an earlier clock
reading than the first one's end although the one between them was over. Within
one binding the form for all pairs follows, since a binding's clock never goes
back.

### Delivery

`worker.pc` is where `run_once` stands: the two transactions (`RECONCILING`,
`CLAIMING`, which hold SQLite's write lock, so nothing else writes meanwhile),
the request (`CLAIMED`, `AUTHORIZED`, `SENT`) and the settlement. `wire` holds
requests the cloud may still act on, though their sender gave up; `answered`
those whose receipt is on its way. `cloud` is what the control service shows of a
source, with the one fact about it that matters here and that
`WithdrawnStaysWithdrawn` of `CloudSources` justifies: withdrawn stays
withdrawn. Backoff growth is abstracted to one delay. A record's life is
`ABSENT`, `AVAILABLE`, and then `DELETED` or `INELIGIBLE`.

The reconciliation reads a page of `PageRows` rows from `cursor` on, in the order
of their identifiers (`Rank`), and wraps around. `Spent` and `Reject` are the two
ways the worker gives a row up, an observation or a withdrawal: the cloud refused
it for good, or it was tried as often as it may be. The row is then `BLOCKED`,
nothing tries it again, and what the cloud holds of the source stays there until
it expires there. `GoneLeavesTheCloud` therefore promises a withdrawal *unless it
is given up* (`GivenUp`), and names the two reasons. The first is remembered as
history (`refused`), the second read off the row, so a worker that gives up for
any other reason, or earlier, violates it.

`halted` is `_halted`. An unreadable key or row, a clock behind the binding's
(`BreakPass`, `RefuseAndHalt`, `SettleHalted`) and a child process that outlives
being killed (`Hang`) halt the worker; `pause_error` then pauses the connection in
the same transaction or one of its own, which may fail, and the last of these
pauses nothing. `CloudDelivery.start` clears the flag, and only the start of the
application calls it (`interactions.py:489`): a halted worker waits for that, with
the manager's resume or without it. `SetBack` sets the clock back behind what the
queue has seen.

### Interactions

`rows` are the interaction entities, `files` each job's directory (none, torn,
whole), `slot` and `active` are `INFERENCE_SLOT` and `ACTIVE_JOBS`. `submit` is
several steps because it writes files inside its transaction and starts a thread
after its commit; the worker is one step per transaction and one per piece of
work between them. `Botch` is a transaction that fails after it has removed
files: rows roll back, files do not. A thread that does not start releases the
slot at once and fails its row in another transaction, for which `repairing`
waits; another submission may begin in between. A cleanup is a transaction (`SweepBegins`)
and one step per directory it then visits. Left out: linking a sample to a case,
review version numbers, idempotent repeats, reads. One request at a time submits
(the slot admits no other), beside those in `repairing`; `close` comes when no request is under way, and a
sweep takes less than the 120 seconds it grants unknown directories (`Tick`).

### CloudSources and CloudEvidence

`db` is the database, a record of tables, each a function from the keys that are
there, so that a handler's helpers compose as functions from database to
database, in the order of the code (`Cleaned(WithdrawnAlert(WithdrawnReceipt(db,
...)))`). A handler is one step, and one that fails is disabled. A conflict (the
same identifier with another content) changes nothing and is left out, as is a
download, which only writes the audit log. Cleanup's limits of 100 rows do not
bind; the limit of an evidence batch does (`Batch`). The service's and the
database's clock are one. `CloudEvidence` cuts an upload into its two
transactions, the store request between them and the compensating delete, and a
cleanup pass into its transactions and its deletes. `abandoned` is history: the
evidence whose upload ended without knowing what is stored.

### Accounts, SignIn, Passphrases

In `Accounts` each operator command (`OperatorStep`), each page of a manager
(`BrowserStep`) and the first owner's claim is one transaction and one step.
`epoch` is history: it counts the changes of an account's grants, enablement and
passphrase, and a session carries the count it began with, so `SessionIsCurrent`
says that every change ended every older session. `SignIn` has one browser and
what the framework does with its transaction: a request handled through `context`
answers first and commits afterwards (`writing`), except where the code commits
by itself (`CommitsSwitch`, `SignIntoBranch`). `Passphrases` keeps of
`login_attempts` how many failures of each key it holds from each time, which is
all the handlers count (rows have no order), and, as history, the same of every
wrong try. `Recent` is what is left after the deletion each handler begins with.
The handlers that count under a name of their own (`__admin_reauth__` and
`__cloud_reauth__` of each manager, `__first_owner_setup__`) have one name each in
`Namespaces`. Sign-in reads its clock before it has the database's lock
(`app.py:724`) and the others after; the model reads it with the lock. The wait,
seconds against a window of fifteen minutes, is left out.

### Casework, Intake

One request is one transaction. `Idempotent` and `Once` are `idempotent`: a retry
key that was answered on its route replays. The route is the request's path
(`app.py:305`) and so names the record the request is about: the same key sent to
two cases, or to review two observations, makes two requests, and `OncePerKey`
claims no more than that a key makes one thing *per route*. A case keeps its class, outcome, money, tasks and
draft; a draft keeps the facts it was made from. Requests with a stale
`expected_version` are refused and are not steps.

### Projection

`Submit`, `Analyse` and `Publish` are the transactions and the model call of one
clip; `Relink`, `SetClock` and `SetEnvironment` come between them. The rules are
operators on records: eligibility before the action is normalised, the
interpretation after it. `provider.corroborates` is FALSE for the provider that
is shipped; the repository's tests have doubles for which it is TRUE, and both
are initial states, since otherwise nothing would ever be queued.

### Database

An opener is at the place where `prepare_pilot_database`, `Store.__init__` or
`transaction` stands; `Provenance` is `validate_provenance` on a file's version,
tables, mode, identity and bindings. `Found` lists the files that earlier builds,
other programs and damage leave, a pilot's database that others may read among
them: it is hardened by the pilot that opens it, so `PilotIsPrivate` is about a
pilot that has got as far as that, or has the file open and unexchanged, rather
than about every file in pilot mode. `Exchange` replaces the file while nobody is
opening it, as an operator does.

### Recovery

`laptop` goes on after `CreateBackup`; `Fence` is the one transaction a restore
makes in its copy; `Move` publishes one part, and `RestoreKilled` may come
anywhere. One account stands for the staff, one binding for the connection.

### Verifier, Custody

`Verifier` cuts a review into reservation, post, look at the interaction, and
finish; the sweep closes a row whose request may still be alive. A frame that
fails its checks ends the request with an error `verify` does not catch
(`FrameRefused`): the row stays `REQUESTING` and the sweep closes it as
`UNKNOWN_BILLING`. `expired` holds the interactions whose time is over; reviews
carry that time themselves, so `Cleanup` goes by it and not by whether the
interaction is still there. A retry name is a key with the manager who uses it.

`Custody` is `observe` with the whole state machine of a record, coverage,
capacity and reset; `answer` is the last assessment. A compromised record and a
degraded engine go on observing: that neither ever alarms is left to the guards of
`HighAttention`, as in the code, and `NothingForgotten` fails without the one for
capacity (`ChainAlone`). A repetition with other content, or a time that is not
later, compromises the record and leaves the rest of it alone (`Conflict`).

### Connection

`calls` holds the request of each operation between its transactions; `io_lock`
is `IoFree`. A preparation, its binding and its private file share an identifier.
`Fingerprint` is what an attempt remembers of all bindings. The cloud may take a
code and the answer be lost (`Enrol`), a file may be lost or a console may rename
or revoke a device at any time. `stopped` is history: a pause of the connection
that a resume under way is about.

### ControlAuth

A request of an owner is admitted in one transaction (`require_owner`) and acts
in another; a sign-in is three. A version on sessions and challenges says which
state of the account they were made for. `live` gives each token its session,
with the number of newer sessions of the same account beside it: the code keeps
the newest `PerUser` and revokes the rest, so a rank is all that is needed of
their order. After `SignOut` the older sessions move up; a session that is over by
age or disuse (`SessionOver`) keeps its place, because its row stays. `lastStep` is the step of the last accepted code.

### Maintenance

`place`, `todo`, `cleaned` and `passed` are local to a pass and lost with it; the
cursor is published after the commit. `round` is history.

## 4. Runs

All runs check deadlock off, because every model has bounds that end it (the
last clock reading, the last claim); a laptop that is shut down may also simply
stop. `violation` runs are in section 6.

| Run | Question | Instance and why it is enough |
|---|---|---|
| `outbox_one_binding` | forgotten, resurrected, un-acknowledged, overflowing? | Three like sources, room for two: the third admission meets both limits, and withdrawals fill the reserve. Deadline, day and retention are one unit of a clock with three readings in any order, so every window opens, closes and is stepped back over. Three claims: send, withdraw, and one more for a second source or a repeat. |
| `outbox_two_bindings` | does the reservation survive a change of binding, is the promise kept? | Two bindings that follow one another, one source in each: a request of the first may be in flight when the second sends. `MaxGeneration` 3 makes the last generation reachable. |
| `delivery` | what reaches the cloud, is the receipt true, does it go away? | One source, one binding, three clock readings, deadline 2. Every interleaving of a pass with deletion, change, expiry, stop, halt, crash, loss, refusal and late arrival is in it, and with either the manager's pause, resume and disconnect or a clock set back once, not both (`Undisturbed`). Both limits of attempts bind: an observation is given up after the first attempt that fails, and its withdrawal when the row has been tried three times in all. Five claims are never all used, so that bound cuts nothing. With one source a page of one row is all there is and the cursor only wraps around; and since an observation may be tried only once, a settlement never puts one back in the queue here, which the `outbox` runs do. |
| `media` | pictures covered, requests exclusive? | Two sources of one binding: one's upload against the other's observation and withdrawal. Two claims and two media claims: an observation and its withdrawal or the other source's observation, against a manifest and its content, or a repeat. |
| `interactions_races` | who owns slot, row, frames, lock; what may make room? | Two jobs, two branches, room for one job: the second submission must replace the first or be refused, also where the first is of the other branch. Three clock readings pass both the retention and the grace. |
| `housekeeping` | do frames go away, is a stopped job published, does every device come round, is none skipped? | Laptop: one job, the janitor and a listing request that also sweeps, five clock readings. Cloud: two servers, two devices, one device per pass, so that a round takes two passes and a cursor matters; three troubles (locks, failures, budgets, stops, deaths) are enough for one to hit each pass of a round and its repetition. |
| `cloud_evidence_races` | what rows say against what is stored; is a withdrawn source shown again? | One source, one piece of evidence, two uploads and two passes at once (any two instances or threads), store failures and crashes at any time. Replay window and receipt retention are one unit, so the receipt of a withdrawal is pruned while the source may still be sent again. |
| `cloud_evidence_progress` | do envelopes go away? | Two envelopes, one of which the store never deletes, a batch of one: the failing one competes for every batch. |
| `parts` | do twelve parts keep their promises under every order of requests, lost answers, crashes and clocks? | See below. |

**Properties.** A run checks a few properties, several of them conjunctions of
parts that a module states one by one, each with its own comment: `DeliveryInv`,
`MediaInv`, `OwnershipInv`, `RecordsInv`, `MaintenanceInv`, `EvidenceInv`, and in
`parts` one for each part. `LeaseHoldsCapacity` and `AcknowledgedWithdrawalFinal`
of `Outbox` are proved and therefore in no run; each of the other properties of
`Outbox` is in one of its two runs.

**Side by side.** `parts` and `housekeeping` each check parts that share no
variable in one run: `focus` names the part that moves, the others stay in their
initial state, and every behaviour of every part is there. Nothing about an
interaction between those parts follows from it; where parts interact, a module
composes them. The bounds of `parts`, by part:

- *Accounts*: two people, two branches, two browsers; one change of an account
  beside those that found the workspace, so that a demotion, a disabling or a new
  passphrase meets the other's; two setup codes, one of which outlives the claim.
- *Sign-in*: three tokens (a switch makes a new one, a second sign-in another),
  life 3, idle 2, clock to 4: a session can end either way.
- *Passphrases*: two addresses beside two other names, window 1 in a clock to
  2, limits 2 and 3, so that the host's limit binds before both addresses' do.
- *Casework*, *Intake*: two keys, one observation, two cases, two tasks, three changes:
  the same key on two routes and on two cases, and update, draft, close or update,
  close, reopen.
- *Projection*: one clip, windows and citations that pass and that fail each rule,
  clock to 1 with a day of one unit, so that an observation is due and is over.
  `Old` (30 days) is 2 and lies beyond the clock: the refusal of a clip that old
  is never taken. A binding's number and generation add up to at most five.
- *Database*: two processes in either mode, all fourteen files of `Found` and no
  file, one exchange.
- *Recovery*: one job: every promise is about one row and its frames. Once there
  is a backup the staff stay as they are (`StaffStays`); nothing looks at them
  after it.
- *Reviews*: one interaction, three rows, taken in order (`ReviewsInOrder`, which
  loses nothing, because their names are interchangeable), two retry keys, a budget for two, two
  failures open the breaker, an interaction that changes once.
- *Cloud sign-in*: two people who may own, a third who is only ever invited, two
  challenges, two codes, one sign-in between its transactions at a time. Both
  challenges are open only as sign-ins of one account, while no other sign-in is
  under way, no owner's request admitted and nobody invited (`TwoAreOfOne`); while
  two requests of owners are admitted nobody signs in (`TwoRequestsAlone`); and
  the third is invited as an owner, since nothing looks at the role of somebody
  who never accepts (`ThirdIsOnlyAsked`).
- *Custody*: two episodes with room for one; each observation comes one tick
  after the last, and from `Late` on an exit may be reported again, before the
  till answers or after; a tenth event of one record is one too many, and the last
  tick is later than an episode may last (`MaxEpisode` 8, `MaxAt` 9). Two bounds
  on what is told (`Tellable`): what does not fit a record, and a conflict, comes
  once, to a record that was told the facts of one whole chain in their order so
  far (`Sequel`, `ToldSequel`); and a record in doubt, or an engine that dropped
  something, goes on with that chain, which is what could make it alarm after all.
- *Pairing*: two preparations, two codes, two actors of two branches; generation
  limit 3, so that a pause may find the last generation. Once both preparations
  were begun, no file is lost and the console changes no device
  (`SecondIsCalm`).

Symmetry in `parts`: two names stand for people, episodes or preparations and two
for tokens or keys, whichever the part in focus has; no part tells them apart.

**Fairness.** `Delivery`: WF of the worker's own steps, its request's timeout and
the start of the application, taken together (a stopped or halted worker is
started again in the end because somebody opens the laptop in the morning, and by
nothing else); WF of the arrival of the requests on the wire; SF of time, because
in the model's calm part a pass is not interrupted by it. From `CalmFrom` on nothing fails
and nobody changes records or the connection: that is what "in the end" means,
and `GoneLeavesTheCloud` also asks that the binding ends up active, because
`delivery_context` gives a paused one no pass. `Interactions`: WF of submission,
inference, shutdown, the exit of a stopped process and the launcher's restart,
SF of the janitor's sweep (the write lock it needs comes and goes) and of time.
`Maintenance`: SF of each server's thread, which is started with the server and
tries again at every interval (the lock and a stop come and go), and WF of the
end of every other transaction's lock on a device. `housekeeping` states both
with the part in focus as a guard, since the other part takes no steps.
`CloudEvidence`: WF of a running upload's steps, of a cleanup pass, of
maintenance coming round to the device, and of time. Staff, laptops and managers
are never fair: nobody has to do anything.

Bounds by name: `Times`, `MaxTime` (clock readings), `MaxClaims`,
`MaxMediaClaims` (claims issued), `MaxTasks` (100 in the code), `MaxGeneration` and `MaxAttempts` (2147483647
in the code, small here so that saturation is reached), `Leases`, `Delays`,
`Receipts`, `EvidenceIds` (values callers and the cloud may pick), `LastSubmit`,
`CalmFrom`, `MaxTrouble`, `MaxStamp`, `MaxMoment`, `MaxAt`, `Late` (clock readings of
the parts), `MaxAccountChanges`, `MaxChanges`, `MaxEdits`, `MaxVersion` (changes),
`MaxCodes`, `MaxWrongTries`, `MaxCases`, `MaxRequests`, `MaxLink`,
`MaxExchanges`, `MaxReading`, `MaxCode`, `Sequel`, `ToldSequel`, `Tellable`, `Undisturbed`, `adjusted`,
`SecondIsCalm`, `TwoAreOfOne`, `TwoRequestsAlone`, `ThirdIsOnlyAsked`, `StaffStays`,
`ReviewsInOrder`. Symmetry is used where sources, jobs, branches, uploads or cleaners
are interchangeable, and never in a run with a liveness property.

## 5. Proofs

Proved for every set of bindings and sources, every limit, size and deadline the
assumptions allow, every clock reading and any number of claims:

| Theorem | States |
|---|---|
| `OutboxProofs!Invariant` | the inductive invariant `IInv` |
| `OutboxProofs!TypeCorrect` | `TypeOK`, tokens unique |
| `OutboxProofs!LeasesHoldCapacity` | `LeaseHoldsCapacity` |
| `OutboxProofs!ClaimsAreExclusive` | `ClaimsNeverOverlap` |
| `OutboxProofs!ObligationsAreKept` | `ObligationKept` |
| `OutboxProofs!NothingResurrects` | `NoResurrection` |
| `OutboxProofs!StorageStaysBounded` | `StorageBounded` |
| `OutboxProofs!Refinement` | `KeepsPromise`: `Outbox` implements `SourceExport` |
| `OutboxProofs!AcknowledgedIsFinal` | `AcknowledgedWithdrawalFinal` |
| `SendingProofs!DeliveryImplementsOutbox` | `Delivery` implements `Outbox`, and so `KeepsPromise` |
| `SendingProofs!CloudIsAnsweredFor` | `DeliveryInv`: the rows answer for what the cloud shows, receipts are true |
| `SendingProofs!GoneIsNotSent` | `SentOnlyIfThere` |
| `SendingProofs!MediaInvariant` | the inductive invariant of both queues |
| `SendingProofs!PicturesAreCovered` | `MediaInv` |
| `SendingProofs!RequestsAreExclusive` | `RequestsNeverOverlap` |
| `CloudProofs!SourceTypes` | `TypeOK` of `CloudSources`, the foreign key of evidence included |
| `CloudProofs!WithdrawalsAreFinal` | `WithdrawnStaysWithdrawn` |
| `CloudProofs!RowsAndStoreAgree` | `EvidenceInv` |
| `HousekeepingProofs!ThingsHeldHaveHolders`, `RecordsAreWhole` | `OwnershipInv`, `RecordsInv` |
| `HousekeepingProofs!NothingStoppedIsPublished`, `ProtectedRecordsStay` | `StoppedIsNotPublished`, `ProtectedKept` |
| `HousekeepingProofs!PassesExclude`, `CursorsSkipNothing` | `OnePass`, `RoundIsComplete`; together `MaintenanceInv` (`MaintenanceIsSound`) |
| `InstallationProofs!CodesAreSpentOnce`, `EnrolmentsAreRecorded`, `ConnectionsAreSingle` | `CodeSpentOnce`, `EnrolmentIsRecorded`, `OneConnection`; together `ConnectionInv` (`ConnectionsAreSound`) |
| `InstallationProofs!NothingIsOverruled` | `RequestsAreCurrent` (`StopHolds` and `ActorIsCurrent` of every step) |
| `InstallationProofs!PilotsArePrivate`, `OpenersAgree` | `PilotIsPrivate`, `OpenIsOurs`; together `DatabaseInv` (`DatabasesAreSound`) |
| `InstallationProofs!NobodyConverts` | `NeverConverted` |
| `InstallationProofs!RestoreIsPowerless`, `RestoreOwesTheCloud`, `RestoredFramesMatch` | `RestoredIsPowerless`, `CloudIsAccountedFor`, `EvidenceMatchesRows`; together `RecoveryInv` (`RestoreIsSound`) |
| `PeopleProofs!AccountTypes`, `SessionsAreCurrent`, `OneFounding` | `AccountsTypeOK`, `SessionIsCurrent`, `FoundedOnce`; together `AccountsInv` (`AccountsAreSound`) |
| `PeopleProofs!BranchesKeepManagers` | `BranchKeepsManager` |
| `PeopleProofs!NobodyIsLetInForTooLong` | `SignInInv` |
| `PeopleProofs!WrongTriesAreLimited` | `TriesAreLimited` |
| `PeopleProofs!AccessIsBacked` | `AuthInv` of the console: an owner remains, every access has its account behind it |
| `PeopleProofs!CodesOpenOneSession` | `CodesOnlyOnce` |
| `WorkflowProofs!CasesAreOnceAndWhole` | `CaseworkInv` |
| `WorkflowProofs!LostAnswersMakeNothingTwice`, `EventsAreKept` | `MadeOnce`, `LogIsKept` |
| `WorkflowProofs!ReviewsArePaidAndCurrent`, `NoAnswerIsUndone` | `VerifierInv`, `AnswersStand` |
| `WorkflowProofs!AnalysesAreExplained`, `OnlyWhatIsDueLeaves` | `AnalysisInv`, `ProjectionInv` |
| `WorkflowProofs!AlarmsAreKnownInFull` | `CustodyInv` |

Every invariant and every action property that a passing run checks is stated by
one of these. `theorems` in `PROJECT.json` says of each what it establishes.

**Assumptions.** `SourceAssumption` (each source has a binding, an admission and a
deadline within a day, which `enqueue` enforces), `SizeAssumption` (a withdrawal
fits its reserve, which `_withdraw` enforces), `TimeAssumption` (a day is no
longer than the retention, 1 against 31) and `BoundAssumption` (types of the
bounds). In `CloudSources`, `TimeAssumption` contains the one that matters:
replay window plus clock skew is no longer than the retention of a receipt (30
days and five minutes against 31 days). The other modules assume little: that
names for "nobody", "no file" and the like are none of the values they stand
beside, that bounds and limits are numbers, and, in `Maintenance`, that devices are
finitely many positive numbers (their order by id), and, in `Passphrases`, that
addresses are finitely many (`models.py` limits their length). Limits that
are positive in the code (`PerUser`, `PerKey`) are assumed to be.

**Outbox: the inductive invariant.** None of the safety properties is inductive.
`IInv` adds

- `RowInv`: what a row's columns say together (only an attempted row is leased,
  received or holds a receipt; only one never attempted is cancelled; a withdrawn
  row has its receipt; a row that needs no withdrawal any more holds no bytes).
  Steps are classified once, by `RowSteps`: each either
  *reshapes* a row (`Reshaped`: never forgets an attempt, undoes a withdrawal or
  touches an acknowledged one) or admits, claims, acknowledges or prunes it.
- `LeaseInv`: one live binding; a leased row is the one the last claim was issued
  for and owns the reservation; and `LastReserved`, the reservation that stays
  when its row is withdrawn, until the claim is settled or over. Without it two
  requests could overlap after a withdrawal.
- `HistoryInv`: what a row knows of the claims issued for its source, with the
  clock bound that makes pruning safe: a pruned source that was ever sent has
  outlived its deadline, because it was admitted before it was settled, a day is
  no longer than the retention, and a binding's clock never goes back. This is
  why a pruned source cannot be admitted, and so sent, again.

The refinement uses the same classification: a reshaped row moves from Queued to
Dropped or Exposed to Owed or stays, each other kind of step makes its one move,
and only a source's own claim exposes it.

**Outbox: storage.** `StorageBounded` is a sum over all rows, so the proof is
about sums. `SpaceInv` adds that the rows are finitely many and that what they
are *charged* is within the limits. A row holds no more than its charge
(`ChargeCovers`); no step but admission adds a row or raises a charge
(`OnlyAdmissionGrows`), since a reshaped row keeps its bytes or takes no more
than a withdrawal needs; and admission adds one row for which `_quota` has just
found room. The last two are where the reserve matters: without it
(`ChargeWithoutReserve`) a withdrawal would raise the charge.

**Sums.** `SumFunctionOnSet` of the community modules takes elements out one by
one in an order that CHOOSE fixes. That this recursion has a solution, and that
the order is of no consequence, are inductions over finite sets. The induction
theorems of the library take the statement to be proved as an operator, which
the installed provers cannot instantiate; `SumProofs` gives the same argument
about a set instead, the set of counterexamples, which is well-founded under
strict inclusion and so has a smallest element if it has any.

**Delivery.** Each step of the worker, of its request, of the hooks and of the
manager's controls is an operation of the outbox or leaves its tables alone
(`QueueStep`), so `DeliverySpec` implements `Outbox!Spec`, and the invariant and
the promise carry over. What the cloud shows is tied to the claims: an answered
request has `Landed`, a received row's observation and an acknowledged withdrawal
are there, and nothing is shown that was never claimed (`CloudIsClaimed`). None of it
needs the clock to go forward or the worker to go on: a halt and a clock set back
are steps like any other. An
authorization is about a record that was there, unless it went since, which
`raced` remembers (`AuthorizedIsThere`).

**MediaOutbox.** A media row is reshaped or `Turned`, and what was sent of it is
`Covered` by its parent. For the requests of the two queues together, a step
issues nothing, settles the last request, or issues the next one
(`RequestSteps`); the inductive part is about the last request only
(`LastIsSpoken`): while it is open and its lease runs, the reservation carries
its token, whatever became of its row. So the next one finds it settled or over.

**CloudSources.** `WithdrawnStaysWithdrawn` is strengthened by what remembers a
withdrawal: its alert, if there is one, is marked withdrawn, and either there is
a receipt marked withdrawn no earlier than the capture less the skew, or the
capture has left the replay window. Pruning a receipt moves from the first case
to the second, and this is where `Replay + Skew <= Keep` is needed.

**CloudEvidence.** A row leaves `PENDING` and `AVAILABLE` for good; envelopes are
deleted only of rows that have left them (*spent* evidence), so an upload that
decides after a pass finds its evidence lost and deletes what it stored.
Conversely each envelope that is stored has a row a pass will reach or an upload
that has not decided (or was abandoned). The invariant names both, and for every
operator on the database says which rows may `Evolve`.

**Interactions.** Slot, rows and lock are held by whoever submits or works
(`Submits`, `Works`); that is an invariant of their program counters. The frames
need more: their owner is told to stop before they go, a sweep remembers only
rows that were absent when it began, and a directory touched since is younger
than the grace that unknown directories have.

**Accounts.** The three invariants are inductive together. The work is in the
step: `ReplacedKeepsManagers` reduces every change of an account to the one row it
writes, and an account or branch made where there was none has no session and no
manager to lose.

**SignIn.** `SessionTable` holds of the table and of a write that is not committed
yet: each session in either is as old as its browser's history says, and a write
that ends sessions names them, so that its commit, which comes after the answer,
is known to the browser in time.

**Passphrases.** `Counted`: of the window behind the clock the table holds
exactly the wrong tries. A window that a new try falls into begins no earlier
than that, so it holds no more than was counted (`WindowsAreCounted`), for the
key and, summed over the addresses, for the host.

**ControlAuth.** The owner who acts is active and stays one, unless the change is
to the actor, and then another is left. A session has the version of its account,
since a change of the account ends its sessions in the same write; and the ranks
of an account's sessions are different numbers below `PerUser`, so there are no
more than that.

**Connection.** A code that was offered is in an attempt, and a running
preparation's attempt is `PREPARING` with a code not offered yet while it asks
(`PrepareKnows`): this is what committing the attempt before the request buys.
`Connected` ties a binding to a confirmed attempt. `ResumeKnows` is the argument
for stops: a resume that was overtaken is a generation behind its binding, or the
binding is at the last generation, where a resume opens nothing.

**Database.** What a process learned before it wrote is worth nothing, since
another may write in between. `Relies` says what holds at each of its places: under
the writer's lock the file passes `Provenance` for its mode, whatever else is
hardened meanwhile; a pilot's file, found open to others or not, is private from
its hardening to the end of its opening and while the pilot has it open; and an open process's file has its mode until the file is exchanged.

**Maintenance.** `Sound` is about the pass in progress: everything up to its place
was passed, and what it has still to do leaves no gap behind the place. So the
cursor it publishes is covered, also when the budget ends the pass early.

**Recovery.** `ArchiveOwes` relates the archive to a laptop that goes on: what the
laptop claimed and has not withdrawn, except for what was first claimed since, is
an obligation in the archive, and what the archive had withdrawn is withdrawn.
`FenceOf` says that nothing but a fence of the archive is ever moved.

**Casework, Intake.** What was made remembers the key that made it, and that
key's result is kept with it under the route that made it, so a key that is fresh
on a route has made nothing there. A draft carries the
facts it was made from, and every change of those drops it.

**Verifier.** Each reservation is counted once in the ledger, in its row and in
its receipt. What a request found lies between the version its row names and the
interaction's of now, so if the two are equal when compared, nothing lay between.

**Projection.** A clip's admission is by a binding no later than the present one,
and by an earlier one if the binding changed while it waited: such a clip fails
the comparison for good. The rules are shown for every reply that the schema
admits.

**Custody.** State and times of a record agree: what it has seen, since when, and
what an alarm must have been preceded by. That holds of a record which is not
compromised; what is dropped leaves `degraded` behind, which only a reset clears.

**Only model-checked.** Liveness (`GoneLeavesTheCloud`, `FramesGoAway`,
`EnvelopesGoAway`, `DeviceComesRound`) is beyond the prover, as is `ENABLED`, on
which fairness rests. So are, of course, the three disagreements of section 6:
TLC refutes them.

## 6. Findings

Each is a run that TLC must refute; `findings` in `PROJECT.json` quotes the lines.

- `media_pruning`: a comment says that deleting settled media a day before their
  parents keeps the foreign key from blocking the parents. A media row's
  retention starts only when a pass mirrors its parent. If no pass runs for 31
  days after an observation that was never sent is cancelled, the first pass
  stamps the media with the present and then tries to prune the parent: the
  foreign key refuses, the pass rolls back, its stamp too, and so do all later
  passes. The laptop sends nothing any more.
- `cloud_evidence_orphans`: an upload whose second transaction is refused because
  its device was revoked leaves its envelope, and when a cleanup pass recorded the
  row `DELETED` before the envelope arrived, no pass ever looks at it again.
- `cloud_evidence_shells`: a purge keeps an alert while its evidence is not yet
  deleted, and nothing returns to a purged alert afterwards, so the unreviewed
  shell that the lifecycle document says is deleted stays.

## 7. Not modelled

`components` in `PROJECT.json` gives a reason for each part that is left out.
Beyond those, in the parts that are modelled:

- *Media in the delivery worker's request process.* `MediaOutbox` settles media
  requests in one step after the claim; the process, its deadline and its
  cancellation are modelled for observations only. In the code the media half does
  not treat a stop or a clock that stepped back as the other half does
  (`cloud_delivery.py:474`).
- *Withdrawals the worker gives up.* Modelled, and a limit of what can be promised:
  behind a `BLOCKED` withdrawal the cloud may hold a source that is gone here, until
  it expires there.
- *A paused binding's withdrawals.* `delivery_context` exists for an active binding
  only (`cloud_delivery.py:401`); `GoneLeavesTheCloud` therefore asks that the
  binding ends up active. `pause_error` pauses it too, so after a halt that also
  takes the manager's resume.
- *Laptop and cloud together over media.* A manifest that waited fifteen minutes
  answers 409 (`evidence_sync.py:114`) and the laptop gives the picture up, while
  `cloud-evidence-r2.md` says that laptops retain and retry. The two sides are
  modelled apart.
- *Demo content, the audit log, rate limits of the cloud* (`control_store.py`'s
  throttle), exports, reads and headers: they change nothing the properties see.
- *Legacy intake of the cloud* is modelled with review and revocation; enrolment
  codes, heartbeats, incidents and tasks of the console are not: single
  transactions of the shapes `Casework` and `ControlAuth` have.
- *Processes of the desktop* (launcher, companion, update, rollout, recovery
  scripts): almost every line calls the operating system. What they do to the
  services is in the models as crash, stop, restart and exchange of a file.
- *The browser applications.* Capture, scheduling and playback of the web
  application have state machines of their own; they are in TypeScript, run in one
  thread of one tab, and reach the services only through requests that the models
  of the services admit in any order.
- *Cryptography, geometry, image handling, packaging*: input and output, or
  numerics, without interleavings of their own.

Quotas of `CloudSources` are modelled, but no run lets them bind. Staff sessions
appear in `Interactions` only as authority that may end.

## 8. What would come next

In this order: `Delivery` over `MediaOutbox`, so that a media request has its
process; `MediaOutbox` against `CloudEvidence` for the fifteen minutes; the
browser's capture scheduler and playback alerts. Of proofs: that the cloud's rows
which `Delivery` assumes (withdrawn stays withdrawn) are those of `CloudSources`,
as a refinement of a shared abstract specification.
