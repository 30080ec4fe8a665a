----------------------------- MODULE Interactions -----------------------------
(***************************************************************************)
(* Interaction analysis jobs of the pharmacy laptop                        *)
(* (src/services/api/interactions.py): sampled frames are written to disk, *)
(* a job is committed, one inference thread at a time analyses it outside  *)
(* every transaction, and its classification is published unless staff     *)
(* cancelled it, its session ended or the service is closing.  Files are   *)
(* removed inside transactions that may still roll back, and by retention  *)
(* sweeps that act on a set of identifiers read a moment earlier.          *)
(* A request holds SQLite's write lock from its first statement to its     *)
(* commit, so it is one step, except for submit, whose files take time.    *)
(***************************************************************************)
EXTENDS Integers, FiniteSets

CONSTANTS
  Jobs,         \* job identifiers, each a fresh uuid4
  Branches,     \* branches of this installation
  Sweepers,     \* who runs cleanup: Janitor, and requests for status or listing
  Janitor,      \* the retention thread
  SiteLimit,    \* SITE_LIMIT
  TotalLimit,   \* TOTAL_LIMIT
  Retention,    \* RETENTION_SECONDS
  Grace,        \* the 120 seconds an unknown directory is left alone
  MaxTime,      \* bound: the last clock reading
  LastSubmit,   \* bound: the last time at which a job is submitted
  CalmFrom      \* bound: from here on files can be removed and nothing crashes

ASSUME InteractionsAssumption ==
  /\ Janitor \in Sweepers
  /\ SiteLimit \in Nat \ {0} /\ TotalLimit \in Nat \ {0}
  /\ Retention \in Nat \ {0} /\ Grace \in Nat \ {0}
  /\ MaxTime \in Nat /\ LastSubmit \in Nat /\ CalmFrom \in Nat

VARIABLES
  now,        \* the laptop's clock
  process,    \* the API process, from construction to the end of its lifespan
  rows,       \* the interaction entities, "ABSENT" where there is none
  files,      \* each job's directory of JPEGs: none, part of it, all of it
  touched,    \* st_mtime of that directory, Never before it is made
  authority,  \* the submitter's session and runtime are still the job's
  export,     \* what the cloud hooks were told of a job
  slot,       \* INFERENCE_SLOT is taken
  active,     \* ACTIVE_JOBS and each job's cancellation event
  submitter,  \* where submit stands, with the jobs it rolls off
  worker,     \* where the inference thread stands
  sweeps,     \* where each cleanup stands
  retaining,  \* _retention_pending
  delivering, \* _cloud_delivery_pending
  lock,       \* the process holds the database lock
  repairing,  \* the jobs whose request has yet to fail them, no thread having started
  asked,      \* history: staff asked for the job's deletion
  snagged     \* history: a removal of the job's files failed, or was rolled back

disk == <<rows, files, touched, export>>
memory == <<slot, active, submitter, worker, sweeps>>
ownership == <<retaining, delivering, lock, repairing>>
history == <<asked, snagged>>
vars == <<now, process, disk, authority, memory, ownership, history>>

Never == -1

Unfinished == {"PENDING", "RUNNING"}
RowStates == Unfinished \cup {"ABSENT", "COMPLETED", "FAILED", "CANCELLED"}
\* `low' says that the result is one make_room may give up.
Row == [st : RowStates, branch : Branches \cup {Never},
        low : BOOLEAN, reviewed : BOOLEAN, expires : Nat]
NoRow == [st |-> "ABSENT", branch |-> Never,
          low |-> FALSE, reviewed |-> FALSE, expires |-> 0]

NoSubmission == [pc |-> "IDLE", job |-> Never, branch |-> Never, rolled |-> {}]
NoWorker == [pc |-> "NONE", job |-> Never]
NoSweep == [on |-> FALSE, unknown |-> {}, since |-> 0]

Closed == process \in {"CLOSING", "CLOSED", "STOPPED"}
Alive == process # "DOWN"
Trouble == now < CalmFrom

\* submit keeps its transaction open while it writes the frames.
Unlocked == submitter.pc # "WRITING"

Present == {j \in Jobs : rows[j].st # "ABSENT"}
IsExpired(j) == now >= rows[j].expires

Init ==
  /\ now = 0
  /\ process = "UP"
  /\ rows = [j \in Jobs |-> NoRow]
  /\ files = [j \in Jobs |-> "NONE"]
  /\ touched = [j \in Jobs |-> Never]
  /\ authority = [j \in Jobs |-> FALSE]
  /\ export = [j \in Jobs |-> "NONE"]
  /\ slot = FALSE
  /\ active = [j \in Jobs |-> "NONE"]
  /\ submitter = NoSubmission
  /\ worker = NoWorker
  /\ sweeps = [w \in Sweepers |-> NoSweep]
  /\ retaining = TRUE /\ delivering = TRUE /\ lock = TRUE /\ repairing = {}
  /\ asked = [j \in Jobs |-> FALSE]
  /\ snagged = [j \in Jobs |-> FALSE]

-----------------------------------------------------------------------------
(* Files: remove_files unlinks one file after the other, then the directory *)

\* What a removal that raises may leave of a directory.
Leftovers(f) == IF f = "NONE" THEN {} ELSE {f, "TORN"}

Remove(j) == files' = [files EXCEPT ![j] = "NONE"]

\* The transaction rolls back, but not what it did to the files: the removal
\* failed half-way, or a later statement did.
Botch(j) ==
  /\ Trouble
  /\ \E f \in Leftovers(files[j]) \cup {"NONE"} : files' = [files EXCEPT ![j] = f]
  /\ snagged' = [snagged EXCEPT ![j] = TRUE]

Withdrawn(e) == IF e = "QUEUED" THEN "WITHDRAWN" ELSE e

\* A flag that is raised once the files are gone, and so not when that fails.
FlaggedLate(j, removed) ==
  IF active[j] = "NONE" \/ ~removed THEN active ELSE [active EXCEPT ![j] = "CANCELLED"]

\* The cancellation event is set first, and stays set if the rest fails.
Flagged(j, removed) ==
  IF active[j] = "NONE" THEN active ELSE [active EXCEPT ![j] = "CANCELLED"]

-----------------------------------------------------------------------------
(* submit *)

\* Samples of failed or cancelled jobs and of ordinary shopping, reviewed or not.
LowValueReviewed(b) ==
  {j \in Present : /\ rows[j].branch = b
                   /\ \/ rows[j].st \in {"FAILED", "CANCELLED"}
                      \/ rows[j].st = "COMPLETED" /\ rows[j].low}

\* What make_room may remove for a new sample of branch b.
LowValue(b) ==
  {j \in Present : /\ rows[j].branch = b /\ ~rows[j].reviewed
                   /\ \/ rows[j].st \in {"FAILED", "CANCELLED"}
                      \/ rows[j].st = "COMPLETED" /\ rows[j].low}

Fits(b, rolled) ==
  /\ Cardinality({j \in Present \ rolled : rows[j].branch = b}) < SiteLimit
  /\ Cardinality(Present \ rolled) < TotalLimit

\* make_room: the oldest low-value samples, and no more than it takes.
MakesRoom(b, rolled) ==
  /\ rolled \subseteq LowValue(b)
  /\ Fits(b, rolled)
  /\ \A j \in rolled : ~Fits(b, rolled \ {j})
  /\ \A j \in rolled, o \in LowValue(b) \ rolled : rows[j].expires <= rows[o].expires

\* The slot is taken and the frames are being written.
SubmitBegins(j, b) ==
  /\ process = "UP" /\ now <= LastSubmit
  /\ submitter.pc = "IDLE"
  /\ touched[j] = Never
  /\ ~slot
  /\ \E rolled \in SUBSET Present :
       /\ MakesRoom(b, rolled)
       /\ submitter' = [pc |-> "WRITING", job |-> j, branch |-> b, rolled |-> rolled]
  /\ slot' = TRUE
  /\ files' = [files EXCEPT ![j] = "TORN"]
  /\ touched' = [touched EXCEPT ![j] = now]
  /\ authority' = [authority EXCEPT ![j] = TRUE]
  /\ UNCHANGED <<now, process, rows, export, active, worker, sweeps, ownership, history>>

RolledOff(rolled) ==
  [j \in Jobs |-> IF j \in rolled THEN Withdrawn(export[j]) ELSE export[j]]

SubmitCommits ==
  /\ submitter.pc = "WRITING"
  /\ rows' = [j \in Jobs |->
       IF j = submitter.job
       THEN [NoRow EXCEPT !.st = "PENDING", !.branch = submitter.branch,
                          !.expires = now + Retention]
       ELSE IF j \in submitter.rolled THEN NoRow ELSE rows[j]]
  /\ export' = RolledOff(submitter.rolled)
  /\ files' = [files EXCEPT ![submitter.job] = "WHOLE"]
  /\ touched' = [touched EXCEPT ![submitter.job] = now]
  /\ submitter' = [submitter EXCEPT !.pc = "COMMITTED"]
  /\ UNCHANGED <<now, process, authority, slot, active, worker, sweeps, ownership, history>>

\* Writing or committing fails; a removal that fails is left to the janitor.
SubmitAborts ==
  /\ submitter.pc = "WRITING" /\ Trouble
  /\ \E f \in {"NONE", "TORN"} : files' = [files EXCEPT ![submitter.job] = f]
  /\ submitter' = NoSubmission
  /\ slot' = FALSE
  /\ UNCHANGED <<now, process, rows, touched, export, authority, active, worker, sweeps,
                 ownership, history>>

\* The committed job is entered in ACTIVE_JOBS, after the files that were rolled
\* off have gone as far as they can.
SubmitRegisters ==
  /\ submitter.pc = "COMMITTED"
  /\ \E kept \in SUBSET submitter.rolled :
       /\ kept # {} => Trouble
       /\ \E torn \in SUBSET kept :
            files' = [j \in Jobs |-> IF j \in torn /\ files[j] # "NONE" THEN "TORN"
                                     ELSE IF j \in submitter.rolled \ kept THEN "NONE"
                                     ELSE files[j]]
  /\ active' = [active EXCEPT ![submitter.job] = "REGISTERED"]
  /\ submitter' = [submitter EXCEPT !.pc = "REGISTERED", !.rolled = {}]
  /\ UNCHANGED <<now, process, rows, touched, export, authority, slot, worker, sweeps,
                 ownership, history>>

SubmitStarts ==
  /\ submitter.pc = "REGISTERED"
  /\ worker' = [pc |-> "STARTING", job |-> submitter.job]
  /\ submitter' = NoSubmission
  /\ UNCHANGED <<now, process, disk, authority, slot, active, sweeps, ownership, history>>

\* A failed dispatch gives the slot back before it repairs the record.
SlotAfterFailedDispatch == FALSE

\* The thread cannot be started.  The next submission may begin ...
DispatchFails ==
  /\ submitter.pc = "REGISTERED" /\ Trouble
  /\ active' = [active EXCEPT ![submitter.job] = "NONE"]
  /\ slot' = SlotAfterFailedDispatch
  /\ \E f \in Leftovers(files[submitter.job]) \cup {"NONE"} :
       files' = [files EXCEPT ![submitter.job] = f]
  /\ submitter' = NoSubmission
  /\ repairing' = repairing \cup {submitter.job}
  /\ UNCHANGED <<now, process, rows, touched, export, authority, worker, sweeps,
                 retaining, delivering, lock, history>>

\* ... before the committed job is failed in a transaction of its own, whatever
\* became of it in between.
SubmitRepairs(j) ==
  /\ j \in repairing /\ Unlocked
  /\ rows' = IF rows[j].st = "ABSENT" THEN rows ELSE [rows EXCEPT ![j].st = "FAILED"]
  /\ repairing' = repairing \ {j}
  /\ UNCHANGED <<now, process, files, touched, export, authority, memory,
                 retaining, delivering, lock, history>>

-----------------------------------------------------------------------------
(* worker *)

Job == worker.job
WorkerGoes(pc) == worker' = [worker EXCEPT !.pc = pc]

\* A check that asks for nothing but the session.
MayGoOnByAuthority == authority[Job]

\* What both transactions of the worker ask before they go on.
MayGoOn == authority[Job] /\ active[Job] # "CANCELLED"

\* Analysis ends without publication: the frames go and the row says so.
WorkerCancels ==
  \/ /\ Remove(Job)
     /\ rows' = [rows EXCEPT ![Job].st = "CANCELLED"]
     /\ WorkerGoes("ENDING")
     /\ UNCHANGED snagged
  \/ /\ Botch(Job)
     /\ WorkerGoes("FAILING")
     /\ UNCHANGED rows

\* The first transaction
WorkerStarts ==
  /\ worker.pc = "STARTING" /\ Unlocked
  /\ \/ /\ rows[Job].st \in {"ABSENT", "CANCELLED"} \/ IsExpired(Job)
        /\ WorkerGoes("ENDING")
        /\ UNCHANGED <<rows, files, snagged>>
     \/ /\ rows[Job].st \notin {"ABSENT", "CANCELLED"} /\ ~IsExpired(Job)
        /\ \/ ~MayGoOn /\ WorkerCancels
           \/ /\ MayGoOn
              /\ rows' = [rows EXCEPT ![Job].st = "RUNNING"]
              /\ WorkerGoes("READING")
              /\ UNCHANGED <<files, snagged>>
  /\ UNCHANGED <<now, process, touched, export, authority, slot, active, submitter,
                 sweeps, ownership, asked>>

\* read_frame checks every frame against the manifest.
WorkerReads ==
  /\ worker.pc = "READING"
  /\ WorkerGoes(IF files[Job] # "WHOLE" THEN "FAILING"
                ELSE IF active[Job] = "CANCELLED" \/ Closed THEN "ENDING"
                ELSE "ANALYSING")
  /\ UNCHANGED <<now, process, disk, authority, slot, active, submitter, sweeps,
                 ownership, history>>

WorkerAnalyses ==
  /\ worker.pc = "ANALYSING"
  /\ \E pc \in {"PUBLISHING"} \cup (IF Trouble THEN {"FAILING"} ELSE {}) : WorkerGoes(pc)
  /\ UNCHANGED <<now, process, disk, authority, slot, active, submitter, sweeps,
                 ownership, history>>

\* The second transaction leaves a job alone that is gone or was cancelled.
LeftAlone(st) == st \in {"ABSENT", "CANCELLED"}

\* The second transaction
WorkerPublishes ==
  /\ worker.pc = "PUBLISHING" /\ Unlocked
  /\ \/ /\ LeftAlone(rows[Job].st)
        /\ WorkerGoes("ENDING")
        /\ UNCHANGED <<rows, files, export, snagged>>
     \/ /\ ~LeftAlone(rows[Job].st)
        /\ IsExpired(Job) \/ Closed \/ ~MayGoOn
        /\ WorkerCancels
        /\ UNCHANGED export
     \/ /\ ~LeftAlone(rows[Job].st)
        /\ ~IsExpired(Job) /\ ~Closed /\ MayGoOn
        /\ \E low \in BOOLEAN :
             /\ rows' = [rows EXCEPT ![Job] = [@ EXCEPT !.st = "COMPLETED", !.low = low]]
             \* only an alarm is exported, and only while sharing is on
             /\ \E e \in {"NONE"} \cup (IF low THEN {} ELSE {"QUEUED"}) :
                  export' = [export EXCEPT ![Job] = e]
        /\ WorkerGoes("ENDING")
        /\ UNCHANGED <<files, snagged>>
  /\ UNCHANGED <<now, process, touched, authority, slot, active, submitter, sweeps,
                 ownership, asked>>

\* The transaction of the exception handler, whose own failure is swallowed.
WorkerFails ==
  /\ worker.pc = "FAILING" /\ Unlocked
  /\ \/ /\ rows[Job].st \notin {"ABSENT", "CANCELLED", "COMPLETED"}
        /\ \/ /\ Remove(Job)
              /\ rows' = [rows EXCEPT ![Job].st = "FAILED"]
              /\ UNCHANGED snagged
           \/ Botch(Job) /\ UNCHANGED rows
     \/ /\ rows[Job].st \in {"ABSENT", "CANCELLED", "COMPLETED"}
        /\ UNCHANGED <<rows, files, snagged>>
  /\ WorkerGoes("ENDING")
  /\ UNCHANGED <<now, process, touched, export, authority, slot, active, submitter,
                 sweeps, ownership, asked>>

\* _release_database_lock_if_idle, evaluated over the state a step leaves: only
\* this process's own delivery, janitor and workers keep the lock.
ReleasedIfIdle ==
  lock /\ ~(/\ Closed
            /\ ~delivering' /\ ~retaining'
            /\ \A j \in Jobs : active'[j] = "NONE")

ReleaseIfIdle == lock' = ReleasedIfIdle

Ended == NoWorker

\* The worker's finally clause
WorkerEnds ==
  /\ worker.pc = "ENDING"
  /\ active' = [active EXCEPT ![Job] = "NONE"]
  /\ slot' = FALSE
  /\ worker' = Ended
  /\ UNCHANGED <<retaining, delivering, repairing>>
  /\ ReleaseIfIdle
  /\ UNCHANGED <<now, process, disk, authority, submitter, sweeps, history>>

-----------------------------------------------------------------------------
(* Staff *)

Requestable == process = "UP" /\ Unlocked

\* cancel
Cancel(j) ==
  /\ Requestable
  /\ rows[j].st \in Unfinished /\ ~IsExpired(j)
  /\ \/ /\ Remove(j)
        /\ active' = Flagged(j, TRUE)
        /\ rows' = [rows EXCEPT ![j].st = "CANCELLED"]
        /\ UNCHANGED snagged
     \/ /\ Botch(j)
        /\ active' = Flagged(j, FALSE)
        /\ UNCHANGED rows
  /\ UNCHANGED <<now, process, touched, export, authority, slot, submitter, worker,
                 sweeps, ownership, asked>>

\* delete, of any record the staff can see, expired or not
Delete(j) ==
  /\ Requestable
  /\ rows[j].st # "ABSENT"
  /\ asked' = [asked EXCEPT ![j] = TRUE]
  /\ \/ /\ Remove(j)
        /\ active' = Flagged(j, TRUE)
        /\ rows' = [rows EXCEPT ![j] = NoRow]
        /\ export' = [export EXCEPT ![j] = Withdrawn(@)]
        /\ UNCHANGED snagged
     \/ /\ Botch(j)
        /\ active' = Flagged(j, FALSE)
        /\ UNCHANGED <<rows, export>>
  /\ UNCHANGED <<now, process, touched, authority, slot, submitter, worker, sweeps,
                 ownership>>

\* review; create_case changes nothing else that is kept here.
Review(j) ==
  /\ Requestable
  /\ rows[j].st = "COMPLETED" /\ ~IsExpired(j)
  /\ rows' = [rows EXCEPT ![j].reviewed = TRUE]
  /\ UNCHANGED <<now, process, files, touched, export, authority, memory, ownership,
                 history>>

\* Logout, idleness, another branch, or another runtime: authorized and
\* runtime_current no longer hold for a job that still needs them.
AuthorityEnds(j) ==
  /\ authority[j] /\ rows[j].st \in Unfinished
  /\ authority' = [authority EXCEPT ![j] = FALSE]
  /\ UNCHANGED <<now, process, disk, memory, ownership, history>>

-----------------------------------------------------------------------------
(* cleanup *)

\* The first loop over the expired records: a withdrawal is recorded even where
\* the removal fails, and then the record stays for a later pass.
ExpireRows(removed) ==
  LET old == {j \in Present : IsExpired(j)} IN
  /\ removed \subseteq old
  /\ removed # old => Trouble
  /\ export' = RolledOff(old)
  /\ \E torn \in SUBSET (old \ removed) :
       files' = [j \in Jobs |-> IF j \in removed THEN "NONE"
                                ELSE IF j \in torn /\ files[j] # "NONE" THEN "TORN"
                                ELSE files[j]]

\* A sweep that leaves every directory to its record's expiry.
UnknownToNobody(kept) == {}

\* The identifiers cleanup does not find among the records it leaves.
Unknown(kept) == {j \in Jobs : kept[j].st = "ABSENT"}

Sweeping(kept) == [on |-> TRUE, unknown |-> Unknown(kept), since |-> now]

\* The transaction of a cleanup
SweepBegins(w) ==
  /\ \/ process = "UP"
     \/ w = Janitor /\ Closed /\ retaining   \* its wait was over before close
  /\ Unlocked
  /\ ~sweeps[w].on
  /\ \E removed \in SUBSET Present :
       /\ ExpireRows(removed)
       /\ rows' = [j \in Jobs |-> IF j \in removed THEN NoRow ELSE rows[j]]
  /\ sweeps' = [sweeps EXCEPT ![w] = Sweeping(rows')]
  /\ UNCHANGED <<now, process, touched, authority, slot, active, submitter, worker,
                 ownership, history>>

\* An unknown directory that was not touched for longer than the grace
Abandoned(j) == files[j] # "NONE" /\ now - touched[j] > Grace

\* The second loop visits the directories one by one, outside any transaction,
\* and believes what the transaction saw.
SweepVisits(w, j) ==
  /\ sweeps[w].on /\ j \in sweeps[w].unknown
  /\ \/ /\ Abandoned(j)
        /\ \/ Remove(j)
           \/ Trouble /\ \E f \in Leftovers(files[j]) : files' = [files EXCEPT ![j] = f]
     \/ ~Abandoned(j) /\ UNCHANGED files
  /\ sweeps' = [sweeps EXCEPT ![w].unknown = @ \ {j}]
  /\ UNCHANGED <<now, process, rows, touched, export, authority, slot, active, submitter,
                 worker, ownership, history>>

SweepEnds(w) ==
  /\ sweeps[w].on /\ sweeps[w].unknown = {}
  /\ sweeps' = [sweeps EXCEPT ![w] = NoSweep]
  /\ process' = IF process = "STARTING" THEN "UP" ELSE process
  /\ UNCHANGED <<now, disk, authority, slot, active, submitter, worker, ownership, history>>

-----------------------------------------------------------------------------
(* The life of the process *)

\* close, once no request is under way: everybody is told, ...
Close ==
  /\ process = "UP" /\ submitter.pc = "IDLE" /\ repairing = {}
  /\ \A w \in Sweepers \ {Janitor} : ~sweeps[w].on
  /\ process' = "CLOSING"
  /\ active' = [j \in Jobs |-> IF active[j] = "NONE" THEN "NONE" ELSE "CANCELLED"]
  /\ UNCHANGED <<now, disk, authority, slot, submitter, worker, sweeps, ownership, history>>

\* the janitor's thread ends between two sweeps, ...
JanitorEnds ==
  /\ Closed /\ retaining /\ ~sweeps[Janitor].on
  /\ retaining' = FALSE
  /\ UNCHANGED <<delivering, repairing, active>>
  /\ ReleaseIfIdle
  /\ UNCHANGED <<now, process, disk, authority, slot, submitter, worker, sweeps, history>>

\* which close awaits for a second only, ...
CloseEnds ==
  /\ process = "CLOSING"
  /\ process' = "CLOSED"
  /\ UNCHANGED <<retaining, delivering, repairing, active>>
  /\ ReleaseIfIdle
  /\ UNCHANGED <<now, disk, authority, slot, submitter, worker, sweeps, history>>

\* and the sender is confirmed stopped.
DeliveryStops ==
  /\ process = "CLOSED"
  /\ process' = "STOPPED"
  /\ delivering' = FALSE
  /\ UNCHANGED <<retaining, repairing, active>>
  /\ ReleaseIfIdle
  /\ UNCHANGED <<now, disk, authority, slot, submitter, worker, sweeps, history>>

\* The process ends, in its time or by a crash.  The system takes back the lock.
Exit ==
  /\ Alive
  /\ Trouble \/ process = "STOPPED"
  /\ process' = "DOWN"
  /\ slot' = FALSE
  /\ active' = [j \in Jobs |-> "NONE"]
  /\ submitter' = NoSubmission
  /\ worker' = NoWorker
  /\ sweeps' = [w \in Sweepers |-> NoSweep]
  /\ retaining' = FALSE /\ delivering' = FALSE /\ lock' = FALSE /\ repairing' = {}
  /\ UNCHANGED <<now, disk, authority, history>>

\* A restart that leaves the jobs of the last process as they were.
Abandons(kept) == kept

\* The second half of the first loop: nobody works on these any more.
Recovers(kept) ==
  [j \in Jobs |-> IF kept[j].st \in Unfinished THEN [kept[j] EXCEPT !.st = "FAILED"]
                  ELSE kept[j]]

\* Construction: cleanup(recover=True), which must be able to remove the frames
\* of every interrupted job, then start and hold_cloud_delivery.
Restart ==
  /\ process = "DOWN"
  /\ \E removed \in SUBSET Present :
       /\ removed \subseteq {j \in Present : IsExpired(j)}
       /\ removed # {j \in Present : IsExpired(j)} => Trouble
       /\ LET kept == [j \in Jobs |-> IF j \in removed THEN NoRow ELSE rows[j]]
              interrupted == {j \in Present : ~IsExpired(j) /\ rows[j].st \in Unfinished}
          IN
          /\ rows' = [j \in Jobs |-> IF IsExpired(j) THEN kept[j] ELSE Recovers(kept)[j]]
          /\ files' = [j \in Jobs |-> IF j \in removed \cup interrupted THEN "NONE" ELSE files[j]]
          /\ export' = RolledOff({j \in Present : IsExpired(j)})
          /\ sweeps' = [sweeps EXCEPT ![Janitor] = Sweeping(rows')]
  /\ process' = "STARTING"
  /\ retaining' = TRUE /\ delivering' = TRUE /\ lock' = TRUE
  /\ UNCHANGED <<now, touched, authority, slot, active, submitter, worker, repairing, history>>

\* One frame that cannot be removed, and the process does not come up.
RestartFails ==
  /\ process = "DOWN" /\ Trouble
  /\ \E j \in Present :
       /\ ~IsExpired(j) /\ rows[j].st \in Unfinished
       /\ \E f \in Leftovers(files[j]) : files' = [files EXCEPT ![j] = f]
  /\ UNCHANGED <<now, process, rows, touched, export, authority, memory, ownership, history>>

\* A sweep takes less than the grace it gives, and a submission that is under
\* way at LastSubmit is over before time moves on (bound).
Tick ==
  /\ now < MaxTime
  /\ \A w \in Sweepers : sweeps[w].on => now - sweeps[w].since < Grace
  /\ submitter.pc = "WRITING" => now < LastSubmit
  /\ now' = now + 1
  /\ UNCHANGED <<process, disk, authority, memory, ownership, history>>

-----------------------------------------------------------------------------
Submission ==
  \/ SubmitCommits \/ SubmitRegisters \/ SubmitStarts
  \/ \E j \in Jobs : SubmitRepairs(j)

Inference ==
  \/ WorkerStarts \/ WorkerReads \/ WorkerAnalyses \/ WorkerPublishes
  \/ WorkerFails \/ WorkerEnds

Cleanup(w) == SweepBegins(w) \/ SweepEnds(w) \/ \E j \in Jobs : SweepVisits(w, j)

Shutdown == CloseEnds \/ JanitorEnds \/ DeliveryStops

Next ==
  \/ Submission \/ SubmitAborts \/ DispatchFails
  \/ \E j \in Jobs, b \in Branches : SubmitBegins(j, b)
  \/ Inference
  \/ \E j \in Jobs : Cancel(j) \/ Delete(j) \/ Review(j) \/ AuthorityEnds(j)
  \/ \E w \in Sweepers : Cleanup(w)
  \/ Close \/ Shutdown \/ Exit \/ Restart \/ RestartFails \/ Tick

Spec == Init /\ [][Next]_vars

\* Threads run, the launcher restarts a process that ended, time passes.
Fairness ==
  /\ WF_vars(Submission) /\ WF_vars(Inference) /\ WF_vars(Shutdown)
  /\ WF_vars(process = "STOPPED" /\ Exit) /\ WF_vars(Restart)
  /\ SF_vars(SweepBegins(Janitor)) /\ SF_vars(Tick)
  /\ \A w \in Sweepers : WF_vars(SweepEnds(w) \/ \E j \in Jobs : SweepVisits(w, j))

FairSpec == Spec /\ Fairness

-----------------------------------------------------------------------------
(* Properties *)

TypeOK ==
  /\ now \in 0..MaxTime
  /\ process \in {"STARTING", "UP", "CLOSING", "CLOSED", "STOPPED", "DOWN"}
  /\ rows \in [Jobs -> Row]
  /\ files \in [Jobs -> {"NONE", "TORN", "WHOLE"}]
  /\ touched \in [Jobs -> 0..MaxTime \cup {Never}]
  /\ authority \in [Jobs -> BOOLEAN]
  /\ export \in [Jobs -> {"NONE", "QUEUED", "WITHDRAWN"}]
  /\ active \in [Jobs -> {"NONE", "REGISTERED", "CANCELLED"}]
  /\ submitter.pc \in {"IDLE", "WRITING", "COMMITTED", "REGISTERED"}
  /\ worker.pc \in {"NONE", "STARTING", "READING", "ANALYSING", "PUBLISHING",
                     "FAILING", "ENDING"}
  /\ worker.pc = "NONE" => worker = NoWorker
  /\ sweeps \in [Sweepers -> [on : BOOLEAN, unknown : SUBSET Jobs, since : 0..MaxTime]]
  /\ {slot, retaining, delivering, lock} \subseteq BOOLEAN /\ repairing \subseteq Jobs
  /\ asked \in [Jobs -> BOOLEAN] /\ snagged \in [Jobs -> BOOLEAN]

\* The one inference slot is taken exactly while somebody will give it back: a
\* submission before its thread runs, or that thread, and never both.
SlotHasOneOwner ==
  LET submitting == submitter.pc \in {"WRITING", "COMMITTED", "REGISTERED"}
      working == worker.pc # "NONE"
  IN
  /\ slot = (submitting \/ working)
  /\ ~(submitting /\ working)

\* A job that is not finished has somebody working on it: no order of cancelling,
\* losing the session, failing to start and restarting leaves it pending until
\* it expires, unless its files could not be removed on the way.
UnfinishedHasOwner ==
  \A j \in Jobs :
    /\ rows[j].st \in Unfinished /\ ~IsExpired(j)
    /\ process = "UP" /\ ~snagged[j]
    => \/ submitter.job = j \/ j \in repairing
       \/ worker.job = j

\* A completed observation keeps its frames, whole, until staff ask for its
\* deletion or it expires: neither a sweep that read the records before the job
\* was committed, nor a cancellation that came too late or failed half-way, nor
\* the roll-off of others costs it a frame.
CompletedKeepsFrames ==
  \A j \in Jobs :
    rows[j].st = "COMPLETED" /\ ~IsExpired(j) /\ ~asked[j] => files[j] = "WHOLE"

\* The lock that tells backups and a second process that this one has ended is
\* kept as long as any of its threads may still touch the database or files.
LockCoversWork ==
  Alive /\ ~lock =>
    /\ worker.pc = "NONE" /\ submitter.pc = "IDLE" /\ repairing = {}
    /\ ~delivering
    /\ \A w \in Sweepers : ~sweeps[w].on

\* What is offered to the cloud is here: no way a record goes -- deletion,
\* roll-off, expiry, recovery -- leaves its export standing.
ExportIsHere ==
  \A j \in Jobs : export[j] = "QUEUED" => rows[j].st = "COMPLETED"

\* Nothing is published that was stopped: a job is completed only by a worker
\* that no one has told to stop, and never after it was cancelled, failed or
\* deleted.
StoppedIsNotPublished ==
  [][\A j \in Jobs :
       rows[j].st # "COMPLETED" /\ rows'[j].st = "COMPLETED" =>
         rows[j].st = "RUNNING" /\ active[j] = "REGISTERED"]_vars

\* Pressure never costs what staff reviewed or a possible concealment, nor
\* anything of another branch: such a record only goes when its deletion is
\* asked for or it has expired.
ProtectedKept ==
  [][\A j \in Jobs :
       /\ rows[j].st # "ABSENT" /\ rows'[j].st = "ABSENT"
       /\ ~IsExpired(j) /\ ~asked'[j]
       => /\ ~rows[j].reviewed
          /\ rows[j].st \notin Unfinished
          /\ rows[j].st = "COMPLETED" => rows[j].low
          /\ \E o \in Jobs : rows'[o].st = "PENDING" /\ rows'[o].branch = rows[j].branch]_vars

\* Frames never outlive their purpose for good: whatever failed, crashed or was
\* interrupted, every directory is gone in the end.
FramesGoAway == \A j \in Jobs : files[j] # "NONE" ~> files[j] = "NONE"

\* Whatever fails, is cancelled or is restarted, each thing that is held -- the
\* slot, an unfinished row, the database lock -- is held by somebody who will
\* let go of it, and by nobody else.
OwnershipInv == TypeOK /\ SlotHasOneOwner /\ UnfinishedHasOwner /\ LockCoversWork

\* A record that is kept is kept whole, and one that goes takes its export along.
RecordsInv == CompletedKeepsFrames /\ ExportIsHere
=============================================================================
