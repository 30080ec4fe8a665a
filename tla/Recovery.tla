------------------------------ MODULE Recovery ------------------------------
(***************************************************************************)
(* Offline recovery of a pilot (src/services/api/evidence_backup.py with   *)
(* mark_restored of cloud_outbox.py).  A backup is a consistent copy of a  *)
(* stopped laptop: database, evidence key and sampled frames.  The laptop  *)
(* goes on: it sends, withdraws, deletes, and dismisses staff.  A restore  *)
(* unpacks an authenticated archive beside a new directory, fences the     *)
(* copy in one transaction, and only then moves it into place, file by     *)
(* file; the process may be killed at any point.  One account stands for   *)
(* the staff, one binding for the cloud connection.                        *)
(***************************************************************************)
EXTENDS FiniteSets

CONSTANTS
  Jobs,     \* interactions; each is also the source of one observation
  NoArchive

VARIABLES
  laptop,    \* the pilot's database and evidence directory
  serving,   \* the API holds PilotDatabaseLock
  overdue,   \* jobs past expires_at
  inCloud,   \* observations the cloud holds
  archive,   \* the recovery archive
  since,     \* history: observations first claimed after the backup
  restore    \* the restore process: its place, its stage, what it published

recoveryVars == <<laptop, serving, overdue, inCloud, archive, since, restore>>

Parts == {"DATABASE", "KEY", "EVIDENCE"}

RecoveryInit ==
  /\ laptop = [rows |-> [j \in Jobs |-> "NONE"], frames |-> {},
               items |-> [j \in Jobs |-> "NONE"], attempted |-> {},
               binding |-> "ACTIVE", account |-> TRUE, session |-> FALSE]
  /\ serving = FALSE /\ overdue = {} /\ inCloud = {} /\ since = {}
  /\ archive = NoArchive
  /\ restore = [at |-> "IDLE", stage |-> NoArchive, moved |-> {}]

-----------------------------------------------------------------------------
(* What the running laptop does meanwhile *)

\* What a step of one job writes into its row or its item.
JobRow(j, st) == [laptop.rows EXCEPT ![j] = st]
JobItem(j, st) == [laptop.items EXCEPT ![j] = st]

Framed(w) == {j \in Jobs : w.rows[j] \in {"pending", "completed"}}

Laptop(w) == laptop' = w /\ UNCHANGED <<overdue, archive, restore>>

StartServing ==
  /\ ~serving /\ serving' = TRUE /\ UNCHANGED <<inCloud, since>>
  /\ Laptop([laptop EXCEPT !.rows = [j \in Jobs |->
               IF laptop.rows[j] = "pending" THEN "failed" ELSE laptop.rows[j]]])

StopServing == serving /\ serving' = FALSE /\ UNCHANGED <<inCloud, since>> /\ Laptop(laptop)

\* Sign in, sign out, or dismiss.
Staff ==
  /\ serving /\ UNCHANGED <<serving, inCloud, since>>
  /\ \/ laptop.account /\ Laptop([laptop EXCEPT !.session = ~laptop.session])
     \/ Laptop([laptop EXCEPT !.account = FALSE, !.session = FALSE])

\* The frames are written before the row commits, and removed before the row
\* is gone; the process may end between.
SubmitJob(j) ==
  /\ serving /\ laptop.rows[j] = "NONE" /\ laptop.items[j] = "NONE"
  /\ UNCHANGED <<inCloud, since>>
  /\ \/ /\ Laptop([laptop EXCEPT !.rows = JobRow(j, "pending"), !.frames = laptop.frames \cup {j}])
        /\ UNCHANGED serving
     \/ Laptop([laptop EXCEPT !.frames = laptop.frames \cup {j}]) /\ serving' = FALSE

CompleteJob(j) ==
  /\ serving /\ laptop.rows[j] = "pending" /\ UNCHANGED <<serving, inCloud, since>>
  /\ Laptop([laptop EXCEPT !.rows = JobRow(j, "completed"),
                           !.items = JobItem(j, IF laptop.binding = "ACTIVE" THEN "PENDING"
                                                ELSE "NONE")])

DroppedItem(j) ==
  IF laptop.items[j] \in {"NONE", "CANCELLED", "WITHDRAWN"} THEN laptop.items[j]
  ELSE IF j \in laptop.attempted THEN "OWED" ELSE "CANCELLED"

\* Deleted or expired, with the withdrawal of what may have been sent.
DropJob(j) ==
  /\ serving /\ laptop.rows[j] # "NONE" /\ UNCHANGED <<inCloud, since>>
  /\ \/ /\ Laptop([laptop EXCEPT !.rows = JobRow(j, "NONE"), !.frames = laptop.frames \ {j},
                                 !.items = JobItem(j, DroppedItem(j))])
        /\ UNCHANGED serving
     \/ Laptop([laptop EXCEPT !.frames = laptop.frames \ {j}]) /\ serving' = FALSE

Claim(j) ==
  /\ serving /\ laptop.items[j] = "PENDING" /\ UNCHANGED <<serving, inCloud>>
  /\ Laptop([laptop EXCEPT !.items = JobItem(j, "LEASED"), !.attempted = laptop.attempted \cup {j}])
  /\ since' = IF archive # NoArchive /\ j \notin archive.attempted THEN since \cup {j} ELSE since

\* A claim is sent, or its lease runs out; the answers may be lost.
Send(j) ==
  /\ serving /\ laptop.items[j] = "LEASED" /\ UNCHANGED <<serving, since>>
  /\ \/ /\ inCloud' = inCloud \cup {j}
        /\ Laptop([laptop EXCEPT !.items = JobItem(j, "RECEIVED")]) \/ Laptop(laptop)
     \/ Laptop([laptop EXCEPT !.items = JobItem(j, "PENDING")]) /\ UNCHANGED inCloud

SendWithdrawal(j) ==
  /\ serving /\ laptop.items[j] = "OWED" /\ UNCHANGED <<serving, since>>
  /\ inCloud' = inCloud \ {j}
  /\ Laptop([laptop EXCEPT !.items = JobItem(j, "WITHDRAWN")]) \/ Laptop(laptop)

Overdue(j) ==
  /\ laptop.rows[j] # "NONE" /\ overdue' = overdue \cup {j}
  /\ UNCHANGED <<laptop, serving, inCloud, archive, since, restore>>

-----------------------------------------------------------------------------
(* Backup and restore *)

\* verify_database reads every frame a row names.
CompleteArchive(w) == Framed(w) \subseteq w.frames

\* create_backup: the lock refuses a running API, and what no row names is
\* left behind.
CreateBackup ==
  /\ ~serving /\ archive = NoArchive /\ CompleteArchive(laptop)
  /\ archive' = [laptop EXCEPT !.frames = Framed(laptop)]
  /\ UNCHANGED <<laptop, serving, overdue, inCloud, since, restore>>

Restoring(r) == restore' = r /\ UNCHANGED <<laptop, serving, overdue, inCloud, archive, since>>

\* restore_backup: decrypt, authenticate, unpack and verify the whole archive.
Unpack ==
  /\ restore.at = "IDLE" /\ archive # NoArchive
  /\ CompleteArchive(archive) /\ archive.frames = Framed(archive)
  /\ Restoring([at |-> "STAGED", stage |-> archive, moved |-> {}])

\* A restore that goes by the status of a row.
RestoredByStatus(w, j) ==
  IF w.items[j] \in {"NONE", "WITHDRAWN"} THEN w.items[j]
  ELSE IF w.items[j] \in {"LEASED", "RECEIVED", "OWED"} THEN "BLOCKED" ELSE "CANCELLED"

\* mark_restored: an acknowledged withdrawal stays one; what was ever tried is
\* owed and blocked; the rest is cancelled.
RestoredItem(w, j) ==
  IF w.items[j] \in {"NONE", "WITHDRAWN"} THEN w.items[j]
  ELSE IF j \in w.attempted THEN "BLOCKED" ELSE "CANCELLED"

FencedRow(w, j) ==
  IF j \in overdue THEN "NONE" ELSE IF w.rows[j] = "pending" THEN "cancelled" ELSE w.rows[j]

Fenced(w) ==
  LET rows == [j \in Jobs |-> FencedRow(w, j)] IN
  [w EXCEPT !.rows = rows,
            !.frames = {j \in w.frames : rows[j] = "completed"},
            !.items = [j \in Jobs |-> RestoredItem(w, j)],
            !.binding = "RESTORED", !.account = FALSE, !.session = FALSE]

Fence ==
  /\ restore.at = "STAGED"
  /\ Restoring([restore EXCEPT !.at = "MOVING", !.stage = Fenced(restore.stage)])

Move(part) ==
  /\ restore.at = "MOVING" /\ part \notin restore.moved
  /\ LET moved == restore.moved \cup {part} IN
     Restoring([restore EXCEPT !.moved = moved, !.at = IF moved = Parts THEN "DONE" ELSE "MOVING"])

\* A failed move takes back the directory; before it nothing is published.
RestoreFails ==
  /\ restore.at \in {"STAGED", "MOVING"}
  /\ Restoring([at |-> "IDLE", stage |-> NoArchive, moved |-> {}])

\* Killed: what was moved stays, and the directory is never used again.
RestoreKilled ==
  /\ restore.at \in {"STAGED", "MOVING"}
  /\ Restoring(IF restore.at = "STAGED" THEN [at |-> "IDLE", stage |-> NoArchive, moved |-> {}]
               ELSE [restore EXCEPT !.at = "KILLED"])

RecoveryNext ==
  \/ StartServing \/ StopServing \/ Staff
  \/ \E j \in Jobs : SubmitJob(j) \/ CompleteJob(j) \/ DropJob(j) \/ Claim(j) \/ Send(j)
                     \/ SendWithdrawal(j) \/ Overdue(j)
  \/ CreateBackup \/ Unpack \/ Fence \/ RestoreFails \/ RestoreKilled
  \/ \E part \in Parts : Move(part)

RecoverySpec == RecoveryInit /\ [][RecoveryNext]_recoveryVars

-----------------------------------------------------------------------------
(* Properties *)

Published == "DATABASE" \in restore.moved

\* Wherever a restore ended or was killed, a database in the new directory
\* gives nobody access and resumes nothing: no session, no account, no job, no
\* sending, although the archive had them.
RestoredIsPowerless ==
  Published =>
    /\ ~restore.stage.session /\ ~restore.stage.account
    /\ restore.stage.binding = "RESTORED"
    /\ \A j \in Jobs : /\ restore.stage.rows[j] # "pending"
                       /\ restore.stage.items[j] \notin {"PENDING", "LEASED", "RECEIVED", "OWED"}

\* What the cloud may hold is an obligation of the restored copy, blocked
\* until someone manages it, even if the old laptop sent it after the backup;
\* what was first claimed after the backup the copy cannot know.
CloudIsAccountedFor ==
  Published => \A j \in inCloud \ since : restore.stage.items[j] = "BLOCKED"

\* A restored row that names frames has them, and no frame is there without
\* its row, although jobs and deletions may end between files and row.
EvidenceMatchesRows ==
  restore.at = "DONE" => restore.stage.frames = Framed(restore.stage)

\* A restored copy is powerless, owes the cloud what it should and, when the
\* restore is done, has the frames of its rows.
RecoveryInv == RestoredIsPowerless /\ CloudIsAccountedFor /\ EvidenceMatchesRows
=============================================================================
