------------------------- MODULE HousekeepingProofs -------------------------
(***************************************************************************)
(* What the background work of the laptop and of the cloud relies on, for  *)
(* every value of the constants: the analysis jobs with their sweeps       *)
(* (Interactions) and the passes of the cloud's maintenance (Maintenance). *)
(* The two share no variable; each has its inductive invariant.            *)
(***************************************************************************)
EXTENDS Interactions, Maintenance, FiniteSetTheorems, TLAPS

-----------------------------------------------------------------------------
(***************************************************************************)
(* Analysis jobs (Interactions)                                            *)
(*                                                                         *)
(* For any number of jobs, branches, sweepers and clock readings, and any  *)
(* order of submissions, cancellations, sweeps, stops, crashes and restarts. *)
(* The slot and a row rest on who submits and who analyses; the frames on a *)
(* row's owner being told to stop before they go, and on a sweep remembering *)
(* only rows that were absent when it began, and directories that have been *)
(* touched since are younger than the grace it leaves them.                *)
(***************************************************************************)

-----------------------------------------------------------------------------
(* The inductive invariant *)

\* Somebody is submitting a job or has yet to fail it, or is analysing it.
Submits(j) == (submitter.pc # "IDLE" /\ submitter.job = j) \/ j \in repairing
Works(j) == worker.pc # "NONE" /\ worker.job = j

SubmissionRecord ==
  [pc : {"IDLE", "WRITING", "COMMITTED", "REGISTERED"},
   job : Jobs \cup {Never}, branch : Branches \cup {Never}, rolled : SUBSET Jobs]
AnalysisRecord ==
  [pc : {"NONE", "STARTING", "READING", "ANALYSING", "PUBLISHING", "FAILING", "ENDING"},
   job : Jobs \cup {Never}]

\* TypeOK, and what is submitted or analysed is a job of a branch.
Shapes ==
  /\ TypeOK
  /\ submitter \in SubmissionRecord /\ worker \in AnalysisRecord
  /\ submitter.pc # "IDLE" => submitter.job \in Jobs /\ submitter.branch \in Branches
  /\ worker.pc # "NONE" => worker.job \in Jobs

\* What runs in each phase of the process's life, and while the lock is given up.
PhasesOK ==
  /\ process # "UP" => /\ submitter.pc = "IDLE" /\ repairing = {}
                       /\ \A w \in Sweepers \ {Janitor} : ~sweeps[w].on
  /\ process \in {"STARTING", "DOWN"} => worker.pc = "NONE"
  /\ process \in {"STARTING", "UP"} => retaining /\ lock
  /\ ~retaining => ~sweeps[Janitor].on
  /\ Alive /\ ~lock => ~delivering /\ ~retaining /\ worker.pc = "NONE"

\* A job is entered in ACTIVE_JOBS just before its thread is started, and taken
\* out by that thread; nobody submits while it runs.
ActiveIsOwned ==
  /\ \A j \in Jobs : active[j] # "NONE" =>
       (submitter.pc = "REGISTERED" /\ submitter.job = j) \/ Works(j)
  /\ worker.pc # "NONE" => submitter.pc = "IDLE" /\ active[worker.job] # "NONE"
  /\ submitter.pc = "REGISTERED" => active[submitter.job] # "NONE"

\* What a job's record may say while it is submitted or analysed.
SubmittedRow ==
  /\ submitter.pc # "IDLE" => touched[submitter.job] # Never
  /\ submitter.pc = "WRITING" => /\ rows[submitter.job].st = "ABSENT"
                                 /\ submitter.rolled \subseteq LowValue(submitter.branch)
  /\ submitter.pc = "COMMITTED" => \A j \in submitter.rolled : rows[j].st = "ABSENT"
  /\ submitter.pc \in {"COMMITTED", "REGISTERED"} =>
       rows[submitter.job].st \in {"PENDING", "ABSENT", "CANCELLED"}
  /\ \A j \in Jobs : j \in repairing =>
       /\ rows[j].st \in {"PENDING", "ABSENT", "CANCELLED"} /\ touched[j] # Never
       /\ submitter.pc # "IDLE" => submitter.job # j
       /\ worker.pc # "NONE" => worker.job # j
  /\ \A j \in Jobs : touched[j] = Never => rows[j].st = "ABSENT"

AnalysedRow ==
  /\ worker.pc = "STARTING" => rows[Job].st \in {"PENDING", "ABSENT", "CANCELLED"}
  /\ worker.pc \in {"READING", "ANALYSING", "PUBLISHING"} =>
       rows[Job].st \in {"RUNNING", "ABSENT", "CANCELLED"}
  /\ worker.pc \in {"ANALYSING", "PUBLISHING"} =>
       \/ files[Job] = "WHOLE" \/ active[Job] = "CANCELLED"
       \/ rows[Job].st \in {"ABSENT", "CANCELLED"} \/ IsExpired(Job)

\* A job that was told to stop, or whose thread is ending, needs no owner.
Excused(j) ==
  \/ rows[j].st \notin Unfinished \/ IsExpired(j) \/ snagged[j]
  \/ process \notin {"STARTING", "UP"}
Unowned ==
  \A j \in Jobs :
    /\ active[j] = "CANCELLED" => Excused(j)
    /\ worker.pc = "ENDING" /\ worker.job = j => Excused(j)
    /\ Excused(j) \/ Submits(j) \/ Works(j)

\* What a sweep takes for unknown was made no earlier than the sweep began.
SweepsAreRecent ==
  \A w \in Sweepers : sweeps[w].on =>
    /\ sweeps[w].since <= now /\ now - sweeps[w].since <= Grace
    /\ \A j \in sweeps[w].unknown : rows[j].st = "ABSENT" \/ touched[j] >= sweeps[w].since

JobsInv ==
  /\ Shapes /\ PhasesOK /\ SlotHasOneOwner /\ ActiveIsOwned
  /\ SubmittedRow /\ AnalysedRow /\ Unowned /\ SweepsAreRecent
  /\ CompletedKeepsFrames /\ ExportIsHere

-----------------------------------------------------------------------------
(* Rows and records *)

\* The type invariant, spelled out where the provers need it.
LEMMA JobTypes ==
  ASSUME Shapes
  PROVE  /\ slot \in BOOLEAN /\ retaining \in BOOLEAN
         /\ delivering \in BOOLEAN /\ lock \in BOOLEAN
         /\ now \in Int /\ now >= 0 /\ now <= MaxTime
         /\ \A j \in Jobs : /\ rows[j] \in Row /\ rows[j].expires \in Nat
                            /\ rows[j].st \in RowStates /\ touched[j] \in Int
         /\ Grace \in Nat /\ Retention \in Nat /\ MaxTime \in Nat
<1>1. \A r \in Row : r.expires \in Nat /\ r.st \in RowStates
  BY DEF Row
<1> QED BY <1>1, InteractionsAssumption DEF Shapes, TypeOK, Never

\* One row is given another status.
LEMMA Marked ==
  ASSUME Shapes, NEW j \in Jobs, NEW st \in RowStates, rows' = [rows EXCEPT ![j].st = st]
  PROVE  /\ rows' \in [Jobs -> Row]
         /\ rows'[j].st = st /\ rows'[j].expires = rows[j].expires
         /\ rows'[j].branch = rows[j].branch /\ rows'[j].reviewed = rows[j].reviewed
         /\ rows'[j].low = rows[j].low
         /\ \A i \in Jobs \ {j} : rows'[i] = rows[i]
<1>1. \A r \in Row : /\ [r EXCEPT !.st = st] \in Row
                     /\ [r EXCEPT !.st = st].st = st
                     /\ [r EXCEPT !.st = st].expires = r.expires
                     /\ [r EXCEPT !.st = st].branch = r.branch
                     /\ [r EXCEPT !.st = st].reviewed = r.reviewed
                     /\ [r EXCEPT !.st = st].low = r.low
  BY DEF Row
<1>2. rows \in [Jobs -> Row] /\ rows[j] \in Row
  BY DEF Shapes, TypeOK
<1>3. rows' = [rows EXCEPT ![j] = [rows[j] EXCEPT !.st = st]]
  BY <1>2
<1> QED BY <1>1, <1>2, <1>3

\* There is no row in a place where nothing is recorded.
LEMMA NothingRecorded ==
  NoRow \in Row /\ NoRow.st = "ABSENT" /\ NoRow.expires = 0
BY DEF NoRow, Row, RowStates

\* The thread goes on to another place.
LEMMA ThreadGoes ==
  ASSUME Shapes, worker.pc # "NONE", NEW pc \in {"READING", "ANALYSING", "PUBLISHING", "FAILING", "ENDING"},
         WorkerGoes(pc)
  PROVE  /\ worker' \in AnalysisRecord /\ worker'.pc = pc /\ worker'.job = worker.job
         /\ worker.job \in Jobs /\ worker' # NoWorker
<1>1. worker \in AnalysisRecord /\ worker.job \in Jobs
  BY DEF Shapes
<1>2. \A w \in AnalysisRecord : /\ [w EXCEPT !.pc = pc] \in AnalysisRecord
                                /\ [w EXCEPT !.pc = pc].pc = pc
                                /\ [w EXCEPT !.pc = pc].job = w.job
  BY DEF AnalysisRecord
<1> QED BY <1>1, <1>2 DEF WorkerGoes, NoWorker
-----------------------------------------------------------------------------
(* The inference thread *)

\* Everything but what the thread's transactions write.
ThreadOnly == UNCHANGED <<now, process, touched, authority, slot, active, submitter, sweeps,
                          retaining, delivering, lock, repairing, asked>>

\* The thread stops short of publishing: its files may be gone or torn, and its
\* row, which is not completed, says so or is kept for a sweep.
LEMMA ThreadStops ==
  ASSUME JobsInv, ThreadOnly, UNCHANGED export,
         worker.pc # "NONE", NEW pc \in {"FAILING", "ENDING"}, WorkerGoes(pc),
         \/ UNCHANGED rows
         \/ /\ rows[Job].st # "ABSENT"
            /\ \E st \in {"CANCELLED", "FAILED"} : rows' = [rows EXCEPT ![Job].st = st],
         \/ UNCHANGED <<rows, files, snagged>>
         \/ /\ rows[Job].st # "COMPLETED"
            /\ \E f \in {"NONE", "TORN", "WHOLE"} : files' = [files EXCEPT ![Job] = f]
            /\ snagged' \in {snagged, [snagged EXCEPT ![Job] = TRUE]},
         pc = "ENDING" => Excused(Job)'
  PROVE  JobsInv'
<1>0. Shapes
  BY DEF JobsInv
<1>1. worker.job \in Jobs /\ worker' \in AnalysisRecord /\ worker'.pc = pc
      /\ worker'.job = worker.job
  BY <1>0, ThreadGoes
<1>2. /\ rows' \in [Jobs -> Row]
      /\ \A i \in Jobs : /\ rows'[i].expires = rows[i].expires
                         /\ i # Job => rows'[i] = rows[i]
                         /\ \/ rows'[i].st = rows[i].st
                            \/ rows[i].st # "ABSENT" /\ rows'[i].st \in {"CANCELLED", "FAILED"}
                         /\ rows'[i].branch = rows[i].branch /\ rows'[i].reviewed = rows[i].reviewed
                         /\ rows'[i].low = rows[i].low
  <2>1. CASE UNCHANGED rows
    BY <1>0, <2>1 DEF Shapes, TypeOK
  <2>2. ASSUME rows[Job].st # "ABSENT",
               NEW st \in {"CANCELLED", "FAILED"}, rows' = [rows EXCEPT ![Job].st = st]
        PROVE  <1>2
    <3>1. Job \in Jobs /\ st \in RowStates
      BY <1>1 DEF Job, RowStates
    <3> QED BY <1>0, <2>2, <3>1, Marked
  <2> QED BY <2>1, <2>2
<1>3. /\ files' \in [Jobs -> {"NONE", "TORN", "WHOLE"}]
      /\ \A i \in Jobs : i # Job => files'[i] = files[i]
      /\ rows[Job].st # "COMPLETED" \/ UNCHANGED <<rows, files>>
  BY <1>0, <1>1 DEF Shapes, TypeOK
<1>4. snagged' \in [Jobs -> BOOLEAN] /\ \A i \in Jobs : snagged[i] => snagged'[i]
  BY <1>0, <1>1 DEF Shapes, TypeOK, Job
<1>5. Shapes'
  BY <1>0, <1>1, <1>2, <1>3, <1>4 DEF Shapes, TypeOK, ThreadOnly, NoWorker
<1>6. PhasesOK' /\ SlotHasOneOwner' /\ ActiveIsOwned'
  BY <1>1 DEF JobsInv, PhasesOK, SlotHasOneOwner, ActiveIsOwned, Works, ThreadOnly, Closed, Alive
<1>7. submitter.pc = "IDLE"
  BY DEF JobsInv, ActiveIsOwned
<1>8. SubmittedRow'
  BY <1>1, <1>2, <1>7 DEF JobsInv, SubmittedRow, ThreadOnly, Job
<1>9. AnalysedRow'
  BY <1>1 DEF AnalysedRow
<1>10. Unowned'
  BY <1>1, <1>2, <1>4 DEF JobsInv, Unowned, Excused, Submits, Works, Job, IsExpired, ThreadOnly, Unfinished
<1>11. SweepsAreRecent'
  <2>1. \A w \in Sweepers : sweeps[w].unknown \subseteq Jobs
    BY <1>0 DEF Shapes, TypeOK
  <2> QED BY <1>2, <2>1 DEF JobsInv, SweepsAreRecent, ThreadOnly
<1>12. CompletedKeepsFrames' /\ ExportIsHere'
  BY <1>1, <1>2, <1>3 DEF JobsInv, CompletedKeepsFrames, ExportIsHere, IsExpired, ThreadOnly, Job
<1> QED BY <1>5, <1>6, <1>8, <1>9, <1>10, <1>11, <1>12 DEF JobsInv
\* A thread that cancels its own job, or cannot.
LEMMA ThreadCancels ==
  ASSUME JobsInv, ThreadOnly, UNCHANGED export, WorkerCancels,
         worker.pc # "NONE", rows[Job].st \notin {"ABSENT", "COMPLETED"}
  PROVE  JobsInv'
<1>0. Shapes /\ Job \in Jobs
  BY DEF JobsInv, Shapes, Job
<1>1. CASE Remove(Job) /\ rows' = [rows EXCEPT ![Job].st = "CANCELLED"] /\ WorkerGoes("ENDING")
           /\ UNCHANGED snagged
  <2>1. "CANCELLED" \in RowStates
    BY DEF RowStates
  <2>2. rows'[Job].st = "CANCELLED"
    BY <1>0, <1>1, <2>1, Marked
  <2>3. Job' = Job
    BY <1>0, <1>1, ThreadGoes DEF Job
  <2>4. Excused(Job)'
    BY <2>2, <2>3 DEF Excused, Unfinished
  <2>5. \E f \in {"NONE", "TORN", "WHOLE"} : files' = [files EXCEPT ![Job] = f]
    BY <1>1 DEF Remove
  <2>6. \E st \in {"CANCELLED", "FAILED"} : rows' = [rows EXCEPT ![Job].st = st]
    BY <1>1
  <2> QED BY <1>1, <2>4, <2>5, <2>6, ThreadStops
<1>2. CASE Botch(Job) /\ WorkerGoes("FAILING") /\ UNCHANGED rows
  <2>1. \E f \in {"NONE", "TORN", "WHOLE"} : files' = [files EXCEPT ![Job] = f]
    BY <1>0, <1>2 DEF Botch, Leftovers, Shapes, TypeOK
  <2>2. snagged' = [snagged EXCEPT ![Job] = TRUE]
    BY <1>2 DEF Botch
  <2> QED BY <1>2, <2>1, <2>2, ThreadStops
<1> QED BY <1>1, <1>2 DEF WorkerCancels

\* A thread that has nothing to write any more.
LEMMA ThreadGivesUp ==
  ASSUME JobsInv, ThreadOnly, UNCHANGED <<rows, files, export, snagged>>,
         worker.pc # "NONE", NEW pc \in {"FAILING", "ENDING"}, WorkerGoes(pc),
         pc = "ENDING" => Excused(Job)
  PROVE  JobsInv'
<1>1. Job' = Job
  BY ThreadGoes DEF JobsInv, Job
<1>2. pc = "ENDING" => Excused(Job)'
  BY <1>1 DEF Excused, IsExpired, ThreadOnly
<1> QED BY <1>2, ThreadStops

\* The first transaction finds the row waiting, or gone, or cancelled.
LEMMA WorkerStartsKeeps == ASSUME JobsInv, WorkerStarts PROVE JobsInv'
<1>0. /\ Shapes /\ Job \in Jobs /\ worker.pc = "STARTING"
      /\ rows[Job].st \in {"PENDING", "ABSENT", "CANCELLED"}
      /\ ThreadOnly /\ UNCHANGED export
  BY DEF JobsInv, Shapes, Job, WorkerStarts, AnalysedRow, ThreadOnly, ownership
<1>1. CASE (rows[Job].st \in {"ABSENT", "CANCELLED"} \/ IsExpired(Job))
           /\ WorkerGoes("ENDING") /\ UNCHANGED <<rows, files, snagged>>
  <2>1. Excused(Job)
    BY <1>1 DEF Excused, Unfinished
  <2> QED BY <1>0, <1>1, <2>1, ThreadGivesUp
<1>2. CASE rows[Job].st \notin {"ABSENT", "CANCELLED"} /\ WorkerCancels
  BY <1>0, <1>2, ThreadCancels
<1>3. CASE /\ rows[Job].st \notin {"ABSENT", "CANCELLED"} /\ ~IsExpired(Job) /\ MayGoOn
           /\ rows' = [rows EXCEPT ![Job].st = "RUNNING"]
           /\ WorkerGoes("READING") /\ UNCHANGED <<files, snagged>>
  <2>1. /\ worker' \in AnalysisRecord /\ worker'.pc = "READING" /\ worker'.job = Job
    BY <1>0, <1>3, ThreadGoes DEF Job
  <2>2. /\ rows' \in [Jobs -> Row] /\ rows'[Job].st = "RUNNING"
        /\ rows'[Job].expires = rows[Job].expires /\ rows[Job].st = "PENDING"
        /\ \A i \in Jobs \ {Job} : rows'[i] = rows[i]
    BY <1>0, <1>3, Marked DEF RowStates, Unfinished
  <2>3. active[Job] # "CANCELLED" /\ submitter.pc = "IDLE"
    BY <1>0, <1>3 DEF MayGoOn, JobsInv, ActiveIsOwned
  <2>4. Shapes'
    BY <1>0, <1>3, <2>1, <2>2 DEF Shapes, TypeOK, ThreadOnly, NoWorker
  <2>5. PhasesOK' /\ SlotHasOneOwner' /\ ActiveIsOwned'
    BY <1>0, <2>1 DEF JobsInv, PhasesOK, SlotHasOneOwner, ActiveIsOwned, Works, ThreadOnly, Closed,
                      Alive, Job
  <2>6. SubmittedRow' /\ AnalysedRow'
    BY <1>0, <2>1, <2>2, <2>3 DEF JobsInv, SubmittedRow, AnalysedRow, ThreadOnly, Job
  <2>7. Unowned'
    BY <1>0, <1>3, <2>1, <2>2, <2>3
       DEF JobsInv, Unowned, Excused, Submits, Works, Job, IsExpired, ThreadOnly
  <2>8. SweepsAreRecent'
    <3>1. \A w \in Sweepers : sweeps[w].unknown \subseteq Jobs
      BY <1>0 DEF Shapes, TypeOK
    <3> QED BY <1>0, <2>2, <3>1 DEF JobsInv, SweepsAreRecent, ThreadOnly
  <2>9. CompletedKeepsFrames' /\ ExportIsHere'
    BY <1>0, <1>3, <2>2 DEF JobsInv, CompletedKeepsFrames, ExportIsHere, IsExpired, ThreadOnly
  <2> QED BY <2>4, <2>5, <2>6, <2>7, <2>8, <2>9 DEF JobsInv
<1> QED BY <1>1, <1>2, <1>3 DEF WorkerStarts

\* Reading and analysing write nothing.
LEMMA WorkerReadsKeeps == ASSUME JobsInv, WorkerReads \/ WorkerAnalyses PROVE JobsInv'
<1>0. /\ Shapes /\ Job \in Jobs /\ worker.pc \in {"READING", "ANALYSING"}
      /\ UNCHANGED <<now, process, disk, authority, slot, active, submitter, sweeps, ownership,
                     history>>
      /\ ThreadOnly /\ UNCHANGED <<rows, files, export, snagged>>
  BY DEF JobsInv, Shapes, Job, WorkerReads, WorkerAnalyses, ThreadOnly, ownership, disk, history
<1>1. CASE WorkerGoes("FAILING")
  BY <1>0, <1>1, ThreadGivesUp
<1>2. CASE WorkerGoes("ENDING") /\ (active[Job] = "CANCELLED" \/ Closed)
  <2>1. Excused(Job)
    BY <1>0, <1>2 DEF JobsInv, Unowned, Excused, Closed
  <2> QED BY <1>0, <1>2, <2>1, ThreadGivesUp
<1>3. ASSUME NEW pc \in {"ANALYSING", "PUBLISHING"}, WorkerGoes(pc),
             files[Job] = "WHOLE" \/ worker.pc = "ANALYSING"
      PROVE  JobsInv'
  <2>1. worker' \in AnalysisRecord /\ worker'.pc = pc /\ worker'.job = Job
    BY <1>0, <1>3, ThreadGoes DEF Job
  <2>2. Shapes' /\ PhasesOK' /\ SlotHasOneOwner' /\ ActiveIsOwned'
    BY <1>0, <2>1 DEF JobsInv, Shapes, TypeOK, NoWorker, PhasesOK, SlotHasOneOwner, ActiveIsOwned,
                      Works, Closed, Alive, Job, ThreadOnly
  <2>3. SubmittedRow' /\ SweepsAreRecent' /\ CompletedKeepsFrames' /\ ExportIsHere'
    BY <1>0, <2>1 DEF JobsInv, SubmittedRow, LowValue, Present, SweepsAreRecent, Job,
                      CompletedKeepsFrames, ExportIsHere, IsExpired, ThreadOnly
  <2>4. AnalysedRow' /\ Unowned'
    BY <1>0, <1>3, <2>1 DEF JobsInv, AnalysedRow, Unowned, Excused, Submits, Works, Job, IsExpired,
                            ThreadOnly
  <2> QED BY <2>2, <2>3, <2>4 DEF JobsInv
<1>4. WorkerReads => \/ WorkerGoes("FAILING")
                     \/ WorkerGoes("ENDING") /\ (active[Job] = "CANCELLED" \/ Closed)
                     \/ WorkerGoes("ANALYSING") /\ files[Job] = "WHOLE"
  BY DEF WorkerReads
<1>5. WorkerAnalyses => /\ worker.pc = "ANALYSING"
                        /\ WorkerGoes("FAILING") \/ WorkerGoes("PUBLISHING")
  BY DEF WorkerAnalyses
<1> QED BY <1>1, <1>2, <1>3, <1>4, <1>5

\* The second transaction publishes only a running row whose frames are whole.
LEMMA WorkerPublishesKeeps == ASSUME JobsInv, WorkerPublishes PROVE JobsInv'
<1>0. /\ Shapes /\ Job \in Jobs /\ worker.pc = "PUBLISHING"
      /\ rows[Job].st \in {"RUNNING", "ABSENT", "CANCELLED"}
      /\ ThreadOnly
  BY DEF JobsInv, Shapes, Job, WorkerPublishes, AnalysedRow, ThreadOnly, ownership
<1>1. CASE LeftAlone(rows[Job].st) /\ WorkerGoes("ENDING") /\ UNCHANGED <<rows, files, export, snagged>>
  <2>1. Excused(Job)
    BY <1>1 DEF Excused, Unfinished, LeftAlone
  <2> QED BY <1>0, <1>1, <2>1, ThreadGivesUp
<1>2. CASE ~LeftAlone(rows[Job].st) /\ WorkerCancels /\ UNCHANGED export
  BY <1>0, <1>2, ThreadCancels DEF LeftAlone
<1>3. ASSUME ~LeftAlone(rows[Job].st), ~IsExpired(Job), ~Closed, MayGoOn, NEW low \in BOOLEAN,
             rows' = [rows EXCEPT ![Job] = [@ EXCEPT !.st = "COMPLETED", !.low = low]],
             \E e \in {"NONE"} \cup (IF low THEN {} ELSE {"QUEUED"}) :
                  export' = [export EXCEPT ![Job] = e],
             WorkerGoes("ENDING"), UNCHANGED <<files, snagged>>
      PROVE  JobsInv'
  <2>1. /\ worker' \in AnalysisRecord /\ worker'.pc = "ENDING" /\ worker'.job = Job
    BY <1>0, <1>3, ThreadGoes DEF Job
  <2>2. \A r \in Row : LET q == [r EXCEPT !.st = "COMPLETED", !.low = low]
                       IN  q \in Row /\ q.st = "COMPLETED" /\ q.expires = r.expires
    BY DEF Row, RowStates
  <2>3. /\ rows' \in [Jobs -> Row] /\ rows'[Job].st = "COMPLETED"
        /\ rows'[Job].expires = rows[Job].expires /\ rows[Job].st = "RUNNING"
        /\ \A i \in Jobs \ {Job} : rows'[i] = rows[i]
    BY <1>0, <1>3, <2>2 DEF LeftAlone, Shapes, TypeOK
  <2>4. /\ export' \in [Jobs -> {"NONE", "QUEUED", "WITHDRAWN"}]
        /\ \A i \in Jobs \ {Job} : export'[i] = export[i]
    BY <1>0, <1>3 DEF Shapes, TypeOK
  <2>5. active[Job] # "CANCELLED" /\ submitter.pc = "IDLE" /\ files[Job] = "WHOLE"
    BY <1>0, <1>3, <2>3 DEF MayGoOn, JobsInv, ActiveIsOwned, AnalysedRow
  <2>6. Shapes'
    BY <1>0, <1>3, <2>1, <2>3, <2>4 DEF Shapes, TypeOK, ThreadOnly, NoWorker
  <2>7. PhasesOK' /\ SlotHasOneOwner' /\ ActiveIsOwned'
    BY <1>0, <2>1 DEF JobsInv, PhasesOK, SlotHasOneOwner, ActiveIsOwned, Works, ThreadOnly, Closed,
                      Alive, Job
  <2>8. SubmittedRow' /\ AnalysedRow'
    BY <1>0, <2>1, <2>3, <2>5 DEF JobsInv, SubmittedRow, AnalysedRow, ThreadOnly
  <2>9. Unowned'
    BY <1>0, <1>3, <2>1, <2>3, <2>5
       DEF JobsInv, Unowned, Excused, Submits, Works, Job, IsExpired, ThreadOnly, Unfinished
  <2>10. SweepsAreRecent'
    <3>1. \A w \in Sweepers : sweeps[w].unknown \subseteq Jobs
      BY <1>0 DEF Shapes, TypeOK
    <3> QED BY <1>0, <2>3, <3>1 DEF JobsInv, SweepsAreRecent, ThreadOnly
  <2>11. CompletedKeepsFrames' /\ ExportIsHere'
    BY <1>0, <1>3, <2>3, <2>4, <2>5 DEF JobsInv, CompletedKeepsFrames, ExportIsHere, IsExpired, ThreadOnly
  <2> QED BY <2>6, <2>7, <2>8, <2>9, <2>10, <2>11 DEF JobsInv
<1> QED BY <1>1, <1>2, <1>3 DEF WorkerPublishes

\* A failed analysis fails its row, or leaves its files to later passes.
LEMMA WorkerFailsKeeps == ASSUME JobsInv, WorkerFails PROVE JobsInv'
<1>0. /\ Shapes /\ Job \in Jobs /\ worker.pc = "FAILING" /\ WorkerGoes("ENDING")
      /\ ThreadOnly /\ UNCHANGED export
  BY DEF JobsInv, Shapes, Job, WorkerFails, ThreadOnly, ownership
<1>1. Job' = Job
  BY <1>0, ThreadGoes DEF Job
<1>2. CASE /\ rows[Job].st \notin {"ABSENT", "CANCELLED", "COMPLETED"}
           /\ Remove(Job) /\ rows' = [rows EXCEPT ![Job].st = "FAILED"] /\ UNCHANGED snagged
  <2>1. rows'[Job].st = "FAILED"
    BY <1>0, <1>2, Marked DEF RowStates
  <2>2. Excused(Job)'
    BY <1>1, <2>1 DEF Excused, Unfinished
  <2>3. \E f \in {"NONE", "TORN", "WHOLE"} : files' = [files EXCEPT ![Job] = f]
    BY <1>2 DEF Remove
  <2> QED BY <1>0, <1>2, <2>2, <2>3, ThreadStops
<1>3. CASE rows[Job].st \notin {"ABSENT", "CANCELLED", "COMPLETED"} /\ Botch(Job) /\ UNCHANGED rows
  <2>1. \E f \in {"NONE", "TORN", "WHOLE"} : files' = [files EXCEPT ![Job] = f]
    BY <1>0, <1>3 DEF Botch, Leftovers, Shapes, TypeOK
  <2>2. snagged' = [snagged EXCEPT ![Job] = TRUE] /\ snagged'[Job]
    BY <1>0, <1>3 DEF Botch, Shapes, TypeOK
  <2>3. Excused(Job)'
    BY <1>1, <2>2 DEF Excused
  <2> QED BY <1>0, <1>3, <2>1, <2>2, <2>3, ThreadStops
<1>4. CASE rows[Job].st \in {"ABSENT", "CANCELLED", "COMPLETED"} /\ UNCHANGED <<rows, files, snagged>>
  <2>1. Excused(Job)
    BY <1>4 DEF Excused, Unfinished
  <2> QED BY <1>0, <1>4, <2>1, ThreadGivesUp
<1> QED BY <1>2, <1>3, <1>4 DEF WorkerFails

\* The lock is given up by a closing process that runs no analysis any more.
LEMMA LockReleased ==
  ASSUME Shapes, ReleaseIfIdle
  PROVE  /\ lock' \in BOOLEAN /\ (lock' => lock)
         /\ lock /\ ~lock' => /\ Closed /\ ~delivering' /\ ~retaining'
                              /\ \A j \in Jobs : active'[j] = "NONE"
BY JobTypes DEF ReleaseIfIdle, ReleasedIfIdle

\* The thread is done with a row that needs no owner any more.
LEMMA WorkerEndsKeeps == ASSUME JobsInv, WorkerEnds PROVE JobsInv'
<1>0. /\ Shapes /\ worker.job \in Jobs /\ worker.pc = "ENDING" /\ submitter.pc = "IDLE"
      /\ active' = [active EXCEPT ![worker.job] = "NONE"] /\ slot' = FALSE /\ worker' = NoWorker
      /\ UNCHANGED <<now, process, rows, files, touched, export, authority, submitter, sweeps,
                     retaining, delivering, repairing, asked, snagged>>
      /\ ReleaseIfIdle
  BY DEF JobsInv, Shapes, Job, WorkerEnds, Ended, ActiveIsOwned, disk, history
<1>1. worker'.pc = "NONE" /\ worker' \in AnalysisRecord
  BY <1>0 DEF NoWorker, AnalysisRecord
<1>2. /\ active' \in [Jobs -> {"NONE", "REGISTERED", "CANCELLED"}]
      /\ \A j \in Jobs : active'[j] = "NONE"
  BY <1>0 DEF Shapes, TypeOK, JobsInv, ActiveIsOwned, Works
<1>3. Shapes'
  <2>1. {slot', retaining', delivering', lock'} \subseteq BOOLEAN
    <3>1. slot' \in BOOLEAN /\ retaining' \in BOOLEAN /\ delivering' \in BOOLEAN
      BY <1>0, JobTypes
    <3>2. lock' \in BOOLEAN
      BY <1>0, LockReleased
    <3> QED BY <3>1, <3>2
  <2> QED BY <1>0, <1>1, <1>2, <2>1 DEF Shapes, TypeOK
<1>4. PhasesOK'
  BY <1>0, <1>1, LockReleased DEF JobsInv, PhasesOK, Alive, Closed
<1>5. SlotHasOneOwner' /\ ActiveIsOwned'
  BY <1>0, <1>1, <1>2 DEF SlotHasOneOwner, ActiveIsOwned
<1>6. SubmittedRow' /\ AnalysedRow' /\ SweepsAreRecent' /\ CompletedKeepsFrames' /\ ExportIsHere'
  BY <1>0, <1>1 DEF JobsInv, SubmittedRow, AnalysedRow, SweepsAreRecent, CompletedKeepsFrames,
                    ExportIsHere, IsExpired
<1>7. Unowned'
  BY <1>0, <1>1, <1>2 DEF JobsInv, Unowned, Excused, Submits, Works, IsExpired
<1> QED BY <1>3, <1>4, <1>5, <1>6, <1>7 DEF JobsInv
-----------------------------------------------------------------------------
(* Staff *)

\* What is not staff's to write.
StaffOnly == UNCHANGED <<now, process, touched, authority, slot, submitter, worker, sweeps,
                         retaining, delivering, lock, repairing>>

\* Cancelling and deleting: the job is told to stop, and its row says so, is
\* gone, or is kept with a removal that failed.
LEMMA StaffStops ==
  ASSUME JobsInv, StaffOnly, Unlocked, process = "UP", NEW j \in Jobs, rows[j].st # "ABSENT",
         active' = IF active[j] = "NONE" THEN active ELSE [active EXCEPT ![j] = "CANCELLED"],
         \E f \in {"NONE", "TORN", "WHOLE"} : files' = [files EXCEPT ![j] = f],
         rows' \in [Jobs -> Row], \A i \in Jobs \ {j} : rows'[i] = rows[i],
         \/ rows'[j].st = "CANCELLED" /\ rows'[j].expires = rows[j].expires
         \/ rows'[j].st = "ABSENT"
         \/ rows'[j] = rows[j] /\ snagged'[j],
         \/ export' = export /\ (rows[j].st = "COMPLETED" => rows' = rows)
         \/ export' = [export EXCEPT ![j] = Withdrawn(@)],
         asked' \in {asked, [asked EXCEPT ![j] = TRUE]},
         rows[j].st = "COMPLETED" => asked'[j],
         snagged' \in {snagged, [snagged EXCEPT ![j] = TRUE]}
  PROVE  JobsInv'
<1>0. Shapes
  BY DEF JobsInv
<1>1. /\ active' \in [Jobs -> {"NONE", "REGISTERED", "CANCELLED"}]
      /\ \A i \in Jobs : /\ active'[i] = "NONE" <=> active[i] = "NONE"
                         /\ i # j => active'[i] = active[i]
  BY <1>0 DEF Shapes, TypeOK
<1>2. active'[j] # "NONE" => active'[j] = "CANCELLED"
  BY <1>0 DEF Shapes, TypeOK
<1>3. /\ files' \in [Jobs -> {"NONE", "TORN", "WHOLE"}]
      /\ \A i \in Jobs \ {j} : files'[i] = files[i]
  BY <1>0 DEF Shapes, TypeOK
<1>4. /\ asked' \in [Jobs -> BOOLEAN] /\ snagged' \in [Jobs -> BOOLEAN]
      /\ \A i \in Jobs : (asked[i] => asked'[i]) /\ (snagged[i] => snagged'[i])
  BY <1>0 DEF Shapes, TypeOK
<1>5. /\ export' \in [Jobs -> {"NONE", "QUEUED", "WITHDRAWN"}]
      /\ \A i \in Jobs : export'[i] = "QUEUED" =>
           export[i] = "QUEUED" /\ (i = j => rows' = rows \/ rows[j].st # "COMPLETED")
  BY <1>0 DEF Shapes, TypeOK, Withdrawn
<1>6. Shapes'
  BY <1>0, <1>1, <1>3, <1>4, <1>5 DEF Shapes, TypeOK, StaffOnly, NoWorker
<1>7. PhasesOK' /\ SlotHasOneOwner' /\ ActiveIsOwned'
  BY <1>0, <1>1 DEF JobsInv, Shapes, PhasesOK, SlotHasOneOwner, ActiveIsOwned, Works, StaffOnly,
                    Closed, Alive
<1>8. SubmittedRow'
  BY <1>0 DEF JobsInv, SubmittedRow, StaffOnly, Unlocked, Shapes, SubmissionRecord
<1>9. AnalysedRow'
  BY <1>0, <1>1, <1>2, <1>3 DEF JobsInv, Shapes, AnalysedRow, ActiveIsOwned, Job, IsExpired, StaffOnly
<1>10. Unowned'
  BY <1>0, <1>1, <1>4 DEF JobsInv, Unowned, Excused, Submits, Works, IsExpired, StaffOnly, Unfinished
<1>11. SweepsAreRecent'
  <2>1. \A w \in Sweepers : sweeps[w].unknown \subseteq Jobs
    BY <1>0 DEF Shapes, TypeOK
  <2> QED BY <2>1 DEF JobsInv, SweepsAreRecent, StaffOnly
<1>12. CompletedKeepsFrames' /\ ExportIsHere'
  BY <1>3, <1>4, <1>5 DEF JobsInv, CompletedKeepsFrames, ExportIsHere, IsExpired, StaffOnly
<1> QED BY <1>6, <1>7, <1>8, <1>9, <1>10, <1>11, <1>12 DEF JobsInv

\* A removal that fails, or a later statement of its transaction.
LEMMA Botched ==
  ASSUME Shapes, NEW j \in Jobs, Botch(j)
  PROVE  /\ \E f \in {"NONE", "TORN", "WHOLE"} : files' = [files EXCEPT ![j] = f]
         /\ snagged' = [snagged EXCEPT ![j] = TRUE] /\ snagged'[j]
BY DEF Botch, Leftovers, Shapes, TypeOK

\* A cancelled job is told to stop, whether or not its files could go.
LEMMA CancelKeeps == ASSUME JobsInv, NEW j \in Jobs, Cancel(j) PROVE JobsInv'
<1>0. /\ Shapes /\ StaffOnly /\ Unlocked /\ process = "UP"
      /\ rows[j].st \in {"PENDING", "RUNNING"} /\ UNCHANGED <<export, asked>>
      /\ active' = IF active[j] = "NONE" THEN active ELSE [active EXCEPT ![j] = "CANCELLED"]
  BY DEF JobsInv, Cancel, Requestable, StaffOnly, ownership, Unfinished, Flagged
<1>1. CASE Remove(j) /\ rows' = [rows EXCEPT ![j].st = "CANCELLED"] /\ UNCHANGED snagged
  <2>1. /\ rows' \in [Jobs -> Row] /\ rows'[j].st = "CANCELLED"
        /\ rows'[j].expires = rows[j].expires /\ \A i \in Jobs \ {j} : rows'[i] = rows[i]
    BY <1>0, <1>1, Marked DEF RowStates
  <2>2. \E f \in {"NONE", "TORN", "WHOLE"} : files' = [files EXCEPT ![j] = f]
    BY <1>1 DEF Remove
  <2> QED BY <1>0, <1>1, <2>1, <2>2, StaffStops
<1>2. CASE Botch(j) /\ UNCHANGED rows
  <2>1. rows' \in [Jobs -> Row]
    BY <1>0, <1>2 DEF Shapes, TypeOK
  <2> QED BY <1>0, <1>2, <2>1, Botched, StaffStops
<1> QED BY <1>1, <1>2 DEF Cancel

\* A deletion takes row, frames and export together, or none of them.
LEMMA DeleteKeeps == ASSUME JobsInv, NEW j \in Jobs, Delete(j) PROVE JobsInv'
<1>0. /\ Shapes /\ StaffOnly /\ Unlocked /\ process = "UP"
      /\ rows[j].st # "ABSENT" /\ asked' = [asked EXCEPT ![j] = TRUE] /\ asked'[j]
      /\ active' = IF active[j] = "NONE" THEN active ELSE [active EXCEPT ![j] = "CANCELLED"]
  BY DEF JobsInv, Shapes, TypeOK, Delete, Requestable, StaffOnly, ownership, Flagged
<1>1. CASE /\ Remove(j) /\ rows' = [rows EXCEPT ![j] = NoRow] /\ UNCHANGED snagged
           /\ export' = [export EXCEPT ![j] = Withdrawn(@)]
  <2>1. /\ rows' \in [Jobs -> Row] /\ rows'[j].st = "ABSENT"
        /\ \A i \in Jobs \ {j} : rows'[i] = rows[i]
    BY <1>0, <1>1, NothingRecorded DEF Shapes, TypeOK
  <2>2. \E f \in {"NONE", "TORN", "WHOLE"} : files' = [files EXCEPT ![j] = f]
    BY <1>1 DEF Remove
  <2> QED BY <1>0, <1>1, <2>1, <2>2, StaffStops
<1>2. CASE Botch(j) /\ UNCHANGED <<rows, export>>
  <2>1. rows' \in [Jobs -> Row]
    BY <1>0, <1>2 DEF Shapes, TypeOK
  <2> QED BY <1>0, <1>2, <2>1, Botched, StaffStops
<1> QED BY <1>1, <1>2 DEF Delete

\* A review marks a completed row and leaves the rest of it alone.
LEMMA ReviewKeeps == ASSUME JobsInv, NEW j \in Jobs, Review(j) PROVE JobsInv'
<1>0. /\ Shapes /\ submitter.pc # "WRITING" /\ rows[j].st = "COMPLETED"
      /\ UNCHANGED <<now, process, files, touched, export, authority, slot, active, submitter,
                     worker, sweeps, retaining, delivering, lock, repairing, asked, snagged>>
  BY DEF JobsInv, Review, Requestable, Unlocked, memory, ownership, history
<1>1. \A r \in Row : LET q == [r EXCEPT !.reviewed = TRUE]
                     IN  q \in Row /\ q.st = r.st /\ q.expires = r.expires
  BY DEF Row
<1>2. /\ rows' \in [Jobs -> Row]
      /\ \A i \in Jobs : rows'[i].st = rows[i].st /\ rows'[i].expires = rows[i].expires
  BY <1>0, <1>1 DEF Shapes, TypeOK, Review
<1>3. Shapes' /\ PhasesOK' /\ SlotHasOneOwner' /\ ActiveIsOwned'
  BY <1>0, <1>2 DEF JobsInv, Shapes, TypeOK, PhasesOK, SlotHasOneOwner, ActiveIsOwned, Works, Closed,
                    Alive, NoWorker
<1>4. SubmittedRow' /\ AnalysedRow'
  BY <1>0, <1>2 DEF JobsInv, Shapes, SubmittedRow, AnalysedRow, SubmissionRecord, Job, IsExpired
<1>5. Unowned'
  BY <1>0, <1>2 DEF JobsInv, Unowned, Excused, Submits, Works, IsExpired
<1>6. SweepsAreRecent'
  <2>1. \A w \in Sweepers : sweeps[w].unknown \subseteq Jobs
    BY <1>0 DEF Shapes, TypeOK
  <2> QED BY <1>0, <1>2, <2>1 DEF JobsInv, SweepsAreRecent
<1>7. CompletedKeepsFrames' /\ ExportIsHere'
  BY <1>0, <1>2 DEF JobsInv, CompletedKeepsFrames, ExportIsHere, IsExpired
<1> QED BY <1>3, <1>4, <1>5, <1>6, <1>7 DEF JobsInv

\* A session that ends is not among what the invariant relates.
LEMMA AuthorityEndsKeeps == ASSUME JobsInv, NEW j \in Jobs, AuthorityEnds(j) PROVE JobsInv'
<1>0. /\ Shapes /\ authority' \in [Jobs -> BOOLEAN]
      /\ UNCHANGED <<now, process, rows, files, touched, export, slot, active, submitter, worker,
                     sweeps, retaining, delivering, lock, repairing, asked, snagged>>
  BY DEF JobsInv, Shapes, TypeOK, AuthorityEnds, disk, memory, ownership, history
<1>1. Shapes' /\ PhasesOK' /\ SlotHasOneOwner' /\ ActiveIsOwned'
  BY <1>0 DEF JobsInv, Shapes, TypeOK, PhasesOK, SlotHasOneOwner, ActiveIsOwned, Works, Closed, Alive,
              NoWorker
<1>2. SubmittedRow' /\ AnalysedRow' /\ Unowned'
  BY <1>0 DEF JobsInv, SubmittedRow, LowValue, Present, AnalysedRow, Unowned, Excused, Submits, Works,
              Job, IsExpired
<1>3. SweepsAreRecent' /\ CompletedKeepsFrames' /\ ExportIsHere'
  BY <1>0 DEF JobsInv, SweepsAreRecent, CompletedKeepsFrames, ExportIsHere, IsExpired
<1> QED BY <1>1, <1>2, <1>3 DEF JobsInv
-----------------------------------------------------------------------------
(* Cleanup *)

\* What a withdrawal leaves of the exports.
LEMMA RolledOffExports ==
  ASSUME Shapes, NEW gone \in SUBSET Jobs, export' = RolledOff(gone)
  PROVE  /\ export' \in [Jobs -> {"NONE", "QUEUED", "WITHDRAWN"}]
         /\ \A j \in Jobs : export'[j] = "QUEUED" => export[j] = "QUEUED" /\ j \notin gone
BY DEF Shapes, TypeOK, RolledOff, Withdrawn

\* The sweep that begins takes for unknown what has no row.
LEMMA SweepStarts ==
  ASSUME Shapes, NEW w \in Sweepers, sweeps' = [sweeps EXCEPT ![w] = Sweeping(rows')]
  PROVE  /\ sweeps' \in [Sweepers -> [on : BOOLEAN, unknown : SUBSET Jobs, since : 0..MaxTime]]
         /\ sweeps'[w].on /\ sweeps'[w].since = now
         /\ \A j \in sweeps'[w].unknown : j \in Jobs /\ rows'[j].st = "ABSENT"
         /\ \A v \in Sweepers \ {w} : sweeps'[v] = sweeps[v]
<1>1. Sweeping(rows') \in [on : BOOLEAN, unknown : SUBSET Jobs, since : 0..MaxTime]
  BY DEF Shapes, TypeOK, Sweeping, Unknown
<1>2. /\ Sweeping(rows').on /\ Sweeping(rows').since = now
      /\ \A j \in Sweeping(rows').unknown : j \in Jobs /\ rows'[j].st = "ABSENT"
  BY DEF Sweeping, Unknown
<1> HIDE DEF Sweeping
<1> QED BY <1>1, <1>2 DEF Shapes, TypeOK

\* What a sweep takes for unknown is what its own transaction left absent.
LEMMA SweepBeginsKeeps == ASSUME JobsInv, NEW w \in Sweepers, SweepBegins(w) PROVE JobsInv'
<1>1. process = "UP" \/ (w = Janitor /\ Closed /\ retaining)
  BY DEF SweepBegins
<1>2. /\ Shapes /\ submitter.pc # "WRITING"
      /\ sweeps' = [sweeps EXCEPT ![w] = Sweeping(rows')]
      /\ UNCHANGED <<now, process, touched, authority, slot, active, submitter, worker,
                     retaining, delivering, lock, repairing, asked, snagged>>
  BY DEF JobsInv, SweepBegins, Unlocked, ownership, history
<1> DEFINE old == {j \in Present : IsExpired(j)}
<1>3. PICK removed \in SUBSET Present :
        /\ ExpireRows(removed)
        /\ rows' = [j \in Jobs |-> IF j \in removed THEN NoRow ELSE rows[j]]
  BY DEF SweepBegins
<1>4. /\ removed \subseteq old /\ old \subseteq Jobs /\ export' = RolledOff(old)
      /\ \A j \in old : IsExpired(j)
      /\ files' \in [Jobs -> {"NONE", "TORN", "WHOLE"}]
      /\ \A j \in Jobs \ old : files'[j] = files[j]
  BY <1>2, <1>3 DEF ExpireRows, Present, Shapes, TypeOK
<1> HIDE DEF old
<1>5. /\ rows' \in [Jobs -> Row]
      /\ \A j \in Jobs : rows'[j] = rows[j] \/ (rows'[j].st = "ABSENT" /\ j \in removed)
  <2>1. rows \in [Jobs -> Row]
    BY <1>2 DEF Shapes, TypeOK
  <2> QED BY <1>3, <2>1, NothingRecorded
<1>6. /\ export' \in [Jobs -> {"NONE", "QUEUED", "WITHDRAWN"}]
      /\ \A j \in Jobs : export'[j] = "QUEUED" => export[j] = "QUEUED" /\ j \notin old
  BY <1>2, <1>4, RolledOffExports
<1>7. /\ sweeps' \in [Sweepers -> [on : BOOLEAN, unknown : SUBSET Jobs, since : 0..MaxTime]]
      /\ sweeps'[w].since = now
      /\ \A j \in sweeps'[w].unknown : j \in Jobs /\ rows'[j].st = "ABSENT"
      /\ \A v \in Sweepers \ {w} : sweeps'[v] = sweeps[v]
  BY <1>2, SweepStarts
<1>8. Shapes'
  BY <1>2, <1>4, <1>5, <1>6, <1>7 DEF Shapes, TypeOK, NoWorker
<1>9. PhasesOK' /\ SlotHasOneOwner' /\ ActiveIsOwned'
  BY <1>2, <1>1, <1>7 DEF JobsInv, PhasesOK, SlotHasOneOwner, ActiveIsOwned, Works, Closed, Alive
<1>10. SubmittedRow'
  BY <1>2, <1>5 DEF JobsInv, Shapes, SubmittedRow, SubmissionRecord
<1>11. AnalysedRow'
  BY <1>2, <1>4, <1>5 DEF JobsInv, Shapes, AnalysedRow, Job, IsExpired
<1>12. Unowned'
  BY <1>2, <1>5 DEF JobsInv, Unowned, Excused, Submits, Works, IsExpired, Unfinished
<1>13. SweepsAreRecent'
  <2>1. \A v \in Sweepers : sweeps[v].unknown \subseteq Jobs
    BY <1>2 DEF Shapes, TypeOK
  <2> QED BY <1>2, <1>5, <1>7, <2>1, JobTypes DEF JobsInv, SweepsAreRecent
<1>14. CompletedKeepsFrames' /\ ExportIsHere'
  BY <1>2, <1>4, <1>5, <1>6 DEF JobsInv, CompletedKeepsFrames, ExportIsHere, IsExpired
<1> QED BY <1>8, <1>9, <1>10, <1>11, <1>12, <1>13, <1>14 DEF JobsInv

\* A sweep visits what it took for unknown: a row that came since has frames
\* that are too young to go.
LEMMA SweepVisitsKeeps ==
  ASSUME JobsInv, NEW w \in Sweepers, NEW j \in Jobs, SweepVisits(w, j) PROVE JobsInv'
<1>0. /\ Shapes /\ sweeps[w].on /\ j \in sweeps[w].unknown
      /\ sweeps' = [sweeps EXCEPT ![w].unknown = @ \ {j}]
      /\ UNCHANGED <<now, process, rows, touched, export, authority, slot, active, submitter, worker,
                     retaining, delivering, lock, repairing, asked, snagged>>
  BY DEF JobsInv, SweepVisits, ownership, history
<1>1. /\ sweeps[w].since <= now /\ now - sweeps[w].since <= Grace
      /\ rows[j].st = "ABSENT" \/ touched[j] >= sweeps[w].since
      /\ sweeps[w].since \in Int
  BY <1>0 DEF JobsInv, SweepsAreRecent, Shapes, TypeOK
<1>2. rows[j].st = "ABSENT" \/ ~Abandoned(j)
  BY <1>0, <1>1, JobTypes DEF Abandoned
<1>3. /\ files' \in [Jobs -> {"NONE", "TORN", "WHOLE"}]
      /\ \A i \in Jobs : files'[i] = files[i] \/ (i = j /\ rows[j].st = "ABSENT")
  <2>1. files \in [Jobs -> {"NONE", "TORN", "WHOLE"}]
    BY <1>0 DEF Shapes, TypeOK
  <2>2. \/ UNCHANGED files
        \/ rows[j].st = "ABSENT" /\ \E f \in Leftovers(files[j]) \cup {"NONE"} : files' = [files EXCEPT ![j] = f]
    BY <1>2 DEF SweepVisits, Remove
  <2> QED BY <2>1, <2>2 DEF Leftovers
<1>4. /\ sweeps' \in [Sweepers -> [on : BOOLEAN, unknown : SUBSET Jobs, since : 0..MaxTime]]
      /\ \A v \in Sweepers : /\ sweeps'[v].on = sweeps[v].on /\ sweeps'[v].since = sweeps[v].since
                             /\ sweeps'[v].unknown \subseteq sweeps[v].unknown
  <2>1. \A s \in [on : BOOLEAN, unknown : SUBSET Jobs, since : 0..MaxTime] :
          LET t == [s EXCEPT !.unknown = @ \ {j}]
          IN  /\ t \in [on : BOOLEAN, unknown : SUBSET Jobs, since : 0..MaxTime]
              /\ t.on = s.on /\ t.since = s.since /\ t.unknown \subseteq s.unknown
    OBVIOUS
  <2>2. sweeps \in [Sweepers -> [on : BOOLEAN, unknown : SUBSET Jobs, since : 0..MaxTime]]
    BY <1>0 DEF Shapes, TypeOK
  <2>3. sweeps' = [sweeps EXCEPT ![w] = [sweeps[w] EXCEPT !.unknown = @ \ {j}]]
    BY <1>0, <2>2
  <2> QED BY <2>1, <2>2, <2>3
<1>5. Shapes' /\ PhasesOK' /\ SlotHasOneOwner' /\ ActiveIsOwned'
  BY <1>0, <1>3, <1>4 DEF JobsInv, Shapes, TypeOK, PhasesOK, SlotHasOneOwner, ActiveIsOwned, Works,
                          Closed, Alive, NoWorker
<1>6. SubmittedRow' /\ AnalysedRow' /\ Unowned'
  BY <1>0, <1>3 DEF JobsInv, Shapes, SubmittedRow, LowValue, Present, AnalysedRow, Unowned, Excused,
                    Submits, Works, Job, IsExpired
<1>7. SweepsAreRecent'
  BY <1>0, <1>4 DEF JobsInv, SweepsAreRecent
<1>8. CompletedKeepsFrames' /\ ExportIsHere'
  BY <1>0, <1>3 DEF JobsInv, CompletedKeepsFrames, ExportIsHere, IsExpired
<1> QED BY <1>5, <1>6, <1>7, <1>8 DEF JobsInv

\* A sweep that found every directory known or young is over.
LEMMA SweepEndsKeeps == ASSUME JobsInv, NEW w \in Sweepers, SweepEnds(w) PROVE JobsInv'
<1>0. /\ Shapes /\ sweeps' = [sweeps EXCEPT ![w] = NoSweep]
      /\ process' = IF process = "STARTING" THEN "UP" ELSE process
      /\ UNCHANGED <<now, rows, files, touched, export, authority, slot, active, submitter, worker,
                     retaining, delivering, lock, repairing, asked, snagged>>
  BY DEF JobsInv, SweepEnds, disk, ownership, history
<1>1. /\ sweeps' \in [Sweepers -> [on : BOOLEAN, unknown : SUBSET Jobs, since : 0..MaxTime]]
      /\ ~sweeps'[w].on /\ \A v \in Sweepers \ {w} : sweeps'[v] = sweeps[v]
  <2>1. NoSweep \in [on : BOOLEAN, unknown : SUBSET Jobs, since : 0..MaxTime] /\ ~NoSweep.on
    BY InteractionsAssumption DEF NoSweep
  <2> HIDE DEF NoSweep
  <2> QED BY <1>0, <2>1 DEF Shapes, TypeOK
<1>2. Shapes' /\ SlotHasOneOwner' /\ ActiveIsOwned'
  BY <1>0, <1>1 DEF JobsInv, Shapes, TypeOK, SlotHasOneOwner, ActiveIsOwned, Works, NoWorker
<1>3. PhasesOK'
  BY <1>0, <1>1 DEF JobsInv, PhasesOK, Closed, Alive
<1>4. SubmittedRow' /\ AnalysedRow' /\ Unowned'
  BY <1>0 DEF JobsInv, Shapes, SubmittedRow, LowValue, Present, AnalysedRow, Unowned, Excused,
              Submits, Works, Job, IsExpired
<1>5. SweepsAreRecent' /\ CompletedKeepsFrames' /\ ExportIsHere'
  BY <1>0, <1>1 DEF JobsInv, SweepsAreRecent, CompletedKeepsFrames, ExportIsHere, IsExpired
<1> QED BY <1>2, <1>3, <1>4, <1>5 DEF JobsInv
-----------------------------------------------------------------------------
(* The life of the process *)

\* Steps of a shutdown write no record and no file.
LEMMA ShutdownKeepsRecords ==
  ASSUME JobsInv,
         UNCHANGED <<now, rows, files, touched, export, submitter, sweeps, repairing, asked, snagged>>,
         worker' = worker,
         \A j \in Jobs : active'[j] = active[j] \/ active'[j] = "CANCELLED"
  PROVE  SubmittedRow' /\ AnalysedRow' /\ SweepsAreRecent' /\ CompletedKeepsFrames' /\ ExportIsHere'
<1>1. worker.pc # "NONE" => Job \in Jobs
  BY DEF JobsInv, Shapes, Job
<1>2. SubmittedRow' /\ AnalysedRow'
  BY <1>1 DEF JobsInv, SubmittedRow, LowValue, Present, AnalysedRow, Job, IsExpired
<1>3. SweepsAreRecent' /\ CompletedKeepsFrames' /\ ExportIsHere'
  BY DEF JobsInv, SweepsAreRecent, CompletedKeepsFrames, ExportIsHere, IsExpired
<1> QED BY <1>2, <1>3

\* Everybody who works is told to stop before the process winds up.
LEMMA CloseKeeps == ASSUME JobsInv, Close PROVE JobsInv'
<1>0. /\ Shapes /\ process = "UP" /\ process' = "CLOSING" /\ submitter.pc = "IDLE"
      /\ \A w \in Sweepers \ {Janitor} : ~sweeps[w].on
      /\ repairing = {}
      /\ UNCHANGED <<now, rows, files, touched, export, authority, slot, submitter, worker, sweeps,
                     retaining, delivering, lock, repairing, asked, snagged>>
  BY DEF JobsInv, Close, disk, ownership, history
<1>1. /\ active' \in [Jobs -> {"NONE", "REGISTERED", "CANCELLED"}]
      /\ \A j \in Jobs : active'[j] = IF active[j] = "NONE" THEN "NONE" ELSE "CANCELLED"
  BY DEF Close
<1>2. \A j \in Jobs : active[j] = active'[j] \/ active'[j] = "CANCELLED"
  BY <1>1
<1>3. Shapes' /\ PhasesOK' /\ SlotHasOneOwner' /\ ActiveIsOwned'
  BY <1>0, <1>1 DEF JobsInv, Shapes, TypeOK, PhasesOK, SlotHasOneOwner, ActiveIsOwned, Works, Closed,
                    Alive, NoWorker
<1>4. Unowned'
  BY <1>0 DEF Unowned, Excused
<1> QED BY <1>0, <1>2, <1>3, <1>4, ShutdownKeepsRecords DEF JobsInv

\* The janitor's thread, the wait for it and the sender end.
LEMMA ShutdownKeeps == ASSUME JobsInv, Shutdown PROVE JobsInv'
<1>0. /\ Shapes /\ UNCHANGED <<now, rows, files, touched, export, authority, slot, active, submitter,
                               worker, sweeps, repairing, asked, snagged>>
      /\ ReleaseIfIdle /\ Closed /\ Closed'
      /\ process' \in {"CLOSING", "CLOSED", "STOPPED"}
      /\ retaining' \in BOOLEAN /\ delivering' \in BOOLEAN
  BY JobTypes DEF JobsInv, Shutdown, JanitorEnds, CloseEnds, DeliveryStops, Closed, disk, history
<1>1. ~retaining' => ~sweeps[Janitor].on
  BY DEF JobsInv, PhasesOK, Shutdown, JanitorEnds, CloseEnds, DeliveryStops
<1>2. (~retaining => ~retaining') /\ (~delivering => ~delivering')
  BY <1>0, JobTypes DEF Shutdown, JanitorEnds, CloseEnds, DeliveryStops
<1>3. Shapes'
  <2>1. {slot', retaining', delivering', lock'} \subseteq BOOLEAN
    BY <1>0, LockReleased, JobTypes
  <2> QED BY <1>0, <2>1 DEF Shapes, TypeOK, NoWorker
<1>4. PhasesOK'
  <2>1. Alive' /\ ~lock' => ~delivering' /\ ~retaining' /\ worker.pc = "NONE"
    <3>1. CASE lock
      BY <1>0, <3>1, LockReleased DEF JobsInv, ActiveIsOwned, Shapes
    <3>2. CASE ~lock
      BY <1>0, <1>2, <3>2 DEF JobsInv, PhasesOK, Alive, Closed
    <3> QED BY <3>1, <3>2
  <2> QED BY <1>0, <1>1, <2>1 DEF JobsInv, PhasesOK, Closed
<1>5. SlotHasOneOwner' /\ ActiveIsOwned'
  BY <1>0 DEF JobsInv, SlotHasOneOwner, ActiveIsOwned, Works
<1>6. Unowned'
  BY <1>0 DEF Unowned, Excused, Closed
<1> QED BY <1>0, <1>3, <1>4, <1>5, <1>6, ShutdownKeepsRecords DEF JobsInv

\* Whatever ran has ended, and nothing is owed to a process that is down.
LEMMA ExitKeeps == ASSUME JobsInv, Exit PROVE JobsInv'
<1>0. /\ Shapes /\ process' = "DOWN" /\ slot' = FALSE /\ submitter' = NoSubmission /\ worker' = NoWorker
      /\ active' = [j \in Jobs |-> "NONE"] /\ sweeps' = [w \in Sweepers |-> NoSweep]
      /\ retaining' = FALSE /\ delivering' = FALSE /\ lock' = FALSE /\ repairing' = {}
      /\ UNCHANGED <<now, rows, files, touched, export, authority, asked, snagged>>
  BY DEF JobsInv, Exit, disk, history
<1>1. submitter' \in SubmissionRecord /\ submitter'.pc = "IDLE"
  BY <1>0 DEF NoSubmission, SubmissionRecord
<1>2. worker' \in AnalysisRecord /\ worker'.pc = "NONE"
  BY <1>0 DEF NoWorker, AnalysisRecord
<1>3. /\ NoSweep \in [on : BOOLEAN, unknown : SUBSET Jobs, since : 0..MaxTime] /\ ~NoSweep.on
      /\ \A w \in Sweepers : sweeps'[w] = NoSweep
  BY <1>0, InteractionsAssumption DEF NoSweep
<1>4. Shapes'
  <2>1. {slot', retaining', delivering', lock'} \subseteq BOOLEAN
    BY <1>0
  <2>2. /\ sweeps' \in [Sweepers -> [on : BOOLEAN, unknown : SUBSET Jobs, since : 0..MaxTime]]
        /\ active' \in [Jobs -> {"NONE", "REGISTERED", "CANCELLED"}]
    BY <1>0, <1>3
  <2> QED BY <1>0, <1>1, <1>2, <2>1, <2>2 DEF Shapes, TypeOK, SubmissionRecord
<1>5. PhasesOK' /\ SlotHasOneOwner' /\ ActiveIsOwned'
  BY <1>0, <1>1, <1>2, <1>3, InteractionsAssumption
     DEF PhasesOK, SlotHasOneOwner, ActiveIsOwned, Alive, Closed
<1>6. SubmittedRow' /\ AnalysedRow' /\ Unowned' /\ SweepsAreRecent'
  BY <1>0, <1>1, <1>2, <1>3 DEF JobsInv, SubmittedRow, AnalysedRow, Unowned, Excused, SweepsAreRecent
<1>7. CompletedKeepsFrames' /\ ExportIsHere'
  BY <1>0 DEF JobsInv, CompletedKeepsFrames, ExportIsHere, IsExpired
<1> QED BY <1>4, <1>5, <1>6, <1>7 DEF JobsInv

\* A process that comes up fails what nobody works on any more.
LEMMA RestartKeeps == ASSUME JobsInv, Restart PROVE JobsInv'
<1>0. /\ Shapes /\ process = "DOWN" /\ process' = "STARTING"
      /\ retaining' = TRUE /\ delivering' = TRUE /\ lock' = TRUE
      /\ UNCHANGED <<now, touched, authority, slot, active, submitter, worker, repairing, asked, snagged>>
      /\ submitter.pc = "IDLE" /\ repairing = {} /\ worker.pc = "NONE"
  BY DEF JobsInv, PhasesOK, Restart, history
<1> DEFINE over == {j \in Present : IsExpired(j)}
           interrupted == {j \in Present : ~IsExpired(j) /\ rows[j].st \in Unfinished}
           kept(removed) == [j \in Jobs |-> IF j \in removed THEN NoRow ELSE rows[j]]
<1>1. PICK removed \in SUBSET Present :
        /\ removed \subseteq over
        /\ rows' = [j \in Jobs |-> IF IsExpired(j) THEN kept(removed)[j]
                                   ELSE Recovers(kept(removed))[j]]
        /\ files' = [j \in Jobs |-> IF j \in removed \cup interrupted THEN "NONE" ELSE files[j]]
        /\ export' = RolledOff(over)
        /\ sweeps' = [sweeps EXCEPT ![Janitor] = Sweeping(rows')]
  BY DEF Restart
<1>2. \A r \in Row : LET q == [r EXCEPT !.st = "FAILED"]
                     IN  q \in Row /\ q.st = "FAILED" /\ q.expires = r.expires
  BY DEF Row, RowStates
<1>3. /\ rows' \in [Jobs -> Row]
      /\ \A j \in Jobs :
           \/ rows'[j] = rows[j] /\ (IsExpired(j) \/ rows[j].st \notin Unfinished)
           \/ rows'[j].st = "ABSENT" /\ j \in removed
           \/ /\ rows'[j].st = "FAILED" /\ rows'[j].expires = rows[j].expires
              /\ rows[j].st \in Unfinished /\ ~IsExpired(j)
  <2>1. rows \in [Jobs -> Row]
    BY <1>0 DEF Shapes, TypeOK
  <2>2. \A j \in removed : IsExpired(j)
    BY <1>1
  <2> HIDE DEF over, interrupted
  <2>3. ASSUME NEW j \in Jobs, j \in removed
        PROVE  rows'[j] = NoRow
    BY <1>1, <2>2, <2>3
  <2>4. ASSUME NEW j \in Jobs, j \notin removed, IsExpired(j)
        PROVE  rows'[j] = rows[j]
    BY <1>1, <2>4
  <2>5. ASSUME NEW j \in Jobs, j \notin removed, ~IsExpired(j)
        PROVE  rows'[j] = IF rows[j].st \in Unfinished THEN [rows[j] EXCEPT !.st = "FAILED"]
                          ELSE rows[j]
    BY <1>1, <2>5 DEF Recovers
  <2>6. DOMAIN rows' = Jobs /\ rows' = [j \in Jobs |-> rows'[j]]
    BY <1>1
  <2>7. \A j \in Jobs : rows'[j] \in Row
    BY <1>2, <2>1, <2>3, <2>4, <2>5, NothingRecorded
  <2>8. ASSUME NEW j \in Jobs
        PROVE  \/ rows'[j] = rows[j] /\ (IsExpired(j) \/ rows[j].st \notin Unfinished)
               \/ rows'[j].st = "ABSENT" /\ j \in removed
               \/ /\ rows'[j].st = "FAILED" /\ rows'[j].expires = rows[j].expires
                  /\ rows[j].st \in Unfinished /\ ~IsExpired(j)
    <3>1. rows[j] \in Row
      BY <2>1
    <3> QED BY <1>2, <2>3, <2>4, <2>5, <3>1, NothingRecorded
  <2> QED BY <2>6, <2>7, <2>8
<1>4. /\ files' \in [Jobs -> {"NONE", "TORN", "WHOLE"}]
      /\ \A j \in Jobs : files'[j] = files[j] \/ IsExpired(j) \/ rows[j].st \in Unfinished
  BY <1>0, <1>1 DEF Shapes, TypeOK
<1>5. over \in SUBSET Jobs /\ \A j \in over : IsExpired(j)
  BY DEF Present
<1>6. /\ export' \in [Jobs -> {"NONE", "QUEUED", "WITHDRAWN"}]
      /\ \A j \in Jobs : export'[j] = "QUEUED" => export[j] = "QUEUED" /\ j \notin over
  <2> HIDE DEF over
  <2> QED BY <1>0, <1>1, <1>5, RolledOffExports
<1>7. /\ sweeps' \in [Sweepers -> [on : BOOLEAN, unknown : SUBSET Jobs, since : 0..MaxTime]]
      /\ sweeps'[Janitor].since = now
      /\ \A j \in sweeps'[Janitor].unknown : j \in Jobs /\ rows'[j].st = "ABSENT"
      /\ \A v \in Sweepers \ {Janitor} : sweeps'[v] = sweeps[v]
  BY <1>0, <1>1, SweepStarts, InteractionsAssumption
<1>8. \A j \in removed : j \in over
  BY <1>1
<1> HIDE DEF over, interrupted, kept
<1>9. Shapes'
  <2>1. {slot', retaining', delivering', lock'} \subseteq BOOLEAN
    BY <1>0, JobTypes
  <2> QED BY <1>0, <1>3, <1>4, <1>6, <1>7, <2>1 DEF Shapes, TypeOK, NoWorker
<1>10. PhasesOK' /\ SlotHasOneOwner' /\ ActiveIsOwned'
  BY <1>0, <1>7 DEF JobsInv, PhasesOK, SlotHasOneOwner, ActiveIsOwned, Works, Closed, Alive
<1>11. SubmittedRow' /\ AnalysedRow'
  BY <1>0, <1>3 DEF JobsInv, SubmittedRow, AnalysedRow, Unfinished
<1>12. Unowned'
  BY <1>0, <1>3 DEF JobsInv, Unowned, Excused, Submits, Works, IsExpired, Unfinished, ActiveIsOwned
<1>13. SweepsAreRecent'
  BY <1>0, <1>7, JobTypes DEF JobsInv, PhasesOK, SweepsAreRecent
<1>14. CompletedKeepsFrames' /\ ExportIsHere'
  BY <1>0, <1>3, <1>4, <1>5, <1>6, <1>8
     DEF JobsInv, CompletedKeepsFrames, ExportIsHere, IsExpired, Unfinished
<1> QED BY <1>9, <1>10, <1>11, <1>12, <1>13, <1>14 DEF JobsInv

\* A start that cannot remove a frame leaves the records alone.
LEMMA RestartFailsKeeps == ASSUME JobsInv, RestartFails PROVE JobsInv'
<1>0. /\ Shapes /\ process = "DOWN" /\ submitter.pc = "IDLE" /\ worker.pc = "NONE"
      /\ UNCHANGED <<now, process, rows, touched, export, authority, slot, active, submitter, worker,
                     sweeps, retaining, delivering, lock, repairing, asked, snagged>>
  BY DEF JobsInv, PhasesOK, RestartFails, memory, ownership, history
<1>1. PICK j \in Present : /\ rows[j].st \in Unfinished
                           /\ \E f \in Leftovers(files[j]) : files' = [files EXCEPT ![j] = f]
  BY DEF RestartFails
<1>2. /\ files' \in [Jobs -> {"NONE", "TORN", "WHOLE"}]
      /\ \A i \in Jobs : files'[i] = files[i] \/ rows[i].st \in Unfinished
  BY <1>0, <1>1 DEF Present, Leftovers, Shapes, TypeOK
<1>3. Shapes' /\ PhasesOK' /\ SlotHasOneOwner' /\ ActiveIsOwned'
  BY <1>0, <1>2 DEF JobsInv, Shapes, TypeOK, PhasesOK, SlotHasOneOwner, ActiveIsOwned, Works, Closed,
                    Alive, NoWorker
<1>4. SubmittedRow' /\ AnalysedRow' /\ Unowned' /\ SweepsAreRecent'
  BY <1>0 DEF JobsInv, SubmittedRow, AnalysedRow, Unowned, Excused, Submits, Works, IsExpired,
              SweepsAreRecent
<1>5. CompletedKeepsFrames' /\ ExportIsHere'
  BY <1>0, <1>2 DEF JobsInv, CompletedKeepsFrames, ExportIsHere, IsExpired, Unfinished
<1> QED BY <1>3, <1>4, <1>5 DEF JobsInv

\* Time passes: rows expire, and no sweep is caught behind its grace.
LEMMA TickKeeps == ASSUME JobsInv, Tick PROVE JobsInv'
<1>0. /\ Shapes /\ now' = now + 1 /\ now < MaxTime
      /\ \A w \in Sweepers : sweeps[w].on => now - sweeps[w].since < Grace
      /\ UNCHANGED <<process, rows, files, touched, export, authority, slot, active, submitter, worker,
                     sweeps, retaining, delivering, lock, repairing, asked, snagged>>
  BY DEF JobsInv, Tick, disk, memory, ownership, history
<1>1. now' \in 0..MaxTime /\ now \in Int /\ now <= now'
  BY <1>0, JobTypes
<1>2. \A j \in Jobs : IsExpired(j) => IsExpired(j)'
  BY <1>0, <1>1, JobTypes DEF IsExpired
<1>3. Shapes' /\ PhasesOK' /\ SlotHasOneOwner' /\ ActiveIsOwned'
  BY <1>0, <1>1 DEF JobsInv, Shapes, TypeOK, PhasesOK, SlotHasOneOwner, ActiveIsOwned, Works, Closed,
                    Alive, NoWorker
<1>4. SubmittedRow'
  BY <1>0 DEF JobsInv, SubmittedRow, LowValue, Present
<1>5. AnalysedRow'
  BY <1>0, <1>2 DEF JobsInv, Shapes, AnalysedRow, Job
<1>6. Unowned'
  BY <1>0, <1>2 DEF JobsInv, Unowned, Excused, Submits, Works
<1>7. SweepsAreRecent'
  <2>1. \A w \in Sweepers : sweeps[w].since \in Int
    BY <1>0 DEF Shapes, TypeOK
  <2>2. Grace \in Int
    BY InteractionsAssumption
  <2> QED BY <1>0, <1>1, <2>1, <2>2 DEF JobsInv, SweepsAreRecent
<1>8. CompletedKeepsFrames' /\ ExportIsHere'
  BY <1>0, <1>2 DEF JobsInv, CompletedKeepsFrames, ExportIsHere
<1> QED BY <1>3, <1>4, <1>5, <1>6, <1>7, <1>8 DEF JobsInv
-----------------------------------------------------------------------------
(* submit *)

\* Who submits shares the slot with no thread.
LEMMA SubmitterAlone ==
  ASSUME JobsInv, submitter.pc # "IDLE"
  PROVE  /\ process = "UP" /\ worker.pc = "NONE"
         /\ submitter.job \in Jobs /\ submitter.branch \in Branches /\ submitter.rolled \subseteq Jobs
BY DEF JobsInv, PhasesOK, ActiveIsOwned, Shapes, SubmissionRecord

\* A new job takes the slot and makes its directory before it has a row.
LEMMA SubmitBeginsKeeps ==
  ASSUME JobsInv, NEW j \in Jobs, NEW b \in Branches, SubmitBegins(j, b) PROVE JobsInv'
<1>0. /\ Shapes /\ process = "UP" /\ submitter.pc = "IDLE" /\ touched[j] = Never /\ slot = FALSE
      /\ slot' = TRUE /\ files' = [files EXCEPT ![j] = "TORN"] /\ touched' = [touched EXCEPT ![j] = now]
      /\ authority' \in [Jobs -> BOOLEAN]
      /\ UNCHANGED <<now, process, rows, export, active, worker, sweeps, retaining, delivering, lock,
                     repairing, asked, snagged>>
  BY JobTypes DEF JobsInv, Shapes, TypeOK, SubmitBegins, ownership, history
<1>1. PICK rolled \in SUBSET Present :
        /\ rolled \subseteq LowValue(b)
        /\ submitter' = [pc |-> "WRITING", job |-> j, branch |-> b, rolled |-> rolled]
  BY DEF SubmitBegins, MakesRoom
<1>2. /\ submitter' \in SubmissionRecord /\ submitter'.pc = "WRITING" /\ submitter'.job = j
      /\ submitter'.branch = b /\ submitter'.rolled = rolled
  BY <1>1 DEF SubmissionRecord, Present
<1>3. rows[j].st = "ABSENT" /\ worker.pc = "NONE" /\ \A i \in Jobs : active[i] = "NONE"
  BY <1>0 DEF JobsInv, SubmittedRow, SlotHasOneOwner, ActiveIsOwned, Works
<1>4. /\ files' \in [Jobs -> {"NONE", "TORN", "WHOLE"}] /\ \A i \in Jobs \ {j} : files'[i] = files[i]
      /\ touched' \in [Jobs -> 0..MaxTime \cup {Never}] /\ touched'[j] = now
      /\ \A i \in Jobs \ {j} : touched'[i] = touched[i]
      /\ now # Never
  BY <1>0, JobTypes DEF Shapes, TypeOK, Never
<1>5. Shapes'
  <2>1. {slot', retaining', delivering', lock'} \subseteq BOOLEAN
    BY <1>0, JobTypes
  <2> QED BY <1>0, <1>2, <1>4, <2>1 DEF Shapes, TypeOK, NoWorker
<1>6. PhasesOK' /\ SlotHasOneOwner' /\ ActiveIsOwned'
  BY <1>0, <1>2, <1>3 DEF JobsInv, PhasesOK, SlotHasOneOwner, ActiveIsOwned, Works, Closed, Alive
<1>7. SubmittedRow' /\ AnalysedRow'
  BY <1>0, <1>1, <1>2, <1>3, <1>4 DEF JobsInv, SubmittedRow, AnalysedRow, LowValue, Present
<1>8. Unowned'
  BY <1>0, <1>3 DEF JobsInv, Unowned, Excused, Submits, Works, IsExpired
<1>9. SweepsAreRecent'
  <2>1. \A w \in Sweepers : sweeps[w].unknown \subseteq Jobs
    BY <1>0 DEF Shapes, TypeOK
  <2> QED BY <1>0, <1>3, <1>4, <2>1 DEF JobsInv, SweepsAreRecent
<1>10. CompletedKeepsFrames' /\ ExportIsHere'
  BY <1>0, <1>3, <1>4 DEF JobsInv, CompletedKeepsFrames, ExportIsHere, IsExpired
<1> QED BY <1>5, <1>6, <1>7, <1>8, <1>9, <1>10 DEF JobsInv

\* The row appears as the rolled-off ones go, and its directory is young.
LEMMA SubmitCommitsKeeps == ASSUME JobsInv, SubmitCommits PROVE JobsInv'
<1> DEFINE j == submitter.job
           fresh == [NoRow EXCEPT !.st = "PENDING", !.branch = submitter.branch,
                                  !.expires = now + Retention]
<1>0. /\ Shapes /\ submitter.pc = "WRITING" /\ submitter' = [submitter EXCEPT !.pc = "COMMITTED"]
      /\ export' = RolledOff(submitter.rolled) /\ files' = [files EXCEPT ![j] = "WHOLE"]
      /\ touched' = [touched EXCEPT ![j] = now]
      /\ UNCHANGED <<now, process, authority, slot, active, worker, sweeps, retaining, delivering, lock,
                     repairing, asked, snagged>>
  BY DEF JobsInv, SubmitCommits, ownership, history
<1>1. /\ process = "UP" /\ worker.pc = "NONE" /\ j \in Jobs /\ submitter.branch \in Branches
      /\ submitter.rolled \in SUBSET Jobs
  BY <1>0, SubmitterAlone
<1>2. /\ submitter' \in SubmissionRecord /\ submitter'.pc = "COMMITTED" /\ submitter'.job = j
      /\ submitter'.branch = submitter.branch /\ submitter'.rolled = submitter.rolled
  BY <1>0 DEF Shapes, SubmissionRecord
<1>3. fresh \in Row /\ fresh.st = "PENDING"
  <2>1. \A r \in Row, b \in Branches, t \in Nat :
          LET q == [r EXCEPT !.st = "PENDING", !.branch = b, !.expires = t]
          IN  q \in Row /\ q.st = "PENDING"
    BY DEF Row, RowStates, Unfinished
  <2>2. now + Retention \in Nat
    BY <1>0, JobTypes
  <2> QED BY <1>1, <2>1, <2>2, NothingRecorded
<1>4. rows' = [i \in Jobs |-> IF i = j THEN fresh
                              ELSE IF i \in submitter.rolled THEN NoRow ELSE rows[i]]
  BY DEF SubmitCommits
<1>5. /\ rows[j].st = "ABSENT"
      /\ \A i \in submitter.rolled : rows[i].st \in {"FAILED", "CANCELLED", "COMPLETED"}
  BY <1>0 DEF JobsInv, SubmittedRow, LowValue
<1> HIDE DEF j, fresh
<1>6. rows \in [Jobs -> Row]
  BY <1>0 DEF Shapes, TypeOK
<1>7. /\ rows' \in [Jobs -> Row] /\ rows'[j].st = "PENDING"
      /\ \A i \in Jobs \ {j} : rows'[i] = rows[i] \/ (rows'[i].st = "ABSENT" /\ i \in submitter.rolled)
      /\ \A i \in submitter.rolled : rows'[i].st = "ABSENT"
  <2>1. j \notin submitter.rolled
    BY <1>5
  <2> QED BY <1>1, <1>3, <1>4, <1>6, <2>1, NothingRecorded
<1>8. /\ export' \in [Jobs -> {"NONE", "QUEUED", "WITHDRAWN"}]
      /\ \A i \in Jobs : export'[i] = "QUEUED" => export[i] = "QUEUED" /\ i \notin submitter.rolled
  BY <1>0, <1>1, RolledOffExports
<1>9. /\ files' \in [Jobs -> {"NONE", "TORN", "WHOLE"}] /\ \A i \in Jobs \ {j} : files'[i] = files[i]
      /\ touched' \in [Jobs -> 0..MaxTime \cup {Never}] /\ touched'[j] = now
      /\ \A i \in Jobs \ {j} : touched'[i] = touched[i]
      /\ now # Never
  BY <1>0, <1>1, JobTypes DEF Shapes, TypeOK, Never
<1>10. Shapes'
  BY <1>0, <1>1, <1>2, <1>7, <1>8, <1>9 DEF Shapes, TypeOK, NoWorker
<1>11. PhasesOK' /\ SlotHasOneOwner' /\ ActiveIsOwned'
  BY <1>0, <1>1, <1>2 DEF JobsInv, PhasesOK, SlotHasOneOwner, ActiveIsOwned, Works, Closed, Alive
<1>12. SubmittedRow' /\ AnalysedRow'
  BY <1>0, <1>1, <1>2, <1>7, <1>9 DEF JobsInv, SubmittedRow, AnalysedRow
<1>13. Unowned'
  BY <1>0, <1>1, <1>2, <1>7
     DEF JobsInv, Unowned, Excused, Submits, Works, IsExpired, Unfinished, ActiveIsOwned, j
<1>14. SweepsAreRecent'
  <2>1. \A w \in Sweepers : sweeps[w].unknown \subseteq Jobs
    BY <1>0 DEF Shapes, TypeOK
  <2> QED BY <1>0, <1>7, <1>9, <2>1, JobTypes DEF JobsInv, SweepsAreRecent
<1>15. CompletedKeepsFrames' /\ ExportIsHere'
  BY <1>0, <1>5, <1>7, <1>8, <1>9 DEF JobsInv, CompletedKeepsFrames, ExportIsHere, IsExpired
<1> QED BY <1>10, <1>11, <1>12, <1>13, <1>14, <1>15 DEF JobsInv

\* A submission that fails leaves no row, and gives the slot back.
LEMMA SubmitAbortsKeeps == ASSUME JobsInv, SubmitAborts PROVE JobsInv'
<1>0. /\ Shapes /\ submitter.pc = "WRITING" /\ submitter' = NoSubmission /\ slot' = FALSE
      /\ UNCHANGED <<now, process, rows, touched, export, authority, active, worker, sweeps,
                     retaining, delivering, lock, repairing, asked, snagged>>
  BY DEF JobsInv, SubmitAborts, ownership, history
<1>1. /\ process = "UP" /\ worker.pc = "NONE" /\ submitter.job \in Jobs
      /\ rows[submitter.job].st = "ABSENT"
  BY <1>0, SubmitterAlone DEF JobsInv, SubmittedRow
<1>2. submitter' \in SubmissionRecord /\ submitter'.pc = "IDLE"
  BY <1>0 DEF NoSubmission, SubmissionRecord
<1>3. /\ files' \in [Jobs -> {"NONE", "TORN", "WHOLE"}]
      /\ \A i \in Jobs : files'[i] = files[i] \/ rows[i].st = "ABSENT"
  BY <1>0, <1>1 DEF SubmitAborts, Shapes, TypeOK
<1>4. Shapes'
  <2>1. {slot', retaining', delivering', lock'} \subseteq BOOLEAN
    BY <1>0, JobTypes
  <2> QED BY <1>0, <1>2, <1>3, <2>1 DEF Shapes, TypeOK, NoWorker
<1>5. PhasesOK' /\ SlotHasOneOwner' /\ ActiveIsOwned'
  BY <1>0, <1>1, <1>2 DEF JobsInv, PhasesOK, SlotHasOneOwner, ActiveIsOwned, Works, Closed, Alive
<1>6. SubmittedRow' /\ AnalysedRow' /\ SweepsAreRecent'
  BY <1>0, <1>1, <1>2 DEF JobsInv, SubmittedRow, AnalysedRow, SweepsAreRecent
<1>7. Unowned'
  BY <1>0, <1>1, <1>2 DEF JobsInv, Unowned, Excused, Submits, Works, IsExpired, Unfinished
<1>8. CompletedKeepsFrames' /\ ExportIsHere'
  BY <1>0, <1>3 DEF JobsInv, CompletedKeepsFrames, ExportIsHere, IsExpired
<1> QED BY <1>4, <1>5, <1>6, <1>7, <1>8 DEF JobsInv

\* What was rolled off is gone, so that its files may go.
LEMMA SubmitRegistersKeeps == ASSUME JobsInv, SubmitRegisters PROVE JobsInv'
<1> DEFINE j == submitter.job
<1>0. /\ Shapes /\ submitter.pc = "COMMITTED" /\ active' = [active EXCEPT ![j] = "REGISTERED"]
      /\ submitter' = [submitter EXCEPT !.pc = "REGISTERED", !.rolled = {}]
      /\ UNCHANGED <<now, process, rows, touched, export, authority, slot, worker, sweeps,
                     retaining, delivering, lock, repairing, asked, snagged>>
  BY DEF JobsInv, SubmitRegisters, ownership, history
<1>1. /\ process = "UP" /\ worker.pc = "NONE" /\ j \in Jobs
      /\ rows[j].st \in {"PENDING", "ABSENT", "CANCELLED"}
      /\ \A i \in submitter.rolled : rows[i].st = "ABSENT"
  BY <1>0, SubmitterAlone DEF JobsInv, SubmittedRow
<1>2. /\ submitter' \in SubmissionRecord /\ submitter'.pc = "REGISTERED" /\ submitter'.job = j
      /\ submitter'.branch = submitter.branch
  BY <1>0 DEF Shapes, SubmissionRecord
<1>3. /\ files' \in [Jobs -> {"NONE", "TORN", "WHOLE"}]
      /\ \A i \in Jobs : files'[i] = files[i] \/ rows[i].st = "ABSENT"
  <2>1. files \in [Jobs -> {"NONE", "TORN", "WHOLE"}]
    BY <1>0 DEF Shapes, TypeOK
  <2>2. PICK kept \in SUBSET submitter.rolled, torn \in SUBSET submitter.rolled :
          files' = [i \in Jobs |-> IF i \in torn /\ files[i] # "NONE" THEN "TORN"
                                   ELSE IF i \in submitter.rolled \ kept THEN "NONE"
                                   ELSE files[i]]
    BY DEF SubmitRegisters
  <2> QED BY <1>1, <2>1, <2>2
<1>4. /\ active' \in [Jobs -> {"NONE", "REGISTERED", "CANCELLED"}] /\ active'[j] = "REGISTERED"
      /\ \A i \in Jobs \ {j} : active'[i] = active[i]
  BY <1>0, <1>1 DEF Shapes, TypeOK
<1> HIDE DEF j
<1>5. Shapes'
  BY <1>0, <1>1, <1>2, <1>3, <1>4 DEF Shapes, TypeOK, NoWorker
<1>6. PhasesOK' /\ SlotHasOneOwner' /\ ActiveIsOwned'
  BY <1>0, <1>1, <1>2, <1>4 DEF JobsInv, PhasesOK, SlotHasOneOwner, ActiveIsOwned, Works, Closed, Alive
<1>7. SubmittedRow' /\ AnalysedRow' /\ SweepsAreRecent'
  BY <1>0, <1>1, <1>2 DEF JobsInv, SubmittedRow, AnalysedRow, SweepsAreRecent
<1>8. Unowned'
  BY <1>0, <1>1, <1>2, <1>4 DEF JobsInv, Unowned, Excused, Submits, Works, IsExpired, j
<1>9. CompletedKeepsFrames' /\ ExportIsHere'
  BY <1>0, <1>3 DEF JobsInv, CompletedKeepsFrames, ExportIsHere, IsExpired
<1> QED BY <1>5, <1>6, <1>7, <1>8, <1>9 DEF JobsInv

\* The job and the slot pass to the thread.
LEMMA SubmitStartsKeeps == ASSUME JobsInv, SubmitStarts PROVE JobsInv'
<1> DEFINE j == submitter.job
<1>0. /\ Shapes /\ submitter.pc = "REGISTERED" /\ submitter' = NoSubmission
      /\ worker' = [pc |-> "STARTING", job |-> j]
      /\ UNCHANGED <<now, process, rows, files, touched, export, authority, slot, active, sweeps,
                     retaining, delivering, lock, repairing, asked, snagged>>
  BY DEF JobsInv, SubmitStarts, disk, ownership, history
<1>1. /\ process = "UP" /\ worker.pc = "NONE" /\ j \in Jobs
      /\ rows[j].st \in {"PENDING", "ABSENT", "CANCELLED"}
  BY <1>0, SubmitterAlone DEF JobsInv, SubmittedRow
<1>2. /\ submitter' \in SubmissionRecord /\ submitter'.pc = "IDLE"
      /\ worker' \in AnalysisRecord /\ worker'.pc = "STARTING" /\ worker'.job = j
  BY <1>0, <1>1 DEF NoSubmission, SubmissionRecord, AnalysisRecord
<1>3. active[j] # "NONE" /\ \A i \in Jobs \ {j} : active[i] = "NONE"
  BY <1>0, <1>1 DEF JobsInv, ActiveIsOwned, Works, Unowned
<1> HIDE DEF j
<1>4. Shapes'
  BY <1>0, <1>1, <1>2 DEF Shapes, TypeOK
<1>5. PhasesOK' /\ SlotHasOneOwner' /\ ActiveIsOwned'
  BY <1>0, <1>1, <1>2, <1>3 DEF JobsInv, PhasesOK, SlotHasOneOwner, ActiveIsOwned, Works, Closed, Alive
<1>6. SubmittedRow' /\ AnalysedRow'
  BY <1>0, <1>1, <1>2 DEF JobsInv, SubmittedRow, AnalysedRow, Job, j
<1>7. Unowned'
  BY <1>0, <1>1, <1>2 DEF JobsInv, Unowned, Excused, Submits, Works, IsExpired, j
<1>8. SweepsAreRecent' /\ CompletedKeepsFrames' /\ ExportIsHere'
  BY <1>0 DEF JobsInv, SweepsAreRecent, CompletedKeepsFrames, ExportIsHere, IsExpired
<1> QED BY <1>4, <1>5, <1>6, <1>7, <1>8 DEF JobsInv

\* The job is left to be repaired, and the slot to anybody.
LEMMA DispatchFailsKeeps == ASSUME JobsInv, DispatchFails PROVE JobsInv'
<1> DEFINE j == submitter.job
<1>0. /\ Shapes /\ submitter.pc = "REGISTERED" /\ slot' = FALSE
      /\ active' = [active EXCEPT ![j] = "NONE"]
      /\ submitter' = NoSubmission /\ repairing' = repairing \cup {j}
      /\ UNCHANGED <<now, process, rows, touched, export, authority, worker, sweeps,
                     retaining, delivering, lock, asked, snagged>>
  BY DEF JobsInv, DispatchFails, SlotAfterFailedDispatch, history
<1>1. /\ process = "UP" /\ worker.pc = "NONE" /\ j \in Jobs
      /\ rows[j].st \in {"PENDING", "ABSENT", "CANCELLED"} /\ touched[j] # Never
  BY <1>0, SubmitterAlone DEF JobsInv, SubmittedRow
<1>2. submitter' \in SubmissionRecord /\ submitter'.pc = "IDLE"
  BY <1>0 DEF NoSubmission, SubmissionRecord
<1>3. /\ files' \in [Jobs -> {"NONE", "TORN", "WHOLE"}]
      /\ \A i \in Jobs \ {j} : files'[i] = files[i]
  <2>1. files \in [Jobs -> {"NONE", "TORN", "WHOLE"}]
    BY <1>0 DEF Shapes, TypeOK
  <2>2. PICK f \in Leftovers(files[j]) \cup {"NONE"} : files' = [files EXCEPT ![j] = f]
    BY DEF DispatchFails
  <2>3. f \in {"NONE", "TORN", "WHOLE"}
    BY <1>1, <2>1, <2>2 DEF Leftovers
  <2> QED BY <1>1, <2>1, <2>2, <2>3
<1>4. /\ active' \in [Jobs -> {"NONE", "REGISTERED", "CANCELLED"}]
      /\ active'[j] = "NONE" /\ \A i \in Jobs \ {j} : active'[i] = active[i]
  BY <1>0, <1>1 DEF Shapes, TypeOK
<1> HIDE DEF j
<1>5. Shapes'
  <2>1. {slot', retaining', delivering', lock'} \subseteq BOOLEAN
    BY <1>0, JobTypes
  <2> QED BY <1>0, <1>1, <1>2, <1>3, <1>4, <2>1 DEF Shapes, TypeOK
<1>6. PhasesOK' /\ SlotHasOneOwner'
  BY <1>0, <1>1, <1>2 DEF JobsInv, PhasesOK, SlotHasOneOwner, Closed, Alive
<1>7. ActiveIsOwned'
  BY <1>0, <1>1, <1>2, <1>4 DEF JobsInv, ActiveIsOwned, Works, j
<1>8. SubmittedRow' /\ AnalysedRow'
  BY <1>0, <1>1, <1>2 DEF JobsInv, SubmittedRow, AnalysedRow
<1>9. Unowned'
  BY <1>0, <1>1, <1>2, <1>4 DEF JobsInv, Unowned, Excused, Submits, Works, IsExpired, j
<1>10. SweepsAreRecent' /\ CompletedKeepsFrames' /\ ExportIsHere'
  BY <1>0, <1>1, <1>3 DEF JobsInv, SweepsAreRecent, CompletedKeepsFrames, ExportIsHere, IsExpired
<1> QED BY <1>5, <1>6, <1>7, <1>8, <1>9, <1>10 DEF JobsInv

\* A job without a thread is failed, unless it is gone by now.
LEMMA SubmitRepairsKeeps == ASSUME JobsInv, NEW j \in Jobs, SubmitRepairs(j) PROVE JobsInv'
<1>0. /\ Shapes /\ j \in repairing /\ submitter.pc # "WRITING" /\ repairing' = repairing \ {j}
      /\ UNCHANGED <<now, process, files, touched, export, authority, slot, active, submitter,
                     worker, sweeps, retaining, delivering, lock, asked, snagged>>
  BY DEF JobsInv, SubmitRepairs, Unlocked, memory, history
<1>1. /\ process = "UP" /\ rows[j].st \in {"PENDING", "ABSENT", "CANCELLED"}
      /\ submitter.pc # "IDLE" => submitter.job # j
      /\ worker.pc # "NONE" => worker.job # j
  BY <1>0 DEF JobsInv, SubmittedRow, PhasesOK
<1>2. \A i \in Jobs : i \in repairing' <=> i \in repairing /\ i # j
  BY <1>0
<1>3. rows \in [Jobs -> Row]
  BY <1>0 DEF Shapes, TypeOK
<1>4. /\ rows' \in [Jobs -> Row] /\ \A i \in Jobs \ {j} : rows'[i] = rows[i]
      /\ rows'[j].st \in {"ABSENT", "FAILED"} /\ (rows[j].st = "ABSENT" => rows' = rows)
  <2>1. CASE rows[j].st = "ABSENT"
    BY <1>3, <2>1 DEF SubmitRepairs
  <2>2. CASE rows[j].st # "ABSENT"
    <3>1. rows' = [rows EXCEPT ![j].st = "FAILED"]
      BY <2>2 DEF SubmitRepairs
    <3>2. "FAILED" \in RowStates
      BY DEF RowStates
    <3> QED BY <1>0, <1>1, <1>3, <2>2, <3>1, <3>2, Marked
  <2> QED BY <2>1, <2>2
<1>5. Shapes'
  BY <1>0, <1>4 DEF Shapes, TypeOK
<1>6. PhasesOK' /\ SlotHasOneOwner' /\ ActiveIsOwned'
  BY <1>0, <1>1, <1>2 DEF JobsInv, PhasesOK, SlotHasOneOwner, ActiveIsOwned, Works, Closed, Alive
<1>7. SubmittedRow' /\ AnalysedRow' /\ SweepsAreRecent'
  <2>1. \A w \in Sweepers : sweeps[w].unknown \subseteq Jobs
    BY <1>0 DEF Shapes, TypeOK
  <2>2. SubmittedRow'
    BY <1>0, <1>1, <1>2, <1>4 DEF JobsInv, Shapes, SubmissionRecord, SubmittedRow
  <2>3. AnalysedRow'
    BY <1>0, <1>1, <1>4 DEF JobsInv, Shapes, AnalysedRow, Job, IsExpired
  <2>4. SweepsAreRecent'
    BY <1>0, <1>4, <2>1 DEF JobsInv, SweepsAreRecent
  <2> QED BY <2>2, <2>3, <2>4
<1>8. Unowned'
  BY <1>0, <1>1, <1>2, <1>4
     DEF JobsInv, Unowned, Excused, Submits, Works, IsExpired, Unfinished
<1>9. CompletedKeepsFrames' /\ ExportIsHere'
  BY <1>0, <1>1, <1>4 DEF JobsInv, CompletedKeepsFrames, ExportIsHere, IsExpired
<1> QED BY <1>5, <1>6, <1>7, <1>8, <1>9 DEF JobsInv
-----------------------------------------------------------------------------
(* The invariant holds, and what it says of the jobs *)

\* Nothing is recorded, held or under way at first.
LEMMA JobsInitially == Init => JobsInv
<1> SUFFICES ASSUME Init PROVE JobsInv
  OBVIOUS
<1>1. /\ now = 0 /\ process = "UP" /\ rows = [j \in Jobs |-> NoRow]
      /\ slot = FALSE /\ active = [j \in Jobs |-> "NONE"] /\ submitter = NoSubmission
      /\ worker = NoWorker /\ sweeps = [w \in Sweepers |-> NoSweep]
      /\ retaining = TRUE /\ delivering = TRUE /\ lock = TRUE /\ repairing = {}
  BY DEF Init
<1>2. \A j \in Jobs : rows[j].st = "ABSENT" /\ active[j] = "NONE"
  BY <1>1, NothingRecorded
<1>3. /\ NoSubmission \in SubmissionRecord /\ NoSubmission.pc = "IDLE"
      /\ NoWorker \in AnalysisRecord /\ NoWorker.pc = "NONE"
  BY DEF NoSubmission, NoWorker, SubmissionRecord, AnalysisRecord
<1>4. \A w \in Sweepers : sweeps[w].on = FALSE
  BY <1>1 DEF NoSweep
<1>5. Shapes
  <2>1. NoSweep \in [on : BOOLEAN, unknown : SUBSET Jobs, since : 0..MaxTime]
    BY InteractionsAssumption DEF NoSweep
  <2>2. sweeps \in [Sweepers -> [on : BOOLEAN, unknown : SUBSET Jobs, since : 0..MaxTime]]
    BY <1>1, <2>1
  <2>3. now \in 0..MaxTime /\ rows \in [Jobs -> Row]
    BY <1>1, NothingRecorded, InteractionsAssumption
  <2>4. /\ files \in [Jobs -> {"NONE", "TORN", "WHOLE"}]
        /\ touched \in [Jobs -> 0..MaxTime \cup {Never}]
        /\ authority \in [Jobs -> BOOLEAN]
        /\ export \in [Jobs -> {"NONE", "QUEUED", "WITHDRAWN"}]
        /\ active \in [Jobs -> {"NONE", "REGISTERED", "CANCELLED"}]
        /\ asked \in [Jobs -> BOOLEAN] /\ snagged \in [Jobs -> BOOLEAN]
    BY DEF Init
  <2> QED BY <1>1, <1>3, <2>2, <2>3, <2>4 DEF Shapes, TypeOK
<1>6. PhasesOK /\ SlotHasOneOwner /\ ActiveIsOwned
  BY <1>1, <1>2, <1>3, <1>4 DEF PhasesOK, SlotHasOneOwner, ActiveIsOwned, Alive
<1>7. SubmittedRow /\ AnalysedRow
  BY <1>2, <1>1, <1>3 DEF SubmittedRow, AnalysedRow
<1>8. Unowned
  BY <1>1, <1>2, <1>3 DEF Unowned, Excused, Unfinished
<1>9. SweepsAreRecent
  BY <1>4 DEF SweepsAreRecent
<1>10. CompletedKeepsFrames
  BY <1>2 DEF CompletedKeepsFrames
<1>11. ExportIsHere
  BY DEF ExportIsHere, Init
<1> QED BY <1>5, <1>6, <1>7, <1>8, <1>9, <1>10, <1>11 DEF JobsInv

\* No step of the submission, the thread, staff, a sweep or the process's life
\* breaks it.
LEMMA JobsInductive == JobsInv /\ [Next]_vars => JobsInv'
<1> SUFFICES ASSUME JobsInv, [Next]_vars PROVE JobsInv'
  OBVIOUS
<1>1. CASE Submission
  BY <1>1, SubmitCommitsKeeps, SubmitRegistersKeeps, SubmitStartsKeeps, SubmitRepairsKeeps
     DEF Submission
<1>2. CASE SubmitAborts \/ DispatchFails
  BY <1>2, SubmitAbortsKeeps, DispatchFailsKeeps
<1>3. CASE \E j \in Jobs, b \in Branches : SubmitBegins(j, b)
  BY <1>3, SubmitBeginsKeeps
<1>4. CASE Inference
  BY <1>4, WorkerStartsKeeps, WorkerReadsKeeps, WorkerPublishesKeeps, WorkerFailsKeeps,
     WorkerEndsKeeps DEF Inference
<1>5. CASE \E j \in Jobs : Cancel(j) \/ Delete(j) \/ Review(j) \/ AuthorityEnds(j)
  BY <1>5, CancelKeeps, DeleteKeeps, ReviewKeeps, AuthorityEndsKeeps
<1>6. CASE \E w \in Sweepers : Cleanup(w)
  BY <1>6, SweepBeginsKeeps, SweepEndsKeeps, SweepVisitsKeeps DEF Cleanup
<1>7. CASE Close \/ Shutdown \/ Exit
  BY <1>7, CloseKeeps, ShutdownKeeps, ExitKeeps
<1>8. CASE Restart \/ RestartFails \/ Tick
  BY <1>8, RestartKeeps, RestartFailsKeeps, TickKeeps
<1>9. CASE UNCHANGED vars
  <2>1. UNCHANGED <<now, process, rows, files, touched, export, authority, slot, active,
                    submitter, worker, sweeps, retaining, delivering, lock, repairing, asked, snagged>>
    BY <1>9 DEF vars, disk, memory, ownership, history
  <2>2. Shapes' /\ PhasesOK' /\ SlotHasOneOwner' /\ ActiveIsOwned'
    BY <2>1 DEF JobsInv, Shapes, TypeOK, PhasesOK, SlotHasOneOwner, ActiveIsOwned, Works, Alive
  <2>3. SubmittedRow' /\ AnalysedRow' /\ Unowned'
    BY <2>1 DEF JobsInv, SubmittedRow, LowValue, Present, AnalysedRow, Job, IsExpired, Unowned,
                Excused, Submits, Works
  <2>4. SweepsAreRecent' /\ CompletedKeepsFrames' /\ ExportIsHere'
    BY <2>1 DEF JobsInv, SweepsAreRecent, CompletedKeepsFrames, ExportIsHere, IsExpired
  <2> QED BY <2>2, <2>3, <2>4 DEF JobsInv
<1> QED BY <1>1, <1>2, <1>3, <1>4, <1>5, <1>6, <1>7, <1>8, <1>9 DEF Next

\* The inductive invariant of the analysis jobs, in every reachable state.
THEOREM JobsAlways == Spec => []JobsInv
BY JobsInitially, JobsInductive, PTL DEF Spec

\* The slot, an unfinished row and the database lock are each held by somebody
\* who will let go of it: submit and its repair, _run and its finally clause,
\* the janitor, and nobody after a crash.
THEOREM ThingsHeldHaveHolders == Spec => []OwnershipInv
<1>1. JobsInv => OwnershipInv
  <2> SUFFICES ASSUME JobsInv PROVE OwnershipInv
    OBVIOUS
  <2>1. TypeOK /\ SlotHasOneOwner
    BY DEF JobsInv, Shapes
  <2>2. UnfinishedHasOwner
    BY DEF JobsInv, Unowned, Excused, Submits, Works, UnfinishedHasOwner
  <2>3. LockCoversWork
    BY InteractionsAssumption DEF JobsInv, PhasesOK, LockCoversWork, Alive
  <2> QED BY <2>1, <2>2, <2>3 DEF OwnershipInv
<1> QED BY <1>1, JobsAlways, PTL

\* Completed records keep their frames, and an export never outlasts its record:
\* make_room, delete, cleanup and the two transactions of _run agree on that.
THEOREM RecordsAreWhole == Spec => []RecordsInv
<1>1. JobsInv => RecordsInv
  BY DEF JobsInv, RecordsInv
<1> QED BY <1>1, JobsAlways, PTL

-----------------------------------------------------------------------------
(* What a step may never do to a record *)

\* Only the publishing transaction completes a record, and only while nobody told
\* its thread to stop.
LEMMA OnlyThePublisherCompletes ==
  ASSUME JobsInv, [Next]_vars, NEW j \in Jobs,
         rows[j].st # "COMPLETED", rows'[j].st = "COMPLETED"
  PROVE  rows[j].st = "RUNNING" /\ active[j] = "REGISTERED"
<1> USE DEF JobsInv
<1>0. Shapes /\ NoRow.st = "ABSENT" /\ rows \in [Jobs -> Row]
  BY NothingRecorded DEF Shapes, TypeOK
<1>1. \A i \in Jobs, st \in {"CANCELLED", "FAILED", "RUNNING"} :
         rows' # [rows EXCEPT ![i].st = st]
  <2> SUFFICES ASSUME NEW i \in Jobs, NEW st \in {"CANCELLED", "FAILED", "RUNNING"},
                      rows' = [rows EXCEPT ![i].st = st]
               PROVE  FALSE
    OBVIOUS
  <2>1. st \in RowStates
    BY DEF RowStates, Unfinished
  <2> QED BY <1>0, <2>1, Marked
<1>2. worker.pc # "NONE" => Job \in Jobs
  BY <1>0 DEF Shapes, Job
<1>3. CASE WorkerPublishes
  <2>1. /\ worker.pc = "PUBLISHING" /\ Job \in Jobs
        /\ rows[Job].st \in {"RUNNING", "ABSENT", "CANCELLED"} /\ active[Job] # "NONE"
    BY <1>3 DEF WorkerPublishes, Shapes, AnalysedRow, ActiveIsOwned, Job
  <2>2. ~LeftAlone(rows[Job].st)
    BY <1>3 DEF WorkerPublishes
  <2>3. \A i \in Jobs \ {Job} : rows'[i] = rows[i]
    BY <1>0, <1>3 DEF WorkerPublishes, WorkerCancels
  <2>4. j = Job
    BY <2>3
  <2>5. ~WorkerCancels
    BY <1>1, <2>1 DEF WorkerCancels
  <2>6. MayGoOn
    BY <1>3, <2>2, <2>5, <2>4 DEF WorkerPublishes
  <2>7. active[Job] \in {"NONE", "REGISTERED", "CANCELLED"}
    BY <1>0, <2>1 DEF Shapes, TypeOK
  <2> QED BY <2>1, <2>2, <2>4, <2>6, <2>7 DEF LeftAlone, MayGoOn
<1>4. CASE WorkerStarts
  BY <1>1, <1>2, <1>4 DEF WorkerStarts, WorkerCancels
<1>5. CASE WorkerFails
  BY <1>1, <1>2, <1>5 DEF WorkerFails
<1>6. CASE SubmitCommits
  <2>1. \A r \in Row, b \in Branches \cup {Never}, t \in Nat :
          [r EXCEPT !.st = "PENDING", !.branch = b, !.expires = t].st = "PENDING"
    BY DEF Row
  <2> QED BY <1>0, <1>6, <2>1, NothingRecorded DEF SubmitCommits
<1>7. CASE \E i \in Jobs : SubmitRepairs(i)
  BY <1>0, <1>7 DEF SubmitRepairs
<1>8. CASE \E i \in Jobs : Cancel(i) \/ Delete(i) \/ Review(i)
  <2>1. \A r \in Row : [r EXCEPT !.reviewed = TRUE].st = r.st
    BY DEF Row
  <2>2. PICK i \in Jobs : Cancel(i) \/ Delete(i) \/ Review(i)
    BY <1>8
  <2>3. CASE Review(i)
    BY <1>0, <2>1, <2>3 DEF Review
  <2>4. CASE Cancel(i) \/ Delete(i)
    BY <1>0, <1>1, <2>4 DEF Cancel, Delete
  <2> QED BY <2>2, <2>3, <2>4
<1>9. CASE \E w \in Sweepers : SweepBegins(w)
  BY <1>0, <1>9 DEF SweepBegins
<1>10. CASE Restart
  BY <1>0, <1>10 DEF Restart, Recovers
<1>11. CASE UNCHANGED rows
  BY <1>11
<1> QED BY <1>3, <1>4, <1>5, <1>6, <1>7, <1>8, <1>9, <1>10, <1>11
        DEF Next, Submission, Inference, Cleanup, Shutdown, vars, disk, SubmitRegisters,
            SubmitStarts, SubmitAborts, DispatchFails, SubmitBegins, WorkerReads, WorkerAnalyses,
            WorkerEnds, AuthorityEnds, SweepVisits, SweepEnds, Close, JanitorEnds, CloseEnds,
            DeliveryStops, Exit, RestartFails, Tick

\* What was stopped is never published.
THEOREM NothingStoppedIsPublished == Spec => StoppedIsNotPublished
<1>1. JobsInv /\ [Next]_vars =>
        [\A j \in Jobs :
           rows[j].st # "COMPLETED" /\ rows'[j].st = "COMPLETED" =>
             rows[j].st = "RUNNING" /\ active[j] = "REGISTERED"]_vars
  BY OnlyThePublisherCompletes
<1> QED BY <1>1, JobsAlways, PTL DEF Spec, StoppedIsNotPublished

\* A record that goes before it expires and unasked is one that a new sample of
\* its branch rolled off.
LEMMA OnlyLowValueGoes ==
  ASSUME JobsInv, [Next]_vars, NEW j \in Jobs,
         rows[j].st # "ABSENT", rows'[j].st = "ABSENT", ~IsExpired(j), ~asked'[j]
  PROVE  /\ ~rows[j].reviewed
         /\ rows[j].st \notin Unfinished
         /\ rows[j].st = "COMPLETED" => rows[j].low
         /\ \E o \in Jobs : rows'[o].st = "PENDING" /\ rows'[o].branch = rows[j].branch
<1> USE DEF JobsInv
<1>0. Shapes /\ NoRow.st = "ABSENT" /\ rows \in [Jobs -> Row]
  BY NothingRecorded DEF Shapes, TypeOK
<1>1. \A i \in Jobs, st \in RowStates \ {"ABSENT"} : rows' # [rows EXCEPT ![i].st = st]
  BY <1>0, Marked
<1>2. {"CANCELLED", "FAILED", "RUNNING"} \subseteq RowStates
  BY DEF RowStates, Unfinished
<1>3. worker.pc # "NONE" => Job \in Jobs
  BY <1>0 DEF Shapes, Job
<1>4. \A r \in Row, low \in BOOLEAN :
        /\ [r EXCEPT !.reviewed = TRUE].st = r.st
        /\ [r EXCEPT !.st = "COMPLETED", !.low = low].st = "COMPLETED"
  BY DEF Row
<1>5. CASE SubmitCommits
  <2> DEFINE fresh == [NoRow EXCEPT !.st = "PENDING", !.branch = submitter.branch,
                                    !.expires = now + Retention]
  <2>1. \A r \in Row, b \in Branches, t \in Nat :
          LET q == [r EXCEPT !.st = "PENDING", !.branch = b, !.expires = t]
          IN  q.st = "PENDING" /\ q.branch = b
    BY DEF Row
  <2>2. /\ submitter.job \in Jobs /\ submitter.branch \in Branches
        /\ submitter.rolled \subseteq LowValue(submitter.branch)
    BY <1>5 DEF SubmitCommits, Shapes, SubmittedRow
  <2>3. now + Retention \in Nat
    BY <1>0, JobTypes
  <2>4. fresh.st = "PENDING" /\ fresh.branch = submitter.branch
    BY <2>1, <2>2, <2>3, NothingRecorded
  <2>5. rows' = [i \in Jobs |-> IF i = submitter.job THEN fresh
                                ELSE IF i \in submitter.rolled THEN NoRow ELSE rows[i]]
    BY <1>5 DEF SubmitCommits
  <2> HIDE DEF fresh
  <2>6. j \in submitter.rolled
    BY <2>4, <2>5
  <2>7. rows'[submitter.job].st = "PENDING" /\ rows'[submitter.job].branch = submitter.branch
    BY <2>2, <2>4, <2>5
  <2>8. /\ rows[j].branch = submitter.branch /\ ~rows[j].reviewed
        /\ rows[j].st \in {"FAILED", "CANCELLED"} \/ (rows[j].st = "COMPLETED" /\ rows[j].low)
    BY <2>2, <2>6 DEF LowValue
  <2> QED BY <2>2, <2>7, <2>8 DEF Unfinished
<1>6. CASE WorkerStarts \/ WorkerFails
  BY <1>0, <1>1, <1>2, <1>3, <1>6 DEF WorkerStarts, WorkerCancels, WorkerFails
<1>7. CASE WorkerPublishes
  <2>1. worker.pc # "NONE" /\ Job \in Jobs
    BY <1>3, <1>7 DEF WorkerPublishes
  <2>2. PICK low \in BOOLEAN : rows' = [rows EXCEPT ![Job] = [@ EXCEPT !.st = "COMPLETED", !.low = low]]
    BY <1>1, <1>2, <1>7, <2>1 DEF WorkerPublishes, WorkerCancels
  <2> QED BY <1>0, <1>4, <2>1, <2>2
<1>8. CASE \E i \in Jobs : SubmitRepairs(i)
  BY <1>1, <1>2, <1>8 DEF SubmitRepairs
<1>9. CASE \E i \in Jobs : Cancel(i) \/ Review(i)
  <2>1. PICK i \in Jobs : Cancel(i) \/ Review(i)
    BY <1>9
  <2>2. CASE Cancel(i)
    BY <1>1, <1>2, <2>2 DEF Cancel
  <2>3. CASE Review(i)
    BY <1>0, <1>4, <2>3 DEF Review
  <2> QED BY <2>1, <2>2, <2>3
<1>10. CASE \E i \in Jobs : Delete(i)
  BY <1>0, <1>10 DEF Delete, Shapes, TypeOK
<1>11. CASE \E w \in Sweepers : SweepBegins(w)
  BY <1>0, <1>11 DEF SweepBegins, ExpireRows
<1>12. CASE Restart
  <2>1. \A r \in Row : [r EXCEPT !.st = "FAILED"].st = "FAILED"
    BY DEF Row
  <2> QED BY <1>0, <1>12, <2>1 DEF Restart, Recovers
<1>13. CASE UNCHANGED rows
  BY <1>13
<1> QED BY <1>5, <1>6, <1>7, <1>8, <1>9, <1>10, <1>11, <1>12, <1>13
        DEF Next, Submission, Inference, Cleanup, Shutdown, vars, disk, SubmitRegisters,
            SubmitStarts, SubmitAborts, DispatchFails, SubmitBegins, WorkerReads, WorkerAnalyses,
            WorkerEnds, AuthorityEnds, SweepVisits, SweepEnds, Close, JanitorEnds, CloseEnds,
            DeliveryStops, Exit, RestartFails, Tick

\* Pressure never costs what staff reviewed, what may be a concealment or what
\* belongs to another branch.
THEOREM ProtectedRecordsStay == Spec => ProtectedKept
<1>1. JobsInv /\ [Next]_vars =>
        [\A j \in Jobs :
           /\ rows[j].st # "ABSENT" /\ rows'[j].st = "ABSENT"
           /\ ~IsExpired(j) /\ ~asked'[j]
           => /\ ~rows[j].reviewed
              /\ rows[j].st \notin Unfinished
              /\ rows[j].st = "COMPLETED" => rows[j].low
              /\ \E o \in Jobs : rows'[o].st = "PENDING" /\ rows'[o].branch = rows[j].branch]_vars
  BY OnlyLowValueGoes
<1> QED BY <1>1, JobsAlways, PTL DEF Spec, ProtectedKept

-----------------------------------------------------------------------------
(***************************************************************************)
(* Maintenance of the cloud (Maintenance)                                  *)
(*                                                                         *)
(* Cursors never skip a device, for any number of servers and devices and any *)
(* size of a pass.  The argument is about the pass in progress: it has been to *)
(* everything up to its place, and what it has still to do leaves no gap behind *)
(* its place, so that the cursor it may publish is covered.                *)
(***************************************************************************)

-----------------------------------------------------------------------------
(* The inductive invariant *)

Worker ==
  [at : {"OFF", "WAITING", "PASS"}, cursor : Nat, stopping : BOOLEAN, place : Nat,
   todo : SUBSET Devices, cleaned : SUBSET Devices, passed : SUBSET Devices]

\* Every device up to a place is in a round.
Covered(place, r) == \A d \in Devices : d <= place => d \in r

\* Nothing between the place and a device still to do is left out.
NoGap(place, todo) ==
  \A e \in todo : e > place /\ \A d \in Devices : place < d /\ d < e => d \in todo

Sound(w, r) ==
  /\ w \in Worker
  /\ Covered(w.cursor, r)
  /\ w.at = "PASS" => Covered(w.place, w.passed) /\ NoGap(w.place, w.todo)

MaintenanceIInv ==
  /\ workers \in [Servers -> Worker]
  /\ round \in [Servers -> SUBSET Devices]
  /\ \A s \in Servers : Sound(workers[s], round[s])
  /\ OnePass

-----------------------------------------------------------------------------
(* What the operators on a worker return *)

\* A worker between passes is sound where its cursor is.
LEMMA RestingSound ==
  ASSUME NEW at \in {"OFF", "WAITING"}, NEW cursor \in Nat, NEW stopping \in BOOLEAN, NEW r,
         Covered(cursor, r)
  PROVE  Sound(Resting(at, cursor, stopping), r) /\ Resting(at, cursor, stopping).at = at
<1>1. Resting(at, cursor, stopping) \in Worker
  BY DEF Resting, Worker
<1> QED BY <1>1 DEF Resting, Sound

\* Nothing is to be covered up to the beginning.
LEMMA BeginningCovered == ASSUME NEW r PROVE Covered(0, r)
BY MaintenanceAssumption DEF Covered

\* A pass's worth of devices begins right behind the place: who is among them
\* has fewer than a pass's worth before it, and so has whoever is before it.
LEMMA AfterHasNoGap ==
  ASSUME NEW place \in Nat
  PROVE  After(place) \subseteq Devices /\ NoGap(place, After(place))
<1> DEFINE later == {d \in Devices : d > place}
           before(d) == {e \in later : e < d}
<1>1. After(place) = {d \in later : Cardinality(before(d)) < DevicesPerPass}
  BY DEF After
<1>2. ASSUME NEW e \in After(place), NEW d \in Devices, place < d, d < e
      PROVE  d \in After(place)
  <2>1. IsFiniteSet(before(e))
    BY FS_Subset, MaintenanceAssumption
  <2>2. before(d) \in SUBSET before(e)
    <3> SUFFICES ASSUME NEW x \in later, x < d PROVE x < e
      OBVIOUS
    <3>1. x \in Nat /\ d \in Nat /\ e \in Nat
      BY <1>1, MaintenanceAssumption
    <3> QED BY <1>2, <3>1
  <2>3. Cardinality(before(d)) <= Cardinality(before(e))
        /\ Cardinality(before(d)) \in Nat /\ Cardinality(before(e)) \in Nat
    BY <2>1, <2>2, FS_Subset, FS_CardinalityType
  <2>4. Cardinality(before(e)) < DevicesPerPass
    BY <1>1
  <2>5. Cardinality(before(d)) < DevicesPerPass
    <3> HIDE DEF before
    <3> QED BY <2>3, <2>4, MaintenanceAssumption
  <2>6. d \in later
    BY <1>2
  <2> QED BY <1>1, <2>5, <2>6
<1>3. \A e \in After(place) : e \in Devices /\ e > place
  BY <1>1
<1> QED BY <1>2, <1>3 DEF NoGap

\* The next device is behind no device that is left out, so the pass may
\* call everything up to it passed.
LEMMA PastSound ==
  ASSUME NEW w, NEW r, NEW d \in Devices, NEW cleaned \in SUBSET Devices,
         Sound(w, r), w.at = "PASS", NextDevice(w, d)
  PROVE  Sound(Past(w, d, cleaned), r) /\ Past(w, d, cleaned).at = "PASS"
<1> DEFINE p == Past(w, d, cleaned)
<1>0. w \in Worker /\ Covered(w.cursor, r) /\ Covered(w.place, w.passed) /\ NoGap(w.place, w.todo)
  BY DEF Sound
<1>1. d \in Nat /\ w.place \in Nat
  BY <1>0, MaintenanceAssumption DEF Worker
<1>2. p \in Worker /\ p.at = "PASS" /\ p.cursor = w.cursor /\ p.place = d
      /\ p.todo = w.todo \ {d} /\ p.passed = w.passed \cup {d}
  BY <1>0, <1>1 DEF Past, Worker
<1>3. Covered(d, w.passed \cup {d})
  <2> SUFFICES ASSUME NEW e \in Devices, e <= d, e # d PROVE e \in w.passed
    BY DEF Covered
  <2>1. e \in Nat /\ e < d
    BY <1>1, MaintenanceAssumption
  <2>2. CASE e <= w.place
    BY <1>0, <2>2 DEF Covered
  <2>3. CASE w.place < e
    <3>1. e \in w.todo
      BY <1>0, <2>1, <2>3 DEF NoGap, NextDevice
    <3>2. d <= e
      BY <3>1 DEF NextDevice
    <3> QED BY <1>1, <2>1, <3>2
  <2> QED BY <1>1, <2>1, <2>2, <2>3
<1>4. NoGap(d, w.todo \ {d})
  <2> SUFFICES ASSUME NEW e \in w.todo \ {d}
               PROVE  e > d /\ \A f \in Devices : d < f /\ f < e => f \in w.todo \ {d}
    BY DEF NoGap
  <2>1. e \in Devices /\ e \in Nat /\ d <= e
    BY <1>0, MaintenanceAssumption DEF NextDevice, Worker
  <2>2. e > d
    BY <1>1, <2>1
  <2>3. d \in w.todo /\ d > w.place
    BY <1>0 DEF NextDevice, NoGap
  <2>4. ASSUME NEW f \in Devices, d < f, f < e PROVE f \in w.todo \ {d}
    <3>1. f \in Nat
      BY MaintenanceAssumption
    <3>2. w.place < f /\ f # d
      BY <1>1, <2>3, <2>4, <3>1
    <3> QED BY <1>0, <2>4, <3>2 DEF NoGap
  <2> QED BY <2>2, <2>4
<1> HIDE DEF p
<1>5. Sound(p, r)
  BY <1>0, <1>2, <1>3, <1>4 DEF Sound
<1> QED BY <1>2, <1>5 DEF p

\* A step of one server replaces its worker, and its round if at all.
LEMMA OneServerMoves ==
  ASSUME MaintenanceIInv, NEW s \in Servers, NEW w, NEW r \in SUBSET Devices, Turn(s, w), Sound(w, r),
         round' = [round EXCEPT ![s] = r],
         w.at = "PASS" <=> owner' = s,
         owner' = owner \/ {owner, owner'} \subseteq {s, Vacant}
  PROVE  MaintenanceIInv'
<1>1. workers' = [workers EXCEPT ![s] = w] /\ w \in Worker
  BY DEF Turn, Sound
<1>2. workers' \in [Servers -> Worker] /\ round' \in [Servers -> SUBSET Devices]
  BY <1>1 DEF MaintenanceIInv
<1>3. workers'[s] = w /\ round'[s] = r
      /\ \A t \in Servers \ {s} : workers'[t] = workers[t] /\ round'[t] = round[t]
  BY <1>1 DEF MaintenanceIInv
<1>4. \A t \in Servers : Sound(workers'[t], round'[t])
  BY <1>3 DEF MaintenanceIInv
<1>5. \A t \in Servers : workers'[t].at = "PASS" <=> owner' = t
  <2> TAKE t \in Servers
  <2>1. CASE t = s
    BY <1>3, <2>1
  <2>2. CASE t # s
    BY <1>3, <2>2, MaintenanceAssumption DEF MaintenanceIInv, OnePass
  <2> QED BY <2>1, <2>2
<1>6. (\A t \in Servers : Sound(workers[t], round[t]))'
  BY <1>4 DEF Sound, Covered, NoGap, Worker
<1> QED BY <1>2, <1>5, <1>6 DEF MaintenanceIInv, OnePass

\* What is true of every server's worker and round.
LEMMA OneServer ==
  ASSUME MaintenanceIInv, NEW s \in Servers
  PROVE  /\ Sound(workers[s], round[s]) /\ workers[s] \in Worker
         /\ round[s] \in SUBSET Devices /\ round = [round EXCEPT ![s] = round[s]]
         /\ workers[s].at = "PASS" <=> owner = s
         /\ s # Vacant
BY MaintenanceAssumption DEF MaintenanceIInv, Sound, OnePass

-----------------------------------------------------------------------------
(* Every step keeps the invariant *)

\* Nobody has begun.
LEMMA MaintenanceInitially == MaintenanceInit => MaintenanceIInv
<1> SUFFICES ASSUME MaintenanceInit PROVE MaintenanceIInv
  OBVIOUS
<1>1. \A s \in Servers : workers[s] = Resting("OFF", 0, FALSE) /\ round[s] = {}
  BY DEF MaintenanceInit
<1>2. \A s \in Servers : Sound(workers[s], round[s]) /\ workers[s].at = "OFF"
  BY <1>1, RestingSound, BeginningCovered
<1>3. workers \in [Servers -> Worker] /\ round \in [Servers -> SUBSET Devices]
  BY <1>2 DEF MaintenanceInit, Sound
<1>4. OnePass
  BY <1>2, MaintenanceAssumption DEF OnePass, MaintenanceInit
<1> QED BY <1>2, <1>3, <1>4 DEF MaintenanceIInv

\* A thread that starts, a pass that begins, goes on, commits or fails, a
\* thread that is stopped or ends, and a server that dies.
LEMMA ServerKeeps ==
  ASSUME MaintenanceIInv, NEW s \in Servers,
         \/ Work(s) \/ VisitFails(s) \/ BudgetEnds(s) \/ PassFails(s)
         \/ StopThread(s) \/ ServerDies(s)
  PROVE  MaintenanceIInv'
<1> DEFINE w == workers[s]
<1>0. /\ Sound(w, round[s]) /\ w \in Worker /\ Covered(w.cursor, round[s])
      /\ w.cursor \in Nat /\ w.stopping \in BOOLEAN /\ w.place \in Nat
      /\ round[s] \in SUBSET Devices /\ round = [round EXCEPT ![s] = round[s]]
      /\ w.at = "PASS" <=> owner = s
      /\ s # Vacant
  BY OneServer DEF Sound, Worker
<1>1. CASE StartThread(s)
  <2>1. Sound(Resting("WAITING", w.cursor, FALSE), round[s])
        /\ Resting("WAITING", w.cursor, FALSE).at = "WAITING"
    BY <1>0, RestingSound
  <2> QED BY <1>0, <1>1, <2>1, OneServerMoves DEF StartThread
<1>2. CASE BeginPass(s)
  <2> DEFINE from == BeginsAt(w.cursor)
             r == IF from = 0 THEN {} ELSE round[s]
             b == [at |-> "PASS", cursor |-> w.cursor, stopping |-> FALSE, place |-> from,
                   todo |-> After(from), cleaned |-> {}, passed |-> r]
  <2>1. from \in Nat /\ (from # 0 => from = w.cursor)
    BY <1>0 DEF BeginsAt
  <2>2. Covered(from, r)
    BY <1>0, <2>1, BeginningCovered
  <2>3. After(from) \subseteq Devices /\ NoGap(from, After(from))
    BY <2>1, AfterHasNoGap
  <2>4. r \in SUBSET Devices
    BY <1>0
  <2>5. Turn(s, b) /\ owner' = s /\ owner = Vacant /\ round' = round
    BY <1>2 DEF BeginPass
  <2> HIDE DEF from, r
  <2>6. b \in Worker
    BY <1>0, <2>1, <2>3, <2>4 DEF Worker
  <2>7. Sound(b, round[s]) /\ b.at = "PASS"
    BY <1>0, <2>2, <2>3, <2>6 DEF Sound
  <2> QED BY <1>0, <2>5, <2>7, OneServerMoves
<1>3. CASE Visit(s) \/ VisitFails(s)
  <2>1. w.at = "PASS" /\ owner' = owner /\ round' = round
    BY <1>3 DEF Visit, VisitFails
  <2>2. w.cleaned \in SUBSET Devices
    BY <1>0 DEF Worker
  <2>3. PICK d \in Devices, cleaned \in SUBSET Devices :
          NextDevice(w, d) /\ Turn(s, Past(w, d, cleaned))
    BY <1>3, <2>2 DEF Visit, VisitFails
  <2>4. Sound(Past(w, d, cleaned), round[s]) /\ Past(w, d, cleaned).at = "PASS"
    BY <1>0, <2>1, <2>3, PastSound
  <2> QED BY <1>0, <2>1, <2>3, <2>4, OneServerMoves
<1>4. CASE BudgetEnds(s)
  <2> DEFINE b == [w EXCEPT !.todo = {}]
  <2>1. b \in Worker /\ b.at = w.at /\ b.cursor = w.cursor /\ b.place = w.place
        /\ b.passed = w.passed /\ b.todo = {}
    BY <1>0 DEF Worker
  <2>2. Turn(s, b) /\ owner' = owner /\ round' = round
    BY <1>4 DEF BudgetEnds
  <2> HIDE DEF b
  <2>3. Sound(b, round[s])
    BY <1>0, <2>1 DEF Sound, NoGap
  <2> QED BY <1>0, <2>1, <2>2, <2>3, OneServerMoves
<1>5. CASE CommitPass(s)
  <2>1. w.at = "PASS" /\ Turn(s, Advanced(w)) /\ owner' = Vacant
        /\ round' = [round EXCEPT ![s] = w.passed]
    BY <1>5 DEF CommitPass
  <2>2. Covered(w.place, w.passed) /\ w.passed \in SUBSET Devices
    BY <1>0, <2>1 DEF Sound, Worker
  <2>3. Sound(Advanced(w), w.passed) /\ Advanced(w).at = "WAITING"
    BY <1>0, <2>2, RestingSound DEF Advanced
  <2> QED BY <1>0, <2>1, <2>2, <2>3, OneServerMoves
<1>6. CASE PassFails(s)
  <2>1. Turn(s, AbandonedPass(w)) /\ w.at = "PASS" /\ owner' = Vacant /\ round' = round
    BY <1>6 DEF PassFails
  <2>2. Sound(AbandonedPass(w), round[s]) /\ AbandonedPass(w).at = "WAITING"
    BY <1>0, RestingSound DEF AbandonedPass
  <2> QED BY <1>0, <2>1, <2>2, OneServerMoves
<1>7. CASE StopThread(s)
  <2> DEFINE b == [w EXCEPT !.stopping = TRUE]
  <2>1. b \in Worker /\ b.at = w.at /\ b.cursor = w.cursor /\ b.place = w.place
        /\ b.passed = w.passed /\ b.todo = w.todo
    BY <1>0 DEF Worker
  <2>2. Turn(s, b) /\ owner' = owner /\ round' = round
    BY <1>7 DEF StopThread
  <2> HIDE DEF b
  <2>3. Sound(b, round[s])
    BY <1>0, <2>1 DEF Sound
  <2> QED BY <1>0, <2>1, <2>2, <2>3, OneServerMoves
<1>8. CASE ThreadEnds(s)
  <2>1. Turn(s, Resting("OFF", w.cursor, FALSE)) /\ round' = round
        /\ owner' = IF owner = s THEN Vacant ELSE owner
    BY <1>8 DEF ThreadEnds
  <2>2. Sound(Resting("OFF", w.cursor, FALSE), round[s])
        /\ Resting("OFF", w.cursor, FALSE).at = "OFF"
    BY <1>0, RestingSound
  <2> QED BY <1>0, <2>1, <2>2, OneServerMoves
<1>9. CASE ServerDies(s)
  <2>1. Turn(s, Resting("OFF", 0, FALSE)) /\ round' = [round EXCEPT ![s] = {}]
        /\ owner' = IF owner = s THEN Vacant ELSE owner
    BY <1>9 DEF ServerDies
  <2>2. Sound(Resting("OFF", 0, FALSE), {}) /\ Resting("OFF", 0, FALSE).at = "OFF"
    BY RestingSound, BeginningCovered
  <2>3. owner' # s /\ (owner' = owner \/ {owner, owner'} \subseteq {s, Vacant})
    BY <1>0, <2>1
  <2>4. {} \in SUBSET Devices
    OBVIOUS
  <2> QED BY <2>1, <2>2, <2>3, <2>4, OneServerMoves
<1> QED BY <1>1, <1>2, <1>3, <1>4, <1>5, <1>6, <1>7, <1>8, <1>9 DEF Work

\* Other transactions, and rows that fall due, touch no pass.
LEMMA MaintenanceInductive == MaintenanceIInv /\ [MaintenanceNext]_maintenanceVars => MaintenanceIInv'
<1> SUFFICES ASSUME MaintenanceIInv, [MaintenanceNext]_maintenanceVars
             PROVE  MaintenanceIInv'
  OBVIOUS
<1>1. CASE UNCHANGED <<workers, owner, round>>
  BY <1>1 DEF MaintenanceIInv, OnePass, Sound, Covered, NoGap, Worker
<1>2. ASSUME NEW d \in Devices, Lock(d) \/ Unlock(d) \/ FallDue(d)
      PROVE  UNCHANGED <<workers, owner, round>>
  BY <1>2 DEF Lock, Unlock, FallDue
<1>3. UNCHANGED maintenanceVars => UNCHANGED <<workers, owner, round>>
  BY DEF maintenanceVars
<1> QED BY <1>1, <1>2, <1>3, ServerKeeps DEF MaintenanceNext

-----------------------------------------------------------------------------
(* The theorems *)

\* At no time do two servers' passes run, whichever fails, is stopped or dies.
THEOREM PassesExclude == MaintenanceSpec => []OnePass
<1>1. MaintenanceIInv => OnePass
  BY DEF MaintenanceIInv
<1> QED BY MaintenanceInitially, MaintenanceInductive, <1>1, PTL DEF MaintenanceSpec

\* A cursor is never ahead of the committed passes since its round began.
THEOREM CursorsSkipNothing == MaintenanceSpec => []RoundIsComplete
<1>1. MaintenanceIInv => RoundIsComplete
  BY DEF MaintenanceIInv, Sound, Covered, RoundIsComplete
<1> QED BY MaintenanceInitially, MaintenanceInductive, <1>1, PTL DEF MaintenanceSpec

\* The two invariants together, as the run checks them.
THEOREM MaintenanceIsSound == MaintenanceSpec => []MaintenanceInv
BY PassesExclude, CursorsSkipNothing, PTL DEF MaintenanceInv
=============================================================================
