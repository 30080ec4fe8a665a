---------------------------- MODULE CloudEvidence ----------------------------
(***************************************************************************)
(* Encrypted evidence in the cloud (src/services/cloud/evidence_sync.py    *)
(* and evidence_cleanup.py): the rows of CloudSources beside the object    *)
(* store (evidence_r2.py).  No store request runs inside a transaction, so *)
(* an upload is a transaction, a store request, a second transaction and,  *)
(* when the evidence was lost meanwhile, a compensating delete; a cleanup  *)
(* pass is a transaction, a delete per object and a transaction.  Other    *)
(* requests, other instances' passes and crashes come between the steps.   *)
(* Contents always match their manifest, and envelopes always open.        *)
(***************************************************************************)
EXTENDS CloudSources, FiniteSetsExt

CONSTANTS
  Uploads,   \* threads that may serve an upload at the same time
  Cleaners,  \* instances running EvidenceCleanup: the advisory lock covers
             \* only the first transaction of a pass
  Batch,     \* batch_size
  Backoff,   \* the delay before a failed delete is tried again (one second
             \* to one hour in the code, by the number of failures)
  Broken,    \* evidence whose envelope the store never manages to delete
  CalmFrom   \* from this time on no crash and no other store failure happens

ASSUME EvidenceAssumption ==
  /\ Batch \in Nat \ {0} /\ Backoff \in Nat \ {0} /\ CalmFrom \in Nat
  /\ Broken \subseteq Evidence

VARIABLES
  blobs,     \* evidence whose envelope is in the store
  uploads,   \* the upload each thread is serving
  cleaners,  \* the pass each instance is making
  abandoned  \* history: evidence an upload left without knowing what is stored
evars == <<vars, blobs, uploads, cleaners, abandoned>>

Idle == [pc |-> "IDLE"]
Upload == {Idle} \cup [pc : {"STORING", "DECIDING", "REMOVING"},
                       of : Evidence, seen : {"PENDING", "AVAILABLE"}]
Pass == {Idle} \cup [pc : {"DELETING"}, todo : SUBSET Evidence,
                     removed : SUBSET Evidence, failed : SUBSET Evidence]

Trouble == now < CalmFrom

Row(e) == db.evidence[e]
At(h, pc) == uploads[h].pc = pc
Moves(h, pc) == uploads' = [uploads EXCEPT ![h].pc = pc]
Returns(h) == uploads' = [uploads EXCEPT ![h] = Idle]

-----------------------------------------------------------------------------
(* upload *)

\* A decision that believes what the first transaction saw.
LostUnseen(e) == Expires[SourceOf[e]] <= now

\* The evidence was revoked, deleted or outlived while it was stored.
Lost(e) == Row(e).st \in {"REVOKED", "DELETED"} \/ Expires[SourceOf[e]] <= now

\* The first transaction: an evidence that can still be uploaded.
UploadBegin(h, e) ==
  LET d == MarkDue(db, now)
  IN /\ At(h, "IDLE") /\ authorised
     /\ e \in DOMAIN d.evidence
     /\ d.evidence[e].st \in {"PENDING", "AVAILABLE"}
     /\ db' = d
     /\ uploads' = [uploads EXCEPT ![h] =
          [pc |-> "STORING", of |-> e, seen |-> d.evidence[e].st]]
     /\ UNCHANGED <<now, authorised, withdrawn, blobs, cleaners, abandoned>>

\* The store holds the envelope: put by this upload, or found there and equal.
UploadStore(h) ==
  /\ At(h, "STORING")
  /\ \/ uploads[h].seen = "PENDING" /\ blobs' = blobs \cup {uploads[h].of}
     \/ uploads[h].seen = "AVAILABLE" /\ uploads[h].of \in blobs /\ blobs' = blobs
  /\ Moves(h, "DECIDING")
  /\ UNCHANGED <<vars, cleaners, abandoned>>

\* The envelope is not there to compare with: 503.  It was uploaded, or the
\* put found it, and was deleted before it could be read.
UploadMissing(h) ==
  LET e == uploads[h].of
  IN /\ At(h, "STORING") /\ e \notin blobs
     /\ uploads[h].seen = "PENDING" /\ e \in DOMAIN db.evidence => Lost(e)
     /\ Returns(h)
     /\ UNCHANGED <<vars, blobs, cleaners, abandoned>>

\* The store answers nothing, and may have stored the envelope: 503.
UploadFails(h) ==
  /\ At(h, "STORING") /\ Trouble
  /\ IF uploads[h].seen = "PENDING"
     THEN /\ blobs' \in {blobs, blobs \cup {uploads[h].of}}
          /\ abandoned' = abandoned \cup {uploads[h].of}
     ELSE UNCHANGED <<blobs, abandoned>>
  /\ Returns(h)
  /\ UNCHANGED <<vars, cleaners>>

\* The second transaction publishes the evidence.
UploadPublishes(h) ==
  LET e == uploads[h].of
  IN /\ At(h, "DECIDING") /\ authorised
     /\ e \in DOMAIN db.evidence /\ ~Lost(e)
     /\ db' = [db EXCEPT !.evidence = Put(db.evidence, e, [Row(e) EXCEPT !.st = "AVAILABLE"])]
     /\ Returns(h)
     /\ UNCHANGED <<now, authorised, withdrawn, blobs, cleaners, abandoned>>

\* ... or finds it lost, and goes on to delete the envelope.
UploadWithdraws(h) ==
  LET e == uploads[h].of
  IN /\ At(h, "DECIDING") /\ authorised
     /\ e \in DOMAIN db.evidence /\ Lost(e)
     /\ Moves(h, "REMOVING")
     /\ UNCHANGED <<vars, blobs, cleaners, abandoned>>

\* ... or fails: the device was revoked (401) or the row is gone (404).
UploadRefused(h) ==
  LET e == uploads[h].of
  IN /\ At(h, "DECIDING")
     /\ ~authorised \/ e \notin DOMAIN db.evidence
     /\ Returns(h)
     /\ abandoned' = abandoned \cup {e}
     /\ UNCHANGED <<vars, blobs, cleaners>>

UploadRemoves(h) ==
  LET e == uploads[h].of
  IN /\ At(h, "REMOVING")
     /\ \/ /\ e \notin Broken
           /\ blobs' = blobs \ {e}
           /\ abandoned' = abandoned
        \/ /\ Trouble \/ e \in Broken  \* the failure is swallowed
           /\ blobs' = blobs
           /\ abandoned' = abandoned \cup {e}
     /\ Returns(h)
     /\ UNCHANGED <<vars, cleaners>>

-----------------------------------------------------------------------------
(* EvidenceCleanup.run_once *)

Waiting(d, t) ==
  {e \in DOMAIN d.evidence : /\ d.evidence[e].st = "REVOKED"
                             /\ d.evidence[e].retry = None \/ d.evidence[e].retry <= t}

\* ORDER BY COALESCE(delete_retry_at, revoked_at), revoked_at, id
Earlier(d, e, f) ==
  LET due(x) == IF d.evidence[x].retry # None THEN d.evidence[x].retry
                ELSE d.evidence[x].revoked
  IN \/ due(e) < due(f)
     \/ due(e) = due(f) /\ d.evidence[e].revoked <= d.evidence[f].revoked

FirstOf(n, S) == kSubset(IF Cardinality(S) < n THEN Cardinality(S) ELSE n, S)

\* The batches of a pass that forgets what was tried before.
NextBatchesUntried(d, t) ==
  LET revoked == {e \in DOMAIN d.evidence : d.evidence[e].st = "REVOKED"}
  IN {batch \in FirstOf(Batch, revoked) :
        \A e \in batch, f \in revoked \ batch : d.evidence[e].revoked <= d.evidence[f].revoked}

\* The batches a pass may take: what is waiting longest, ids breaking ties.
NextBatches(d, t) ==
  {batch \in FirstOf(Batch, Waiting(d, t)) :
     \A e \in batch, f \in Waiting(d, t) \ batch : Earlier(d, e, f)}

\* The first transaction revokes what is due, a batch of it (another
\* transaction's rows are skipped while there is trouble), and takes the
\* batch of revoked evidence that is longest due.
CleanBegin(c) ==
  LET due == {e \in DOMAIN db.evidence : IsDue(db, e, now)}
  IN /\ cleaners[c] = Idle
     /\ \E revoked \in FirstOf(Batch, due) \cup (IF Trouble THEN {{}} ELSE {}) :
          LET d == Revoke(db, revoked, now)
          IN /\ db' = d
             /\ \E batch \in NextBatches(d, now) :
                  cleaners' = IF batch = {} THEN cleaners
                              ELSE [cleaners EXCEPT ![c] =
                                [pc |-> "DELETING", todo |-> batch,
                                 removed |-> {}, failed |-> {}]]
     /\ UNCHANGED <<now, authorised, withdrawn, blobs, uploads, abandoned>>

\* One delete; one that fails may still have deleted.
CleanDelete(c, e) ==
  /\ cleaners[c].pc = "DELETING" /\ e \in cleaners[c].todo
  /\ \/ /\ e \notin Broken
        /\ blobs' = blobs \ {e}
        /\ cleaners' = [cleaners EXCEPT ![c].todo = cleaners[c].todo \ {e},
                                        ![c].removed = cleaners[c].removed \cup {e}]
     \/ /\ \/ e \in Broken /\ blobs' = blobs
           \/ Trouble /\ e \notin Broken /\ blobs' \in {blobs, blobs \ {e}}
        /\ cleaners' = [cleaners EXCEPT ![c].todo = cleaners[c].todo \ {e},
                                        ![c].failed = cleaners[c].failed \cup {e}]
  /\ UNCHANGED <<vars, uploads, abandoned>>

\* The row after the second transaction of a pass.
Recorded(row, e, pass) ==
  IF row.st # "REVOKED" THEN row
  ELSE IF e \in pass.removed THEN [row EXCEPT !.st = "DELETED"]
  ELSE IF e \in pass.failed THEN [row EXCEPT !.retry = now + Backoff]
  ELSE row

CleanRecord(c) ==
  /\ cleaners[c].pc = "DELETING" /\ cleaners[c].todo = {}
  /\ db' = [db EXCEPT !.evidence =
       [e \in DOMAIN db.evidence |-> Recorded(Row(e), e, cleaners[c])]]
  /\ cleaners' = [cleaners EXCEPT ![c] = Idle]
  /\ UNCHANGED <<now, authorised, withdrawn, blobs, uploads, abandoned>>

\* The database is unavailable before the pass is recorded.
CleanFails(c) ==
  /\ cleaners[c].pc = "DELETING" /\ Trouble
  /\ cleaners' = [cleaners EXCEPT ![c] = Idle]
  /\ UNCHANGED <<vars, blobs, uploads, abandoned>>

-----------------------------------------------------------------------------

\* The service dies with every request and pass it was serving.
Crash ==
  /\ Trouble
  /\ uploads' = [h \in Uploads |-> Idle]
  /\ cleaners' = [c \in Cleaners |-> Idle]
  /\ abandoned' = abandoned \cup {uploads[h].of : h \in {i \in Uploads : uploads[i] # Idle}}
  /\ UNCHANGED <<vars, blobs>>

EvidenceInit ==
  /\ Init
  /\ blobs = {}
  /\ uploads = [h \in Uploads |-> Idle]
  /\ cleaners = [c \in Cleaners |-> Idle]
  /\ abandoned = {}

EvidenceNext ==
  \/ Next /\ UNCHANGED <<blobs, uploads, cleaners, abandoned>>
  \/ \E h \in Uploads :
       \/ \E e \in Evidence : UploadBegin(h, e)
       \/ UploadStore(h) \/ UploadMissing(h) \/ UploadFails(h)
       \/ UploadPublishes(h) \/ UploadWithdraws(h) \/ UploadRefused(h)
       \/ UploadRemoves(h)
  \/ \E c \in Cleaners :
       \/ CleanBegin(c)
       \/ \E e \in Evidence : CleanDelete(c, e)
       \/ CleanRecord(c) \/ CleanFails(c)
  \/ Crash

EvidenceSpec == EvidenceInit /\ [][EvidenceNext]_evars

\* A request that is being served runs on, the passes are made every interval
\* and run on, maintenance comes round to the device, and time passes.
FairEvidenceSpec ==
  /\ EvidenceSpec
  /\ \A h \in Uploads :
       WF_evars(\/ UploadStore(h) \/ UploadMissing(h) \/ UploadPublishes(h)
                \/ UploadWithdraws(h) \/ UploadRefused(h) \/ UploadRemoves(h))
  /\ \A c \in Cleaners :
       WF_evars(CleanBegin(c) \/ CleanRecord(c) \/ \E e \in Evidence : CleanDelete(c, e))
  /\ WF_evars(Maintain /\ UNCHANGED <<blobs, uploads, cleaners, abandoned>>)
  /\ WF_evars(Tick /\ UNCHANGED <<blobs, uploads, cleaners, abandoned>>)

-----------------------------------------------------------------------------
(* Properties *)

EvidenceTypeOK ==
  /\ TypeOK
  /\ blobs \subseteq Evidence
  /\ uploads \in [Uploads -> Upload]
  /\ cleaners \in [Cleaners -> Pass]
  /\ abandoned \subseteq Evidence

\* Evidence the laptop was told is READY and staff may open is in the store,
\* whatever other uploads of it, passes and compensating deletes were doing.
AvailableIsStored ==
  \A e \in DOMAIN db.evidence :
    Row(e).st = "AVAILABLE" /\ Expires[SourceOf[e]] > now => e \in blobs

\* An envelope in the store is one the cleanup still has to reach, or one a
\* running upload answers for, unless an upload was cut short: every other
\* path through the two transactions leaves nothing behind.
StoredIsTracked ==
  \A e \in blobs \ abandoned :
    \/ e \in DOMAIN db.evidence /\ Row(e).st # "DELETED"
    \/ \E h \in Uploads : uploads[h] # Idle /\ uploads[h].of = e

\* "Cleanup marks evidence revoked, commits, deletes the R2 object outside the
\* database transaction, then conditionally records deletion"
\* (docs/release/cloud-evidence-r2.md): once no upload is running, evidence
\* recorded DELETED is not in the store.
DeletedIsNotStored ==
  \A e \in DOMAIN db.evidence :
    /\ Row(e).st = "DELETED"
    /\ \A h \in Uploads : uploads[h] # Idle => uploads[h].of # e
    => e \notin blobs

\* The next try of a failed delete lies beyond the modelled time.
TriedBeyondTime(e) == e \in DOMAIN db.evidence /\ Row(e).retry > MaxTime

\* Envelopes do not outlive their source: each is gone for good in the end,
\* even while the store keeps failing to delete another one, unless an upload
\* of it was cut short.
EnvelopesGoAway ==
  \A e \in Evidence \ Broken :
    <>[](e \notin blobs \/ e \in abandoned \/ TriedBeyondTime(e))

\* "Unreviewed source shells without an incident are deleted"
\* (docs/release/device-sync-lifecycle.md): a purged alert no staff worked on
\* does not stay.
UnreviewedShellsGoAway ==
  \A s \in Sources :
    s \in DOMAIN db.alerts /\ db.alerts[s].purged /\ ~db.alerts[s].reviewed
      ~> s \notin DOMAIN db.alerts

\* Rows and store agree both ways round: what a row offers is stored, and what
\* is stored has a row or an upload that will remove it.
EvidenceInv == EvidenceTypeOK /\ AvailableIsStored /\ StoredIsTracked
=============================================================================
