----------------------------- MODULE MediaOutbox -----------------------------
(***************************************************************************)
(* The media queue beside the outbox (src/services/api/                    *)
(* cloud_media_outbox.py): at most one overview picture per observation,   *)
(* sent as a manifest and then its content, under the same send            *)
(* reservation, only while its parent observation is received.  A media    *)
(* row references its parent row (foreign key), and the delivery pass      *)
(* (cloud_delivery.py: _reconcile and the claims of run_once, one          *)
(* transaction) mirrors the parent's end into it before pruning the parent.*)
(***************************************************************************)
EXTENDS Outbox

CONSTANTS
  MediaRetain,   \* 30 * DAY_MS in reconcile
  EvidenceIds,   \* bound: evidence identifiers the control plane issues
  MaxMediaClaims \* bound: media claims issued in a behaviour

ASSUME MediaAssumption ==
  /\ MediaRetain \in Nat /\ MediaRetain <= Retain
  /\ EvidenceIds \subseteq Nat
  /\ MaxMediaClaims \in Nat

VARIABLES
  media,     \* cloud_media_items, "NONE" where the row is absent
  uploads,   \* every MediaClaim handed out, in order; `after' (history) is how
             \* many observation and withdrawal claims came before it
  pass       \* the binding whose pass is between _reconcile and its claims,
             \* still in one transaction; None outside

mediaVars == <<media, uploads>>
allVars == <<vars, media, uploads, pass>>

MediaLeased == {"LEASED_MANIFEST", "LEASED_CONTENT"}
MediaPending == {"PENDING_MANIFEST", "PENDING_CONTENT"}
\* EXPIRED is CANCELLED with another reason.
MediaSettled == {"CANCELLED", "WITHDRAWN"}
MediaStates == MediaLeased \cup MediaPending \cup MediaSettled
                 \cup {"NONE", "READY", "BLOCKED"}

MediaItem == [st : MediaStates, ever : BOOLEAN, created : Nat, next : Nat,
              token : NatOrNone, until : NatOrNone, gen : NatOrNone,
              evidence : NatOrNone, terminal : NatOrNone]

NoMedia == [st |-> "NONE", ever |-> FALSE, created |-> 0, next |-> 0,
            token |-> None, until |-> None, gen |-> None,
            evidence |-> None, terminal |-> None]

MediaClaim == [source : Sources, token : Nat, gen : Nat, at : Nat, until : Nat,
               after : Nat, fate : {"OPEN", "SETTLED"}]

Quiet == pass = None

MediaInit ==
  /\ Init
  /\ media = [s \in Sources |-> NoMedia]
  /\ uploads = <<>>
  /\ pass = None

-----------------------------------------------------------------------------
(* Rows *)

Bare(m) == [m EXCEPT !.token = None, !.until = None, !.gen = None]

Stamped(m, t) == IF m.terminal = None THEN t ELSE m.terminal

\* _sync_parent of one row: its parent p, as the transaction sees it.
Mirrored(m, p, t) ==
  IF m.st = "NONE" THEN m
  ELSE IF p.st = "WITHDRAWN"
  THEN IF m.st = "WITHDRAWN" THEN m
       ELSE [Bare(m) EXCEPT !.st = "WITHDRAWN", !.terminal = Stamped(m, t)]
  ELSE IF /\ m.st \notin {"READY", "WITHDRAWN", "BLOCKED"}
          /\ p.op = "WITHDRAWAL" \/ p.st \in {"CANCELLED", "EXPIRED", "BLOCKED"}
  THEN [Bare(m) EXCEPT !.st = "CANCELLED", !.terminal = Stamped(m, t)]
  ELSE m

Mirrors(b, rows, t) ==
  [s \in Sources |-> IF BindingOf[s] = b THEN Mirrored(media[s], rows[s], t) ELSE media[s]]

\* claim gives back the leases of b that ran out.
MediaSwept(b, rows, t) ==
  LET m == Mirrors(b, rows, t) IN
  [s \in Sources |->
     IF BindingOf[s] = b /\ m[s].st \in MediaLeased /\ m[s].until <= t
     THEN [Bare(m[s]) EXCEPT !.st = IF m[s].st = "LEASED_MANIFEST"
                                    THEN "PENDING_MANIFEST" ELSE "PENDING_CONTENT"]
     ELSE m[s]]

\* reconcile: mirror the parents, then delete what is long settled.
Reconciled(b, t) ==
  LET m == Mirrors(b, items, t) IN
  [s \in Sources |->
     IF /\ BindingOf[s] = b /\ m[s].st \in MediaSettled
        /\ m[s].terminal # None /\ m[s].terminal <= t - MediaRetain
     THEN NoMedia ELSE m[s]]

\* What prune_terminal would delete is still referenced by media: the statement
\* fails, and with it the whole pass.
StillReferenced(b, t) ==
  \E s \in Prunable(b, t) : Reconciled(b, t)[s].st # "NONE"

-----------------------------------------------------------------------------
(* Publication and the delivery pass *)

\* CloudHooks.publish: enqueue, then enqueue_overview, whose failure is ignored.
MediaPublish(s, t) ==
  /\ Quiet
  /\ Enqueue(s, t)
  /\ \/ UNCHANGED media
     \/ /\ media[s].st = "NONE" /\ items'[s].op = "OBSERVATION"
        /\ media' = [media EXCEPT ![s] =
             [NoMedia EXCEPT !.st = "PENDING_MANIFEST", !.created = t, !.next = t]]
  /\ UNCHANGED <<uploads, pass>>

\* _reconcile's last two calls.
ReconcilePass(b, t) ==
  /\ Quiet
  /\ bindings[b].st = "ACTIVE"
  /\ ~StillReferenced(b, t)
  /\ PruneTerminal(b, t)
  /\ media' = Reconciled(b, t)
  /\ pass' = b
  /\ UNCHANGED uploads

\* Outbox.claim finds something to send.
PassClaims(s, t, lease) ==
  /\ ~Quiet
  /\ t = bindings[pass].clock
  /\ ClaimOne(pass, s, t, lease)
  /\ pass' = None
  /\ UNCHANGED mediaVars

\* Media that is sent before the cloud has its observation.
MediaDueEarly(b, t, rows, m) ==
  {s \in Sources : /\ BindingOf[s] = b /\ m[s].st \in MediaPending /\ m[s].next <= t
                   /\ Deadline[s] > t /\ rows[s].op = "OBSERVATION"}

MediaDue(b, t, rows, m) ==
  {s \in Sources : /\ BindingOf[s] = b /\ m[s].st \in MediaPending /\ m[s].next <= t
                   /\ Deadline[s] > t
                   /\ rows[s].op = "OBSERVATION" /\ rows[s].st = "RECEIVED"}

\* A media claim that does not ask who holds the reservation.
ReservedNever(t) == FALSE

\* MediaOutbox.claim's `held'
MediaReserved(t) == Reserved(t)

\* Neither queue has anything to send.
PassClaimsNothing(t) ==
  /\ ~Quiet
  /\ t = bindings[pass].clock
  /\ ClaimNothing(pass, t)
  /\ MediaReserved(t) \/ MediaDue(pass, t, items', MediaSwept(pass, items', t)) = {}
  /\ media' = MediaSwept(pass, items', t)
  /\ pass' = None
  /\ UNCHANGED uploads

\* Tokens are fresh; those of media are told apart by their range.
MediaToken == MaxClaims + Len(uploads) + 1

\* MediaOutbox.claim, after Outbox.claim found nothing due.
PassClaimsMedia(s, t, lease) ==
  LET rows == Swept(pass, t)
      m == MediaSwept(pass, rows, t)
      until == Smaller(t + lease, Deadline[s])
  IN
  /\ ~Quiet
  /\ t = bindings[pass].clock
  /\ bindings[pass].st = "ACTIVE"
  /\ Reserved(t) \/ Due(pass, t, rows) = {}
  /\ ~MediaReserved(t)
  /\ Len(uploads) < MaxMediaClaims
  /\ s \in MediaDue(pass, t, rows, m)
  /\ \A o \in MediaDue(pass, t, rows, m) : m[s].created <= m[o].created
  /\ Touch(pass, t)
  /\ items' = rows
  /\ media' = [m EXCEPT ![s] =
       [m[s] EXCEPT !.st = IF m[s].st = "PENDING_MANIFEST"
                           THEN "LEASED_MANIFEST" ELSE "LEASED_CONTENT",
                    !.ever = TRUE, !.token = MediaToken, !.until = until,
                    !.gen = bindings[pass].gen]]
  /\ capacity' = [token |-> MediaToken, until |-> until]
  /\ uploads' = Append(uploads, [source |-> s, token |-> MediaToken,
       gen |-> bindings[pass].gen, at |-> t, until |-> until,
       after |-> Len(claims), fate |-> "OPEN"])
  /\ pass' = None
  /\ UNCHANGED claims

-----------------------------------------------------------------------------
(* Settlement: run_once ends every pass with the claim it began with, under an *)
(* unchanged context (_settle_media); it reads a clock that may have gone back.*)

LatestUpload(n) == n = Len(uploads) /\ uploads[n].after = Len(claims)
LatestClaim(n) == n = Len(claims) /\ \A u \in DOMAIN uploads : uploads[u].after < n

\* MediaOutbox._lease
HoldsMedia(n, t) ==
  LET u == uploads[n]
      m == media[u.source]
  IN
  /\ Quiet /\ LatestUpload(n)
  /\ bindings[BindingOf[u.source]].st = "ACTIVE"
  /\ bindings[BindingOf[u.source]].gen = u.gen
  /\ m.st \in MediaLeased /\ m.token = u.token /\ m.gen = u.gen
  /\ m.until > t

SettleUpload(n, t, m) ==
  /\ HoldsMedia(n, t)
  /\ media' = [media EXCEPT ![uploads[n].source] = m]
  /\ capacity' = IF capacity.token = uploads[n].token THEN NoCapacity ELSE capacity
  /\ uploads' = [uploads EXCEPT ![n].fate = "SETTLED"]
  /\ UNCHANGED <<bindings, items, claims, pass>>

MediaRetry(n, t, delay) ==
  LET m == media[uploads[n].source] IN
  SettleUpload(n, t, [Bare(m) EXCEPT !.next = t + delay,
    !.st = IF m.st = "LEASED_MANIFEST" THEN "PENDING_MANIFEST" ELSE "PENDING_CONTENT"])

\* acknowledge_manifest: the control plane has the content already, or wants it.
AcknowledgeManifest(n, t, evidence, uploadRequired) ==
  LET m == media[uploads[n].source] IN
  /\ m.st = "LEASED_MANIFEST"
  /\ m.evidence \in {None, evidence}
  /\ SettleUpload(n, t, [Bare(m) EXCEPT !.evidence = evidence, !.next = t,
       !.st = IF uploadRequired THEN "PENDING_CONTENT" ELSE "READY",
       !.terminal = IF uploadRequired THEN None ELSE t])

AcknowledgeContent(n, t) ==
  LET m == media[uploads[n].source] IN
  /\ m.st = "LEASED_CONTENT"
  /\ SettleUpload(n, t, [Bare(m) EXCEPT !.st = "READY", !.terminal = t])

MediaReject(n, t) ==
  SettleUpload(n, t, [Bare(media[uploads[n].source]) EXCEPT !.st = "BLOCKED", !.terminal = t])

\* The control plane refuses the device.
MediaRevoked(n, t) ==
  /\ HoldsMedia(n, t)
  /\ PauseKeyless(BindingOf[uploads[n].source])
  /\ UNCHANGED <<mediaVars, pass>>

-----------------------------------------------------------------------------
(* Everything else *)

\* mark_restored, called at the end of the outbox's own.
MediaRestoring(m, t) ==
  IF m.st \in {"NONE", "WITHDRAWN"} THEN m
  ELSE IF m.ever \/ m.evidence # None
  THEN [Bare(m) EXCEPT !.st = "BLOCKED", !.terminal = None]
  ELSE IF m.st \in {"READY", "BLOCKED"} THEN m
  ELSE [Bare(m) EXCEPT !.st = "CANCELLED", !.terminal = t]

MediaRestore(t) ==
  /\ Quiet
  /\ MarkRestored(t)
  /\ media' = [s \in Sources |-> MediaRestoring(media[s], t)]
  /\ UNCHANGED <<uploads, pass>>

\* The outbox's operations that take no notice of media.
ParentStep(t) ==
  /\ Quiet
  /\ \/ \E b \in Bindings :
          \/ CreateBinding(b, t) \/ Pause(b, t) \/ Resume(b, t) \/ PauseKeyless(b)
          \/ Disconnect(b, FALSE, t)
     \/ \E s \in Sources, reason \in Reasons : Withdraw(s, reason, t)
     \/ \E n \in DOMAIN claims : LatestClaim(n) /\ SettlementStep(n, t)
  /\ UNCHANGED <<mediaVars, pass>>

UploadStep(n, t) ==
  \/ \E delay \in Delays : MediaRetry(n, t, delay)
  \/ \E evidence \in EvidenceIds, uploadRequired \in BOOLEAN :
       AcknowledgeManifest(n, t, evidence, uploadRequired)
  \/ AcknowledgeContent(n, t) \/ MediaReject(n, t) \/ MediaRevoked(n, t)

PassStep(t) ==
  \/ \E b \in Bindings : ReconcilePass(b, t)
  \/ \E s \in Sources, lease \in Leases : PassClaims(s, t, lease) \/ PassClaimsMedia(s, t, lease)
  \/ PassClaimsNothing(t)

MediaNext ==
  \E t \in Times :
    \/ PassStep(t) \/ ParentStep(t) \/ MediaRestore(t)
    \/ \E s \in Sources : MediaPublish(s, t)
    \/ \E n \in DOMAIN uploads : UploadStep(n, t)

MediaSpec == MediaInit /\ [][MediaNext]_allVars

-----------------------------------------------------------------------------
(* Properties *)

MediaTypeOK ==
  /\ media \in [Sources -> MediaItem]
  /\ uploads \in Seq(MediaClaim)
  /\ pass \in Bindings \cup {None}
  /\ \A n \in DOMAIN uploads : uploads[n].token = MaxClaims + n
  /\ \A s \in Sources : (media[s].st \in MediaLeased) = (media[s].token # None)

Over(c, t) ==
  \/ c.fate # "OPEN" \/ c.until <= t
  \/ bindings[BindingOf[c.source]].st = "RESTORED"

\* The two queues share one reservation: a picture, an observation and a
\* withdrawal are never under way together, though parents are withdrawn and
\* connections paused in the middle of an upload, and though only the pass that
\* finds no other work gives a lapsed media lease back.  Each request is over
\* when the next one is issued, whichever queue either comes from: two uploads
\* with no claim between them, a claim after an upload, an upload after a claim.
\* (Only the next one: another binding's clock may start behind.)
RequestsNeverOverlap ==
  /\ \A n \in DOMAIN uploads :
       n > 1 /\ uploads[n - 1].after = uploads[n].after
         => Over(uploads[n - 1], uploads[n].at)
  /\ \A n \in DOMAIN uploads, k \in DOMAIN claims :
       /\ k = uploads[n].after + 1 /\ (\A m \in DOMAIN uploads : m > n => uploads[m].after >= k)
            => Over(uploads[n], claims[k].at)
       /\ k = uploads[n].after /\ (\A m \in DOMAIN uploads : m < n => uploads[m].after < k)
            => Over(claims[k], uploads[n].at)

\* A picture is sent only of an observation the cloud has acknowledged, and what
\* was sent of it stays covered by that observation's row, which is still
\* received or owes, or has had, its withdrawal: withdrawing observations is
\* enough to have the pictures removed.  A picture that says it was withdrawn was.
MediaCoveredByParent ==
  \A s \in Sources :
    /\ media[s].ever =>
         /\ items[s].obsReceipt # None
         /\ items[s].st = "RECEIVED" \/ items[s].op = "WITHDRAWAL"
    /\ media[s].st = "WITHDRAWN" => items[s].st = "WITHDRAWN"

\* The comment in reconcile: settled media is removed one day before its parent,
\* so that its foreign key can never block the parent's pruning.
ForeignKeyNeverBlocksPruning ==
  \A b \in Bindings, t \in Times :
    bindings[b].st = "ACTIVE" /\ t >= bindings[b].clock => ~StillReferenced(b, t)

\* In states of the right shape, every picture that was ever sent is covered.
MediaInv == MediaTypeOK /\ MediaCoveredByParent
=============================================================================
