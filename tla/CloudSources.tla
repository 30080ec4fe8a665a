---------------------------- MODULE CloudSources ----------------------------
(***************************************************************************)
(* What the cloud control service keeps of one laptop's observations       *)
(* (src/services/cloud/device_sync.py, the manifest of evidence_sync.py,   *)
(* and the legacy intake and staff review of control_operations.py): a     *)
(* receipt per source, an alert while staff may see it, and a row per      *)
(* piece of evidence.  Every handler is one PostgreSQL transaction under   *)
(* the organisation and device locks, so it is one step; a handler that    *)
(* fails rolls back whatever it did, its opportunistic cleanup included,   *)
(* and is a disabled step.  The service's clock and the database's are one.*)
(***************************************************************************)
EXTENDS Integers, FiniteSets, Functions

CONSTANTS
  Sources,       \* source event identifiers of this device
  Occurred,      \* occurred_at of the source's observation
  Expires,       \* expires_at of the source's observation
  Evidence,      \* pieces of evidence, UNIQUE(device_id, source_event_id, kind)
  SourceOf,      \* the source a piece of evidence belongs to
  Day,           \* 24 hours: the longest lifetime, and the window of a quota
  Skew,          \* five minutes: how far in the future a capture may lie
  Replay,        \* 30 days: how old a new observation may be
  Keep,          \* 31 days: how long a settled receipt is kept
  PendingFor,    \* 15 minutes: how long a manifest waits for its content
  DailyIntake,   \* DAILY_INTAKE_LIMIT, the same number in receive_alert
  DailyUnknown,  \* DAILY_UNKNOWN_WITHDRAWAL_LIMIT
  MaxReceipts,   \* MAX_RECEIPTS
  MaxTime        \* bound: the last reading of the clock

None == -1       \* SQL NULL, in timestamp columns

ASSUME SourceAssumption ==
  /\ Occurred \in [Sources -> Nat]
  /\ Expires \in [Sources -> Nat]
  \* Observation.lifetime refuses any other expiry
  /\ \A s \in Sources : Occurred[s] < Expires[s] /\ Expires[s] <= Occurred[s] + Day
  /\ SourceOf \in [Evidence -> Sources]

ASSUME TimeAssumption ==
  /\ Day \in Nat /\ Skew \in Nat /\ Replay \in Nat /\ Keep \in Nat
  /\ PendingFor \in Nat /\ MaxTime \in Nat
  \* REPLAY_DAYS = 31 against the 30 days of the intake window
  /\ Replay + Skew <= Keep

ASSUME LimitAssumption ==
  DailyIntake \in Nat /\ DailyUnknown \in Nat /\ MaxReceipts \in Nat

VARIABLES
  now,        \* the wall clock
  db,         \* the database: tables receipts, alerts and evidence, each a
              \* function from the keys of the rows that are there
  authorised, \* the device is not revoked and its pharmacy is active
  withdrawn   \* history: sources whose withdrawal was answered
vars == <<now, db, authorised, withdrawn>>

-----------------------------------------------------------------------------
(* Rows *)

NatOrNone == Nat \cup {None}
EvidenceStates == {"PENDING", "AVAILABLE", "REVOKED", "DELETED"}

Receipt == [hash : BOOLEAN, expires : NatOrNone, withdrawn : NatOrNone,
            first : BOOLEAN, created : Nat]
Alert == [legacy : BOOLEAN, withdrawn : NatOrNone, purged : BOOLEAN,
          reviewed : BOOLEAN, received : Nat]
EvidenceRow == [st : EvidenceStates, created : Nat,
                revoked : NatOrNone, retry : NatOrNone]

Put(table, key, row) ==
  [k \in DOMAIN table \cup {key} |-> IF k = key THEN row ELSE table[k]]

\* source_expires_at of an alert has passed; a legacy alert has none.
IsOver(d, s, t) == ~d.alerts[s].legacy /\ Expires[s] <= t

\* source_available_sql: staff may see the alert.
Shown(d, s, t) ==
  /\ s \in DOMAIN d.alerts
  /\ d.alerts[s].withdrawn = None
  /\ ~d.alerts[s].purged
  /\ ~IsOver(d, s, t)

IsDue(d, e, t) ==
  \/ d.evidence[e].st \in {"PENDING", "AVAILABLE"} /\ Expires[SourceOf[e]] <= t
  \/ d.evidence[e].st = "PENDING" /\ d.evidence[e].created < t - PendingFor

Revoke(d, es, t) ==
  [d EXCEPT !.evidence =
     [e \in DOMAIN d.evidence |->
        IF e \in es THEN [d.evidence[e] EXCEPT !.st = "REVOKED", !.revoked = t]
                    ELSE d.evidence[e]]]

\* mark_due_evidence; fewer rows are due than its limit of 100.
MarkDue(d, t) == Revoke(d, {e \in DOMAIN d.evidence : IsDue(d, e, t)}, t)

\* The evidence of s whose envelope may still be stored.
Held(d, s) == {e \in DOMAIN d.evidence : SourceOf[e] = s /\ d.evidence[e].st # "DELETED"}

\* _purge_alerts: the source's details go, and so does the row unless staff
\* worked on it or its evidence is not deleted yet; the evidence rows of a
\* deleted alert go with it (ON DELETE CASCADE).
Purge(d, ids) ==
  LET kept == {s \in DOMAIN d.alerts : \/ s \notin ids
                                       \/ d.alerts[s].reviewed
                                       \/ Held(d, s) # {}}
  IN [d EXCEPT
        !.alerts = [s \in kept |->
           IF s \in ids THEN [d.alerts[s] EXCEPT !.purged = TRUE] ELSE d.alerts[s]],
        !.evidence = Restrict(d.evidence, {e \in DOMAIN d.evidence : SourceOf[e] \in kept})]

Settled(r) == IF r.withdrawn # None THEN r.withdrawn ELSE r.expires

\* Receipts go Keep after the first withdrawal, else after the expiry.
Pruned(d, t) ==
  [d EXCEPT !.receipts = Restrict(d.receipts,
     {s \in DOMAIN d.receipts : Settled(d.receipts[s]) = None
                                \/ Settled(d.receipts[s]) >= t - Keep})]

\* cleanup_device_sources; fewer rows are due than its limit of 100.
Cleaned(d, t) ==
  LET m == MarkDue(d, t)
      over == {s \in DOMAIN m.alerts : /\ ~m.alerts[s].purged
                                       /\ \/ m.alerts[s].withdrawn # None
                                          \/ IsOver(m, s, t)}
  IN Pruned(Purge(m, over), t)

RecentReceipts(d, t) == {s \in DOMAIN d.receipts : d.receipts[s].created > t - Day}
RecentAlerts(d, t) == {s \in DOMAIN d.alerts : d.alerts[s].received > t - Day}

\* _quota
IntakeAllowed(d, t) ==
  /\ Cardinality(DOMAIN d.receipts) < MaxReceipts
  /\ Cardinality(RecentReceipts(d, t) \cup RecentAlerts(d, t)) < DailyIntake

UnknownAllowed(d, t) ==
  /\ Cardinality(DOMAIN d.receipts) < MaxReceipts
  /\ Cardinality({s \in RecentReceipts(d, t) : d.receipts[s].first}) < DailyUnknown

-----------------------------------------------------------------------------
(* The laptop's requests *)

\* The capture is not too far in the future.
Captured(s) == Occurred[s] <= now + Skew

\* ... and is inside the replay window.
Recent(s) == Occurred[s] >= now - Replay

\* observation, of a source with a receipt: a receipt made by a withdrawal
\* learns the payload, and nothing is shown again.
ObserveAgain(s) ==
  /\ authorised /\ Captured(s)
  /\ s \in DOMAIN db.receipts
  /\ LET r == db.receipts[s]
         known == IF r.hash THEN r ELSE [r EXCEPT !.hash = TRUE, !.expires = Expires[s]]
     IN db' = Cleaned([db EXCEPT !.receipts = Put(db.receipts, s, known)], now)
  /\ UNCHANGED <<now, authorised, withdrawn>>

\* observation, of a source never heard of.
Observe(s) ==
  /\ authorised /\ Captured(s) /\ Recent(s)
  /\ s \notin DOMAIN db.receipts \cup DOMAIN db.alerts
  /\ LET d == Cleaned(db, now)
         receipt == [hash |-> TRUE, expires |-> Expires[s], withdrawn |-> None,
                     first |-> FALSE, created |-> now]
         alert == [legacy |-> FALSE, withdrawn |-> None, purged |-> FALSE,
                   reviewed |-> FALSE, received |-> now]
     IN /\ IntakeAllowed(d, now)
        /\ db' = [d EXCEPT
             !.receipts = Put(d.receipts, s, receipt),
             !.alerts = IF Expires[s] > now THEN Put(d.alerts, s, alert) ELSE d.alerts]
  /\ UNCHANGED <<now, authorised, withdrawn>>

\* receive_alert of the legacy protocol; a repeat changes nothing.
ReceiveAlert(s) ==
  /\ authorised /\ Captured(s) /\ Recent(s)
  /\ s \notin DOMAIN db.receipts \cup DOMAIN db.alerts
  /\ Cardinality(RecentAlerts(db, now)) < DailyIntake
  /\ db' = [db EXCEPT !.alerts = Put(db.alerts, s,
               [legacy |-> TRUE, withdrawn |-> None, purged |-> FALSE,
                reviewed |-> FALSE, received |-> now])]
  /\ UNCHANGED <<now, authorised, withdrawn>>

\* A withdrawal that leaves nothing behind for a source never heard of.
WithdrawnIfKnown(d, s, t) ==
  IF s \notin DOMAIN d.receipts THEN d
  ELSE [d EXCEPT !.receipts = Put(d.receipts, s, [d.receipts[s] EXCEPT !.withdrawn = t])]

\* The receipt of a withdrawal: repeats keep the first time.
WithdrawnReceipt(d, s, t) ==
  IF s \notin DOMAIN d.receipts
  THEN [d EXCEPT !.receipts = Put(d.receipts, s,
          [hash |-> FALSE, expires |-> None, withdrawn |-> t, first |-> TRUE, created |-> t])]
  ELSE IF d.receipts[s].withdrawn = None
  THEN [d EXCEPT !.receipts = Put(d.receipts, s, [d.receipts[s] EXCEPT !.withdrawn = t])]
  ELSE d

\* The alert of a withdrawal, and its evidence.
WithdrawnAlert(d, s, t) ==
  IF s \notin DOMAIN d.alerts THEN d
  ELSE LET unfinished == {e \in Held(d, s) : d.evidence[e].st # "REVOKED"}
           a == d.alerts[s]
           first == IF a.withdrawn = None THEN t ELSE a.withdrawn
           r == Revoke(d, unfinished, t)
       IN Purge([r EXCEPT !.alerts = Put(r.alerts, s, [a EXCEPT !.withdrawn = first])], {s})

\* withdrawal; a laptop withdraws only what it captured.
Withdraw(s) ==
  /\ authorised /\ Captured(s)
  /\ s \in DOMAIN db.receipts \cup DOMAIN db.alerts \/ UnknownAllowed(Cleaned(db, now), now)
  /\ db' = Cleaned(WithdrawnAlert(WithdrawnReceipt(db, s, now), s, now), now)
  /\ withdrawn' = withdrawn \cup {s}
  /\ UNCHANGED <<now, authorised>>

\* manifest: a repeat only marks what is due; a refused one rolls even that back.
Manifest(e) ==
  LET s == SourceOf[e]
      d == MarkDue(db, now)
  IN /\ authorised
     /\ s \in DOMAIN d.receipts \cap DOMAIN d.alerts
     /\ d.receipts[s].withdrawn = None
     /\ d.receipts[s].expires # None /\ d.receipts[s].expires > now
     /\ e \in DOMAIN d.evidence => d.evidence[e].st \in {"PENDING", "AVAILABLE"}
     /\ db' = IF e \in DOMAIN d.evidence THEN d
              ELSE [d EXCEPT !.evidence = Put(d.evidence, e,
                      [st |-> "PENDING", created |-> now, revoked |-> None, retry |-> None])]
     /\ UNCHANGED <<now, authorised, withdrawn>>

-----------------------------------------------------------------------------
(* Staff, maintenance and time *)

\* review, with or without an incident: staff work hangs on the alert.
Review(s) ==
  /\ Shown(db, s, now) /\ ~db.alerts[s].reviewed
  /\ db' = [db EXCEPT !.alerts = Put(db.alerts, s, [db.alerts[s] EXCEPT !.reviewed = TRUE])]
  /\ UNCHANGED <<now, authorised, withdrawn>>

\* One device of a pass of SourceMaintenance, the device authorised or not; a
\* pass that finds the locks taken, runs out of time or fails changes nothing.
Maintain ==
  /\ db' = Cleaned(db, now)
  /\ UNCHANGED <<now, authorised, withdrawn>>

\* Staff revoke the device.
RevokeDevice ==
  /\ authorised
  /\ authorised' = FALSE
  /\ UNCHANGED <<now, db, withdrawn>>

Tick ==
  /\ now < MaxTime
  /\ now' = now + 1
  /\ UNCHANGED <<db, authorised, withdrawn>>

Request == \/ \E s \in Sources : \/ Observe(s) \/ ObserveAgain(s) \/ ReceiveAlert(s)
                                 \/ Withdraw(s)
           \/ \E e \in Evidence : Manifest(e)

NoRows == [k \in {} |-> None]

Init ==
  /\ now = 0
  /\ db = [receipts |-> NoRows, alerts |-> NoRows, evidence |-> NoRows]
  /\ authorised = TRUE
  /\ withdrawn = {}

Next ==
  \/ Request
  \/ \E s \in Sources : Review(s)
  \/ Maintain
  \/ RevokeDevice
  \/ Tick

Spec == Init /\ [][Next]_vars

-----------------------------------------------------------------------------
(* Properties *)

Table(f, keys, rows) == DOMAIN f \subseteq keys /\ f \in [DOMAIN f -> rows]

Tables(d) ==
  /\ d = [receipts |-> d.receipts, alerts |-> d.alerts, evidence |-> d.evidence]
  /\ Table(d.receipts, Sources, Receipt)
  /\ Table(d.alerts, Sources, Alert)
  /\ Table(d.evidence, Evidence, EvidenceRow)
  /\ \A e \in DOMAIN d.evidence : SourceOf[e] \in DOMAIN d.alerts

\* Every table holds rows of its own shape, and only the alert of a source
\* carries its evidence: the foreign key of evidence_objects is never broken
\* by the order in which a purge deletes alerts and evidence.
TypeOK ==
  /\ now \in Nat
  /\ Tables(db)
  /\ authorised \in BOOLEAN
  /\ withdrawn \subseteq Sources

\* A source whose withdrawal was answered is never shown to staff again:
\* not by a late or repeated observation, not through the legacy intake, and
\* not after the receipt that remembers the withdrawal is pruned (the 31 days
\* of a receipt against the 30 days of the intake).
WithdrawnStaysWithdrawn == \A s \in withdrawn : ~Shown(db, s, now)

=============================================================================
