----------------------------- MODULE CloudProofs -----------------------------
(***************************************************************************)
(* What a shop's laptop and its staff rely on in the cloud, for every value *)
(* of the constants: a withdrawn source is never shown again (CloudSources), *)
(* and the rows of its evidence agree with the object store, whatever the   *)
(* uploads and cleanup passes of any number of instances and their crashes  *)
(* come between (CloudEvidence).                                            *)
(***************************************************************************)
EXTENDS CloudEvidence, FiniteSetTheorems, TLAPS

-----------------------------------------------------------------------------
(***************************************************************************)
(* Observations and withdrawals (CloudSources)                             *)
(*                                                                         *)
(* A withdrawal is remembered by its receipt, and once the receipt was     *)
(* pruned, by the source being older than what may be replayed.            *)
(***************************************************************************)

-----------------------------------------------------------------------------
(* The inductive invariant *)

\* A receipt's withdrawal came no earlier than its capture, up to the skew.
Dated(d) ==
  \A s \in DOMAIN d.receipts :
    d.receipts[s].withdrawn # None => Occurred[s] - Skew <= d.receipts[s].withdrawn

\* The two memories of a withdrawn source.
Remembered(d, s, t) ==
  IF s \in DOMAIN d.receipts THEN d.receipts[s].withdrawn # None
                             ELSE Occurred[s] < t - Replay

NotShownAgain(d, s) == s \in DOMAIN d.alerts => d.alerts[s].withdrawn # None

Forgotten(d, s, t) == Remembered(d, s, t) /\ NotShownAgain(d, s)

SourcesIInv ==
  /\ TypeOK
  /\ Dated(db)
  /\ \A s \in withdrawn : Forgotten(db, s, now)

-----------------------------------------------------------------------------
(* What the operators on the database keep *)

\* A database is its three tables, so an update of one leaves the others.
LEMMA ThreeTables ==
  ASSUME NEW d, NEW x, NEW y,
         d = [receipts |-> d.receipts, alerts |-> d.alerts, evidence |-> d.evidence]
  PROVE  /\ [d EXCEPT !.receipts = x]
              = [receipts |-> x, alerts |-> d.alerts, evidence |-> d.evidence]
         /\ [d EXCEPT !.alerts = x]
              = [receipts |-> d.receipts, alerts |-> x, evidence |-> d.evidence]
         /\ [d EXCEPT !.evidence = x]
              = [receipts |-> d.receipts, alerts |-> d.alerts, evidence |-> x]
         /\ [d EXCEPT !.alerts = x, !.evidence = y]
              = [receipts |-> d.receipts, alerts |-> x, evidence |-> y]
         /\ [d EXCEPT !.receipts = x, !.alerts = y]
              = [receipts |-> x, alerts |-> y, evidence |-> d.evidence]
<1>1. [d EXCEPT !.receipts = x]
        = [receipts |-> x, alerts |-> d.alerts, evidence |-> d.evidence]
  OBVIOUS
<1>2. [d EXCEPT !.alerts = x]
        = [receipts |-> d.receipts, alerts |-> x, evidence |-> d.evidence]
  OBVIOUS
<1>3. [d EXCEPT !.evidence = x]
        = [receipts |-> d.receipts, alerts |-> d.alerts, evidence |-> x]
  OBVIOUS
<1>4. [d EXCEPT !.alerts = x, !.evidence = y]
        = [receipts |-> d.receipts, alerts |-> x, evidence |-> y]
  <2>1. PICK e : e = [d EXCEPT !.alerts = x]
    OBVIOUS
  <2>2. e = [receipts |-> d.receipts, alerts |-> x, evidence |-> d.evidence]
    BY <2>1
  <2>3. [e EXCEPT !.evidence = y]
          = [receipts |-> d.receipts, alerts |-> x, evidence |-> y]
    BY <2>2
  <2>4. [d EXCEPT !.alerts = x, !.evidence = y] = [e EXCEPT !.evidence = y]
    BY <2>1, Zenon
  <2> QED BY <2>3, <2>4
<1>5. [d EXCEPT !.receipts = x, !.alerts = y]
        = [receipts |-> x, alerts |-> y, evidence |-> d.evidence]
  <2>1. PICK e : e = [d EXCEPT !.receipts = x]
    OBVIOUS
  <2>2. e = [receipts |-> x, alerts |-> d.alerts, evidence |-> d.evidence]
    BY <2>1
  <2>3. [e EXCEPT !.alerts = y]
          = [receipts |-> x, alerts |-> y, evidence |-> d.evidence]
    BY <2>2
  <2>4. [d EXCEPT !.receipts = x, !.alerts = y] = [e EXCEPT !.alerts = y]
    BY <2>1, Zenon
  <2> QED BY <2>3, <2>4
<1> QED BY <1>1, <1>2, <1>3, <1>4, <1>5

\* Marking due evidence touches no receipt and no alert.
LEMMA MarkDueKeeps ==
  ASSUME NEW d, NEW t \in Nat, NEW es, Tables(d)
  PROVE  /\ Tables(Revoke(d, es, t))
         /\ Revoke(d, es, t).receipts = d.receipts
         /\ Revoke(d, es, t).alerts = d.alerts
<1> DEFINE r == Revoke(d, es, t)
           ev == [e \in DOMAIN d.evidence |->
                    IF e \in es THEN [d.evidence[e] EXCEPT !.st = "REVOKED", !.revoked = t]
                                ELSE d.evidence[e]]
<1>1. r = [receipts |-> d.receipts, alerts |-> d.alerts, evidence |-> ev]
  BY ThreeTables, Zenon DEF Tables, Revoke
<1>2. ASSUME NEW e \in DOMAIN d.evidence
      PROVE  ev[e] \in EvidenceRow
  <2>1. d.evidence[e] \in EvidenceRow
    BY DEF Tables, Table
  <2>2. [d.evidence[e] EXCEPT !.st = "REVOKED", !.revoked = t] \in EvidenceRow
    BY <2>1, Zenon DEF EvidenceRow, EvidenceStates, NatOrNone
  <2> QED BY <2>1, <2>2
<1>3. Table(ev, Evidence, EvidenceRow)
  BY <1>2 DEF Tables, Table
<1>4. DOMAIN ev = DOMAIN d.evidence
  OBVIOUS
<1> HIDE DEF ev, r
<1>5. r.receipts = d.receipts /\ r.alerts = d.alerts /\ r.evidence = ev
  BY <1>1
<1>6. r = [receipts |-> r.receipts, alerts |-> r.alerts, evidence |-> r.evidence]
  BY <1>1, <1>5
<1>7. Tables(r)
  BY <1>3, <1>4, <1>5, <1>6 DEF Tables
<1> QED BY <1>5, <1>7 DEF r

\* A purge touches no receipt, adds no alert, and leaves the withdrawal time
\* of the alerts it keeps.
LEMMA PurgeKeeps ==
  ASSUME NEW d, NEW ids, Tables(d)
  PROVE  /\ Tables(Purge(d, ids))
         /\ Purge(d, ids).receipts = d.receipts
         /\ DOMAIN Purge(d, ids).alerts \subseteq DOMAIN d.alerts
         /\ \A s \in DOMAIN Purge(d, ids).alerts :
              Purge(d, ids).alerts[s].withdrawn = d.alerts[s].withdrawn
<1> DEFINE kept == {s \in DOMAIN d.alerts : \/ s \notin ids
                                            \/ d.alerts[s].reviewed
                                            \/ Held(d, s) # {}}
           al == [s \in kept |->
                    IF s \in ids THEN [d.alerts[s] EXCEPT !.purged = TRUE]
                                 ELSE d.alerts[s]]
           left == {e \in DOMAIN d.evidence : SourceOf[e] \in kept}
           ev == [e \in left |-> d.evidence[e]]
           r == Purge(d, ids)
<1>1. r = [receipts |-> d.receipts, alerts |-> al, evidence |-> ev]
  <2>1. r = [d EXCEPT !.alerts = al, !.evidence = ev]
    BY Zenon DEF Purge, Restrict
  <2> QED BY <2>1, ThreeTables, Zenon DEF Tables
<1>2. ASSUME NEW s \in kept
      PROVE  al[s] \in Alert /\ al[s].withdrawn = d.alerts[s].withdrawn
  <2>1. d.alerts[s] \in Alert
    BY DEF Tables, Table
  <2>2. [d.alerts[s] EXCEPT !.purged = TRUE] \in Alert
    BY <2>1, Zenon DEF Alert
  <2>3. [d.alerts[s] EXCEPT !.purged = TRUE].withdrawn = d.alerts[s].withdrawn
    BY <2>1 DEF Alert
  <2> QED BY <2>1, <2>2, <2>3
<1>3. kept \subseteq DOMAIN d.alerts /\ left \subseteq DOMAIN d.evidence
  OBVIOUS
<1>4. Table(al, Sources, Alert)
  BY <1>2, <1>3 DEF Tables, Table
<1>5. Table(ev, Evidence, EvidenceRow)
  BY <1>3 DEF Tables, Table
<1>6. \A e \in left : SourceOf[e] \in kept
  OBVIOUS
<1>7. DOMAIN al = kept /\ DOMAIN ev = left
  OBVIOUS
<1> HIDE DEF kept, al, left, ev, r
<1>8. r.receipts = d.receipts /\ r.alerts = al /\ r.evidence = ev
  BY <1>1
<1>9. Tables(r)
  <2>1. r = [receipts |-> r.receipts, alerts |-> r.alerts, evidence |-> r.evidence]
    BY <1>1, <1>8
  <2> QED BY <1>4, <1>5, <1>6, <1>7, <1>8, <2>1 DEF Tables
<1> QED BY <1>2, <1>3, <1>7, <1>8, <1>9 DEF r

\* Pruning touches receipts only, and takes those settled before t - Keep.
LEMMA PrunedKeeps ==
  ASSUME NEW d, NEW t \in Nat, Tables(d)
  PROVE  /\ Tables(Pruned(d, t))
         /\ Pruned(d, t).alerts = d.alerts
         /\ DOMAIN Pruned(d, t).receipts \subseteq DOMAIN d.receipts
         /\ \A s \in DOMAIN Pruned(d, t).receipts :
              Pruned(d, t).receipts[s] = d.receipts[s]
         /\ \A s \in DOMAIN d.receipts \ DOMAIN Pruned(d, t).receipts :
              Settled(d.receipts[s]) # None /\ Settled(d.receipts[s]) < t - Keep
<1> DEFINE kept == {s \in DOMAIN d.receipts :
                      \/ Settled(d.receipts[s]) = None
                      \/ Settled(d.receipts[s]) >= t - Keep}
           rc == [s \in kept |-> d.receipts[s]]
           r == Pruned(d, t)
<1>1. r = [receipts |-> rc, alerts |-> d.alerts, evidence |-> d.evidence]
  BY ThreeTables, Zenon DEF Tables, Pruned, Restrict
<1>2. /\ kept \subseteq DOMAIN d.receipts
      /\ DOMAIN rc = kept
      /\ \A s \in kept : rc[s] = d.receipts[s]
  OBVIOUS
<1>3. Table(rc, Sources, Receipt)
  BY DEF Tables, Table
<1>4. ASSUME NEW s \in DOMAIN d.receipts \ kept
      PROVE  Settled(d.receipts[s]) # None /\ Settled(d.receipts[s]) < t - Keep
  <2>1. d.receipts[s] \in Receipt
    BY DEF Tables, Table
  <2>2. Settled(d.receipts[s]) \in Int
    BY <2>1 DEF Settled, Receipt, NatOrNone, None
  <2> QED BY <2>2, TimeAssumption
<1> HIDE DEF kept, rc, r
<1>5. r.receipts = rc /\ r.alerts = d.alerts /\ r.evidence = d.evidence
  BY <1>1
<1>6. Tables(r)
  <2>1. r = [receipts |-> r.receipts, alerts |-> r.alerts, evidence |-> r.evidence]
    BY <1>1, <1>5
  <2> QED BY <1>3, <1>5, <2>1 DEF Tables
<1> QED BY <1>2, <1>4, <1>5, <1>6 DEF r

\* What a cleanup may do to receipts and alerts.
Shrinks(d, c, t) ==
  /\ DOMAIN c.alerts \subseteq DOMAIN d.alerts
  /\ \A s \in DOMAIN c.alerts : c.alerts[s].withdrawn = d.alerts[s].withdrawn
  /\ DOMAIN c.receipts \subseteq DOMAIN d.receipts
  /\ \A s \in DOMAIN c.receipts : c.receipts[s] = d.receipts[s]
  /\ \A s \in DOMAIN d.receipts \ DOMAIN c.receipts :
       Settled(d.receipts[s]) # None /\ Settled(d.receipts[s]) < t - Keep

\* A cleanup shrinks, and keeps the tables in shape.
LEMMA CleanedKeeps ==
  ASSUME NEW d, NEW t \in Nat, Tables(d)
  PROVE  Tables(Cleaned(d, t)) /\ Shrinks(d, Cleaned(d, t), t)
<1> DEFINE m == MarkDue(d, t)
           over == {s \in DOMAIN m.alerts : /\ ~m.alerts[s].purged
                                            /\ \/ m.alerts[s].withdrawn # None
                                               \/ IsOver(m, s, t)}
           p == Purge(m, over)
<1>1. Tables(m) /\ m.receipts = d.receipts /\ m.alerts = d.alerts
  BY MarkDueKeeps DEF MarkDue
<1>2. Cleaned(d, t) = Pruned(p, t)
  BY DEF Cleaned
<1> HIDE DEF m, over
<1>3. /\ Tables(p)
      /\ p.receipts = m.receipts
      /\ DOMAIN p.alerts \subseteq DOMAIN m.alerts
      /\ \A s \in DOMAIN p.alerts : p.alerts[s].withdrawn = m.alerts[s].withdrawn
  BY <1>1, PurgeKeeps
<1> HIDE DEF p
<1>4. /\ Tables(Pruned(p, t))
      /\ Pruned(p, t).alerts = p.alerts
      /\ DOMAIN Pruned(p, t).receipts \subseteq DOMAIN p.receipts
      /\ \A s \in DOMAIN Pruned(p, t).receipts : Pruned(p, t).receipts[s] = p.receipts[s]
      /\ \A s \in DOMAIN p.receipts \ DOMAIN Pruned(p, t).receipts :
           Settled(p.receipts[s]) # None /\ Settled(p.receipts[s]) < t - Keep
  BY <1>3, PrunedKeeps
<1> QED BY <1>1, <1>2, <1>3, <1>4 DEF Shrinks

\* The window of the theorem: a receipt pruned after its withdrawal leaves
\* behind an observation too old for the intake.
LEMMA ForgottenStaysSo ==
  ASSUME NEW d, NEW t \in Nat, NEW s \in Sources,
         Tables(d), Dated(d), Forgotten(d, s, t)
  PROVE  Forgotten(Cleaned(d, t), s, t)
<1> DEFINE c == Cleaned(d, t)
<1>1. Tables(c) /\ Shrinks(d, c, t)
  BY CleanedKeeps
<1> HIDE DEF c
<1>2. NotShownAgain(c, s)
  BY <1>1 DEF Shrinks, NotShownAgain, Forgotten
<1>3. Remembered(c, s, t)
  <2>1. CASE s \in DOMAIN c.receipts
    BY <1>1, <2>1 DEF Shrinks, Remembered, Forgotten
  <2>2. CASE s \notin DOMAIN d.receipts
    BY <1>1, <2>2 DEF Shrinks, Remembered, Forgotten
  <2>3. CASE s \in DOMAIN d.receipts \ DOMAIN c.receipts
    <3>1. d.receipts[s] \in Receipt
      BY <2>3 DEF Tables, Table
    <3>2. d.receipts[s].withdrawn # None
      BY <2>3 DEF Forgotten, Remembered
    <3>3. d.receipts[s].withdrawn \in Nat
      BY <3>1, <3>2 DEF Receipt, NatOrNone
    <3>4. d.receipts[s].withdrawn < t - Keep
      BY <1>1, <2>3, <3>2 DEF Shrinks, Settled
    <3>5. Occurred[s] - Skew <= d.receipts[s].withdrawn
      BY <2>3, <3>2 DEF Dated
    <3>6. Occurred[s] \in Nat
      BY SourceAssumption
    <3>7. Occurred[s] < t - Replay
      BY <3>3, <3>4, <3>5, <3>6, TimeAssumption
    <3> QED BY <2>3, <3>7 DEF Remembered
  <2> QED BY <2>1, <2>2, <2>3
<1> QED BY <1>2, <1>3 DEF Forgotten, c

\* A cleanup leaves the withdrawal times of the receipts it keeps.
LEMMA DatedStaysSo ==
  ASSUME NEW d, NEW t \in Nat, Tables(d), Dated(d)
  PROVE  Dated(Cleaned(d, t))
BY CleanedKeeps DEF Shrinks, Dated

-----------------------------------------------------------------------------
(* The parts of the requests *)

\* The database with a receipt, or an alert, put in place.
WithReceipt(d, s, r) == [d EXCEPT !.receipts = Put(d.receipts, s, r)]
WithAlert(d, s, a) == [d EXCEPT !.alerts = Put(d.alerts, s, a)]

\* A receipt put in place leaves every other row as it is.
LEMMA WithReceiptKeeps ==
  ASSUME NEW d, NEW s \in Sources, NEW r \in Receipt, Tables(d)
  PROVE  LET p == WithReceipt(d, s, r)
         IN /\ Tables(p)
            /\ p.alerts = d.alerts
            /\ DOMAIN p.receipts = DOMAIN d.receipts \cup {s}
            /\ p.receipts[s] = r
            /\ \A x \in DOMAIN d.receipts \ {s} : p.receipts[x] = d.receipts[x]
<1> DEFINE f == Put(d.receipts, s, r)
           p == WithReceipt(d, s, r)
<1>1. /\ Table(f, Sources, Receipt)
      /\ DOMAIN f = DOMAIN d.receipts \cup {s}
      /\ f[s] = r
      /\ \A x \in DOMAIN d.receipts \ {s} : f[x] = d.receipts[x]
  <2>1. Table(d.receipts, Sources, Receipt)
    BY DEF Tables
  <2> QED BY <2>1 DEF Put, Table
<1> HIDE DEF f
<1>2. p = [receipts |-> f, alerts |-> d.alerts, evidence |-> d.evidence]
  BY ThreeTables, Zenon DEF Tables, WithReceipt, f
<1> HIDE DEF p
<1>3. p.receipts = f /\ p.alerts = d.alerts /\ p.evidence = d.evidence
  BY <1>2
<1>4. p = [receipts |-> p.receipts, alerts |-> p.alerts, evidence |-> p.evidence]
  BY <1>2, <1>3
<1>5. Tables(p)
  BY <1>1, <1>3, <1>4 DEF Tables
<1>6. /\ Tables(p)
      /\ p.alerts = d.alerts
      /\ DOMAIN p.receipts = DOMAIN d.receipts \cup {s}
      /\ p.receipts[s] = r
      /\ \A x \in DOMAIN d.receipts \ {s} : p.receipts[x] = d.receipts[x]
  BY <1>1, <1>3, <1>5
<1> QED BY <1>6 DEF p

\* And so does an alert.
LEMMA WithAlertKeeps ==
  ASSUME NEW d, NEW s \in Sources, NEW a \in Alert, Tables(d)
  PROVE  LET p == WithAlert(d, s, a)
         IN /\ Tables(p)
            /\ p.receipts = d.receipts
            /\ DOMAIN p.alerts = DOMAIN d.alerts \cup {s}
            /\ p.alerts[s] = a
            /\ \A x \in DOMAIN d.alerts \ {s} : p.alerts[x] = d.alerts[x]
<1> DEFINE f == Put(d.alerts, s, a)
           p == WithAlert(d, s, a)
<1>1. /\ Table(f, Sources, Alert)
      /\ DOMAIN f = DOMAIN d.alerts \cup {s}
      /\ f[s] = a
      /\ \A x \in DOMAIN d.alerts \ {s} : f[x] = d.alerts[x]
  <2>1. Table(d.alerts, Sources, Alert)
    BY DEF Tables
  <2> QED BY <2>1 DEF Put, Table
<1> HIDE DEF f
<1>2. p = [receipts |-> d.receipts, alerts |-> f, evidence |-> d.evidence]
  BY ThreeTables, Zenon DEF Tables, WithAlert, f
<1> HIDE DEF p
<1>3. p.receipts = d.receipts /\ p.alerts = f /\ p.evidence = d.evidence
  BY <1>2
<1>4. p = [receipts |-> p.receipts, alerts |-> p.alerts, evidence |-> p.evidence]
  BY <1>2, <1>3
<1>5. Tables(p)
  BY <1>1, <1>3, <1>4 DEF Tables
<1>6. /\ Tables(p)
      /\ p.receipts = d.receipts
      /\ DOMAIN p.alerts = DOMAIN d.alerts \cup {s}
      /\ p.alerts[s] = a
      /\ \A x \in DOMAIN d.alerts \ {s} : p.alerts[x] = d.alerts[x]
  BY <1>1, <1>3, <1>5
<1> QED BY <1>6 DEF p

-----------------------------------------------------------------------------
(* The invariant, of a database *)

Good(d, W, t) ==
  /\ Tables(d)
  /\ Dated(d)
  /\ W \subseteq Sources
  /\ \A s \in W : Forgotten(d, s, t)

\* cleanup_device_sources keeps the invariant, pruning included.
LEMMA CleanedGood ==
  ASSUME NEW d, NEW W, NEW t \in Nat, Good(d, W, t)
  PROVE  Good(Cleaned(d, t), W, t)
<1>1. Tables(Cleaned(d, t))
  BY CleanedKeeps DEF Good
<1>2. Dated(Cleaned(d, t))
  BY DatedStaysSo DEF Good
<1>3. \A s \in W : Forgotten(Cleaned(d, t), s, t)
  BY ForgottenStaysSo DEF Good
<1> QED BY <1>1, <1>2, <1>3 DEF Good

\* mark_due_evidence keeps the invariant.
LEMMA RevokeGood ==
  ASSUME NEW d, NEW W, NEW t \in Nat, NEW es, Good(d, W, t)
  PROVE  Good(Revoke(d, es, t), W, t)
<1> DEFINE r == Revoke(d, es, t)
<1>1. Tables(r) /\ r.receipts = d.receipts /\ r.alerts = d.alerts
  BY MarkDueKeeps DEF Good
<1> HIDE DEF r
<1>2. Good(r, W, t)
  BY <1>1 DEF Good, Dated, Forgotten, Remembered, NotShownAgain
<1> QED BY <1>2 DEF r

\* _purge_alerts keeps the invariant.
LEMMA PurgeGood ==
  ASSUME NEW d, NEW W, NEW t \in Nat, NEW ids, Good(d, W, t)
  PROVE  Good(Purge(d, ids), W, t)
<1> DEFINE p == Purge(d, ids)
<1>1. /\ Tables(p)
      /\ p.receipts = d.receipts
      /\ DOMAIN p.alerts \subseteq DOMAIN d.alerts
      /\ \A s \in DOMAIN p.alerts : p.alerts[s].withdrawn = d.alerts[s].withdrawn
  BY PurgeKeeps DEF Good
<1> HIDE DEF p
<1>2. Good(p, W, t)
  BY <1>1 DEF Good, Dated, Forgotten, Remembered, NotShownAgain
<1> QED BY <1>2 DEF p

\* A receipt may be put in place if it remembers a withdrawal its source has.
LEMMA ReceiptGood ==
  ASSUME NEW d, NEW W, NEW t \in Nat, Good(d, W, t),
         NEW s \in Sources, NEW r \in Receipt,
         r.withdrawn # None => Occurred[s] - Skew <= r.withdrawn,
         s \in W => r.withdrawn # None
  PROVE  Good(WithReceipt(d, s, r), W, t)
<1> DEFINE p == WithReceipt(d, s, r)
<1>1. /\ Tables(p)
      /\ p.alerts = d.alerts
      /\ DOMAIN p.receipts = DOMAIN d.receipts \cup {s}
      /\ p.receipts[s] = r
      /\ \A x \in DOMAIN d.receipts \ {s} : p.receipts[x] = d.receipts[x]
  BY WithReceiptKeeps DEF Good
<1> HIDE DEF p
<1>2. Dated(p)
  BY <1>1 DEF Good, Dated
<1>3. ASSUME NEW x \in W
      PROVE  Forgotten(p, x, t)
  <2>1. NotShownAgain(p, x)
    BY <1>1 DEF Good, Forgotten, NotShownAgain
  <2>2. Remembered(p, x, t)
    BY <1>1 DEF Good, Forgotten, Remembered
  <2> QED BY <2>1, <2>2 DEF Forgotten
<1>4. Good(p, W, t)
  BY <1>1, <1>2, <1>3 DEF Good
<1> QED BY <1>4 DEF p

\* An alert may be put in place if it is withdrawn or its source is not.
LEMMA AlertGood ==
  ASSUME NEW d, NEW W, NEW t \in Nat, Good(d, W, t),
         NEW s \in Sources, NEW a \in Alert,
         s \in W => a.withdrawn # None
  PROVE  Good(WithAlert(d, s, a), W, t)
<1> DEFINE p == WithAlert(d, s, a)
<1>1. /\ Tables(p)
      /\ p.receipts = d.receipts
      /\ DOMAIN p.alerts = DOMAIN d.alerts \cup {s}
      /\ p.alerts[s] = a
      /\ \A x \in DOMAIN d.alerts \ {s} : p.alerts[x] = d.alerts[x]
  BY WithAlertKeeps DEF Good
<1> HIDE DEF p
<1>2. Good(p, W, t)
  BY <1>1 DEF Good, Dated, Forgotten, Remembered, NotShownAgain
<1> QED BY <1>2 DEF p

\* The receipt of a withdrawal remembers it.
LEMMA WithdrawnReceiptGood ==
  ASSUME NEW d, NEW W, NEW t \in Nat, Good(d, W, t),
         NEW s \in Sources, Occurred[s] <= t + Skew
  PROVE  LET r == WithdrawnReceipt(d, s, t)
         IN Good(r, W, t) /\ Remembered(r, s, t) /\ r.alerts = d.alerts
<1>0. Occurred[s] \in Nat /\ Skew \in Nat
  BY SourceAssumption, TimeAssumption
<1>1. Tables(d) /\ t # None
  BY DEF Good, None
<1> DEFINE new == [hash |-> FALSE, expires |-> None, withdrawn |-> t,
                   first |-> TRUE, created |-> t]
           set == [d.receipts[s] EXCEPT !.withdrawn = t]
<1>2. CASE s \notin DOMAIN d.receipts
  <2>1. new \in Receipt /\ new.withdrawn = t
    BY Zenon DEF Receipt, NatOrNone
  <2>2. WithdrawnReceipt(d, s, t) = WithReceipt(d, s, new)
    BY <1>2 DEF WithdrawnReceipt, WithReceipt
  <2> HIDE DEF new
  <2>3. Occurred[s] - Skew <= new.withdrawn /\ new.withdrawn # None
    BY <1>0, <1>1, <2>1
  <2> DEFINE p == WithReceipt(d, s, new)
  <2>4. Good(p, W, t)
    BY <2>1, <2>3, ReceiptGood
  <2>5. p.alerts = d.alerts /\ s \in DOMAIN p.receipts /\ p.receipts[s] = new
    BY <1>1, <2>1, WithReceiptKeeps
  <2> HIDE DEF p
  <2>6. Remembered(p, s, t)
    BY <2>3, <2>5 DEF Remembered
  <2> QED BY <2>2, <2>4, <2>5, <2>6 DEF p
<1>3. CASE s \in DOMAIN d.receipts /\ d.receipts[s].withdrawn = None
  <2>0. d.receipts[s] \in Receipt
    BY <1>1, <1>3 DEF Tables, Table
  <2>1. set \in Receipt /\ set.withdrawn = t
    BY <2>0, Zenon DEF Receipt, NatOrNone
  <2>2. WithdrawnReceipt(d, s, t) = WithReceipt(d, s, set)
    BY <1>3 DEF WithdrawnReceipt, WithReceipt
  <2> HIDE DEF set
  <2>3. Occurred[s] - Skew <= set.withdrawn /\ set.withdrawn # None
    BY <1>0, <1>1, <2>1
  <2> DEFINE p == WithReceipt(d, s, set)
  <2>4. Good(p, W, t)
    BY <2>1, <2>3, ReceiptGood
  <2>5. p.alerts = d.alerts /\ s \in DOMAIN p.receipts /\ p.receipts[s] = set
    BY <1>1, <2>1, WithReceiptKeeps
  <2> HIDE DEF p
  <2>6. Remembered(p, s, t)
    BY <2>3, <2>5 DEF Remembered
  <2> QED BY <2>2, <2>4, <2>5, <2>6 DEF p
<1>4. CASE s \in DOMAIN d.receipts /\ d.receipts[s].withdrawn # None
  BY <1>4 DEF WithdrawnReceipt, Remembered
<1> QED BY <1>2, <1>3, <1>4

\* The alert of a withdrawal is withdrawn or gone.
LEMMA WithdrawnAlertGood ==
  ASSUME NEW d, NEW W, NEW t \in Nat, Good(d, W, t),
         NEW s \in Sources, Remembered(d, s, t)
  PROVE  Good(WithdrawnAlert(d, s, t), W \cup {s}, t)
<1>1. CASE s \notin DOMAIN d.alerts
  <2>1. WithdrawnAlert(d, s, t) = d
    BY <1>1 DEF WithdrawnAlert
  <2>2. Forgotten(d, s, t)
    BY <1>1 DEF Forgotten, NotShownAgain
  <2> QED BY <2>1, <2>2 DEF Good
<1>2. CASE s \in DOMAIN d.alerts
  <2> DEFINE unfinished == {e \in Held(d, s) : d.evidence[e].st # "REVOKED"}
             first == IF d.alerts[s].withdrawn = None THEN t ELSE d.alerts[s].withdrawn
             a == [d.alerts[s] EXCEPT !.withdrawn = first]
             r == Revoke(d, unfinished, t)
             p == WithAlert(r, s, a)
  <2>1. WithdrawnAlert(d, s, t) = Purge(p, {s})
    BY <1>2 DEF WithdrawnAlert, WithAlert
  <2>2. d.alerts[s] \in Alert
    BY <1>2 DEF Good, Tables, Table
  <2>3. first \in Nat /\ first # None
    BY <2>2 DEF Alert, NatOrNone, None
  <2> HIDE DEF unfinished, first
  <2>4. a \in Alert /\ a.withdrawn = first
    BY <2>2, <2>3, Zenon DEF Alert, NatOrNone
  <2>5. /\ Good(r, W, t)
        /\ r.receipts = d.receipts
    BY RevokeGood, MarkDueKeeps DEF Good
  <2> HIDE DEF a, r
  <2>6. Good(p, W, t)
    BY <2>3, <2>4, <2>5, AlertGood
  <2>7. /\ p.receipts = d.receipts
        /\ s \in DOMAIN p.alerts
        /\ p.alerts[s] = a
    <3>1. /\ p.receipts = r.receipts
          /\ DOMAIN p.alerts = DOMAIN r.alerts \cup {s}
          /\ p.alerts[s] = a
      BY <2>4, <2>5, WithAlertKeeps DEF Good
    <3> QED BY <2>5, <3>1
  <2> HIDE DEF p
  <2>8. Forgotten(p, s, t)
    BY <2>3, <2>4, <2>7 DEF Forgotten, Remembered, NotShownAgain
  <2>9. Good(p, W \cup {s}, t)
    BY <2>6, <2>8 DEF Good
  <2> QED BY <2>1, <2>9, PurgeGood
<1> QED BY <1>1, <1>2

-----------------------------------------------------------------------------
(* The requests *)

\* SourcesIInv is the invariant of the database of the current state.
LEMMA GoodState == SourcesIInv <=> /\ now \in Nat
                            /\ authorised \in BOOLEAN
                            /\ Good(db, withdrawn, now)
BY DEF SourcesIInv, Good, TypeOK

\* An observation of a known source leaves its withdrawal alone.
LEMMA ObserveAgainGood ==
  ASSUME SourcesIInv, NEW s \in Sources, ObserveAgain(s)
  PROVE  Good(db', withdrawn', now')
<1>1. Good(db, withdrawn, now) /\ now \in Nat
  BY GoodState
<1> DEFINE r == db.receipts[s]
           learnt == [r EXCEPT !.hash = TRUE, !.expires = Expires[s]]
           known == IF r.hash THEN r ELSE learnt
           p == WithReceipt(db, s, known)
<1>2. s \in DOMAIN db.receipts /\ r \in Receipt
  BY <1>1 DEF ObserveAgain, Good, Tables, Table
<1>3. Expires[s] \in Nat
  BY SourceAssumption
<1>4. learnt \in Receipt /\ learnt.withdrawn = r.withdrawn
  BY <1>2, <1>3, Zenon DEF Receipt, NatOrNone
<1>5. known \in Receipt /\ known.withdrawn = r.withdrawn
  BY <1>2, <1>4
<1>6. db' = Cleaned(p, now) /\ withdrawn' = withdrawn /\ now' = now
  BY DEF ObserveAgain, WithReceipt
<1> HIDE DEF known
<1>7. /\ known.withdrawn # None => Occurred[s] - Skew <= known.withdrawn
      /\ s \in withdrawn => known.withdrawn # None
  BY <1>1, <1>2, <1>5 DEF Good, Dated, Forgotten, Remembered
<1>8. Good(p, withdrawn, now)
  BY <1>1, <1>5, <1>7, ReceiptGood
<1> HIDE DEF p
<1> QED BY <1>1, <1>6, <1>8, CleanedGood

\* A source never heard of and recent enough was not withdrawn.
LEMMA FreshIsNotWithdrawn ==
  ASSUME SourcesIInv, NEW s \in Sources, Recent(s), s \notin DOMAIN db.receipts
  PROVE  s \notin withdrawn
<1>1. Occurred[s] \in Nat /\ now \in Nat /\ Replay \in Nat
  BY SourceAssumption, TimeAssumption, GoodState
<1>2. ~(Occurred[s] < now - Replay)
  BY <1>1 DEF Recent
<1> QED BY <1>2 DEF SourcesIInv, Forgotten, Remembered

\* A first observation is of a source that was not withdrawn.
LEMMA ObserveGood ==
  ASSUME SourcesIInv, NEW s \in Sources, Observe(s)
  PROVE  Good(db', withdrawn', now')
<1>1. Good(db, withdrawn, now) /\ now \in Nat
  BY GoodState
<1> DEFINE d == Cleaned(db, now)
           receipt == [hash |-> TRUE, expires |-> Expires[s], withdrawn |-> None,
                       first |-> FALSE, created |-> now]
           alert == [legacy |-> FALSE, withdrawn |-> None, purged |-> FALSE,
                     reviewed |-> FALSE, received |-> now]
           p == WithReceipt(d, s, receipt)
           q == WithAlert(p, s, alert)
<1>2. s \notin withdrawn
  BY FreshIsNotWithdrawn DEF Observe
<1>3. withdrawn' = withdrawn /\ now' = now
  BY DEF Observe
<1>4. db' = [d EXCEPT
              !.receipts = Put(d.receipts, s, receipt),
              !.alerts = IF Expires[s] > now THEN Put(d.alerts, s, alert) ELSE d.alerts]
  BY Zenon DEF Observe
<1>5. Expires[s] \in Nat
  BY SourceAssumption
<1>6. receipt \in Receipt /\ receipt.withdrawn = None /\ alert \in Alert
  BY <1>1, <1>5, Zenon DEF Receipt, Alert, NatOrNone
<1>7. Good(d, withdrawn, now)
  BY <1>1, CleanedGood
<1> HIDE DEF d, receipt, alert
<1>8. Good(p, withdrawn, now) /\ p.alerts = d.alerts
  <2>1. p.alerts = d.alerts
    BY <1>6, <1>7, WithReceiptKeeps DEF Good
  <2>2. Good(p, withdrawn, now)
    BY <1>1, <1>2, <1>6, <1>7, ReceiptGood
  <2> QED BY <2>1, <2>2
<1>9. Good(q, withdrawn, now)
  BY <1>1, <1>2, <1>6, <1>8, AlertGood
<1>10. db' = IF Expires[s] > now THEN q ELSE p
  <2> DEFINE R == Put(d.receipts, s, receipt)
             A == IF Expires[s] > now THEN Put(d.alerts, s, alert) ELSE d.alerts
  <2>1. d = [receipts |-> d.receipts, alerts |-> d.alerts, evidence |-> d.evidence]
    BY <1>7 DEF Good, Tables
  <2>2. db' = [d EXCEPT !.receipts = R, !.alerts = A]
    BY <1>4
  <2>3. p = [d EXCEPT !.receipts = R]
    BY DEF WithReceipt
  <2>4. p.alerts = d.alerts
    BY <1>8
  <2>5. q = [p EXCEPT !.alerts = Put(d.alerts, s, alert)]
    BY <2>4 DEF WithAlert
  <2>6. A = Put(d.alerts, s, alert) \/ (A = d.alerts /\ ~(Expires[s] > now))
    OBVIOUS
  <2> HIDE DEF R, p, q
  <2>7. p = [receipts |-> R, alerts |-> d.alerts, evidence |-> d.evidence]
    BY <2>1, <2>3, ThreeTables, Zenon
  <2>8. q = [receipts |-> R, alerts |-> Put(d.alerts, s, alert), evidence |-> d.evidence]
    BY <2>5, <2>7
  <2>9. db' = [receipts |-> R, alerts |-> A, evidence |-> d.evidence]
    BY <2>1, <2>2, ThreeTables, Zenon
  <2> QED BY <2>7, <2>8, <2>9
<1> QED BY <1>3, <1>8, <1>9, <1>10

\* The legacy intake has the same window.
LEMMA ReceiveAlertGood ==
  ASSUME SourcesIInv, NEW s \in Sources, ReceiveAlert(s)
  PROVE  Good(db', withdrawn', now')
<1>1. Good(db, withdrawn, now) /\ now \in Nat
  BY GoodState
<1> DEFINE alert == [legacy |-> TRUE, withdrawn |-> None, purged |-> FALSE,
                     reviewed |-> FALSE, received |-> now]
<1>2. alert \in Alert
  BY <1>1, Zenon DEF Alert, NatOrNone
<1>3. /\ db' = WithAlert(db, s, alert)
      /\ withdrawn' = withdrawn /\ now' = now
  BY Zenon DEF ReceiveAlert, WithAlert
<1>4. s \notin withdrawn
  BY FreshIsNotWithdrawn DEF ReceiveAlert
<1> HIDE DEF alert
<1> QED BY <1>1, <1>2, <1>3, <1>4, AlertGood

\* A withdrawal leaves both memories behind.
LEMMA WithdrawGood ==
  ASSUME SourcesIInv, NEW s \in Sources, Withdraw(s)
  PROVE  Good(db', withdrawn', now')
<1>1. Good(db, withdrawn, now) /\ now \in Nat
  BY GoodState
<1> DEFINE r == WithdrawnReceipt(db, s, now)
           a == WithdrawnAlert(r, s, now)
<1>2. /\ db' = Cleaned(a, now)
      /\ withdrawn' = withdrawn \cup {s}
      /\ now' = now
      /\ Occurred[s] <= now + Skew
  BY DEF Withdraw, Captured
<1>3. Good(r, withdrawn, now) /\ Remembered(r, s, now)
  BY <1>1, <1>2, WithdrawnReceiptGood
<1> HIDE DEF r
<1>4. Good(a, withdrawn \cup {s}, now)
  BY <1>1, <1>3, WithdrawnAlertGood
<1> HIDE DEF a
<1> QED BY <1>1, <1>2, <1>4, CleanedGood

\* A manifest adds evidence to an alert that is there.
LEMMA ManifestGood ==
  ASSUME SourcesIInv, NEW e \in Evidence, Manifest(e)
  PROVE  Good(db', withdrawn', now')
<1>1. Good(db, withdrawn, now) /\ now \in Nat
  BY GoodState
<1> DEFINE d == MarkDue(db, now)
           row == [st |-> "PENDING", created |-> now, revoked |-> None, retry |-> None]
           ev == Put(d.evidence, e, row)
           p == [d EXCEPT !.evidence = ev]
<1>2. Good(d, withdrawn, now)
  BY <1>1, RevokeGood DEF MarkDue
<1>3. /\ db' = IF e \in DOMAIN d.evidence THEN d ELSE p
      /\ withdrawn' = withdrawn /\ now' = now
      /\ SourceOf[e] \in DOMAIN d.alerts
  BY DEF Manifest
<1>4. row \in EvidenceRow
  BY <1>1, Zenon DEF EvidenceRow, EvidenceStates, NatOrNone
<1> HIDE DEF d, row
<1>5. Tables(d)
  BY <1>2 DEF Good
<1>6. Table(ev, Evidence, EvidenceRow) /\ DOMAIN ev = DOMAIN d.evidence \cup {e}
  <2>1. Table(d.evidence, Evidence, EvidenceRow)
    BY <1>5 DEF Tables
  <2> QED BY <1>4, <2>1 DEF Put, Table
<1> HIDE DEF ev
<1>7. p = [receipts |-> d.receipts, alerts |-> d.alerts, evidence |-> ev]
  BY <1>5, ThreeTables, Zenon DEF Tables
<1> HIDE DEF p
<1>8. p.receipts = d.receipts /\ p.alerts = d.alerts /\ p.evidence = ev
  BY <1>7
<1>9. p = [receipts |-> p.receipts, alerts |-> p.alerts, evidence |-> p.evidence]
  BY <1>7, <1>8
<1>10. Tables(p)
  BY <1>3, <1>5, <1>6, <1>8, <1>9 DEF Tables
<1>11. Good(p, withdrawn, now)
  BY <1>2, <1>8, <1>10 DEF Good, Dated, Forgotten, Remembered, NotShownAgain
<1> QED BY <1>2, <1>3, <1>11

\* A review does not touch the withdrawal.
LEMMA ReviewGood ==
  ASSUME SourcesIInv, NEW s \in Sources, Review(s)
  PROVE  Good(db', withdrawn', now')
<1>1. Good(db, withdrawn, now) /\ now \in Nat
  BY GoodState
<1> DEFINE a == [db.alerts[s] EXCEPT !.reviewed = TRUE]
<1>2. s \in DOMAIN db.alerts
  BY DEF Review, Shown
<1>3. db.alerts[s] \in Alert
  BY <1>1, <1>2 DEF Good, Tables, Table
<1>4. a \in Alert /\ a.withdrawn = db.alerts[s].withdrawn
  BY <1>3, Zenon DEF Alert
<1>5. /\ db' = WithAlert(db, s, a)
      /\ withdrawn' = withdrawn /\ now' = now
  BY Zenon DEF Review, WithAlert
<1>6. s \in withdrawn => a.withdrawn # None
  BY <1>1, <1>2, <1>4 DEF Good, Forgotten, NotShownAgain
<1> HIDE DEF a
<1> QED BY <1>1, <1>4, <1>5, <1>6, AlertGood

\* Time makes an observation only older.
LEMMA TickGood ==
  ASSUME SourcesIInv, Tick
  PROVE  Good(db', withdrawn', now') /\ now' \in Nat
<1>1. /\ Good(db, withdrawn, now)
      /\ now \in Nat /\ now' = now + 1
      /\ db' = db /\ withdrawn' = withdrawn
  BY GoodState DEF Tick
<1>2. ASSUME NEW s \in withdrawn
      PROVE  Forgotten(db', s, now')
  <2>1. Occurred[s] \in Nat /\ Replay \in Nat
    BY <1>1, SourceAssumption, TimeAssumption DEF Good
  <2>2. Occurred[s] < now - Replay => Occurred[s] < now' - Replay
    BY <1>1, <2>1
  <2> QED BY <1>1, <2>2 DEF Good, Forgotten, Remembered, NotShownAgain
<1> QED BY <1>1, <1>2 DEF Good

-----------------------------------------------------------------------------
(* The theorems *)

\* Nothing is stored and nothing withdrawn at first.
LEMMA SourcesInitially == Init => SourcesIInv
BY DEF Init, SourcesIInv, TypeOK, Tables, Table, NoRows, Dated, Forgotten

\* Every request, review, cleanup and tick keeps the invariant.
LEMMA SourcesInductive == SourcesIInv /\ [Next]_vars => SourcesIInv'
<1> SUFFICES ASSUME SourcesIInv, [Next]_vars
             PROVE  SourcesIInv'
  OBVIOUS
<1>0. now \in Nat /\ authorised \in BOOLEAN /\ Good(db, withdrawn, now)
  BY GoodState
<1> DEFINE Kept == now' \in Nat /\ authorised' \in BOOLEAN /\ Good(db', withdrawn', now')
<1>1. ASSUME NEW s \in Sources, Observe(s) PROVE Kept
  BY <1>0, <1>1, ObserveGood DEF Observe
<1>2. ASSUME NEW s \in Sources, ObserveAgain(s) PROVE Kept
  BY <1>0, <1>2, ObserveAgainGood DEF ObserveAgain
<1>3. ASSUME NEW s \in Sources, ReceiveAlert(s) PROVE Kept
  BY <1>0, <1>3, ReceiveAlertGood DEF ReceiveAlert
<1>4. ASSUME NEW s \in Sources, Withdraw(s) PROVE Kept
  BY <1>0, <1>4, WithdrawGood DEF Withdraw
<1>5. ASSUME NEW e \in Evidence, Manifest(e) PROVE Kept
  BY <1>0, <1>5, ManifestGood DEF Manifest
<1>6. ASSUME NEW s \in Sources, Review(s) PROVE Kept
  BY <1>0, <1>6, ReviewGood DEF Review
<1>7. ASSUME Maintain PROVE Kept
  BY <1>0, <1>7, CleanedGood DEF Maintain
<1>8. ASSUME RevokeDevice PROVE Kept
  BY <1>0, <1>8 DEF RevokeDevice
<1>9. ASSUME Tick PROVE Kept
  BY <1>0, <1>9, TickGood DEF Tick
<1>10. ASSUME UNCHANGED vars PROVE Kept
  BY <1>0, <1>10 DEF vars
<1>11. Kept
  BY <1>1, <1>2, <1>3, <1>4, <1>5, <1>6, <1>7, <1>8, <1>9, <1>10 DEF Next, Request
<1> QED BY <1>11 DEF SourcesIInv, Good, TypeOK

\* Every row of the three tables keeps its shape and every evidence row its
\* alert, through every order of requests, reviews and cleanups.
THEOREM SourceTypes == Spec => []TypeOK
<1>1. SourcesIInv => TypeOK
  BY DEF SourcesIInv
<1> QED BY SourcesInitially, SourcesInductive, <1>1, PTL DEF Spec

\* Once a withdrawal was answered no later, repeated or legacy observation,
\* no review and no pruning of its receipt shows the source to staff again.
THEOREM WithdrawalsAreFinal == Spec => []WithdrawnStaysWithdrawn
<1>1. SourcesIInv => WithdrawnStaysWithdrawn
  BY DEF SourcesIInv, WithdrawnStaysWithdrawn, Shown, Forgotten, NotShownAgain
<1> QED BY SourcesInitially, SourcesInductive, <1>1, PTL DEF Spec

-----------------------------------------------------------------------------
(***************************************************************************)
(* Rows and the object store (CloudEvidence)                               *)
(*                                                                         *)
(* An envelope is deleted only once its row can never be published again:  *)
(* a row leaves PENDING and AVAILABLE for good, so an upload that decides  *)
(* after a pass finds the evidence lost.  Conversely what is stored has a  *)
(* row some pass will reach, or an upload that has not decided yet.        *)
(***************************************************************************)

-----------------------------------------------------------------------------
(* What the operators on the database do to evidence *)

\* An alert is withdrawn, and its evidence revoked, once the withdrawal was answered.
Answered(d, W) == \A s \in DOMAIN d.alerts : d.alerts[s].withdrawn # None => s \in W
Revoked(d, W) ==
  \A e \in DOMAIN d.evidence : SourceOf[e] \in W => d.evidence[e].st \in {"REVOKED", "DELETED"}

\* What a request, a cleanup or a pass of either may do to the rows.
Evolves(d, p, W, t) ==
  /\ \A e \in DOMAIN p.evidence \cap DOMAIN d.evidence :
       \/ p.evidence[e].st = d.evidence[e].st
       \/ p.evidence[e].st = "REVOKED" /\ d.evidence[e].st \in {"PENDING", "AVAILABLE"}
  /\ \A e \in DOMAIN p.evidence \ DOMAIN d.evidence :
       p.evidence[e].st = "PENDING" /\ SourceOf[e] \notin W
  /\ \A e \in DOMAIN d.evidence \ DOMAIN p.evidence :
       d.evidence[e].st = "DELETED" /\ (Expires[SourceOf[e]] <= t \/ SourceOf[e] \in W)

\* ... and, when it adds no row, once more.
Cleans(d, p, W, t) == Evolves(d, p, W, t) /\ DOMAIN p.evidence \subseteq DOMAIN d.evidence

\* Whatever cleans twice cleans.
LEMMA CleansTwice ==
  ASSUME NEW d, NEW p, NEW q, NEW W, NEW t, Cleans(d, p, W, t), Cleans(p, q, W, t)
  PROVE  Cleans(d, q, W, t)
BY DEF Cleans, Evolves

\* Rows that are cleaned stay revoked.
LEMMA CleansKeepsRevoked ==
  ASSUME NEW d, NEW p, NEW W, NEW t, Cleans(d, p, W, t), Revoked(d, W)
  PROVE  Revoked(p, W)
BY DEF Cleans, Evolves, Revoked

\* Revoking changes the state and the date of the rows it is given.
LEMMA RevokedRow ==
  ASSUME NEW d, NEW t \in Nat, NEW es, Tables(d), NEW e \in DOMAIN d.evidence
  PROVE  LET r == Revoke(d, es, t)
         IN /\ DOMAIN r.evidence = DOMAIN d.evidence
            /\ e \in es => r.evidence[e].st = "REVOKED"
            /\ e \notin es => r.evidence[e] = d.evidence[e]
<1> DEFINE ev == [x \in DOMAIN d.evidence |->
                    IF x \in es THEN [d.evidence[x] EXCEPT !.st = "REVOKED", !.revoked = t]
                                ELSE d.evidence[x]]
           r == Revoke(d, es, t)
<1>1. r = [receipts |-> d.receipts, alerts |-> d.alerts, evidence |-> ev]
  BY ThreeTables, Zenon DEF Tables, Revoke
<1>2. \A row \in EvidenceRow : [row EXCEPT !.st = "REVOKED", !.revoked = t].st = "REVOKED"
  BY DEF EvidenceRow
<1>3. d.evidence[e] \in EvidenceRow
  BY DEF Tables, Table
<1>4. /\ DOMAIN ev = DOMAIN d.evidence
      /\ e \in es => ev[e].st = "REVOKED"
      /\ e \notin es => ev[e] = d.evidence[e]
  BY <1>2, <1>3
<1> HIDE DEF ev, r
<1>5. r.evidence = ev
  BY <1>1
<1> QED BY <1>4, <1>5 DEF r

\* Revoking what is pending or available is a cleaning.
LEMMA RevokeCleans ==
  ASSUME NEW d, NEW W, NEW t \in Nat, NEW es, Tables(d),
         \A e \in es : e \in DOMAIN d.evidence => d.evidence[e].st \in {"PENDING", "AVAILABLE"}
  PROVE  /\ Cleans(d, Revoke(d, es, t), W, t)
         /\ DOMAIN Revoke(d, es, t).evidence = DOMAIN d.evidence
<1>1. PICK r : r = Revoke(d, es, t)
  OBVIOUS
<1>2. DOMAIN r.evidence = DOMAIN d.evidence
  <2>1. r.evidence = [e \in DOMAIN d.evidence |->
                        IF e \in es THEN [d.evidence[e] EXCEPT !.st = "REVOKED", !.revoked = t]
                                    ELSE d.evidence[e]]
    BY <1>1, ThreeTables DEF Tables, Revoke
  <2> QED BY <2>1
<1>3. \A e \in DOMAIN d.evidence : /\ e \in es => r.evidence[e].st = "REVOKED"
                                   /\ e \notin es => r.evidence[e] = d.evidence[e]
  BY <1>1, RevokedRow
<1> QED BY <1>1, <1>2, <1>3 DEF Cleans, Evolves

\* mark_due_evidence is one.
LEMMA MarkDueCleans ==
  ASSUME NEW d, NEW W, NEW t \in Nat, Tables(d)
  PROVE  /\ Cleans(d, MarkDue(d, t), W, t)
         /\ DOMAIN MarkDue(d, t).evidence = DOMAIN d.evidence
<1>1. \A e \in {x \in DOMAIN d.evidence : IsDue(d, x, t)} :
        d.evidence[e].st \in {"PENDING", "AVAILABLE"}
  BY DEF IsDue
<1> QED BY <1>1, RevokeCleans DEF MarkDue

\* _purge_alerts takes only evidence that was deleted, of sources it is given.
LEMMA PurgeCleans ==
  ASSUME NEW d, NEW ids, NEW W, NEW t \in Nat, Tables(d),
         \A s \in ids \cap DOMAIN d.alerts : Expires[s] <= t \/ s \in W
  PROVE  /\ Cleans(d, Purge(d, ids), W, t)
         /\ Answered(d, W) => Answered(Purge(d, ids), W)
<1> DEFINE kept == {s \in DOMAIN d.alerts : \/ s \notin ids
                                            \/ d.alerts[s].reviewed
                                            \/ Held(d, s) # {}}
           al == [s \in kept |->
                    IF s \in ids THEN [d.alerts[s] EXCEPT !.purged = TRUE]
                                 ELSE d.alerts[s]]
           left == {e \in DOMAIN d.evidence : SourceOf[e] \in kept}
           ev == [e \in left |-> d.evidence[e]]
           r == Purge(d, ids)
<1>1. r = [receipts |-> d.receipts, alerts |-> al, evidence |-> ev]
  <2>1. r = [d EXCEPT !.alerts = al, !.evidence = ev]
    BY Zenon DEF Purge, Restrict
  <2> QED BY <2>1, ThreeTables, Zenon DEF Tables
<1>2. ASSUME NEW e \in DOMAIN d.evidence, e \notin left
      PROVE  d.evidence[e].st = "DELETED" /\ (Expires[SourceOf[e]] <= t \/ SourceOf[e] \in W)
  <2>1. SourceOf[e] \in ids \cap DOMAIN d.alerts /\ Held(d, SourceOf[e]) = {}
    BY <1>2 DEF Tables
  <2>2. d.evidence[e].st = "DELETED"
    BY <2>1 DEF Held
  <2> QED BY <2>1, <2>2
<1>3. DOMAIN ev = left /\ left \subseteq DOMAIN d.evidence /\ \A e \in left : ev[e] = d.evidence[e]
  OBVIOUS
<1> HIDE DEF kept, al, left, ev, r
<1>4. r.evidence = ev
  BY <1>1
<1>5. Cleans(d, r, W, t)
  BY <1>2, <1>3, <1>4 DEF Cleans, Evolves
<1>6. Answered(d, W) => Answered(r, W)
  BY PurgeKeeps DEF Answered, r
<1> QED BY <1>5, <1>6 DEF r

\* Pruning receipts touches none.
LEMMA PrunedCleans ==
  ASSUME NEW d, NEW t, Tables(d)
  PROVE  Pruned(d, t).evidence = d.evidence /\ Pruned(d, t).alerts = d.alerts
<1> DEFINE rc == Restrict(d.receipts,
     {s \in DOMAIN d.receipts : Settled(d.receipts[s]) = None
                                \/ Settled(d.receipts[s]) >= t - Keep})
<1>1. Pruned(d, t) = [receipts |-> rc, alerts |-> d.alerts, evidence |-> d.evidence]
  BY ThreeTables, Zenon DEF Tables, Pruned
<1> HIDE DEF rc
<1> QED BY <1>1

\* cleanup_device_sources is a cleaning.
LEMMA CleanedCleans ==
  ASSUME NEW d, NEW W, NEW t \in Nat, Tables(d), Answered(d, W)
  PROVE  Cleans(d, Cleaned(d, t), W, t) /\ Answered(Cleaned(d, t), W)
<1> DEFINE m == MarkDue(d, t)
           over == {s \in DOMAIN m.alerts : /\ ~m.alerts[s].purged
                                            /\ \/ m.alerts[s].withdrawn # None
                                               \/ IsOver(m, s, t)}
           p == Purge(m, over)
<1>1. Tables(m) /\ m.alerts = d.alerts /\ Cleans(d, m, W, t)
  BY MarkDueKeeps, MarkDueCleans DEF MarkDue
<1>2. Cleaned(d, t) = Pruned(p, t)
  BY DEF Cleaned
<1> HIDE DEF m
<1>3. Answered(m, W) /\ \A s \in over : Expires[s] <= t \/ s \in W
  BY <1>1 DEF Answered, IsOver
<1> HIDE DEF over
<1>4. Cleans(m, p, W, t) /\ Answered(p, W) /\ Tables(p)
  BY <1>1, <1>3, PurgeCleans, PurgeKeeps
<1> HIDE DEF p
<1>5. Cleans(d, p, W, t)
  BY <1>1, <1>4, CleansTwice
<1>6. Pruned(p, t).evidence = p.evidence /\ Pruned(p, t).alerts = p.alerts
  BY <1>4, PrunedCleans
<1>7. Cleans(d, Pruned(p, t), W, t) /\ Answered(Pruned(p, t), W)
  BY <1>4, <1>5, <1>6 DEF Cleans, Evolves, Answered
<1> QED BY <1>2, <1>7

-----------------------------------------------------------------------------
(* The requests of CloudSources, as they move evidence *)

\* What a request leaves of the evidence.
Moved == /\ Evolves(db, db', withdrawn', now)
         /\ Answered(db', withdrawn') /\ Revoked(db', withdrawn')

\* Rows that are cleaned, while no withdrawal is answered.
LEMMA CleanedMoved ==
  ASSUME Cleans(db, db', withdrawn', now), Revoked(db, withdrawn), withdrawn' = withdrawn,
         Answered(db', withdrawn')
  PROVE  Moved
BY CleansKeepsRevoked DEF Moved, Cleans

\* A database cleans itself if its evidence stays.
LEMMA SameEvidenceCleans ==
  ASSUME NEW d, NEW p, NEW W, NEW t, p.evidence = d.evidence
  PROVE  Cleans(d, p, W, t)
BY DEF Cleans, Evolves

\* A receipt put in place leaves alerts and evidence, and an alert evidence.
LEMMA WithRowsCleans ==
  ASSUME NEW d, NEW s, NEW r, NEW W, NEW t, Tables(d)
  PROVE  /\ WithReceipt(d, s, r).alerts = d.alerts
         /\ WithReceipt(d, s, r).evidence = d.evidence
         /\ WithAlert(d, s, r).alerts = Put(d.alerts, s, r)
         /\ WithAlert(d, s, r).evidence = d.evidence
<1> DEFINE f == Put(d.receipts, s, r)
           g == Put(d.alerts, s, r)
<1>1. WithReceipt(d, s, r) = [receipts |-> f, alerts |-> d.alerts, evidence |-> d.evidence]
  BY ThreeTables, Zenon DEF Tables, WithReceipt
<1>2. WithAlert(d, s, r) = [receipts |-> d.receipts, alerts |-> g, evidence |-> d.evidence]
  BY ThreeTables, Zenon DEF Tables, WithAlert
<1> HIDE DEF f, g
<1>3. WithReceipt(d, s, r).alerts = d.alerts /\ WithReceipt(d, s, r).evidence = d.evidence
  BY <1>1
<1>4. WithAlert(d, s, r).alerts = g /\ WithAlert(d, s, r).evidence = d.evidence
  BY <1>2
<1> QED BY <1>3, <1>4 DEF g

\* A known source's observation cleans.
LEMMA ObserveAgainMoves ==
  ASSUME SourcesIInv, Answered(db, withdrawn), Revoked(db, withdrawn),
         NEW s \in Sources, ObserveAgain(s)
  PROVE  Moved
<1> DEFINE r == db.receipts[s]
           known == IF r.hash THEN r ELSE [r EXCEPT !.hash = TRUE, !.expires = Expires[s]]
           p == WithReceipt(db, s, known)
<1>1. Good(db, withdrawn, now) /\ now \in Nat
  BY GoodState
<1>2. s \in DOMAIN db.receipts /\ r \in Receipt /\ Expires[s] \in Nat
  BY <1>1, SourceAssumption DEF ObserveAgain, Good, Tables, Table
<1>3. known \in Receipt
  BY <1>2, Zenon DEF Receipt, NatOrNone
<1>4. db' = Cleaned(p, now) /\ withdrawn' = withdrawn
  BY DEF ObserveAgain, WithReceipt
<1> HIDE DEF known
<1>5. Tables(p) /\ p.alerts = db.alerts /\ p.evidence = db.evidence
  BY <1>1, <1>3, WithReceiptKeeps, WithRowsCleans DEF Good
<1> HIDE DEF p
<1>6. Answered(p, withdrawn) /\ Cleans(db, p, withdrawn, now)
  BY <1>5, SameEvidenceCleans DEF Answered
<1>7. Cleans(p, Cleaned(p, now), withdrawn, now) /\ Answered(Cleaned(p, now), withdrawn)
  BY <1>1, <1>5, <1>6, CleanedCleans
<1> QED BY <1>4, <1>6, <1>7, CleansTwice, CleanedMoved

\* A first observation cleans, and then adds rows, but no evidence.
LEMMA ObserveMoves ==
  ASSUME SourcesIInv, Answered(db, withdrawn), Revoked(db, withdrawn),
         NEW s \in Sources, Observe(s)
  PROVE  Moved
<1> DEFINE d == Cleaned(db, now)
           receipt == [hash |-> TRUE, expires |-> Expires[s], withdrawn |-> None,
                       first |-> FALSE, created |-> now]
           alert == [legacy |-> FALSE, withdrawn |-> None, purged |-> FALSE,
                     reviewed |-> FALSE, received |-> now]
           R == Put(d.receipts, s, receipt)
           A == IF Expires[s] > now THEN Put(d.alerts, s, alert) ELSE d.alerts
<1>1. Good(db, withdrawn, now) /\ now \in Nat
  BY GoodState
<1>2. Tables(d) /\ Cleans(db, d, withdrawn, now) /\ Answered(d, withdrawn)
  BY <1>1, CleanedKeeps, CleanedCleans DEF Good
<1>3. db' = [d EXCEPT !.receipts = R, !.alerts = A] /\ withdrawn' = withdrawn
  BY Zenon DEF Observe
<1>4. alert.withdrawn = None
  OBVIOUS
<1> HIDE DEF d, alert
<1>5. A = d.alerts \/ A = Put(d.alerts, s, alert)
  OBVIOUS
<1> HIDE DEF R, A
<1>6. db' = [receipts |-> R, alerts |-> A, evidence |-> d.evidence]
  BY <1>2, <1>3, ThreeTables, Zenon DEF Tables
<1>7. db'.evidence = d.evidence /\ db'.alerts = A
  BY <1>6
<1>8. Answered(db', withdrawn)
  BY <1>2, <1>4, <1>5, <1>7 DEF Answered, Put
<1>9. Cleans(d, db', withdrawn, now)
  BY <1>7, SameEvidenceCleans
<1> QED BY <1>2, <1>3, <1>8, <1>9, CleansTwice, CleanedMoved

\* The legacy intake and a review touch one alert.
LEMMA AlertMoves ==
  ASSUME SourcesIInv, Answered(db, withdrawn), Revoked(db, withdrawn),
         NEW s \in Sources, ReceiveAlert(s) \/ Review(s)
  PROVE  Moved
<1>1. Good(db, withdrawn, now) /\ now \in Nat
  BY GoodState
<1>2. PICK a : /\ db' = WithAlert(db, s, a) /\ withdrawn' = withdrawn
               /\ a.withdrawn # None => s \in withdrawn
  <2>1. CASE ReceiveAlert(s)
    <3> DEFINE alert == [legacy |-> TRUE, withdrawn |-> None, purged |-> FALSE,
                         reviewed |-> FALSE, received |-> now]
    <3>1. db' = WithAlert(db, s, alert) /\ withdrawn' = withdrawn
      BY <2>1, Zenon DEF ReceiveAlert, WithAlert
    <3>2. alert.withdrawn = None
      OBVIOUS
    <3> QED BY <3>1, <3>2
  <2>2. CASE Review(s)
    <3> DEFINE alert == [db.alerts[s] EXCEPT !.reviewed = TRUE]
    <3>1. db' = WithAlert(db, s, alert) /\ withdrawn' = withdrawn
      BY <2>2, Zenon DEF Review, WithAlert
    <3>2. db.alerts[s] \in Alert /\ db.alerts[s].withdrawn = None
      BY <1>1, <2>2 DEF Review, Shown, Good, Tables, Table
    <3>3. alert.withdrawn = None
      BY <3>2 DEF Alert
    <3> QED BY <3>1, <3>3
  <2> QED BY <2>1, <2>2
<1>3. db'.alerts = Put(db.alerts, s, a) /\ db'.evidence = db.evidence
  BY <1>1, <1>2, WithRowsCleans DEF Good
<1>4. Answered(db', withdrawn)
  BY <1>2, <1>3 DEF Answered, Put
<1>5. Cleans(db, db', withdrawn, now)
  BY <1>3, SameEvidenceCleans
<1> QED BY <1>2, <1>4, <1>5, CleanedMoved

\* A withdrawal revokes the evidence of its source, and then cleans.
LEMMA WithdrawMoves ==
  ASSUME SourcesIInv, Answered(db, withdrawn), Revoked(db, withdrawn),
         NEW s \in Sources, Withdraw(s)
  PROVE  Moved
<1> DEFINE d == WithdrawnReceipt(db, s, now)
           a == WithdrawnAlert(d, s, now)
           W == withdrawn \cup {s}
<1>1. Good(db, withdrawn, now) /\ now \in Nat /\ Occurred[s] <= now + Skew
  BY GoodState DEF Withdraw, Captured
<1>2. db' = Cleaned(a, now) /\ withdrawn' = W
  BY DEF Withdraw
<1>3. Tables(d) /\ Remembered(d, s, now) /\ Good(d, withdrawn, now)
  BY <1>1, WithdrawnReceiptGood DEF Good
<1>4. Tables(a)
  BY <1>1, <1>3, WithdrawnAlertGood DEF Good
<1>5. d.alerts = db.alerts /\ d.evidence = db.evidence
  BY <1>1, WithRowsCleans DEF WithdrawnReceipt, WithReceipt, Good
<1> HIDE DEF d
<1>6. Cleans(db, d, W, now) /\ Answered(d, W)
  BY <1>5, SameEvidenceCleans DEF Answered
<1>7. Cleans(d, a, W, now) /\ Answered(a, W) /\ Revoked(a, W)
  <2>1. CASE s \notin DOMAIN d.alerts
    <3>1. a = d
      BY <2>1 DEF WithdrawnAlert
    <3>2. Revoked(d, W)
      BY <1>3, <1>5, <2>1 DEF Revoked, Tables
    <3> QED BY <1>6, <3>1, <3>2, SameEvidenceCleans
  <2>2. CASE s \in DOMAIN d.alerts
    <3> DEFINE unfinished == {e \in Held(d, s) : d.evidence[e].st # "REVOKED"}
               first == IF d.alerts[s].withdrawn = None THEN now ELSE d.alerts[s].withdrawn
               alert == [d.alerts[s] EXCEPT !.withdrawn = first]
               r == Revoke(d, unfinished, now)
               p == WithAlert(r, s, alert)
    <3>1. a = Purge(p, {s})
      BY <2>2 DEF WithdrawnAlert, WithAlert
    <3>2. /\ unfinished \subseteq DOMAIN d.evidence
          /\ \A e \in unfinished : d.evidence[e].st \in {"PENDING", "AVAILABLE"}
          /\ \A e \in DOMAIN d.evidence : SourceOf[e] = s =>
               e \in unfinished \/ d.evidence[e].st \in {"REVOKED", "DELETED"}
      BY <1>3 DEF Held, Tables, Table, EvidenceRow, EvidenceStates
    <3>3. alert \in Alert
      <4>1. d.alerts[s] \in Alert
        BY <1>3, <2>2 DEF Tables, Table
      <4>2. first \in Nat
        BY <1>1, <4>1 DEF Alert, NatOrNone, None
      <4> HIDE DEF first
      <4> QED BY <4>1, <4>2, Zenon DEF Alert, NatOrNone
    <3> HIDE DEF unfinished, first, alert
    <3>4. /\ Tables(r) /\ r.alerts = d.alerts /\ Cleans(d, r, W, now)
          /\ DOMAIN r.evidence = DOMAIN d.evidence
          /\ \A e \in unfinished : r.evidence[e].st = "REVOKED"
          /\ \A e \in DOMAIN d.evidence \ unfinished : r.evidence[e] = d.evidence[e]
      <4>1. Tables(r) /\ r.alerts = d.alerts
        BY <1>1, <1>3, MarkDueKeeps
      <4>2. Cleans(d, r, W, now) /\ DOMAIN r.evidence = DOMAIN d.evidence
        BY <1>1, <1>3, <3>2, RevokeCleans
      <4>3. ASSUME NEW e \in DOMAIN d.evidence
            PROVE  /\ e \in unfinished => r.evidence[e].st = "REVOKED"
                   /\ e \notin unfinished => r.evidence[e] = d.evidence[e]
        BY <1>1, <1>3, RevokedRow
      <4> QED BY <3>2, <4>1, <4>2, <4>3
    <3> HIDE DEF r
    <3>5. Revoked(r, W)
      BY <1>5, <3>2, <3>4 DEF Revoked
    <3>6. /\ Tables(p) /\ p.evidence = r.evidence
          /\ p.alerts = Put(r.alerts, s, alert)
      BY <3>3, <3>4, WithAlertKeeps, WithRowsCleans
    <3> HIDE DEF p
    <3>7. Answered(p, W) /\ Cleans(r, p, W, now)
      BY <1>6, <3>4, <3>6, SameEvidenceCleans DEF Answered, Put
    <3>8. Cleans(p, Purge(p, {s}), W, now) /\ Answered(Purge(p, {s}), W)
      BY <1>1, <3>6, <3>7, PurgeCleans
    <3>9. Cleans(r, a, W, now) /\ Cleans(d, a, W, now)
      BY <3>1, <3>4, <3>7, <3>8, CleansTwice
    <3> QED BY <3>1, <3>5, <3>8, <3>9, CleansKeepsRevoked
  <2> QED BY <2>1, <2>2
<1> HIDE DEF a, W
<1>8. Cleans(a, Cleaned(a, now), W, now) /\ Answered(Cleaned(a, now), W)
  BY <1>1, <1>4, <1>7, CleanedCleans
<1>9. Cleans(db, Cleaned(a, now), W, now)
  BY <1>6, <1>7, <1>8, CleansTwice
<1>10. Revoked(Cleaned(a, now), W)
  BY <1>7, <1>8, CleansKeepsRevoked
<1> QED BY <1>2, <1>8, <1>9, <1>10 DEF Moved, Cleans

\* A manifest adds pending evidence only of a source that was not withdrawn.
LEMMA ManifestMoves ==
  ASSUME SourcesIInv, Answered(db, withdrawn), Revoked(db, withdrawn),
         NEW e \in Evidence, Manifest(e)
  PROVE  Moved
<1> DEFINE d == MarkDue(db, now)
           row == [st |-> "PENDING", created |-> now, revoked |-> None, retry |-> None]
           ev == Put(d.evidence, e, row)
<1>1. Good(db, withdrawn, now) /\ now \in Nat
  BY GoodState
<1>2. /\ Tables(d) /\ Cleans(db, d, withdrawn, now) /\ d.receipts = db.receipts
      /\ d.alerts = db.alerts /\ DOMAIN d.evidence = DOMAIN db.evidence
  BY <1>1, MarkDueKeeps, MarkDueCleans DEF MarkDue, Good
<1>3. /\ db' = IF e \in DOMAIN d.evidence THEN d ELSE [d EXCEPT !.evidence = ev]
      /\ withdrawn' = withdrawn
      /\ SourceOf[e] \in DOMAIN d.receipts /\ d.receipts[SourceOf[e]].withdrawn = None
  BY DEF Manifest
<1>4. row.st = "PENDING"
  OBVIOUS
<1> HIDE DEF d, row
<1>5. SourceOf[e] \notin withdrawn
  BY <1>1, <1>2, <1>3 DEF Good, Forgotten, Remembered
<1>6. Answered(d, withdrawn) /\ Revoked(d, withdrawn)
  BY <1>2, CleansKeepsRevoked DEF Answered
<1>7. CASE e \in DOMAIN d.evidence
  BY <1>2, <1>3, <1>6, <1>7 DEF Moved, Cleans
<1>8. CASE e \notin DOMAIN d.evidence
  <2> HIDE DEF ev
  <2>1. [d EXCEPT !.evidence = ev] = [receipts |-> d.receipts, alerts |-> d.alerts, evidence |-> ev]
    BY <1>2, ThreeTables, Zenon DEF Tables
  <2>2. db'.evidence = ev /\ db'.alerts = d.alerts
    BY <1>3, <1>8, <2>1
  <2>3. /\ DOMAIN ev = DOMAIN d.evidence \cup {e} /\ ev[e] = row
        /\ \A x \in DOMAIN d.evidence : ev[x] = d.evidence[x]
    BY <1>8 DEF ev, Put
  <2>4. Evolves(db, db', withdrawn, now)
    BY <1>2, <1>4, <1>5, <1>8, <2>2, <2>3 DEF Cleans, Evolves
  <2>5. Answered(db', withdrawn) /\ Revoked(db', withdrawn)
    BY <1>4, <1>5, <1>6, <2>2, <2>3 DEF Answered, Revoked
  <2> QED BY <1>3, <2>4, <2>5 DEF Moved
<1> QED BY <1>7, <1>8

\* Every step of CloudSources moves the evidence as it should, and time forward.
LEMMA SourcesMove ==
  ASSUME SourcesIInv, Answered(db, withdrawn), Revoked(db, withdrawn), [Next]_vars
  PROVE  /\ Moved /\ now' \in Nat /\ now <= now' /\ withdrawn \subseteq withdrawn'
<1>1. Good(db, withdrawn, now) /\ now \in Nat
  BY GoodState
<1>2. ASSUME UNCHANGED db, UNCHANGED withdrawn PROVE Moved
  <2>1. Cleans(db, db', withdrawn', now)
    BY <1>2, SameEvidenceCleans
  <2>2. Answered(db', withdrawn')
    BY <1>2 DEF Answered
  <2> QED BY <1>2, <2>1, <2>2, CleanedMoved
<1>3. ASSUME Maintain PROVE Moved
  BY <1>1, <1>3, CleanedCleans, CleanedMoved DEF Maintain, Good
<1>4. Moved
  BY <1>2, <1>3, ObserveMoves, ObserveAgainMoves, AlertMoves, WithdrawMoves, ManifestMoves
     DEF Next, Request, RevokeDevice, Tick, vars
<1>5. now' \in Nat /\ now <= now' /\ withdrawn \subseteq withdrawn'
  <2>1. now' = now \/ now' = now + 1
    BY DEF Next, Request, Observe, ObserveAgain, ReceiveAlert, Withdraw, Manifest, Review,
           Maintain, RevokeDevice, Tick, vars
  <2>2. withdrawn' = withdrawn \/ \E s \in Sources : withdrawn' = withdrawn \cup {s}
    BY DEF Next, Request, Observe, ObserveAgain, ReceiveAlert, Withdraw, Manifest, Review,
           Maintain, RevokeDevice, Tick, vars
  <2> QED BY <1>1, <2>1, <2>2
<1> QED BY <1>4, <1>5

-----------------------------------------------------------------------------
(* The inductive invariant of the evidence *)

EvidenceShapes ==
  /\ blobs \subseteq Evidence /\ abandoned \subseteq Evidence
  /\ uploads \in [Uploads -> Upload] /\ cleaners \in [Cleaners -> Pass]

\* Evidence that is never offered again, with or without a row.
Spent(e) ==
  \/ Expires[SourceOf[e]] <= now
  \/ SourceOf[e] \in withdrawn
  \/ e \in DOMAIN db.evidence /\ Row(e).st \in {"REVOKED", "DELETED"}

\* What a pass deletes, and what it has deleted.
Doomed(c) == IF cleaners[c].pc = "IDLE" THEN {}
             ELSE cleaners[c].todo \cup cleaners[c].removed \cup cleaners[c].failed
Gone(c) == IF cleaners[c].pc = "IDLE" THEN {} ELSE cleaners[c].removed

\* Only spent evidence is deleted from the store.
OnlySpentIsDeleted ==
  /\ \A c \in Cleaners : \A e \in Doomed(c) : Spent(e)
  /\ \A h \in Uploads : At(h, "REMOVING") => Spent(uploads[h].of)

\* What an upload is about to publish is stored.
StoredBeforeDecided ==
  \A h \in Uploads : At(h, "DECIDING") => uploads[h].of \in blobs \/ Spent(uploads[h].of)

\* An upload that stored an envelope, or may have, and will decide what becomes
\* of it.  One that only compares what is there answers for nothing.
Answers(h, e) ==
  /\ ~At(h, "IDLE") /\ uploads[h].of = e
  /\ ~(At(h, "STORING") /\ uploads[h].seen = "AVAILABLE")

\* What is stored has a row that no pass is about to record as deleted, or an
\* upload that answers for it.
Awaits(e) == /\ e \in DOMAIN db.evidence /\ Row(e).st # "DELETED"
           /\ \A c \in Cleaners : e \notin Gone(c)
Tracked == \A e \in blobs \ abandoned : Awaits(e) \/ \E h \in Uploads : Answers(h, e)

EvidenceIInv ==
  /\ SourcesIInv /\ EvidenceShapes
  /\ Answered(db, withdrawn) /\ Revoked(db, withdrawn)
  /\ OnlySpentIsDeleted /\ StoredBeforeDecided /\ AvailableIsStored /\ Tracked

-----------------------------------------------------------------------------
(* Uploads and passes *)

\* An upload is idle, or has evidence of its own.
LEMMA UploadTypes ==
  ASSUME EvidenceShapes, NEW h \in Uploads, ~At(h, "IDLE")
  PROVE  /\ uploads[h] \in [pc : {"STORING", "DECIDING", "REMOVING"},
                            of : Evidence, seen : {"PENDING", "AVAILABLE"}]
         /\ uploads[h].of \in Evidence /\ uploads[h].seen \in {"PENDING", "AVAILABLE"}
BY DEF EvidenceShapes, Upload, Idle, At

\* An upload that goes on keeps its evidence; one that returns is idle.
LEMMA UploadGoes ==
  ASSUME EvidenceShapes, NEW h \in Uploads, ~At(h, "IDLE"),
         NEW pc \in {"DECIDING", "REMOVING"}, Moves(h, pc)
  PROVE  /\ uploads' \in [Uploads -> Upload]
         /\ uploads'[h].pc = pc /\ uploads'[h].of = uploads[h].of
         /\ \A g \in Uploads \ {h} : uploads'[g] = uploads[g]
<1>1. uploads[h] \in [pc : {"STORING", "DECIDING", "REMOVING"},
                      of : Evidence, seen : {"PENDING", "AVAILABLE"}]
  BY UploadTypes
<1>2. \A u \in [pc : {"STORING", "DECIDING", "REMOVING"},
                of : Evidence, seen : {"PENDING", "AVAILABLE"}] :
        [u EXCEPT !.pc = pc] \in Upload /\ [u EXCEPT !.pc = pc].pc = pc
        /\ [u EXCEPT !.pc = pc].of = u.of
  BY DEF Upload
<1>3. uploads \in [Uploads -> Upload]
  BY DEF EvidenceShapes
<1>4. uploads' = [uploads EXCEPT ![h] = [uploads[h] EXCEPT !.pc = pc]]
  BY <1>3 DEF Moves
<1> QED BY <1>1, <1>2, <1>3, <1>4

\* A thread that returns is idle, and the others go on as they were.
LEMMA UploadReturns ==
  ASSUME EvidenceShapes, NEW h \in Uploads, Returns(h)
  PROVE  /\ uploads' \in [Uploads -> Upload] /\ uploads'[h].pc = "IDLE"
         /\ \A g \in Uploads \ {h} : uploads'[g] = uploads[g]
<1>1. uploads \in [Uploads -> Upload]
  BY DEF EvidenceShapes
<1>2. Idle \in Upload /\ Idle.pc = "IDLE"
  BY DEF Upload, Idle
<1> QED BY <1>1, <1>2 DEF Returns

\* A pass is idle, or has its three sets.
LEMMA PassTypes ==
  ASSUME EvidenceShapes, NEW c \in Cleaners
  PROVE  /\ Doomed(c) \subseteq Evidence /\ Gone(c) \subseteq Doomed(c)
         /\ cleaners[c].pc = "DELETING" =>
              cleaners[c] \in [pc : {"DELETING"}, todo : SUBSET Evidence,
                               removed : SUBSET Evidence, failed : SUBSET Evidence]
<1>1. cleaners[c] \in Pass
  BY DEF EvidenceShapes
<1> QED BY <1>1 DEF Pass, Idle, Doomed, Gone

\* Whatever the rows do, spent evidence stays so, nothing becomes available, and
\* no row goes before its envelope is recorded deleted.
LEMMA SpentStaysSo ==
  ASSUME EvidenceIInv, Moved, now' \in Nat, now <= now', withdrawn \subseteq withdrawn'
  PROVE  /\ \A e \in Evidence : Spent(e) => Spent(e)'
         /\ \A e \in DOMAIN db'.evidence :
              db'.evidence[e].st = "AVAILABLE" => e \in DOMAIN db.evidence /\ Row(e).st = "AVAILABLE"
         /\ \A e \in DOMAIN db.evidence :
              Row(e).st # "DELETED" => e \in DOMAIN db'.evidence /\ db'.evidence[e].st # "DELETED"
<1>1. now \in Nat /\ \A e \in Evidence : Expires[SourceOf[e]] \in Nat
  BY SourceAssumption, GoodState DEF EvidenceIInv
<1>2. \A e \in DOMAIN db'.evidence :
        db'.evidence[e].st = "AVAILABLE" => e \in DOMAIN db.evidence /\ Row(e).st = "AVAILABLE"
  BY DEF Moved, Evolves, Row
<1>3. \A e \in DOMAIN db.evidence :
        Row(e).st # "DELETED" => e \in DOMAIN db'.evidence /\ db'.evidence[e].st # "DELETED"
  BY DEF Moved, Evolves, Row
<1>4. ASSUME NEW e \in Evidence, Spent(e) PROVE Spent(e)'
  <2>1. CASE Expires[SourceOf[e]] <= now
    BY <1>1, <2>1 DEF Spent
  <2>2. CASE SourceOf[e] \in withdrawn
    BY <2>2 DEF Spent
  <2>3. CASE e \in DOMAIN db.evidence /\ Row(e).st \in {"REVOKED", "DELETED"}
    <3>1. CASE e \in DOMAIN db'.evidence
      BY <2>3, <3>1 DEF Moved, Evolves, Spent, Row
    <3>2. CASE e \notin DOMAIN db'.evidence
      <4>1. Expires[SourceOf[e]] <= now \/ SourceOf[e] \in withdrawn'
        BY <2>3, <3>2 DEF Moved, Evolves
      <4> QED BY <1>1, <4>1 DEF Spent
    <3> QED BY <3>1, <3>2
  <2> QED BY <1>4, <2>1, <2>2, <2>3 DEF Spent
<1> QED BY <1>2, <1>3, <1>4

\* The part of the invariant that the rows carry, when they move as they should
\* and the store, the uploads' places and the passes' sets are the same.
LEMMA RowsMove ==
  ASSUME EvidenceIInv, SourcesIInv', Moved, now' \in Nat, now <= now',
         withdrawn \subseteq withdrawn', UNCHANGED <<blobs, uploads, cleaners, abandoned>>
  PROVE  EvidenceIInv'
<1>1. /\ \A e \in Evidence : Spent(e) => Spent(e)'
      /\ \A e \in DOMAIN db'.evidence :
           db'.evidence[e].st = "AVAILABLE" => e \in DOMAIN db.evidence /\ Row(e).st = "AVAILABLE"
      /\ \A e \in DOMAIN db.evidence :
           Row(e).st # "DELETED" => e \in DOMAIN db'.evidence /\ db'.evidence[e].st # "DELETED"
  BY SpentStaysSo
<1>2. EvidenceShapes' /\ Answered(db, withdrawn)' /\ Revoked(db, withdrawn)'
  BY DEF EvidenceIInv, EvidenceShapes, Moved
<1>3. OnlySpentIsDeleted'
  <2>1. \A c \in Cleaners : Doomed(c)' = Doomed(c) /\ Doomed(c) \subseteq Evidence
    BY PassTypes DEF EvidenceIInv, Doomed
  <2>2. \A h \in Uploads : At(h, "REMOVING") => uploads[h].of \in Evidence
    BY UploadTypes DEF EvidenceIInv, At
  <2> QED BY <1>1, <2>1, <2>2 DEF EvidenceIInv, OnlySpentIsDeleted, At
<1>4. StoredBeforeDecided'
  <2>1. \A h \in Uploads : At(h, "DECIDING") => uploads[h].of \in Evidence
    BY UploadTypes DEF EvidenceIInv, At
  <2> QED BY <1>1, <2>1 DEF EvidenceIInv, StoredBeforeDecided, At
<1>5. AvailableIsStored'
  <2>1. \A e \in DOMAIN db.evidence : Expires[SourceOf[e]] > now' => Expires[SourceOf[e]] > now
    <3>1. DOMAIN db.evidence \subseteq Evidence /\ now \in Nat
      BY GoodState DEF EvidenceIInv, Good, Tables, Table
    <3> QED BY <3>1, SourceAssumption
  <2> QED BY <1>1, <2>1 DEF EvidenceIInv, AvailableIsStored, Row
<1>6. Tracked'
  BY <1>1 DEF EvidenceIInv, Tracked, Awaits, Gone, Answers, At, Row
<1> QED BY <1>2, <1>3, <1>4, <1>5, <1>6 DEF EvidenceIInv

-----------------------------------------------------------------------------
(* upload *)

\* A step that leaves the rows alone.
LEMMA SameRows ==
  ASSUME EvidenceIInv, UNCHANGED vars
  PROVE  /\ SourcesIInv' /\ Answered(db, withdrawn)' /\ Revoked(db, withdrawn)'
         /\ \A e : (Spent(e)' <=> Spent(e)) /\ Row(e)' = Row(e)
         /\ UNCHANGED <<now, db, withdrawn>>
<1>1. UNCHANGED <<now, db, authorised, withdrawn>>
  BY DEF vars
<1>2. SourcesIInv'
  BY <1>1, SourcesInductive DEF EvidenceIInv, vars
<1> QED BY <1>1, <1>2 DEF EvidenceIInv, Answered, Revoked, Spent, Row

\* An upload begins once what is due was marked.
LEMMA UploadBeginKeeps ==
  ASSUME EvidenceIInv, NEW h \in Uploads, NEW e \in Evidence, UploadBegin(h, e)
  PROVE  EvidenceIInv'
<1> DEFINE d == MarkDue(db, now)
<1>1. Good(db, withdrawn, now) /\ now \in Nat /\ authorised \in BOOLEAN
  BY GoodState DEF EvidenceIInv
<1>2. /\ db' = d /\ UNCHANGED <<now, authorised, withdrawn, blobs, cleaners, abandoned>>
      /\ At(h, "IDLE") /\ e \in DOMAIN d.evidence
      /\ d.evidence[e].st \in {"PENDING", "AVAILABLE"}
      /\ uploads' = [uploads EXCEPT ![h] =
                       [pc |-> "STORING", of |-> e, seen |-> d.evidence[e].st]]
  BY DEF UploadBegin
<1>3. Good(d, withdrawn, now) /\ Cleans(db, d, withdrawn, now) /\ d.alerts = db.alerts
  BY <1>1, RevokeGood, MarkDueCleans, MarkDueKeeps DEF MarkDue, Good
<1> HIDE DEF d
<1>4. Moved
  BY <1>2, <1>3, CleanedMoved DEF EvidenceIInv, Answered
<1>5. SourcesIInv'
  <2>1. /\ now' \in Nat /\ authorised' \in BOOLEAN /\ Good(db', withdrawn', now')
    BY <1>1, <1>2, <1>3
  <2> QED BY <2>1 DEF SourcesIInv, Good, TypeOK
<1>6. /\ \A x \in Evidence : Spent(x) => Spent(x)'
      /\ \A x \in DOMAIN db'.evidence :
           db'.evidence[x].st = "AVAILABLE" => x \in DOMAIN db.evidence /\ Row(x).st = "AVAILABLE"
      /\ \A x \in DOMAIN db.evidence :
           Row(x).st # "DELETED" => x \in DOMAIN db'.evidence /\ db'.evidence[x].st # "DELETED"
  BY <1>1, <1>2, <1>4, SpentStaysSo
<1>7. /\ uploads' \in [Uploads -> Upload] /\ uploads'[h].pc = "STORING"
      /\ \A g \in Uploads \ {h} : uploads'[g] = uploads[g]
  <2>1. [pc |-> "STORING", of |-> e, seen |-> d.evidence[e].st] \in Upload
    BY <1>2 DEF Upload
  <2> QED BY <1>2, <2>1 DEF EvidenceIInv, EvidenceShapes
<1>8. EvidenceShapes' /\ Answered(db, withdrawn)' /\ Revoked(db, withdrawn)'
  BY <1>2, <1>4, <1>7 DEF EvidenceIInv, EvidenceShapes, Moved
<1>9. OnlySpentIsDeleted'
  <2>1. \A c \in Cleaners : Doomed(c)' = Doomed(c) /\ Doomed(c) \subseteq Evidence
    BY <1>2, PassTypes DEF EvidenceIInv, Doomed
  <2>2. \A g \in Uploads : At(g, "REMOVING") => uploads[g].of \in Evidence
    BY UploadTypes DEF EvidenceIInv, At
  <2> QED BY <1>6, <1>7, <2>1, <2>2 DEF EvidenceIInv, OnlySpentIsDeleted, At
<1>10. StoredBeforeDecided'
  <2>1. \A g \in Uploads : At(g, "DECIDING") => uploads[g].of \in Evidence
    BY UploadTypes DEF EvidenceIInv, At
  <2> QED BY <1>2, <1>6, <1>7, <2>1 DEF EvidenceIInv, StoredBeforeDecided, At
<1>11. AvailableIsStored'
  BY <1>2, <1>6 DEF EvidenceIInv, AvailableIsStored, Row
<1>12. Tracked'
  <2>1. \A x : Awaits(x) => Awaits(x)'
    BY <1>2, <1>6 DEF Awaits, Gone, Row
  <2>2. \A g \in Uploads : \A x : Answers(g, x) => Answers(g, x)'
    BY <1>2, <1>7 DEF Answers, At
  <2> QED BY <1>2, <2>1, <2>2 DEF EvidenceIInv, Tracked
<1> QED BY <1>5, <1>8, <1>9, <1>10, <1>11, <1>12 DEF EvidenceIInv

\* The envelope is stored, or was, and the upload will decide.
LEMMA UploadStoreKeeps ==
  ASSUME EvidenceIInv, NEW h \in Uploads, UploadStore(h)
  PROVE  EvidenceIInv'
<1> DEFINE e == uploads[h].of
<1>1. /\ At(h, "STORING") /\ UNCHANGED vars /\ UNCHANGED <<cleaners, abandoned>>
      /\ Moves(h, "DECIDING") /\ EvidenceShapes
      /\ blobs \subseteq blobs' /\ blobs' \subseteq blobs \cup {e} /\ e \in blobs'
  BY DEF UploadStore, EvidenceIInv
<1>2. /\ SourcesIInv' /\ Answered(db, withdrawn)' /\ Revoked(db, withdrawn)'
      /\ \A x : (Spent(x)' <=> Spent(x)) /\ Row(x)' = Row(x)
      /\ UNCHANGED <<now, db, withdrawn>>
  BY <1>1, SameRows
<1>3. ~At(h, "IDLE") /\ ~At(h, "REMOVING") /\ e \in Evidence
  BY <1>1, UploadTypes DEF At
<1>4. /\ uploads' \in [Uploads -> Upload]
      /\ uploads'[h].pc = "DECIDING" /\ uploads'[h].of = e
      /\ \A g \in Uploads \ {h} : uploads'[g] = uploads[g]
  BY <1>1, <1>3, UploadGoes
<1> HIDE DEF e
<1>5. EvidenceShapes'
  BY <1>1, <1>3, <1>4 DEF EvidenceShapes
<1>6. OnlySpentIsDeleted'
  BY <1>1, <1>2, <1>4 DEF EvidenceIInv, OnlySpentIsDeleted, Doomed, At
<1>7. StoredBeforeDecided'
  BY <1>1, <1>2, <1>4 DEF EvidenceIInv, StoredBeforeDecided, At
<1>8. AvailableIsStored'
  BY <1>1, <1>2 DEF EvidenceIInv, AvailableIsStored
<1>9. Tracked'
  <2>1. \A x : x = e => Answers(h, x)'
    BY <1>4 DEF Answers, At
  <2>2. \A g \in Uploads : \A x : Answers(g, x) => Answers(g, x)'
    BY <1>4, <2>1 DEF Answers, At, e
  <2>3. \A x : Awaits(x) => Awaits(x)'
    BY <1>1, <1>2 DEF Awaits, Gone
  <2>4. ASSUME NEW x \in blobs' \ abandoned' PROVE Awaits(x)' \/ \E g \in Uploads : Answers(g, x)'
    <3>1. CASE x = e
      BY <2>1, <3>1
    <3>2. CASE x \in blobs \ abandoned
      BY <2>2, <2>3, <3>2 DEF EvidenceIInv, Tracked
    <3> QED BY <1>1, <2>4, <3>1, <3>2
  <2> QED BY <2>4 DEF Tracked
<1> QED BY <1>2, <1>5, <1>6, <1>7, <1>8, <1>9 DEF EvidenceIInv

\* An upload that found nothing, failed, was refused or is done answers for
\* nothing any more: what it may have left is gone, abandoned or has its row.
LEMMA UploadReturnsKeeps ==
  ASSUME EvidenceIInv, NEW h \in Uploads, Returns(h), UNCHANGED vars, UNCHANGED cleaners,
         ~At(h, "IDLE"),
         abandoned \subseteq abandoned', abandoned' \subseteq Evidence,
         blobs' \subseteq Evidence,
         \A e \in blobs \ blobs' : Spent(e),
         \A e \in blobs' \ abandoned' : e \in blobs /\ ~Answers(h, e)
  PROVE  EvidenceIInv'
<1>1. /\ SourcesIInv' /\ Answered(db, withdrawn)' /\ Revoked(db, withdrawn)'
      /\ \A x : (Spent(x)' <=> Spent(x)) /\ Row(x)' = Row(x)
      /\ UNCHANGED <<now, db, withdrawn>>
  BY SameRows
<1>2. /\ uploads' \in [Uploads -> Upload] /\ uploads'[h].pc = "IDLE"
      /\ \A g \in Uploads \ {h} : uploads'[g] = uploads[g]
  BY UploadReturns DEF EvidenceIInv
<1>3. EvidenceShapes'
  BY <1>2 DEF EvidenceIInv, EvidenceShapes
<1>4. OnlySpentIsDeleted'
  BY <1>1, <1>2 DEF EvidenceIInv, OnlySpentIsDeleted, Doomed, At
<1>5. StoredBeforeDecided'
  <2> SUFFICES ASSUME NEW g \in Uploads, At(g, "DECIDING")'
               PROVE  (uploads[g].of \in blobs \/ Spent(uploads[g].of))'
    BY DEF StoredBeforeDecided
  <2>1. g # h /\ uploads'[g] = uploads[g]
    BY <1>2 DEF At
  <2>2. uploads[g].of \in blobs \/ Spent(uploads[g].of)
    BY <2>1 DEF EvidenceIInv, StoredBeforeDecided, At
  <2> QED BY <1>1, <2>1, <2>2
<1>6. AvailableIsStored'
  <2>1. \A e \in DOMAIN db.evidence :
          Row(e).st = "AVAILABLE" /\ Expires[SourceOf[e]] > now => ~Spent(e)
    <3>1. DOMAIN db.evidence \subseteq Evidence /\ now \in Nat
      BY GoodState DEF EvidenceIInv, Good, Tables, Table
    <3> QED BY <3>1, SourceAssumption DEF EvidenceIInv, Spent, Revoked, Row
  <2> QED BY <1>1, <2>1 DEF EvidenceIInv, AvailableIsStored
<1>7. Tracked'
  <2>1. \A g \in Uploads \ {h} : \A x : Answers(g, x) => Answers(g, x)'
    BY <1>2 DEF Answers, At
  <2>2. \A x : Awaits(x) => Awaits(x)'
    BY <1>1 DEF Awaits, Gone
  <2> QED BY <2>1, <2>2 DEF EvidenceIInv, Tracked
<1> QED BY <1>1, <1>3, <1>4, <1>5, <1>6, <1>7 DEF EvidenceIInv

\* Nothing was there to compare with.
LEMMA UploadMissingKeeps ==
  ASSUME EvidenceIInv, NEW h \in Uploads, UploadMissing(h)
  PROVE  EvidenceIInv'
<1>1. \A e \in blobs' \ abandoned' : e \in blobs /\ ~Answers(h, e)
  BY DEF UploadMissing, Answers
<1> QED BY <1>1, UploadReturnsKeeps DEF UploadMissing, EvidenceIInv, EvidenceShapes, At

\* What a failed upload may have stored is abandoned.
LEMMA UploadFailsKeeps ==
  ASSUME EvidenceIInv, NEW h \in Uploads, UploadFails(h)
  PROVE  EvidenceIInv'
<1>1. At(h, "STORING") /\ ~At(h, "IDLE") /\ uploads[h].of \in Evidence
      /\ uploads[h].seen \in {"PENDING", "AVAILABLE"}
  BY UploadTypes DEF UploadFails, EvidenceIInv, At
<1>2. /\ blobs \subseteq blobs' /\ blobs' \subseteq Evidence
      /\ abandoned \subseteq abandoned' /\ abandoned' \subseteq Evidence
      /\ \A e \in blobs' \ abandoned' : e \in blobs /\ ~Answers(h, e)
  BY <1>1 DEF UploadFails, Answers, EvidenceIInv, EvidenceShapes
<1>3. Returns(h) /\ UNCHANGED vars /\ UNCHANGED cleaners
  BY DEF UploadFails
<1> QED BY <1>1, <1>2, <1>3, UploadReturnsKeeps

\* ... and so is what an upload stored that was refused.
LEMMA UploadRefusedKeeps ==
  ASSUME EvidenceIInv, NEW h \in Uploads, UploadRefused(h)
  PROVE  EvidenceIInv'
<1>1. At(h, "DECIDING") /\ ~At(h, "IDLE") /\ uploads[h].of \in Evidence
  BY UploadTypes DEF UploadRefused, EvidenceIInv, At
<1>2. /\ blobs' = blobs /\ abandoned' = abandoned \cup {uploads[h].of}
      /\ Returns(h) /\ UNCHANGED vars /\ UNCHANGED cleaners
  BY DEF UploadRefused
<1>3. /\ abandoned' \subseteq Evidence /\ blobs' \subseteq Evidence
      /\ \A e \in blobs' \ abandoned' : e \in blobs /\ ~Answers(h, e)
  BY <1>1, <1>2 DEF Answers, EvidenceIInv, EvidenceShapes
<1> QED BY <1>1, <1>2, <1>3, UploadReturnsKeeps

\* A compensating delete takes only what is spent.
LEMMA UploadRemovesKeeps ==
  ASSUME EvidenceIInv, NEW h \in Uploads, UploadRemoves(h)
  PROVE  EvidenceIInv'
<1>1. /\ At(h, "REMOVING") /\ ~At(h, "IDLE") /\ uploads[h].of \in Evidence
      /\ Spent(uploads[h].of)
  BY UploadTypes DEF UploadRemoves, EvidenceIInv, OnlySpentIsDeleted, At
<1>2. /\ Returns(h) /\ UNCHANGED vars /\ UNCHANGED cleaners
      /\ \/ blobs' = blobs \ {uploads[h].of} /\ abandoned' = abandoned
         \/ blobs' = blobs /\ abandoned' = abandoned \cup {uploads[h].of}
  BY DEF UploadRemoves
<1>3. /\ abandoned \subseteq abandoned' /\ abandoned' \subseteq Evidence /\ blobs' \subseteq Evidence
      /\ \A e \in blobs \ blobs' : Spent(e)
      /\ \A e \in blobs' \ abandoned' : e \in blobs /\ ~Answers(h, e)
  BY <1>1, <1>2 DEF Answers, EvidenceIInv, EvidenceShapes
<1> QED BY <1>1, <1>2, <1>3, UploadReturnsKeeps

\* What is found lost is spent, and goes on being answered for.
LEMMA UploadWithdrawsKeeps ==
  ASSUME EvidenceIInv, NEW h \in Uploads, UploadWithdraws(h)
  PROVE  EvidenceIInv'
<1> DEFINE e == uploads[h].of
<1>1. /\ At(h, "DECIDING") /\ UNCHANGED vars /\ UNCHANGED <<blobs, cleaners, abandoned>>
      /\ Moves(h, "REMOVING") /\ EvidenceShapes /\ Spent(e)
  BY DEF UploadWithdraws, EvidenceIInv, Lost, Spent
<1>2. /\ SourcesIInv' /\ Answered(db, withdrawn)' /\ Revoked(db, withdrawn)'
      /\ \A x : (Spent(x)' <=> Spent(x)) /\ Row(x)' = Row(x)
      /\ UNCHANGED <<now, db, withdrawn>>
  BY <1>1, SameRows
<1>3. ~At(h, "IDLE") /\ ~At(h, "STORING") /\ e \in Evidence
  BY <1>1, UploadTypes DEF At
<1>4. /\ uploads' \in [Uploads -> Upload]
      /\ uploads'[h].pc = "REMOVING" /\ uploads'[h].of = e
      /\ \A g \in Uploads \ {h} : uploads'[g] = uploads[g]
  BY <1>1, <1>3, UploadGoes
<1> HIDE DEF e
<1>5. EvidenceShapes'
  BY <1>1, <1>4 DEF EvidenceShapes
<1>6. OnlySpentIsDeleted'
  BY <1>1, <1>2, <1>4 DEF EvidenceIInv, OnlySpentIsDeleted, Doomed, At
<1>7. StoredBeforeDecided'
  BY <1>1, <1>2, <1>4 DEF EvidenceIInv, StoredBeforeDecided, At
<1>8. AvailableIsStored'
  BY <1>1, <1>2 DEF EvidenceIInv, AvailableIsStored
<1>9. Tracked'
  <2>1. \A x : x = e => Answers(h, x)'
    BY <1>4 DEF Answers, At
  <2>2. \A g \in Uploads : \A x : Answers(g, x) => Answers(g, x)'
    BY <1>4, <2>1 DEF Answers, At, e
  <2>3. \A x : Awaits(x) => Awaits(x)'
    BY <1>1, <1>2 DEF Awaits, Gone
  <2> QED BY <1>1, <2>2, <2>3 DEF EvidenceIInv, Tracked
<1> QED BY <1>2, <1>5, <1>6, <1>7, <1>8, <1>9 DEF EvidenceIInv

\* Rows of evidence that are only rewritten.
LEMMA RewrittenGood ==
  ASSUME NEW d, NEW W, NEW t, Good(d, W, t), NEW ev,
         ev \in [DOMAIN d.evidence -> EvidenceRow]
  PROVE  LET p == [d EXCEPT !.evidence = ev]
         IN  Good(p, W, t) /\ p.evidence = ev /\ p.alerts = d.alerts
<1> DEFINE p == [d EXCEPT !.evidence = ev]
<1>1. p = [receipts |-> d.receipts, alerts |-> d.alerts, evidence |-> ev]
  BY ThreeTables, Zenon DEF Good, Tables
<1> HIDE DEF p
<1>2. p.receipts = d.receipts /\ p.alerts = d.alerts /\ p.evidence = ev
  BY <1>1
<1>3. Table(ev, Evidence, EvidenceRow)
  BY DEF Table, Good, Tables
<1>4. p = [receipts |-> p.receipts, alerts |-> p.alerts, evidence |-> p.evidence]
  BY <1>1, <1>2
<1>5. Tables(p)
  BY <1>2, <1>3, <1>4 DEF Good, Tables
<1>6. Good(p, W, t)
  BY <1>2, <1>5 DEF Good, Dated, Forgotten, Remembered, NotShownAgain
<1> QED BY <1>2, <1>6 DEF p

\* Only what is stored is published, and it is not what a pass is deleting.
LEMMA UploadPublishesKeeps ==
  ASSUME EvidenceIInv, NEW h \in Uploads, UploadPublishes(h)
  PROVE  EvidenceIInv'
<1> DEFINE e == uploads[h].of
           row == [Row(e) EXCEPT !.st = "AVAILABLE"]
           ev == Put(db.evidence, e, row)
<1>1. /\ At(h, "DECIDING") /\ e \in DOMAIN db.evidence /\ ~Lost(e)
      /\ db' = [db EXCEPT !.evidence = ev] /\ Returns(h)
      /\ UNCHANGED <<now, authorised, withdrawn, blobs, cleaners, abandoned>>
  BY DEF UploadPublishes
<1>2. Good(db, withdrawn, now) /\ now \in Nat /\ authorised \in BOOLEAN
  BY GoodState DEF EvidenceIInv
<1>3. Row(e) \in EvidenceRow
  BY <1>1, <1>2 DEF Good, Tables, Table, Row
<1>4. row \in EvidenceRow /\ row.st = "AVAILABLE"
  BY <1>3 DEF EvidenceRow, EvidenceStates
<1>5. ~Spent(e) /\ e \in blobs
  <2>1. SourceOf[e] \notin withdrawn
    BY <1>1 DEF EvidenceIInv, Revoked, Lost, Row
  <2> QED BY <1>1, <2>1 DEF Spent, Lost, EvidenceIInv, StoredBeforeDecided
<1> HIDE DEF row, e
<1>6. /\ ev \in [DOMAIN db.evidence -> EvidenceRow] /\ ev[e] = row
      /\ \A x \in DOMAIN db.evidence \ {e} : ev[x] = Row(x)
  BY <1>1, <1>2, <1>4 DEF Put, Good, Tables, Table, Row
<1> HIDE DEF ev
<1>7. Good(db', withdrawn, now) /\ db'.evidence = ev /\ db'.alerts = db.alerts
  BY <1>1, <1>2, <1>6, RewrittenGood
<1>8. SourcesIInv' /\ Answered(db, withdrawn)'
  <2>1. now' \in Nat /\ authorised' \in BOOLEAN /\ Good(db', withdrawn', now')
    BY <1>1, <1>2, <1>7
  <2> QED BY <1>1, <1>7, <2>1 DEF SourcesIInv, Good, TypeOK, Answered, EvidenceIInv
<1>9. /\ \A x : x # e => (Spent(x)' <=> Spent(x)) /\ (Awaits(x)' <=> Awaits(x))
      /\ \A x \in DOMAIN db.evidence \ {e} : db'.evidence[x] = Row(x)
      /\ DOMAIN db'.evidence = DOMAIN db.evidence /\ db'.evidence[e].st = "AVAILABLE"
  BY <1>1, <1>4, <1>6, <1>7 DEF Spent, Awaits, Gone, Row
<1>10. /\ uploads' \in [Uploads -> Upload] /\ uploads'[h].pc = "IDLE"
       /\ \A g \in Uploads \ {h} : uploads'[g] = uploads[g]
  BY <1>1, UploadReturns DEF EvidenceIInv
<1>11. EvidenceShapes' /\ Revoked(db, withdrawn)'
  BY <1>1, <1>5, <1>9, <1>10 DEF EvidenceIInv, EvidenceShapes, Revoked, Row, Spent
<1>12. OnlySpentIsDeleted'
  <2>1. \A x : Spent(x) => Spent(x)'
    BY <1>5, <1>9
  <2> QED BY <1>1, <1>10, <2>1 DEF EvidenceIInv, OnlySpentIsDeleted, Doomed, At
<1>13. StoredBeforeDecided'
  <2>1. \A x : Spent(x) => Spent(x)'
    BY <1>5, <1>9
  <2> QED BY <1>1, <1>10, <2>1 DEF EvidenceIInv, StoredBeforeDecided, At
<1>14. AvailableIsStored'
  BY <1>1, <1>5, <1>9 DEF EvidenceIInv, AvailableIsStored, Row
<1>15. Tracked'
  <2>1. \A g \in Uploads \ {h} : \A x : Answers(g, x) => Answers(g, x)'
    BY <1>10 DEF Answers, At
  <2>2. \A c \in Cleaners : e \notin Gone(c)
    BY <1>5, PassTypes DEF EvidenceIInv, OnlySpentIsDeleted
  <2>3. \A x : x = e => Awaits(x)'
    BY <1>1, <1>9, <2>2 DEF Awaits, Gone, Row
  <2>4. \A x : Answers(h, x) => x = e
    BY DEF Answers, e
  <2> QED BY <1>1, <1>9, <2>1, <2>3, <2>4 DEF EvidenceIInv, Tracked
<1> QED BY <1>8, <1>11, <1>12, <1>13, <1>14, <1>15 DEF EvidenceIInv

-----------------------------------------------------------------------------
(* EvidenceCleanup *)

\* A batch is part of what it is taken from.
LEMMA BatchesArePart ==
  /\ \A n, S : \A part \in FirstOf(n, S) : part \subseteq S
  /\ \A d, t : \A part \in NextBatches(d, t) : part \subseteq Waiting(d, t)
BY DEF FirstOf, kSubset, NextBatches

\* A pass takes only what is revoked.
LEMMA CleanBeginKeeps ==
  ASSUME EvidenceIInv, NEW c \in Cleaners, CleanBegin(c)
  PROVE  EvidenceIInv'
<1>1. Good(db, withdrawn, now) /\ now \in Nat /\ authorised \in BOOLEAN
  BY GoodState DEF EvidenceIInv
<1>2. PICK revoked \in SUBSET {e \in DOMAIN db.evidence : IsDue(db, e, now)} :
        LET d == Revoke(db, revoked, now)
        IN  /\ db' = d
            /\ \E batch \in NextBatches(d, now) :
                 cleaners' = IF batch = {} THEN cleaners
                             ELSE [cleaners EXCEPT ![c] =
                               [pc |-> "DELETING", todo |-> batch, removed |-> {}, failed |-> {}]]
  BY BatchesArePart DEF CleanBegin
<1>3. UNCHANGED <<now, authorised, withdrawn, blobs, uploads, abandoned>>
  BY DEF CleanBegin
<1>4. \A e \in revoked : db.evidence[e].st \in {"PENDING", "AVAILABLE"}
  BY DEF IsDue
<1> DEFINE d == Revoke(db, revoked, now)
<1>5. Good(d, withdrawn, now) /\ Cleans(db, d, withdrawn, now) /\ d.alerts = db.alerts
  BY <1>1, <1>4, RevokeGood, RevokeCleans, MarkDueKeeps DEF Good
<1>6. PICK batch \in NextBatches(d, now) :
        cleaners' = IF batch = {} THEN cleaners
                    ELSE [cleaners EXCEPT ![c] =
                      [pc |-> "DELETING", todo |-> batch, removed |-> {}, failed |-> {}]]
  BY <1>2
<1>7. db' = d
  BY <1>2
<1> HIDE DEF d
<1>8. batch \subseteq DOMAIN db'.evidence /\ \A e \in batch : db'.evidence[e].st = "REVOKED"
  BY <1>7, BatchesArePart DEF Waiting
<1>9. Moved
  BY <1>3, <1>5, <1>7, CleanedMoved DEF EvidenceIInv, Answered
<1>10. SourcesIInv'
  <2>1. now' \in Nat /\ authorised' \in BOOLEAN /\ Good(db', withdrawn', now')
    BY <1>1, <1>3, <1>5, <1>7
  <2> QED BY <2>1 DEF SourcesIInv, Good, TypeOK
<1>11. /\ \A x \in Evidence : Spent(x) => Spent(x)'
       /\ \A x \in DOMAIN db'.evidence :
            db'.evidence[x].st = "AVAILABLE" => x \in DOMAIN db.evidence /\ Row(x).st = "AVAILABLE"
       /\ \A x \in DOMAIN db.evidence :
            Row(x).st # "DELETED" => x \in DOMAIN db'.evidence /\ db'.evidence[x].st # "DELETED"
  BY <1>1, <1>3, <1>9, SpentStaysSo
<1>12. DOMAIN db'.evidence \subseteq Evidence
  BY <1>5, <1>7 DEF Good, Tables, Table
<1>13. /\ cleaners' \in [Cleaners -> Pass]
       /\ \A b \in Cleaners : Doomed(b)' \subseteq Doomed(b) \cup batch /\ Gone(b)' \subseteq Gone(b)
  <2>1. cleaners \in [Cleaners -> Pass]
    BY DEF EvidenceIInv, EvidenceShapes
  <2>2. CASE batch = {}
    BY <1>6, <2>1, <2>2 DEF Doomed, Gone
  <2>3. CASE batch # {}
    <3> DEFINE pass == [pc |-> "DELETING", todo |-> batch, removed |-> {}, failed |-> {}]
    <3>1. /\ pass \in Pass /\ pass.pc = "DELETING" /\ pass.todo = batch
          /\ pass.removed = {} /\ pass.failed = {}
      BY <1>8, <1>12 DEF Pass
    <3>2. cleaners' = [cleaners EXCEPT ![c] = pass]
      BY <1>6, <2>3
    <3> HIDE DEF pass
    <3>3. cleaners'[c] = pass /\ \A b \in Cleaners \ {c} : cleaners'[b] = cleaners[b]
      BY <2>1, <3>2
    <3>4. cleaners' \in [Cleaners -> Pass]
      BY <2>1, <3>1, <3>2
    <3> QED BY <3>1, <3>3, <3>4 DEF Doomed, Gone
  <2> QED BY <2>2, <2>3
<1>14. EvidenceShapes' /\ Answered(db, withdrawn)' /\ Revoked(db, withdrawn)'
  BY <1>3, <1>9, <1>13 DEF EvidenceIInv, EvidenceShapes, Moved
<1>15. OnlySpentIsDeleted'
  <2>1. \A b \in Cleaners : Doomed(b) \subseteq Evidence
    BY PassTypes DEF EvidenceIInv
  <2>2. \A g \in Uploads : At(g, "REMOVING") => uploads[g].of \in Evidence
    BY UploadTypes DEF EvidenceIInv, At
  <2>3. \A e \in batch : Spent(e)'
    BY <1>8 DEF Spent, Row
  <2> QED BY <1>3, <1>11, <1>13, <2>1, <2>2, <2>3 DEF EvidenceIInv, OnlySpentIsDeleted, At
<1>16. StoredBeforeDecided'
  <2>1. \A g \in Uploads : At(g, "DECIDING") => uploads[g].of \in Evidence
    BY UploadTypes DEF EvidenceIInv, At
  <2> QED BY <1>3, <1>11, <2>1 DEF EvidenceIInv, StoredBeforeDecided, At
<1>17. AvailableIsStored'
  BY <1>3, <1>11 DEF EvidenceIInv, AvailableIsStored, Row
<1>18. Tracked'
  <2>1. \A x : Awaits(x) => Awaits(x)'
    BY <1>11, <1>13 DEF Awaits, Row
  <2>2. \A g \in Uploads : \A x : Answers(g, x) => Answers(g, x)'
    BY <1>3 DEF Answers, At
  <2> QED BY <1>3, <2>1, <2>2 DEF EvidenceIInv, Tracked
<1> QED BY <1>10, <1>14, <1>15, <1>16, <1>17, <1>18 DEF EvidenceIInv

\* What a pass is after one more delete, field by field.
LEMMA PassMovesOn ==
  ASSUME NEW p \in [pc : {"DELETING"}, todo : SUBSET Evidence,
                    removed : SUBSET Evidence, failed : SUBSET Evidence],
         NEW e \in Evidence
  PROVE  /\ [p EXCEPT !.todo = p.todo \ {e}, !.removed = p.removed \cup {e}] =
              [pc |-> "DELETING", todo |-> p.todo \ {e}, removed |-> p.removed \cup {e},
               failed |-> p.failed]
         /\ [p EXCEPT !.todo = p.todo \ {e}, !.failed = p.failed \cup {e}] =
              [pc |-> "DELETING", todo |-> p.todo \ {e}, removed |-> p.removed,
               failed |-> p.failed \cup {e}]
<1>1. PICK q : q = [p EXCEPT !.todo = p.todo \ {e}]
  OBVIOUS
<1>2. q = [pc |-> "DELETING", todo |-> p.todo \ {e}, removed |-> p.removed, failed |-> p.failed]
  BY <1>1
<1>3. PICK x : x = p.removed \cup {e}
  OBVIOUS
<1>4. PICK y : y = p.failed \cup {e}
  OBVIOUS
<1>5. /\ [q EXCEPT !.removed = x] =
           [pc |-> "DELETING", todo |-> p.todo \ {e}, removed |-> x, failed |-> p.failed]
      /\ [q EXCEPT !.failed = y] =
           [pc |-> "DELETING", todo |-> p.todo \ {e}, removed |-> p.removed, failed |-> y]
  BY <1>2
<1>6. [p EXCEPT !.todo = p.todo \ {e}, !.removed = p.removed \cup {e}] = [q EXCEPT !.removed = x]
  BY <1>1, <1>3
<1>7. [p EXCEPT !.todo = p.todo \ {e}, !.failed = p.failed \cup {e}] = [q EXCEPT !.failed = y]
  BY <1>1, <1>4
<1> QED BY <1>5, <1>6, <1>7, <1>3, <1>4

\* A pass that moves on with the same evidence deletes only what it was given.
LEMMA CleanDeleteKeeps ==
  ASSUME EvidenceIInv, NEW c \in Cleaners, NEW e \in Evidence, CleanDelete(c, e)
  PROVE  EvidenceIInv'
<1>1. /\ cleaners[c].pc = "DELETING" /\ e \in cleaners[c].todo
      /\ UNCHANGED vars /\ UNCHANGED <<uploads, abandoned>>
      /\ blobs' \subseteq blobs /\ blobs \ {e} \subseteq blobs'
  BY DEF CleanDelete
<1>2. /\ SourcesIInv' /\ Answered(db, withdrawn)' /\ Revoked(db, withdrawn)'
      /\ \A x : (Spent(x)' <=> Spent(x)) /\ Row(x)' = Row(x)
      /\ UNCHANGED <<now, db, withdrawn>>
  BY <1>1, SameRows
<1>3. cleaners[c] \in [pc : {"DELETING"}, todo : SUBSET Evidence,
                       removed : SUBSET Evidence, failed : SUBSET Evidence]
  BY <1>1, PassTypes DEF EvidenceIInv
<1>4. PICK pass \in [pc : {"DELETING"}, todo : SUBSET Evidence,
                     removed : SUBSET Evidence, failed : SUBSET Evidence] :
        /\ cleaners' = [cleaners EXCEPT ![c] = pass]
        /\ pass.todo \cup pass.removed \cup pass.failed
             \subseteq cleaners[c].todo \cup cleaners[c].removed \cup cleaners[c].failed
        /\ \/ pass.removed = cleaners[c].removed
           \/ pass.removed = cleaners[c].removed \cup {e} /\ blobs' = blobs \ {e}
  <2> DEFINE P == [pc : {"DELETING"}, todo : SUBSET Evidence,
                   removed : SUBSET Evidence, failed : SUBSET Evidence]
  <2>1. \A p \in P :
          /\ [p EXCEPT !.todo = p.todo \ {e}, !.removed = p.removed \cup {e}] =
               [pc |-> "DELETING", todo |-> p.todo \ {e}, removed |-> p.removed \cup {e},
                failed |-> p.failed]
          /\ [p EXCEPT !.todo = p.todo \ {e}, !.failed = p.failed \cup {e}] =
               [pc |-> "DELETING", todo |-> p.todo \ {e}, removed |-> p.removed,
                failed |-> p.failed \cup {e}]
    BY PassMovesOn
  <2>2. \/ /\ cleaners' = [cleaners EXCEPT ![c] =
                 [cleaners[c] EXCEPT !.todo = cleaners[c].todo \ {e},
                                     !.removed = cleaners[c].removed \cup {e}]]
           /\ blobs' = blobs \ {e}
        \/ cleaners' = [cleaners EXCEPT ![c] =
                 [cleaners[c] EXCEPT !.todo = cleaners[c].todo \ {e},
                                     !.failed = cleaners[c].failed \cup {e}]]
    <3>1. cleaners \in [Cleaners -> Pass]
      BY DEF EvidenceIInv, EvidenceShapes
    <3>2. \/ /\ blobs' = blobs \ {e}
             /\ cleaners' = [cleaners EXCEPT ![c].todo = cleaners[c].todo \ {e},
                                             ![c].removed = cleaners[c].removed \cup {e}]
          \/ cleaners' = [cleaners EXCEPT ![c].todo = cleaners[c].todo \ {e},
                                          ![c].failed = cleaners[c].failed \cup {e}]
      BY DEF CleanDelete
    <3> QED BY <3>1, <3>2
  <2>3. CASE /\ cleaners' = [cleaners EXCEPT ![c] =
                 [cleaners[c] EXCEPT !.todo = cleaners[c].todo \ {e},
                                     !.removed = cleaners[c].removed \cup {e}]]
             /\ blobs' = blobs \ {e}
    <3> DEFINE p == [pc |-> "DELETING", todo |-> cleaners[c].todo \ {e},
                     removed |-> cleaners[c].removed \cup {e}, failed |-> cleaners[c].failed]
    <3>1. cleaners' = [cleaners EXCEPT ![c] = p]
      BY <1>3, <2>1, <2>3
    <3>2. p \in P
      BY <1>3
    <3>3. p.todo \cup p.removed \cup p.failed
            \subseteq cleaners[c].todo \cup cleaners[c].removed \cup cleaners[c].failed
      BY <1>1
    <3> QED BY <2>3, <3>1, <3>2, <3>3
  <2>4. CASE cleaners' = [cleaners EXCEPT ![c] =
                 [cleaners[c] EXCEPT !.todo = cleaners[c].todo \ {e},
                                     !.failed = cleaners[c].failed \cup {e}]]
    <3> DEFINE p == [pc |-> "DELETING", todo |-> cleaners[c].todo \ {e},
                     removed |-> cleaners[c].removed, failed |-> cleaners[c].failed \cup {e}]
    <3>1. cleaners' = [cleaners EXCEPT ![c] = p]
      BY <1>3, <2>1, <2>4
    <3>2. p \in P
      BY <1>3
    <3>3. p.todo \cup p.removed \cup p.failed
            \subseteq cleaners[c].todo \cup cleaners[c].removed \cup cleaners[c].failed
      BY <1>1
    <3> QED BY <3>1, <3>2, <3>3
  <2> QED BY <2>2, <2>3, <2>4
<1>5. /\ cleaners' \in [Cleaners -> Pass]
      /\ \A b \in Cleaners : /\ Doomed(b)' \subseteq Doomed(b)
                             /\ \A x \in blobs' : x \in Gone(b)' => x \in Gone(b)
  <2>1. cleaners \in [Cleaners -> Pass] /\ pass \in Pass /\ pass.pc = "DELETING"
    BY <1>4 DEF EvidenceIInv, EvidenceShapes, Pass
  <2>2. cleaners'[c] = pass /\ \A b \in Cleaners \ {c} : cleaners'[b] = cleaners[b]
    BY <1>4, <2>1
  <2>3. cleaners' \in [Cleaners -> Pass]
    BY <1>4, <2>1
  <2> QED BY <1>1, <1>4, <2>1, <2>2, <2>3 DEF Doomed, Gone
<1>6. Spent(e)
  BY <1>1 DEF EvidenceIInv, OnlySpentIsDeleted, Doomed
<1>7. EvidenceShapes'
  BY <1>1, <1>5 DEF EvidenceIInv, EvidenceShapes
<1>8. OnlySpentIsDeleted'
  BY <1>1, <1>2, <1>5 DEF EvidenceIInv, OnlySpentIsDeleted, At
<1>9. StoredBeforeDecided'
  BY <1>1, <1>2, <1>6 DEF EvidenceIInv, StoredBeforeDecided, At
<1>10. AvailableIsStored'
  <2>1. now \in Nat
    BY GoodState DEF EvidenceIInv
  <2>2. e \in DOMAIN db.evidence /\ Row(e).st = "AVAILABLE" => ~(Expires[SourceOf[e]] > now)
    BY <1>6, <2>1, SourceAssumption DEF Spent, EvidenceIInv, Revoked, Row
  <2> QED BY <1>1, <1>2, <2>2 DEF EvidenceIInv, AvailableIsStored
<1>11. Tracked'
  <2>1. \A x \in blobs' : Awaits(x) => Awaits(x)'
    BY <1>2, <1>5 DEF Awaits
  <2>2. \A g \in Uploads : \A x : Answers(g, x) => Answers(g, x)'
    BY <1>1 DEF Answers, At
  <2> QED BY <1>1, <2>1, <2>2 DEF EvidenceIInv, Tracked
<1> QED BY <1>2, <1>7, <1>8, <1>9, <1>10, <1>11 DEF EvidenceIInv

\* What is recorded deleted was deleted, and nothing stored it again that does
\* not answer for it.
LEMMA CleanRecordKeeps ==
  ASSUME EvidenceIInv, NEW c \in Cleaners, CleanRecord(c)
  PROVE  EvidenceIInv'
<1> DEFINE ev == [e \in DOMAIN db.evidence |-> Recorded(Row(e), e, cleaners[c])]
<1>1. /\ cleaners[c].pc = "DELETING" /\ db' = [db EXCEPT !.evidence = ev]
      /\ cleaners' = [cleaners EXCEPT ![c] = Idle]
      /\ UNCHANGED <<now, authorised, withdrawn, blobs, uploads, abandoned>>
  BY DEF CleanRecord
<1>2. Good(db, withdrawn, now) /\ now \in Nat /\ authorised \in BOOLEAN
  BY GoodState DEF EvidenceIInv
<1>3. ASSUME NEW e \in DOMAIN db.evidence
      PROVE  /\ ev[e] \in EvidenceRow
             /\ \/ ev[e].st = Row(e).st
                \/ Row(e).st = "REVOKED" /\ ev[e].st = "DELETED" /\ e \in Gone(c)
  <2>1. Row(e) \in EvidenceRow
    BY <1>2 DEF Good, Tables, Table, Row
  <2>2. now + Backoff \in Nat
    BY <1>2, EvidenceAssumption
  <2>3. \A row \in EvidenceRow, t \in Nat :
          /\ [row EXCEPT !.st = "DELETED"] \in EvidenceRow
          /\ [row EXCEPT !.st = "DELETED"].st = "DELETED"
          /\ [row EXCEPT !.retry = t] \in EvidenceRow
          /\ [row EXCEPT !.retry = t].st = row.st
    BY DEF EvidenceRow, EvidenceStates, NatOrNone
  <2> QED BY <1>1, <2>1, <2>2, <2>3 DEF Recorded, Gone
<1>4. ev \in [DOMAIN db.evidence -> EvidenceRow] /\ DOMAIN ev = DOMAIN db.evidence
  BY <1>3
<1> HIDE DEF ev
<1>5. Good(db', withdrawn, now) /\ db'.evidence = ev /\ db'.alerts = db.alerts
  BY <1>1, <1>2, <1>4, RewrittenGood
<1>6. SourcesIInv' /\ Answered(db, withdrawn)'
  <2>1. now' \in Nat /\ authorised' \in BOOLEAN /\ Good(db', withdrawn', now')
    BY <1>1, <1>2, <1>5
  <2> QED BY <1>1, <1>5, <2>1 DEF SourcesIInv, Good, TypeOK, Answered, EvidenceIInv
<1>7. /\ \A x : Spent(x) => Spent(x)'
      /\ \A x : Awaits(x) => Awaits(x)' \/ x \in Gone(c)
      /\ \A x \in DOMAIN db'.evidence :
           db'.evidence[x].st = "AVAILABLE" => x \in DOMAIN db.evidence /\ Row(x).st = "AVAILABLE"
  <2>1. cleaners \in [Cleaners -> Pass]
    BY DEF EvidenceIInv, EvidenceShapes
  <2>2. Idle.pc = "IDLE"
    BY DEF Idle
  <2>3. cleaners'[c] = Idle /\ \A b \in Cleaners \ {c} : cleaners'[b] = cleaners[b]
    BY <1>1, <2>1
  <2>4. \A b \in Cleaners : Gone(b)' \subseteq Gone(b)
    BY <2>2, <2>3 DEF Gone
  <2>5. \A x : Spent(x) => Spent(x)'
    BY <1>1, <1>3, <1>4, <1>5 DEF Spent, Row
  <2>6. \A x : Awaits(x) => Awaits(x)' \/ x \in Gone(c)
    BY <1>3, <1>4, <1>5, <2>4 DEF Awaits, Row
  <2> QED BY <1>3, <1>4, <1>5, <2>5, <2>6
<1>8. /\ cleaners' \in [Cleaners -> Pass]
      /\ \A b \in Cleaners : Doomed(b)' \subseteq Doomed(b)
  <2>1. cleaners \in [Cleaners -> Pass] /\ Idle \in Pass /\ Idle.pc = "IDLE"
    BY DEF EvidenceIInv, EvidenceShapes, Pass, Idle
  <2> QED BY <1>1, <2>1 DEF Doomed
<1>9. EvidenceShapes'
  BY <1>1, <1>8 DEF EvidenceIInv, EvidenceShapes
<1>10. Revoked(db, withdrawn)'
  BY <1>1, <1>3, <1>4, <1>5 DEF EvidenceIInv, Revoked, Row
<1>11. OnlySpentIsDeleted' /\ StoredBeforeDecided'
  BY <1>1, <1>7, <1>8 DEF EvidenceIInv, OnlySpentIsDeleted, StoredBeforeDecided, At
<1>12. AvailableIsStored'
  BY <1>1, <1>7 DEF EvidenceIInv, AvailableIsStored, Row
<1>13. Tracked'
  <2>1. \A x : Awaits(x) => Awaits(x)'
    BY <1>7 DEF Awaits
  <2>2. \A g \in Uploads : \A x : Answers(g, x) => Answers(g, x)'
    BY <1>1 DEF Answers, At
  <2> QED BY <1>1, <2>1, <2>2 DEF EvidenceIInv, Tracked
<1> QED BY <1>6, <1>9, <1>10, <1>11, <1>12, <1>13 DEF EvidenceIInv

\* Uploads and passes that are cut short leave nothing they answer for.
LEMMA CutShortKeeps ==
  ASSUME EvidenceIInv, UNCHANGED vars, UNCHANGED blobs,
         cleaners' \in [Cleaners -> Pass],
         \A b \in Cleaners : cleaners'[b] = cleaners[b] \/ cleaners'[b] = Idle,
         uploads' \in [Uploads -> Upload],
         \A g \in Uploads : \/ uploads'[g] = uploads[g]
                            \/ /\ uploads'[g] = Idle
                               /\ ~At(g, "IDLE") => uploads[g].of \in abandoned',
         abandoned \subseteq abandoned', abandoned' \subseteq Evidence
  PROVE  EvidenceIInv'
<1>1. /\ SourcesIInv' /\ Answered(db, withdrawn)' /\ Revoked(db, withdrawn)'
      /\ \A x : (Spent(x)' <=> Spent(x)) /\ Row(x)' = Row(x)
      /\ UNCHANGED <<now, db, withdrawn>>
  BY SameRows
<1>2. Idle.pc = "IDLE"
  BY DEF Idle
<1>3. \A b \in Cleaners : Doomed(b)' \subseteq Doomed(b) /\ Gone(b)' \subseteq Gone(b)
  BY <1>2 DEF Doomed, Gone
<1>4. EvidenceShapes'
  BY DEF EvidenceIInv, EvidenceShapes
<1>5. OnlySpentIsDeleted' /\ StoredBeforeDecided'
  BY <1>1, <1>2, <1>3 DEF EvidenceIInv, OnlySpentIsDeleted, StoredBeforeDecided, At
<1>6. AvailableIsStored'
  BY <1>1 DEF EvidenceIInv, AvailableIsStored
<1>7. Tracked'
  <2>1. \A x : Awaits(x) => Awaits(x)'
    BY <1>1, <1>3 DEF Awaits
  <2>2. \A g \in Uploads : \A x : Answers(g, x) => Answers(g, x)' \/ x \in abandoned'
    BY <1>2 DEF Answers, At
  <2> QED BY <2>1, <2>2 DEF EvidenceIInv, Tracked
<1> QED BY <1>1, <1>4, <1>5, <1>6, <1>7 DEF EvidenceIInv

\* So does a pass that fails, and a crash.
LEMMA TroubleKeeps ==
  ASSUME EvidenceIInv, Crash \/ \E c \in Cleaners : CleanFails(c)
  PROVE  EvidenceIInv'
<1>1. /\ uploads \in [Uploads -> Upload] /\ cleaners \in [Cleaners -> Pass]
      /\ Idle \in Upload /\ Idle \in Pass /\ abandoned \subseteq Evidence
  BY DEF EvidenceIInv, EvidenceShapes, Upload, Pass
<1>2. CASE Crash
  <2>1. \A g \in Uploads : uploads[g] # Idle => uploads[g].of \in Evidence
    BY <1>1 DEF Upload
  <2>2. \A g \in Uploads : ~At(g, "IDLE") => uploads[g] # Idle
    BY DEF At, Idle
  <2>3. /\ cleaners' = [c \in Cleaners |-> Idle] /\ uploads' = [g \in Uploads |-> Idle]
        /\ abandoned' = abandoned \cup {uploads[g].of : g \in {i \in Uploads : uploads[i] # Idle}}
        /\ UNCHANGED vars /\ UNCHANGED blobs
    BY <1>2 DEF Crash
  <2> QED BY <1>1, <2>1, <2>2, <2>3, CutShortKeeps
<1>3. CASE \E c \in Cleaners : CleanFails(c)
  <2>1. PICK c \in Cleaners : cleaners' = [cleaners EXCEPT ![c] = Idle]
    BY <1>3 DEF CleanFails
  <2>2. UNCHANGED vars /\ UNCHANGED <<blobs, uploads, abandoned>>
    BY <1>3 DEF CleanFails
  <2> QED BY <1>1, <2>1, <2>2, CutShortKeeps
<1> QED BY <1>2, <1>3

-----------------------------------------------------------------------------
(* The theorem on evidence *)

\* Nothing is stored, uploaded or deleted at first.
LEMMA EvidenceInitially == EvidenceInit => EvidenceIInv
<1> SUFFICES ASSUME EvidenceInit PROVE EvidenceIInv
  OBVIOUS
<1>1. /\ Init /\ blobs = {} /\ abandoned = {} /\ uploads = [h \in Uploads |-> Idle]
      /\ cleaners = [c \in Cleaners |-> Idle]
  BY DEF EvidenceInit
<1>2. /\ db.alerts = NoRows /\ db.evidence = NoRows /\ DOMAIN NoRows = {}
  BY <1>1 DEF Init, NoRows
<1>3. Idle.pc = "IDLE" /\ Idle \in Upload /\ Idle \in Pass
  BY DEF Idle, Upload, Pass
<1>4. SourcesIInv
  BY <1>1, SourcesInitially
<1>5. EvidenceShapes
  BY <1>1, <1>3 DEF EvidenceShapes
<1>6. Answered(db, withdrawn) /\ Revoked(db, withdrawn) /\ AvailableIsStored
  BY <1>2 DEF Answered, Revoked, AvailableIsStored
<1>7. OnlySpentIsDeleted /\ StoredBeforeDecided /\ Tracked
  BY <1>1, <1>3 DEF OnlySpentIsDeleted, StoredBeforeDecided, Tracked, Doomed, At
<1> QED BY <1>4, <1>5, <1>6, <1>7 DEF EvidenceIInv

\* No step of a request, an upload, a pass or a crash breaks it.
LEMMA EvidenceInductive == EvidenceIInv /\ [EvidenceNext]_evars => EvidenceIInv'
<1> SUFFICES ASSUME EvidenceIInv, [EvidenceNext]_evars PROVE EvidenceIInv'
  OBVIOUS
<1>1. CASE [Next]_vars /\ UNCHANGED <<blobs, uploads, cleaners, abandoned>>
  <2>1. SourcesIInv'
    BY <1>1, SourcesInductive DEF EvidenceIInv
  <2>2. Moved /\ now' \in Nat /\ now <= now' /\ withdrawn \subseteq withdrawn'
    BY <1>1, SourcesMove DEF EvidenceIInv
  <2> QED BY <1>1, <2>1, <2>2, RowsMove
<1>2. CASE \E h \in Uploads :
             \/ \E e \in Evidence : UploadBegin(h, e)
             \/ UploadStore(h) \/ UploadMissing(h) \/ UploadFails(h)
             \/ UploadPublishes(h) \/ UploadWithdraws(h) \/ UploadRefused(h)
             \/ UploadRemoves(h)
  BY <1>2, UploadBeginKeeps, UploadStoreKeeps, UploadMissingKeeps, UploadFailsKeeps,
     UploadPublishesKeeps, UploadWithdrawsKeeps, UploadRefusedKeeps, UploadRemovesKeeps
<1>3. CASE \E c \in Cleaners :
             CleanBegin(c) \/ CleanRecord(c) \/ \E e \in Evidence : CleanDelete(c, e)
  BY <1>3, CleanBeginKeeps, CleanRecordKeeps, CleanDeleteKeeps
<1>4. CASE Crash \/ \E c \in Cleaners : CleanFails(c)
  BY <1>4, TroubleKeeps
<1>5. ([Next]_vars /\ UNCHANGED <<blobs, uploads, cleaners, abandoned>>) \/ EvidenceNext
  BY DEF evars
<1> QED BY <1>1, <1>2, <1>3, <1>4, <1>5 DEF EvidenceNext

\* Available evidence is in the store and what is stored is accounted for, for
\* any number of uploads, passes, instances and crashes.
THEOREM RowsAndStoreAgree == EvidenceSpec => []EvidenceInv
<1>1. EvidenceIInv => EvidenceInv
  <2> SUFFICES ASSUME EvidenceIInv PROVE EvidenceInv
    OBVIOUS
  <2>1. EvidenceTypeOK
    BY DEF EvidenceIInv, EvidenceShapes, SourcesIInv, EvidenceTypeOK
  <2>2. StoredIsTracked
    <3>1. \A h \in Uploads : ~At(h, "IDLE") => uploads[h] # Idle
      BY DEF At, Idle
    <3> QED BY <3>1 DEF EvidenceIInv, Tracked, Awaits, Answers, StoredIsTracked
  <2> QED BY <2>1, <2>2 DEF EvidenceIInv, EvidenceInv
<1> QED BY EvidenceInitially, EvidenceInductive, <1>1, PTL DEF EvidenceSpec
=============================================================================
