---------------------------- MODULE OutboxProofs ----------------------------
(* Theorems about Outbox, for every value of its constants. *)
EXTENDS Outbox, SumProofs, SequenceTheorems

-----------------------------------------------------------------------------
(* Types *)

\* Clearing a lease, releasing it, withdrawing and restoring a row all yield a
\* row: the helpers of the operations keep the schema's types.
LEMMA RowTypes ==
  ASSUME NEW r \in Item, NEW reason, NEW t \in Nat
  PROVE  /\ Unleased(r) \in Item
         /\ Released(r) \in Item
         /\ Withdrawing(r, reason, t) \in Item
         /\ Restoring(r, t) \in Item
<1>0. None \in NatOrNone
  BY DEF NatOrNone
<1>1. \A u \in Item : Unleased(u) \in Item
  BY DEF Unleased, Item, NatOrNone, None
<1>2. \A u \in Item : [u EXCEPT !.st = "PENDING"] \in Item
  BY DEF Item, ItemStates
<1>3. Released(r) \in Item
  BY <1>1, <1>2 DEF Released
<1>4. Withdrawing(r, reason, t) \in Item
  <2>1. \A u \in Item, st \in {"EXPIRED", "CANCELLED"} :
          [u EXCEPT !.st = st, !.bytes = 0, !.terminal = t] \in Item
    BY DEF Item, ItemStates, NatOrNone
  <2>2. \A u \in Item :
          [u EXCEPT !.op = "WITHDRAWAL", !.st = "PENDING", !.bytes = WithdrawalBytes,
                    !.next = t, !.settled = None, !.terminal = None] \in Item
    BY <1>0, SizeAssumption, Zenon DEF Item, ItemStates, Operations
  <2>3. CASE r.op = "WITHDRAWAL"
    BY <2>3 DEF Withdrawing
  <2>4. CASE r.op # "WITHDRAWAL" /\ r.attempts = 0
    <3>. DEFINE st == IF reason = "LOCAL_EXPIRED" THEN "EXPIRED" ELSE "CANCELLED"
    <3>1. st \in {"EXPIRED", "CANCELLED"}
      OBVIOUS
    <3>. HIDE DEF st
    <3>2. [Unleased(r) EXCEPT !.st = st, !.bytes = 0, !.terminal = t] \in Item
      BY <1>1, <2>1, <3>1
    <3>. QED  BY <2>4, <3>2, Zenon DEF Withdrawing, st
  <2>5. CASE r.op # "WITHDRAWAL" /\ r.attempts # 0
    BY <1>1, <2>2, <2>5, Zenon DEF Withdrawing
  <2>. QED  BY <2>3, <2>4, <2>5
<1>5. Restoring(r, t) \in Item
  <2>1. \A u \in Item : [u EXCEPT !.bytes = 0, !.settled = None] \in Item
    BY DEF Item, NatOrNone, None
  <2>2. \A u \in Item :
          [u EXCEPT !.op = "WITHDRAWAL", !.st = "BLOCKED", !.terminal = None] \in Item
    BY <1>0, Zenon DEF Item, ItemStates, Operations
  <2>3. \A u \in Item, k \in NatOrNone :
          [u EXCEPT !.st = "CANCELLED", !.terminal = k] \in Item
    BY Zenon DEF Item, ItemStates
  <2>. DEFINE bare == [Unleased(r) EXCEPT !.bytes = 0, !.settled = None]
              k == IF r.terminal = None THEN t ELSE r.terminal
  <2>4. bare \in Item
    BY <1>1, <2>1
  <2>5. k \in NatOrNone
    BY DEF Item, NatOrNone
  <2>. HIDE DEF bare, k
  <2>6. /\ [bare EXCEPT !.op = "WITHDRAWAL", !.st = "BLOCKED", !.terminal = None] \in Item
        /\ [bare EXCEPT !.st = "CANCELLED", !.terminal = k] \in Item
    BY <2>2, <2>3, <2>4, <2>5
  <2>. QED  BY <2>4, <2>6, Zenon DEF Restoring, bare, k
<1>. QED  BY <1>1, <1>3, <1>4, <1>5

\* The expiry sweep of a claim keeps the rows in shape.
LEMMA SweepTypes ==
  ASSUME items \in [Sources -> Item], NEW b, NEW t \in Nat
  PROVE  /\ Expired(b, t) \in [Sources -> Item]
         /\ Swept(b, t) \in [Sources -> Item]
<1>1. Expired(b, t) \in [Sources -> Item]
  BY RowTypes DEF Expired
<1>2. Swept(b, t) \in [Sources -> Item]
  <2>. DEFINE rows == Expired(b, t)
  <2>1. \A s \in Sources : rows[s] \in Item /\ Released(rows[s]) \in Item
    BY <1>1, RowTypes
  <2>. QED  BY <2>1 DEF Swept
<1>. QED  BY <1>1, <1>2

\* Giving up leases keeps the rows in shape.
LEMMA ReleaseTypes ==
  ASSUME NEW rows \in [Sources -> Item], NEW b
  PROVE  ReleaseAll(b, rows) \in [Sources -> Item]
BY RowTypes DEF ReleaseAll

\* The row of a source that was never stored is a row.
LEMMA NoItemType == NoItem \in Item
BY DEF NoItem, Item, NatOrNone, None, ItemStates, Operations

\* _binding keeps the bindings in shape.
LEMMA TouchTypes ==
  ASSUME bindings \in [Bindings -> Binding], NEW b \in Bindings, NEW t \in Nat,
         Touch(b, t)
  PROVE  bindings' \in [Bindings -> Binding]
BY DEF Touch, Binding

\* A claim is about a source of one of the bindings.
LEMMA ClaimTypes ==
  ASSUME TypeOK, NEW n \in DOMAIN claims
  PROVE  /\ claims[n] \in Claim /\ claims[n].token = n /\ n \in Nat
         /\ claims[n].source \in Sources
         /\ BindingOf[claims[n].source] \in Bindings
         /\ items[claims[n].source] \in Item
<1>1. claims[n] \in Claim /\ claims[n].token = n /\ n \in Nat
  BY DEF TypeOK
<1>2. claims[n].source \in Sources
  BY <1>1 DEF Claim
<1>. QED  BY <1>1, <1>2, SourceAssumption DEF TypeOK

\* Settling a claim keeps the claims in shape.
LEMMA SettleTypes ==
  ASSUME TypeOK, NEW n \in DOMAIN claims,
         NEW fate \in {"RETRIED", "ACKNOWLEDGED", "REJECTED"},
         FreeCapacity(n), Settle(n, fate)
  PROVE  /\ capacity' \in Capacity
         /\ claims' \in Seq(Claim)
         /\ \A m \in DOMAIN claims' : claims'[m].token = m
<1>1. capacity' \in Capacity
  BY DEF TypeOK, FreeCapacity, NoCapacity, Capacity, NatOrNone
<1>2. \A c \in Claim : [c EXCEPT !.fate = fate] \in Claim
                       /\ [c EXCEPT !.fate = fate].token = c.token
  BY DEF Claim
<1>3. claims' = [claims EXCEPT ![n] = [claims[n] EXCEPT !.fate = fate]]
  BY DEF Settle
<1>4. claims[n] \in Claim
  BY DEF TypeOK
<1>5. claims' \in Seq(Claim) /\ DOMAIN claims' = DOMAIN claims
  BY <1>2, <1>3, <1>4 DEF TypeOK
<1>. QED  BY <1>1, <1>2, <1>3, <1>4, <1>5 DEF TypeOK

\* Every operation keeps the types of the four tables, tokens included: the
\* n-th claim ever handed out carries token n, so no token is issued twice.
LEMMA TypeStep ==
  ASSUME TypeOK, [Next]_vars
  PROVE  TypeOK'
<1>. USE TimeAssumption, BoundAssumption, SourceAssumption
<1>1. ASSUME NEW b \in Bindings, NEW t \in Times, CreateBinding(b, t)
      PROVE  TypeOK'
  <2>1. [st |-> "PAUSED", gen |-> 1, activated |-> t, clock |-> t] \in Binding
    BY DEF Binding, BindingStates, Live
  <2>. QED  BY <1>1, <2>1, Zenon DEF CreateBinding, TypeOK
<1>2. ASSUME NEW b \in Bindings, NEW t \in Nat,
             Pause(b, t) \/ Resume(b, t) \/ PauseKeyless(b)
      PROVE  TypeOK'
  <2>. DEFINE old == bindings[b]
              next == IF old.gen < MaxGeneration THEN old.gen + 1 ELSE old.gen
  <2>1. old \in Binding /\ old.gen + 1 \in Nat /\ next \in Nat /\ t \in Nat
    BY DEF TypeOK, Binding
  <2>2. \A r \in Binding, g, k \in Nat :
          /\ [r EXCEPT !.st = "PAUSED", !.gen = g, !.clock = k] \in Binding
          /\ [r EXCEPT !.st = "ACTIVE", !.gen = g, !.activated = k, !.clock = k] \in Binding
          /\ [r EXCEPT !.st = "PAUSED", !.gen = g] \in Binding
    BY DEF Binding, BindingStates, Live
  <2>3. /\ [old EXCEPT !.st = "PAUSED", !.gen = old.gen + 1, !.clock = t] \in Binding
        /\ [old EXCEPT !.st = "ACTIVE", !.gen = old.gen + 1,
                       !.activated = t, !.clock = t] \in Binding
        /\ [old EXCEPT !.st = "PAUSED", !.gen = next] \in Binding
    <3>. HIDE DEF old, next
    <3>. QED  BY <2>1, <2>2
  <2>4. bindings' \in [Bindings -> Binding]
    BY <1>2, <2>3, Zenon DEF Pause, Resume, PauseKeyless, TypeOK
  <2>5. items' = ReleaseAll(b, items) /\ UNCHANGED <<capacity, claims>>
    BY <1>2, Zenon DEF Pause, Resume, PauseKeyless
  <2>6. items' \in [Sources -> Item]
    BY <2>5, ReleaseTypes, Zenon DEF TypeOK
  <2>. QED  BY <2>4, <2>5, <2>6 DEF TypeOK
<1>3. ASSUME NEW s \in Sources, NEW t \in Times, Enqueue(s, t)
      PROVE  TypeOK'
  <2>1. bindings' \in [Bindings -> Binding]
    BY <1>3, TouchTypes DEF Enqueue, TypeOK
  <2>2. ObsBytes[s] \in Nat
    BY SizeAssumption
  <2>3. [NoItem EXCEPT !.st = "PENDING", !.bytes = ObsBytes[s],
                       !.created = t, !.next = t] \in Item
    BY <2>2, NoItemType, Zenon DEF Item, ItemStates
  <2>4. items' \in [Sources -> Item] /\ UNCHANGED <<capacity, claims>>
    BY <1>3, <2>3, Zenon DEF Enqueue, TypeOK
  <2>. QED  BY <2>1, <2>4 DEF TypeOK
<1>4. ASSUME NEW s \in Sources, NEW t \in Times, NEW reason \in Reasons,
             Withdraw(s, reason, t)
      PROVE  TypeOK'
  <2>1. bindings' \in [Bindings -> Binding]
    BY <1>4, TouchTypes DEF Withdraw, TypeOK
  <2>2. items[s] \in Item
    BY DEF TypeOK
  <2>3. Withdrawing(items[s], reason, t) \in Item
    BY <2>2, RowTypes
  <2>4. items' \in [Sources -> Item] /\ UNCHANGED <<capacity, claims>>
    BY <1>4, <2>3, Zenon DEF Withdraw, TypeOK
  <2>. QED  BY <2>1, <2>4 DEF TypeOK
<1>5. ASSUME NEW b \in Bindings, NEW t \in Times,
             Expire(b, t) \/ ClaimNothing(b, t) \/ Inspect(b, t)
      PROVE  TypeOK'
  <2>1. bindings' \in [Bindings -> Binding]
    BY <1>5, TouchTypes DEF Expire, ClaimNothing, Inspect, TypeOK
  <2>2. Expired(b, t) \in [Sources -> Item] /\ Swept(b, t) \in [Sources -> Item]
    BY SweepTypes DEF TypeOK
  <2>3. items' \in [Sources -> Item] /\ UNCHANGED <<capacity, claims>>
    BY <1>5, <2>2, Zenon DEF Expire, ClaimNothing, Inspect, TypeOK
  <2>. QED  BY <2>1, <2>3 DEF TypeOK
<1>6. ASSUME NEW b \in Bindings, NEW t \in Times, PruneTerminal(b, t)
      PROVE  TypeOK'
  <2>1. bindings' \in [Bindings -> Binding]
    BY <1>6, TouchTypes DEF PruneTerminal, TypeOK
  <2>2. items' \in [Sources -> Item] /\ UNCHANGED <<capacity, claims>>
    BY <1>6, NoItemType, Zenon DEF PruneTerminal, TypeOK
  <2>. QED  BY <2>1, <2>2 DEF TypeOK
<1>7. ASSUME NEW b \in Bindings, NEW t \in Times, NEW restored \in BOOLEAN,
             Disconnect(b, restored, t)
      PROVE  TypeOK'
  <2>1. bindings' \in [Bindings -> Binding]
    <3>. DEFINE old == bindings[b]
                st == IF restored THEN "RESTORED" ELSE "DISCONNECTED"
    <3>1. old \in Binding /\ old.gen + 1 \in Nat /\ st \in BindingStates /\ t \in Nat
      BY DEF TypeOK, Binding, BindingStates
    <3>2. \A r \in Binding, x \in BindingStates, g, k \in Nat :
            [r EXCEPT !.st = x, !.gen = g, !.clock = k] \in Binding
      BY DEF Binding
    <3>3. [old EXCEPT !.st = st, !.gen = old.gen + 1, !.clock = t] \in Binding
      <4>. HIDE DEF old, st
      <4>. QED  BY <3>1, <3>2
    <3>. QED  BY <1>7, <3>3, Zenon DEF Disconnect, TypeOK
  <2>. DEFINE rows == [s \in Sources |->
                IF s \in Rows(b) THEN Withdrawing(items[s], "LOCAL_EXPORT_REMOVED", t)
                ELSE items[s]]
  <2>2. \A s \in Sources : items[s] \in Item
                          /\ Withdrawing(items[s], "LOCAL_EXPORT_REMOVED", t) \in Item
    BY RowTypes DEF TypeOK
  <2>3. rows \in [Sources -> Item]
    BY <2>2, Zenon
  <2>4. items' = ReleaseAll(b, rows) /\ UNCHANGED <<capacity, claims>>
    BY <1>7, Zenon DEF Disconnect
  <2>. HIDE DEF rows
  <2>. QED  BY <2>1, <2>3, <2>4, ReleaseTypes DEF TypeOK
<1>8. ASSUME NEW b \in Bindings, NEW s \in Sources, NEW t \in Times, NEW lease \in Leases,
             ClaimOne(b, s, t, lease)
      PROVE  TypeOK'
  <2>. DEFINE rows == Swept(b, t)
              row == rows[s]
              token == Len(claims) + 1
              until == LeaseUntil(s, row.op, t, lease)
              leased == [row EXCEPT !.st = "LEASED", !.token = token, !.until = until,
                           !.gen = bindings[b].gen,
                           !.attempts = IF row.attempts < MaxAttempts
                                        THEN row.attempts + 1 ELSE row.attempts]
              claim == [source |-> s, token |-> token, gen |-> bindings[b].gen,
                        op |-> row.op, at |-> t, until |-> until, fate |-> "OPEN"]
  <2>1. bindings' \in [Bindings -> Binding]
    BY <1>8, TouchTypes DEF ClaimOne, TypeOK
  <2>2. rows \in [Sources -> Item] /\ row \in Item
    BY SweepTypes DEF TypeOK
  <2>3. token \in Nat /\ until \in Nat /\ bindings[b].gen \in Nat /\ row.op \in Operations
    <3>1. claims \in Seq(Claim) /\ bindings[b] \in Binding
      BY DEF TypeOK
    <3>2. row.op \in Operations
      BY <2>2 DEF Item
    <3>3. token \in Nat /\ bindings[b].gen \in Nat
      BY <3>1 DEF Binding
    <3>4. until \in Nat
      <4>1. t \in Nat /\ lease \in Nat /\ Deadline[s] \in Nat
        OBVIOUS
      <4>. QED  BY <4>1 DEF LeaseUntil, Smaller
    <3>. QED  BY <3>2, <3>3, <3>4
  <2>4. items' = [rows EXCEPT ![s] = leased] /\ capacity' = [token |-> token, until |-> until]
        /\ claims' = Append(claims, claim)
    BY <1>8, Zenon DEF ClaimOne, FreshToken
  <2>. HIDE DEF rows, row, token, until
  <2>5. leased \in Item
    <3>. DEFINE more == IF row.attempts < MaxAttempts THEN row.attempts + 1 ELSE row.attempts
    <3>1. more \in Nat
      BY <2>2 DEF Item
    <3>2. token \in NatOrNone /\ until \in NatOrNone /\ bindings[b].gen \in NatOrNone
      BY <2>3 DEF NatOrNone
    <3>. HIDE DEF more
    <3>3. [row EXCEPT !.st = "LEASED", !.token = token, !.until = until,
                      !.gen = bindings[b].gen, !.attempts = more] \in Item
      BY <2>2, <3>1, <3>2, Zenon DEF Item, ItemStates
    <3>. QED  BY <3>3, Zenon DEF more
  <2>6. claim \in Claim
    BY <2>3 DEF Claim
  <2>7. capacity' \in Capacity
    BY <2>3, <2>4 DEF Capacity, NatOrNone
  <2>. HIDE DEF leased, claim
  <2>8. items' \in [Sources -> Item]
    BY <2>2, <2>4, <2>5
  <2>9. claims' \in Seq(Claim) /\ \A n \in DOMAIN claims' : claims'[n].token = n
    BY <2>4, <2>6 DEF TypeOK, claim, token
  <2>. QED  BY <2>1, <2>7, <2>8, <2>9 DEF TypeOK
<1>9. ASSUME NEW n \in DOMAIN claims, NEW t \in Times,
             \/ \E delay \in Delays : Retry(n, t, delay)
             \/ \E receipt \in Receipts : Acknowledge(n, receipt, t)
             \/ Reject(n, t)
      PROVE  TypeOK'
  <2>. DEFINE s == claims[n].source
              row == items[s]
  <2>1. s \in Sources /\ row \in Item /\ claims[n].token \in NatOrNone
        /\ BindingOf[s] \in Bindings
    BY ClaimTypes DEF NatOrNone
  <2>2. bindings' \in [Bindings -> Binding]
    BY <1>9, <2>1, TouchTypes, Zenon DEF Retry, Acknowledge, Reject, TypeOK
  <2>3. /\ capacity' \in Capacity
        /\ claims' \in Seq(Claim)
        /\ \A m \in DOMAIN claims' : claims'[m].token = m
    BY <1>9, SettleTypes DEF Retry, Acknowledge, Reject
  <2>4. Unleased(row) \in Item /\ Withdrawing(row, "LOCAL_EXPORT_REMOVED", t) \in Item
    BY <2>1, RowTypes
  <2>5. items' \in [Sources -> Item]
    <3>1. ASSUME NEW delay \in Delays, Retry(n, t, delay)
          PROVE  items' \in [Sources -> Item]
      <4>1. [Unleased(row) EXCEPT !.st = "PENDING", !.next = t + delay] \in Item
        <5>1. t + delay \in Nat
          OBVIOUS
        <5>. QED  BY <2>4, <5>1, Zenon DEF Item, ItemStates
      <4>. QED  BY <3>1, <4>1, <2>1, Zenon DEF Retry, TypeOK
    <3>2. ASSUME NEW receipt \in Receipts, Acknowledge(n, receipt, t)
          PROVE  items' \in [Sources -> Item]
      <4>. DEFINE st == IF row.op = "OBSERVATION" THEN "RECEIVED" ELSE "WITHDRAWN"
                  obs == IF row.op = "OBSERVATION" THEN receipt ELSE row.obsReceipt
      <4>1. st \in ItemStates
        BY DEF ItemStates
      <4>2. obs \in NatOrNone /\ receipt \in NatOrNone /\ t \in NatOrNone
        BY <2>1 DEF NatOrNone, Item
      <4>. HIDE DEF st, obs
      <4>. DEFINE u == Unleased(row)
      <4>3. [u EXCEPT !.st = st, !.bytes = 0, !.receipt = receipt,
               !.obsReceipt = obs, !.settled = claims[n].token, !.terminal = t] \in Item
        <5>1. 0 \in Nat
          OBVIOUS
        <5>2. u \in Item /\ claims[n].token \in NatOrNone
          BY <2>1, <2>4
        <5>. HIDE DEF u
        <5>. QED  BY <5>2, <4>1, <4>2, <5>1, Zenon DEF Item
      <4>. QED  BY <3>2, <4>3, <2>1, Zenon DEF Acknowledge, TypeOK, st, obs
    <3>3. CASE Reject(n, t)
      <4>1. [Unleased(row) EXCEPT !.st = "BLOCKED", !.bytes = 0, !.terminal = t] \in Item
        <5>1. 0 \in Nat /\ t \in NatOrNone
          BY DEF NatOrNone
        <5>. QED  BY <2>4, <5>1, Zenon DEF Item, ItemStates
      <4>. QED  BY <3>3, <4>1, <2>1, <2>4, Zenon DEF Reject, TypeOK
    <3>. QED  BY <1>9, <3>1, <3>2, <3>3
  <2>. QED  BY <2>2, <2>3, <2>5 DEF TypeOK
<1>10. ASSUME NEW n \in DOMAIN claims, NEW t \in Times, NEW receipt \in Receipts,
              AcknowledgeAgain(n, receipt, t)
       PROVE  TypeOK'
  <2>1. BindingOf[claims[n].source] \in Bindings
    BY ClaimTypes
  <2>2. bindings' \in [Bindings -> Binding]
    BY <1>10, <2>1, TouchTypes DEF AcknowledgeAgain, TypeOK
  <2>. QED  BY <1>10, <2>2 DEF AcknowledgeAgain, TypeOK
<1>11. ASSUME NEW t \in Times, MarkRestored(t)
       PROVE  TypeOK'
  <2>1. bindings' \in [Bindings -> Binding]
    <3>1. ASSUME NEW b \in Bindings PROVE bindings'[b] \in Binding
      <4>. DEFINE old == bindings[b]
                  later == IF old.clock > t THEN old.clock ELSE t
      <4>1. old \in Binding /\ old.gen + 1 \in Nat /\ later \in Nat
        BY DEF TypeOK, Binding
      <4>. HIDE DEF later
      <4>2. [old EXCEPT !.st = "RESTORED", !.gen = old.gen + 1, !.clock = later] \in Binding
        BY <4>1, Zenon DEF Binding, BindingStates
      <4>. QED  BY <1>11, <4>1, <4>2, Zenon DEF MarkRestored, later
    <3>. QED  BY <1>11, <3>1, Zenon DEF MarkRestored
  <2>2. \A s \in Sources : Restoring(items[s], t) \in Item
    BY RowTypes DEF TypeOK
  <2>3. items' \in [Sources -> Item] /\ UNCHANGED claims
    BY <1>11, <2>2, Zenon DEF MarkRestored
  <2>4. capacity' \in Capacity
    BY <1>11 DEF MarkRestored, NoCapacity, Capacity, NatOrNone
  <2>. QED  BY <2>1, <2>3, <2>4 DEF TypeOK
<1>12. CASE UNCHANGED vars
  BY <1>12 DEF vars, TypeOK
<1>13. ASSUME NEW b \in Bindings, NEW t \in Times, BindingStep(b, t)
       PROVE  TypeOK'
  BY <1>13, <1>1, <1>2, <1>5, <1>6, <1>7, <1>8, Zenon DEF BindingStep
<1>14. ASSUME NEW s \in Sources, NEW t \in Times, SourceStep(s, t)
       PROVE  TypeOK'
  BY <1>14, <1>3, <1>4, Zenon DEF SourceStep
<1>15. ASSUME NEW n \in DOMAIN claims, NEW t \in Times, SettlementStep(n, t)
       PROVE  TypeOK'
  BY <1>15, <1>9, <1>10, Zenon DEF SettlementStep
<1>16. ASSUME NEW b \in Bindings, PauseKeyless(b)
       PROVE  TypeOK'
  <2>1. 0 \in Nat
    OBVIOUS
  <2>. QED  BY <1>16, <1>2, <2>1
<1>. QED  BY <1>11, <1>12, <1>13, <1>14, <1>15, <1>16, Zenon DEF Next

-----------------------------------------------------------------------------
(* Rows *)

\* What the columns of a row say together in every reachable state: only an
\* attempted row is leased, received, withdrawn, blocked or holds a receipt,
\* only a row never attempted is cancelled or expired, a received row holds the
\* receipt of its observation, a withdrawn row the one of its withdrawal, and a
\* row that needs no withdrawal any more holds no bytes.
RowOK(r) ==
  /\ r.st = "NONE" => r = NoItem
  /\ r.st \in {"CANCELLED", "EXPIRED"} => r.attempts = 0
  /\ r.st \in {"LEASED", "RECEIVED", "WITHDRAWN", "BLOCKED"} => r.attempts > 0
  /\ r.op = "WITHDRAWAL" => r.attempts > 0
  /\ r.receipt # None \/ r.obsReceipt # None => r.attempts > 0
  /\ r.st \in {"WITHDRAWN", "BLOCKED"} => r.op = "WITHDRAWAL"
  /\ r.st = "RECEIVED" => r.op = "OBSERVATION" /\ r.obsReceipt # None
  /\ r.st = "WITHDRAWN" => r.receipt # None /\ r.terminal # None
  /\ r.st \in {"CANCELLED", "EXPIRED", "WITHDRAWN"} => r.bytes = 0

\* What every operation other than admission, claim, acknowledgement and
\* pruning may do to a row: nothing that forgets an attempt, undoes a
\* withdrawal, makes up a receipt, touches an acknowledged withdrawal or takes
\* more room than a withdrawal needs.
Reshaped(r, q) ==
  /\ RowOK(q)
  /\ r.st = "NONE" <=> q.st = "NONE"
  /\ q.attempts = r.attempts
  /\ r.op = "WITHDRAWAL" => q.op = "WITHDRAWAL"
  /\ r.st \in {"CANCELLED", "EXPIRED"} => q.st \in {"CANCELLED", "EXPIRED"}
  /\ r.st = "WITHDRAWN" <=> q.st = "WITHDRAWN"
  /\ q.st = "RECEIVED" => r.st = "RECEIVED"
  /\ r.st = "RECEIVED" => q.st = "RECEIVED" \/ q.op = "WITHDRAWAL"
  /\ q.obsReceipt = r.obsReceipt
  /\ r.st = "WITHDRAWN" => /\ q.op = r.op /\ q.terminal = r.terminal
                           /\ q.receipt = r.receipt
  /\ q.st = "LEASED" => q = r
  /\ q.bytes = r.bytes \/ q.bytes <= Reserve

\* A row that is left alone is reshaped.
LEMMA ReshapedSelf ==
  ASSUME NEW r, RowOK(r)
  PROVE  Reshaped(r, r)
BY DEF Reshaped, RowOK

\* Reshaping is transitive.
LEMMA ReshapedTwice ==
  ASSUME NEW r, NEW q, NEW p, Reshaped(r, q), Reshaped(q, p)
  PROVE  Reshaped(r, p)
BY DEF Reshaped

\* _release reshapes a row.
LEMMA ReleasedReshapes ==
  ASSUME NEW r \in Item, RowOK(r)
  PROVE  Reshaped(r, Released(r)) /\ Released(r).st # "LEASED"
BY DEF Reshaped, RowOK, Released, Unleased, Item, NoItem

\* _withdraw reshapes a row.
LEMMA WithdrawingReshapes ==
  ASSUME NEW r \in Item, RowOK(r), r.st # "NONE", NEW reason, NEW t \in Nat
  PROVE  /\ Reshaped(r, Withdrawing(r, reason, t))
         /\ r.op = "OBSERVATION" => Withdrawing(r, reason, t).st # "LEASED"
BY SizeAssumption DEF Reshaped, RowOK, Withdrawing, Unleased, Item, NoItem, Operations

\* mark_restored reshapes a row.
LEMMA RestoringReshapes ==
  ASSUME NEW r \in Item, RowOK(r), NEW t \in Nat
  PROVE  Reshaped(r, Restoring(r, t)) /\ Restoring(r, t).st # "LEASED"
BY SizeAssumption DEF Reshaped, RowOK, Restoring, Unleased, Attempted, Item, NoItem, Operations

RowInv == \A s \in Sources : RowOK(items[s])

\* What a step other than pruning does to the row of s.
KeptStep(s) ==
  \/ Reshaped(items[s], items'[s])
  \/ \E t \in Times : Enqueue(s, t) /\ items[s].st = "NONE"
  \/ \E t \in Times, lease \in Leases : ClaimOne(BindingOf[s], s, t, lease)
  \/ \E n \in DOMAIN claims, receipt \in Receipts, t \in Times :
       Acknowledge(n, receipt, t) /\ claims[n].source = s

\* What a step does to the row of s.
RowStep(s) ==
  \/ KeptStep(s)
  \/ \E t \in Times : PruneTerminal(BindingOf[s], t) /\ s \in Prunable(BindingOf[s], t)

\* The steps that do not prune, by what they do to the rows.
Keeps ==
  \/ UNCHANGED items
  \/ \E b \in Bindings : items' = ReleaseAll(b, items)
  \/ \E b \in Bindings, t \in Times :
       \/ items' = Expired(b, t) \/ items' = Swept(b, t)
       \/ \E restored \in BOOLEAN : Disconnect(b, restored, t)
       \/ \E s \in Sources, lease \in Leases : ClaimOne(b, s, t, lease)
  \/ \E s \in Sources, t \in Times : SourceStep(s, t)
  \/ \E n \in DOMAIN claims, t \in Times : SettlementStep(n, t)
  \/ \E t \in Times : MarkRestored(t)

\* The expiry sweep reshapes rows.
LEMMA SweepReshapes ==
  ASSUME TypeOK, RowInv, NEW b \in Bindings, NEW t \in Nat, NEW s \in Sources
  PROVE  /\ Reshaped(items[s], Expired(b, t)[s])
         /\ Reshaped(items[s], Swept(b, t)[s])
         /\ Swept(b, t)[s].st = "LEASED" /\ BindingOf[s] = b => items[s].until > t
<1>. DEFINE expired == Expired(b, t)[s]
            swept == Swept(b, t)[s]
<1>1. items[s] \in Item /\ RowOK(items[s]) /\ expired \in Item
  BY SweepTypes DEF TypeOK, RowInv
<1>2. Reshaped(items[s], expired)
  <2>1. CASE s \in Expirable(b, t)
    <3>1. expired = Withdrawing(items[s], "LOCAL_EXPIRED", t) /\ items[s].st # "NONE"
      BY <2>1 DEF Expired, Expirable, Rows
    <3>. QED  BY <1>1, <3>1, WithdrawingReshapes
  <2>2. CASE s \notin Expirable(b, t)
    BY <1>1, <2>2, ReshapedSelf DEF Expired
  <2>. QED  BY <2>1, <2>2
<1>3. swept = IF BindingOf[s] = b /\ expired.st = "LEASED" /\ expired.until <= t
              THEN Released(expired) ELSE expired
  BY DEF Swept
<1>4. RowOK(expired)
  BY <1>2 DEF Reshaped
<1>. HIDE DEF expired, swept
<1>5. Reshaped(expired, Released(expired)) /\ Released(expired).st # "LEASED"
  BY <1>1, <1>4, ReleasedReshapes
<1>6. Reshaped(items[s], swept)
  BY <1>2, <1>3, <1>5, ReshapedTwice
<1>7. swept.st = "LEASED" /\ BindingOf[s] = b => items[s].until > t
  <2>. SUFFICES ASSUME swept.st = "LEASED", BindingOf[s] = b PROVE items[s].until > t
    OBVIOUS
  <2>1. swept = expired /\ ~(expired.until <= t)
    BY <1>3, <1>5
  <2>2. expired = items[s]
    BY <1>2, <2>1 DEF Reshaped
  <2>3. items[s].until \in Int
    BY <1>1 DEF Item, NatOrNone, None
  <2>. QED  BY <2>1, <2>2, <2>3
<1>. QED  BY <1>2, <1>6, <1>7 DEF expired, swept

\* Giving up the leases of a binding reshapes its rows.
LEMMA ReleaseAllReshapes ==
  ASSUME NEW rows \in [Sources -> Item], NEW b, NEW s \in Sources, RowOK(rows[s])
  PROVE  /\ Reshaped(rows[s], ReleaseAll(b, rows)[s])
         /\ BindingOf[s] = b => ReleaseAll(b, rows)[s].st # "LEASED"
BY ReleasedReshapes, ReshapedSelf DEF ReleaseAll

\* Without pruning, a step reshapes a row or admits, claims or acknowledges it.
LEMMA KeptSteps ==
  ASSUME TypeOK, RowInv, Keeps, NEW s \in Sources
  PROVE  KeptStep(s)
<1>. USE TimeAssumption, SourceAssumption
<1>1. items[s] \in Item /\ RowOK(items[s]) /\ BindingOf[s] \in Bindings
      /\ Reshaped(items[s], items[s]) /\ items \in [Sources -> Item]
  BY ReshapedSelf DEF TypeOK, RowInv
<1>2. ASSUME UNCHANGED items
      PROVE  KeptStep(s)
  BY <1>1, <1>2 DEF KeptStep
<1>3. ASSUME NEW b \in Bindings, items' = ReleaseAll(b, items)
      PROVE  KeptStep(s)
  BY <1>1, <1>3, ReleaseAllReshapes DEF KeptStep
<1>4. ASSUME NEW i \in Sources, NEW t \in Times, Enqueue(i, t)
      PROVE  KeptStep(s)
  <2>1. CASE s = i /\ items[i].st = "NONE"
    BY <1>4, <2>1 DEF KeptStep
  <2>2. CASE ~(s = i /\ items[i].st = "NONE")
    <3>1. items'[s] = items[s]
      BY <1>4, <2>2, <1>1 DEF Enqueue
    <3>. QED  BY <3>1, <1>1 DEF KeptStep
  <2>. QED  BY <2>1, <2>2
<1>5. ASSUME NEW i \in Sources, NEW t \in Times, NEW reason, Withdraw(i, reason, t)
      PROVE  KeptStep(s)
  <2>1. items'[s] = IF s = i THEN Withdrawing(items[s], reason, t) ELSE items[s]
    BY <1>1, <1>5 DEF Withdraw
  <2>2. s = i => items[s].st # "NONE"
    BY <1>5 DEF Withdraw
  <2>3. s = i => Reshaped(items[s], Withdrawing(items[s], reason, t))
    BY <1>1, <2>2, WithdrawingReshapes
  <2>. QED  BY <1>1, <2>1, <2>3, Zenon DEF KeptStep
<1>6. ASSUME NEW b \in Bindings, NEW t \in Times,
             items' = Expired(b, t) \/ items' = Swept(b, t)
      PROVE  KeptStep(s)
  BY <1>6, SweepReshapes DEF KeptStep
<1>7. ASSUME NEW b \in Bindings, NEW t \in Times, NEW restored, Disconnect(b, restored, t)
      PROVE  KeptStep(s)
  <2>. DEFINE rows == [i \in Sources |->
                IF i \in Rows(b) THEN Withdrawing(items[i], "LOCAL_EXPORT_REMOVED", t)
                ELSE items[i]]
  <2>1. items' = ReleaseAll(b, rows)
    BY <1>7, Zenon DEF Disconnect
  <2>2. rows \in [Sources -> Item]
    <3>1. \A i \in Sources : items[i] \in Item
            /\ Withdrawing(items[i], "LOCAL_EXPORT_REMOVED", t) \in Item
      BY <1>1, RowTypes
    <3>. QED  BY <3>1, Zenon
  <2>3. Reshaped(items[s], rows[s])
    <3>1. CASE s \in Rows(b)
      <4>1. rows[s] = Withdrawing(items[s], "LOCAL_EXPORT_REMOVED", t) /\ items[s].st # "NONE"
        BY <3>1 DEF Rows
      <4>. QED  BY <1>1, <4>1, WithdrawingReshapes
    <3>2. CASE s \notin Rows(b)
      BY <1>1, <3>2
    <3>. QED  BY <3>1, <3>2
  <2>. HIDE DEF rows
  <2>4. RowOK(rows[s])
    BY <2>3 DEF Reshaped
  <2>5. Reshaped(rows[s], ReleaseAll(b, rows)[s])
    BY <2>2, <2>4, ReleaseAllReshapes
  <2>. QED  BY <2>1, <2>3, <2>5, ReshapedTwice DEF KeptStep
<1>8. ASSUME NEW b \in Bindings, NEW i \in Sources, NEW t \in Times, NEW lease \in Leases,
             ClaimOne(b, i, t, lease)
      PROVE  KeptStep(s)
  <2>1. BindingOf[i] = b
    BY <1>8 DEF ClaimOne, FirstDue, Due
  <2>2. s # i => items'[s] = Swept(b, t)[s]
    BY <1>8, SweepTypes, <1>1 DEF ClaimOne
  <2>3. CASE s = i
    BY <1>8, <2>1, <2>3, Zenon DEF KeptStep
  <2>4. CASE s # i
    BY <2>2, <2>4, SweepReshapes DEF KeptStep
  <2>. QED  BY <2>3, <2>4
<1>9. ASSUME NEW n \in DOMAIN claims, NEW t \in Times, NEW delay \in Delays, Retry(n, t, delay)
       PROVE  KeptStep(s)
  <2>. DEFINE i == claims[n].source
  <2>1. items[i] \in Item /\ i \in Sources /\ RowOK(items[i]) /\ items[i].st = "LEASED"
    BY <1>9, ClaimTypes DEF Retry, HoldsLease, RowInv
  <2>2. items' = [items EXCEPT ![i] =
                    [Unleased(items[i]) EXCEPT !.st = "PENDING", !.next = t + delay]]
    BY <1>9 DEF Retry
  <2>. HIDE DEF i
  <2>3. Reshaped(items[i], [Unleased(items[i]) EXCEPT !.st = "PENDING", !.next = t + delay])
    BY <2>1 DEF Reshaped, RowOK, Unleased, Item
  <2>. QED  BY <1>1, <2>2, <2>3 DEF KeptStep
<1>10. ASSUME NEW n \in DOMAIN claims, NEW t \in Times, Reject(n, t)
       PROVE  KeptStep(s)
  <2>. DEFINE i == claims[n].source
              blocked == [Unleased(items[i]) EXCEPT !.st = "BLOCKED", !.bytes = 0,
                                                    !.terminal = t]
  <2>1. items[i] \in Item /\ i \in Sources /\ RowOK(items[i]) /\ items[i].st = "LEASED"
    BY <1>10, ClaimTypes DEF Reject, HoldsLease, RowInv
  <2>2. items' = [items EXCEPT ![i] =
                    IF items[i].op = "OBSERVATION"
                    THEN Withdrawing(items[i], "LOCAL_EXPORT_REMOVED", t) ELSE blocked]
    BY <1>10 DEF Reject
  <2>3. items[i].op # "OBSERVATION" => Reshaped(items[i], blocked)
    BY <2>1, SizeAssumption DEF Reshaped, RowOK, Unleased, Item, Operations
  <2>. HIDE DEF i, blocked
  <2>4. Reshaped(items[i], Withdrawing(items[i], "LOCAL_EXPORT_REMOVED", t))
    BY <2>1, WithdrawingReshapes
  <2>. QED  BY <1>1, <2>2, <2>3, <2>4 DEF KeptStep
<1>11. ASSUME NEW n \in DOMAIN claims, NEW t \in Times, NEW receipt \in Receipts,
              Acknowledge(n, receipt, t)
       PROVE  KeptStep(s)
  <2>1. CASE claims[n].source = s
    BY <1>11, <2>1 DEF KeptStep
  <2>2. CASE claims[n].source # s
    BY <1>1, <1>11, <2>2 DEF Acknowledge, KeptStep
  <2>. QED  BY <2>1, <2>2
<1>12. ASSUME NEW t \in Times, MarkRestored(t)
       PROVE  KeptStep(s)
  <2>1. items'[s] = Restoring(items[s], t)
    BY <1>12 DEF MarkRestored
  <2>. QED  BY <1>1, <2>1, RestoringReshapes DEF KeptStep
<1>13. ASSUME NEW i \in Sources, NEW t \in Times, SourceStep(i, t)
       PROVE  KeptStep(s)
  BY <1>13, <1>4, <1>5, Zenon DEF SourceStep
<1>14. ASSUME NEW n \in DOMAIN claims, NEW t \in Times, SettlementStep(n, t)
       PROVE  KeptStep(s)
  <2>1. ASSUME NEW receipt, AcknowledgeAgain(n, receipt, t)
        PROVE  KeptStep(s)
    BY <1>2, <2>1 DEF AcknowledgeAgain
  <2>. QED  BY <1>14, <2>1, <1>9, <1>10, <1>11, Zenon DEF SettlementStep
<1>. QED
  BY <1>2, <1>3, <1>6, <1>7, <1>8, <1>12, <1>13, <1>14, Zenon DEF Keeps

\* Every step either reshapes a row or admits, claims, acknowledges or prunes it.
LEMMA RowSteps ==
  ASSUME TypeOK, RowInv, [Next]_vars, NEW s \in Sources
  PROVE  RowStep(s)
<1>1. CASE Keeps
  BY <1>1, KeptSteps DEF RowStep
<1>2. ASSUME NEW b \in Bindings, NEW t \in Times, PruneTerminal(b, t)
      PROVE  RowStep(s)
  <2>1. CASE s \in Prunable(b, t)
    <3>1. b = BindingOf[s]
      BY <2>1 DEF Prunable, Rows
    <3>. QED  BY <1>2, <2>1, <3>1 DEF RowStep
  <2>2. CASE s \notin Prunable(b, t)
    BY <1>2, <2>2, ReshapedSelf DEF PruneTerminal, RowStep, KeptStep, RowInv
  <2>. QED  BY <2>1, <2>2
<1>3. ASSUME NEW b \in Bindings, NEW t \in Times, BindingStep(b, t)
      PROVE  RowStep(s)
  <2>1. ASSUME CreateBinding(b, t) \/ Inspect(b, t)
        PROVE  Keeps
    BY <2>1 DEF CreateBinding, Inspect, Keeps
  <2>2. ASSUME Pause(b, t) \/ Resume(b, t)
        PROVE  Keeps
    BY <2>2, Zenon DEF Pause, Resume, Keeps
  <2>3. ASSUME Expire(b, t) \/ ClaimNothing(b, t)
        PROVE  Keeps
    BY <2>3, Zenon DEF Expire, ClaimNothing, Keeps
  <2>4. ASSUME \/ \E restored \in BOOLEAN : Disconnect(b, restored, t)
               \/ \E i \in Sources, lease \in Leases : ClaimOne(b, i, t, lease)
        PROVE  Keeps
    BY <2>4, Zenon DEF Keeps
  <2>. QED  BY <1>1, <1>2, <1>3, <2>1, <2>2, <2>3, <2>4, Zenon DEF BindingStep
<1>4. ASSUME NEW b \in Bindings, PauseKeyless(b)
      PROVE  Keeps
  BY <1>4, Zenon DEF PauseKeyless, Keeps
<1>5. CASE UNCHANGED vars
  <2>1. Keeps
    BY <1>5 DEF vars, Keeps
  <2>. QED  BY <1>1, <2>1
<1>. QED  BY <1>1, <1>3, <1>4, <1>5, Zenon DEF Next, Keeps

\* The row a claim leases and the row an acknowledgement settles.
LEMMA ClaimedRow ==
  ASSUME TypeOK, RowInv, NEW b \in Bindings, NEW s \in Sources, NEW t \in Times,
         NEW lease \in Leases, ClaimOne(b, s, t, lease)
  PROVE  /\ BindingOf[s] = b
         /\ items'[s].st = "LEASED" /\ items'[s].attempts > 0
         /\ items'[s].op = Swept(b, t)[s].op
         /\ items'[s].obsReceipt = items[s].obsReceipt
         /\ items'[s].bytes = Swept(b, t)[s].bytes
         /\ items'[s].token = Len(claims) + 1 /\ items'[s].gen = bindings[b].gen
         /\ items'[s].until = LeaseUntil(s, items'[s].op, t, lease)
         /\ Swept(b, t)[s].st = "PENDING" /\ items[s].st # "NONE"
         /\ Reshaped(items[s], Swept(b, t)[s])
         /\ RowOK(items'[s])
<1>. DEFINE row == Swept(b, t)[s]
            more == IF row.attempts < MaxAttempts THEN row.attempts + 1 ELSE row.attempts
            until == LeaseUntil(s, row.op, t, lease)
<1>1. row \in Item /\ Reshaped(items[s], row)
  BY TimeAssumption, SweepTypes, SweepReshapes DEF TypeOK
<1>2. BindingOf[s] = b /\ row.st = "PENDING"
  BY DEF ClaimOne, FirstDue, Due
<1>3. items'[s] = [row EXCEPT !.st = "LEASED", !.token = Len(claims) + 1, !.until = until,
                              !.gen = bindings[b].gen, !.attempts = more]
  <2>1. Swept(b, t) \in [Sources -> Item]
    BY TimeAssumption, SweepTypes DEF TypeOK
  <2>2. items' = [Swept(b, t) EXCEPT ![s] =
                    [row EXCEPT !.st = "LEASED", !.token = Len(claims) + 1, !.until = until,
                                !.gen = bindings[b].gen, !.attempts = more]]
    BY Zenon DEF ClaimOne, FreshToken
  <2>. QED  BY <2>1, <2>2, Zenon
<1>4. more > 0
  BY <1>1, BoundAssumption DEF Item
<1>5. RowOK(row)
  BY <1>1 DEF Reshaped
<1>. HIDE DEF row, more, until
<1>6. /\ items'[s].st = "LEASED" /\ items'[s].attempts = more /\ items'[s].op = row.op
      /\ items'[s].token = Len(claims) + 1 /\ items'[s].gen = bindings[b].gen
      /\ items'[s].until = until
      /\ items'[s].receipt = row.receipt /\ items'[s].obsReceipt = row.obsReceipt
      /\ items'[s].bytes = row.bytes
  BY <1>1, <1>3 DEF Item
<1>7. items[s].st # "NONE" /\ row.obsReceipt = items[s].obsReceipt
  BY <1>1, <1>2 DEF Reshaped
<1>. QED  BY <1>1, <1>2, <1>4, <1>5, <1>6, <1>7 DEF row, until, RowOK

\* What an acknowledgement makes of a leased row.
LEMMA AcknowledgedRow ==
  ASSUME TypeOK, RowInv, NEW n \in DOMAIN claims, NEW receipt \in Receipts, NEW t \in Times,
         Acknowledge(n, receipt, t)
  PROVE  LET s == claims[n].source
             row == items[s]
         IN  /\ items' = [items EXCEPT ![s] = items'[s]]
             /\ row.st = "LEASED" /\ row.token = n /\ row.op = claims[n].op
             /\ items'[s].op = row.op /\ items'[s].attempts = row.attempts
             /\ row.op = "OBSERVATION" => items'[s].st = "RECEIVED"
             /\ row.op = "WITHDRAWAL" => items'[s].st = "WITHDRAWN"
             /\ items'[s].terminal = t /\ items'[s].bytes = 0
             /\ row.op = "WITHDRAWAL" => items'[s].obsReceipt = row.obsReceipt
             /\ RowOK(items'[s])
<1>. DEFINE s == claims[n].source
            row == items[s]
            st == IF row.op = "OBSERVATION" THEN "RECEIVED" ELSE "WITHDRAWN"
            obs == IF row.op = "OBSERVATION" THEN receipt ELSE row.obsReceipt
<1>1. /\ row \in Item /\ RowOK(row) /\ s \in Sources /\ items \in [Sources -> Item]
      /\ claims[n].token = n
  BY ClaimTypes DEF RowInv, TypeOK
<1>2. row.st = "LEASED" /\ row.token = n /\ row.op = claims[n].op
  BY <1>1 DEF Acknowledge, HoldsLease
<1>3. items' = [items EXCEPT ![s] =
        [Unleased(row) EXCEPT !.st = st, !.bytes = 0, !.receipt = receipt,
           !.obsReceipt = obs, !.settled = claims[n].token, !.terminal = t]]
  BY Zenon DEF Acknowledge
<1>4. items'[s] = [Unleased(row) EXCEPT !.st = st, !.bytes = 0, !.receipt = receipt,
                     !.obsReceipt = obs, !.settled = claims[n].token, !.terminal = t]
  BY <1>1, <1>3, Zenon
<1>5. receipt # None /\ t # None
  BY BoundAssumption, TimeAssumption DEF None
<1>6. items' = [items EXCEPT ![s] = items'[s]]
  BY <1>3, <1>4
<1>. HIDE DEF s, row, st, obs
<1>7. /\ items'[s].st = st /\ items'[s].op = row.op /\ items'[s].attempts = row.attempts
      /\ items'[s].receipt = receipt /\ items'[s].obsReceipt = obs /\ items'[s].terminal = t
      /\ items'[s].bytes = 0
  BY <1>1, <1>4 DEF Unleased, Item
<1>8. row.op \in {"OBSERVATION", "WITHDRAWAL"}
  BY <1>1 DEF Item, Operations
<1>9. row.op = "OBSERVATION" => obs # None
  BY <1>5 DEF obs
<1>10. RowOK(items'[s])
  BY <1>1, <1>2, <1>5, <1>7, <1>8, <1>9 DEF RowOK, st
<1>11. row.op = "WITHDRAWAL" => obs = row.obsReceipt
  BY DEF obs
<1>. QED  BY <1>2, <1>6, <1>7, <1>8, <1>10, <1>11 DEF s, row, st

\* A newly admitted row.
LEMMA AdmittedRow ==
  ASSUME TypeOK, NEW s \in Sources, NEW t \in Times, Enqueue(s, t), items[s].st = "NONE"
  PROVE  /\ items'[s].st = "PENDING" /\ items'[s].op = "OBSERVATION" /\ items'[s].attempts = 0
         /\ items'[s].bytes = ObsBytes[s] /\ QuotaAllows(s, t)
         /\ RowOK(items'[s])
         /\ items' = [items EXCEPT ![s] = items'[s]]
         /\ bindings[BindingOf[s]].clock <= t /\ t < Deadline[s] /\ Admitted[s] <= t
         /\ bindings'[BindingOf[s]].clock = t
<1>. DEFINE row == [NoItem EXCEPT !.st = "PENDING", !.bytes = ObsBytes[s],
                                  !.created = t, !.next = t]
<1>1. items' = [items EXCEPT ![s] = row] /\ items'[s] = row
  BY DEF Enqueue, TypeOK
<1>2. row.st = "PENDING" /\ row.op = "OBSERVATION" /\ row.attempts = 0
      /\ row.receipt = None /\ row.obsReceipt = None /\ row.bytes = ObsBytes[s]
  BY DEF NoItem
<1>3. BindingOf[s] \in Bindings /\ bindings[BindingOf[s]].clock \in Nat
  BY SourceAssumption DEF TypeOK, Binding
<1>4. bindings'[BindingOf[s]].clock = t
  BY <1>3 DEF Enqueue, Touch, TypeOK, Binding
<1>. HIDE DEF row
<1>5. RowOK(row)
  BY <1>2 DEF RowOK
<1>. QED  BY <1>1, <1>2, <1>4, <1>5, <1>3 DEF Enqueue, Current

\* Whatever a step does to a row, the row stays in order, and what was received
\* or withdrawn of it is not forgotten before it is pruned.
LEMMA RowKept ==
  ASSUME TypeOK, RowInv, NEW s \in Sources, RowStep(s)
  PROVE  /\ RowOK(items'[s])
         /\ KeptStep(s) =>
              /\ items[s].st = "WITHDRAWN" => items'[s].st = "WITHDRAWN"
              /\ /\ items[s].obsReceipt # None
                 /\ items[s].st = "RECEIVED" \/ items[s].op = "WITHDRAWAL"
                 => /\ items'[s].obsReceipt # None
                    /\ items'[s].st = "RECEIVED" \/ items'[s].op = "WITHDRAWAL"
<1>. DEFINE Kept == /\ RowOK(items'[s])
                    /\ items[s].st = "WITHDRAWN" => items'[s].st = "WITHDRAWN"
                    /\ /\ items[s].obsReceipt # None
                       /\ items[s].st = "RECEIVED" \/ items[s].op = "WITHDRAWAL"
                       => /\ items'[s].obsReceipt # None
                          /\ items'[s].st = "RECEIVED" \/ items'[s].op = "WITHDRAWAL"
<1>1. BindingOf[s] \in Bindings /\ RowOK(items[s])
      /\ items[s].op \in {"OBSERVATION", "WITHDRAWAL"}
  <2>1. items[s] \in Item
    BY DEF TypeOK
  <2>. QED  BY <2>1, SourceAssumption DEF RowInv, Item, Operations
<1>2. ASSUME Reshaped(items[s], items'[s])
      PROVE  Kept
  BY <1>2 DEF Reshaped
<1>3. ASSUME NEW t \in Times, Enqueue(s, t), items[s].st = "NONE"
      PROVE  Kept
  <2>1. items[s].op = "OBSERVATION"
    BY <1>1, <1>3 DEF RowOK, NoItem
  <2>. QED  BY <1>3, <2>1, AdmittedRow
<1>4. ASSUME NEW t \in Times, NEW lease \in Leases, ClaimOne(BindingOf[s], s, t, lease)
      PROVE  Kept
  <2>1. /\ items'[s].op = Swept(BindingOf[s], t)[s].op /\ RowOK(items'[s])
        /\ items'[s].obsReceipt = items[s].obsReceipt
        /\ Swept(BindingOf[s], t)[s].st = "PENDING"
        /\ Reshaped(items[s], Swept(BindingOf[s], t)[s])
    BY <1>1, <1>4, ClaimedRow
  <2>. QED  BY <2>1 DEF Reshaped
<1>5. ASSUME NEW n \in DOMAIN claims, NEW receipt \in Receipts, NEW t \in Times,
             Acknowledge(n, receipt, t), claims[n].source = s
      PROVE  Kept
  <2>1. /\ items[s].st = "LEASED" /\ items'[s].op = items[s].op /\ RowOK(items'[s])
        /\ items[s].op = "WITHDRAWAL" => items'[s].st = "WITHDRAWN"
        /\ items[s].op = "WITHDRAWAL" => items'[s].obsReceipt = items[s].obsReceipt
    BY <1>5, AcknowledgedRow
  <2>. QED  BY <1>1, <2>1
<1>6. KeptStep(s) => Kept
  BY <1>2, <1>3, <1>4, <1>5, Zenon DEF KeptStep
<1>7. ASSUME NEW t \in Times, PruneTerminal(BindingOf[s], t),
             s \in Prunable(BindingOf[s], t)
      PROVE  RowOK(items'[s])
  <2>1. items'[s] = NoItem
    BY <1>7 DEF PruneTerminal
  <2>. QED  BY <2>1 DEF RowOK, NoItem
<1>. QED  BY <1>6, <1>7 DEF RowStep

\* Every step keeps the invariant of the rows.
LEMMA RowInvStep ==
  ASSUME TypeOK, RowInv, [Next]_vars
  PROVE  RowInv'
BY RowSteps, RowKept DEF RowInv

-----------------------------------------------------------------------------
(* Storage *)

\* What the rows are charged, one by one and together.
Costs(rows) == [s \in Sources |-> Charge(rows[s])]

Total(rows, R) == SumFunctionOnSet(Costs(rows), R)

\* The rows are finitely many, and are charged no more than the limits allow.
SpaceInv ==
  /\ IsFiniteSet(AllRows)
  /\ \A b \in Bindings : Total(items, Rows(b)) <= BindingLimits.bytes
  /\ Total(items, AllRows) <= InstallationLimits.bytes

\* What a newly admitted source is charged.
FirstCharge(s) == IF ObsBytes[s] > Reserve THEN ObsBytes[s] ELSE Reserve

\* The row of s is not new, and costs no more than it did.
Shrinks(s) ==
  items'[s].st # "NONE" => /\ items[s].st # "NONE"
                           /\ Charge(items'[s]) <= Charge(items[s])

\* A row holds no more than it is charged for.
LEMMA ChargeCovers ==
  ASSUME NEW r \in Item, RowOK(r), r.st # "NONE"
  PROVE  Charge(r) \in Nat /\ r.bytes \in Nat /\ r.bytes <= Charge(r)
BY SizeAssumption DEF Charge, RowOK, Item, NoItem

\* Reshaping a row does not raise its charge.
LEMMA ReshapedShrinks ==
  ASSUME NEW r \in Item, NEW q \in Item, RowOK(r), Reshaped(r, q)
  PROVE  Charge(q) <= Charge(r)
<1>1. Reserve \in Nat /\ r.bytes \in Nat /\ q.bytes \in Nat
  BY SizeAssumption DEF Item
<1>2. CASE q.st \in {"CANCELLED", "EXPIRED", "WITHDRAWN"}
  <2>1. Charge(q) = 0
    BY <1>2 DEF Charge, Reshaped, RowOK
  <2>. QED  BY <1>1, <2>1 DEF Charge
<1>3. CASE q.st \notin {"CANCELLED", "EXPIRED", "WITHDRAWN"}
  <2>1. r.st \notin {"CANCELLED", "EXPIRED", "WITHDRAWN"}
    BY <1>3 DEF Reshaped
  <2>2. Charge(r) = IF r.bytes > Reserve THEN r.bytes ELSE Reserve
    BY <2>1 DEF Charge
  <2>3. Charge(q) = IF q.bytes > Reserve THEN q.bytes ELSE Reserve
    BY <1>3 DEF Charge
  <2>4. q.bytes = r.bytes \/ q.bytes <= Reserve
    BY DEF Reshaped
  <2>. QED  BY <1>1, <2>2, <2>3, <2>4
<1>. QED  BY <1>2, <1>3

\* Only admission adds a row or raises a charge.
LEMMA OnlyAdmissionGrows ==
  ASSUME TypeOK, TypeOK', RowInv, NEW s \in Sources, RowStep(s)
  PROVE  Shrinks(s) \/ \E t \in Times : Enqueue(s, t) /\ items[s].st = "NONE"
<1>1. /\ items[s] \in Item /\ items'[s] \in Item /\ RowOK(items[s])
      /\ BindingOf[s] \in Bindings
  BY SourceAssumption DEF TypeOK, RowInv
<1>2. CASE Reshaped(items[s], items'[s])
  BY <1>1, <1>2, ReshapedShrinks DEF Shrinks, Reshaped
<1>3. ASSUME NEW t \in Times, NEW lease \in Leases, ClaimOne(BindingOf[s], s, t, lease)
      PROVE  Shrinks(s)
  <2>. DEFINE row == Swept(BindingOf[s], t)[s]
  <2>1. /\ items'[s].st = "LEASED" /\ items'[s].bytes = row.bytes
        /\ row.st = "PENDING" /\ items[s].st # "NONE" /\ Reshaped(items[s], row)
    BY <1>1, <1>3, ClaimedRow
  <2>2. row \in Item
    BY <1>1, TimeAssumption, SweepTypes DEF TypeOK
  <2>. HIDE DEF row
  <2>3. Charge(row) <= Charge(items[s]) /\ Charge(items'[s]) = Charge(row)
    BY <1>1, <2>1, <2>2, ReshapedShrinks DEF Charge
  <2>. QED  BY <2>1, <2>3 DEF Shrinks
<1>4. ASSUME NEW n \in DOMAIN claims, NEW receipt \in Receipts, NEW t \in Times,
             Acknowledge(n, receipt, t), claims[n].source = s
      PROVE  Shrinks(s)
  <2>1. items[s].st = "LEASED" /\ items'[s].bytes = 0
    BY <1>4, AcknowledgedRow
  <2>2. Charge(items[s]) >= Reserve
    BY <1>1, <2>1, SizeAssumption DEF Charge, Item
  <2>3. Charge(items'[s]) <= Reserve
    BY <2>1, SizeAssumption DEF Charge
  <2>4. Charge(items[s]) \in Nat /\ Charge(items'[s]) \in Nat /\ Reserve \in Nat
    BY <1>1, SizeAssumption DEF Charge, Item
  <2>. QED  BY <2>1, <2>2, <2>3, <2>4 DEF Shrinks
<1>5. ASSUME NEW t \in Times, PruneTerminal(BindingOf[s], t), s \in Prunable(BindingOf[s], t)
      PROVE  Shrinks(s)
  BY <1>5 DEF PruneTerminal, Shrinks, NoItem
<1>. QED  BY <1>2, <1>3, <1>4, <1>5, Zenon DEF RowStep, KeptStep

\* Charges are numbers, and so are their sums.
LEMMA CostsCount ==
  ASSUME NEW rows \in [Sources -> Item]
  PROVE  /\ \A s \in Sources : Costs(rows)[s] = Charge(rows[s]) /\ Charge(rows[s]) \in Nat
         /\ \A R \in SUBSET Sources : IsFiniteSet(R) => Total(rows, R) \in Nat
<1>1. \A s \in Sources : Costs(rows)[s] = Charge(rows[s]) /\ Charge(rows[s]) \in Nat
  <2>. SUFFICES ASSUME NEW s \in Sources PROVE Charge(rows[s]) \in Nat
    BY DEF Costs
  <2>1. rows[s].bytes \in Nat
    BY DEF Item
  <2>. QED  BY <2>1, SizeAssumption DEF Charge
<1>2. ASSUME NEW R \in SUBSET Sources, IsFiniteSet(R)
      PROVE  Total(rows, R) \in Nat
  <2>1. \A s \in R : Costs(rows)[s] \in Nat
    BY <1>1
  <2>. QED  BY <1>2, <2>1, SumTakesOut DEF Total
<1>. QED  BY <1>1, <1>2

\* Rows that cost no more one by one cost no more together.
LEMMA CheaperTotal ==
  ASSUME NEW rows \in [Sources -> Item], NEW more \in [Sources -> Item],
         NEW R \in SUBSET Sources, IsFiniteSet(R),
         NEW Q \in SUBSET R, \A s \in Q : Charge(rows[s]) <= Charge(more[s])
  PROVE  Total(rows, Q) <= Total(more, R)
<1>. DEFINE f == Costs(rows)
            g == Costs(more)
<1>1. \A s \in Sources : /\ f[s] = Charge(rows[s]) /\ f[s] \in Nat
                         /\ g[s] = Charge(more[s]) /\ g[s] \in Nat
  BY CostsCount
<1>. HIDE DEF f, g
<1>2. IsFiniteSet(Q) /\ \A s \in Q : f[s] \in Nat /\ g[s] \in Nat /\ f[s] <= g[s]
  BY <1>1, FS_Subset
<1>3. SumFunctionOnSet(f, Q) <= SumFunctionOnSet(g, Q)
  BY <1>2, SumOfSmaller
<1>4. \A s \in R : g[s] \in Nat
  BY <1>1
<1>5. SumFunctionOnSet(g, Q) <= SumFunctionOnSet(g, R)
  BY <1>4, SumOfFewer
<1>6. /\ SumFunctionOnSet(f, Q) \in Nat /\ SumFunctionOnSet(g, Q) \in Nat
      /\ SumFunctionOnSet(g, R) \in Nat
  BY <1>2, <1>4, SumTakesOut
<1>. QED  BY <1>3, <1>5, <1>6 DEF f, g, Total

\* Admission charges one row more.
LEMMA OneMoreTotal ==
  ASSUME NEW rows \in [Sources -> Item], NEW s \in Sources,
         NEW R \in SUBSET Sources, IsFiniteSet(R), s \notin R
  PROVE  Total(rows, R \cup {s}) = Charge(rows[s]) + Total(rows, R)
<1>. DEFINE f == Costs(rows)
<1>1. f[s] = Charge(rows[s]) /\ \A i \in R \cup {s} : f[i] \in Nat
  BY CostsCount
<1>. HIDE DEF f
<1>2. SumFunctionOnSet(f, R \cup {s}) = f[s] + SumFunctionOnSet(f, R)
  BY <1>1, SumOfOneMore
<1>. QED  BY <1>1, <1>2 DEF f, Total

\* Without admission the charges stay within the limits.
LEMMA ShrinkingFits ==
  ASSUME TypeOK, TypeOK', SpaceInv, \A s \in Sources : Shrinks(s)
  PROVE  SpaceInv'
<1>1. /\ items \in [Sources -> Item] /\ items' \in [Sources -> Item]
      /\ BindingLimits.bytes \in Nat /\ InstallationLimits.bytes \in Nat
  BY BoundAssumption DEF TypeOK
<1>2. ASSUME NEW R \in SUBSET Sources, IsFiniteSet(R), NEW Q \in SUBSET R,
             \A s \in Q : items'[s].st # "NONE"
      PROVE  /\ IsFiniteSet(Q)
             /\ Total(items', Q) \in Nat /\ Total(items, R) \in Nat
             /\ Total(items', Q) <= Total(items, R)
  <2>1. \A s \in Q : Charge(items'[s]) <= Charge(items[s])
    BY <1>2 DEF Shrinks
  <2>2. IsFiniteSet(Q) /\ Q \in SUBSET Sources
    BY <1>2, FS_Subset
  <2>. QED  BY <1>1, <1>2, <2>1, <2>2, CheaperTotal, CostsCount
<1>3. /\ AllRows \in SUBSET Sources /\ IsFiniteSet(AllRows)
      /\ AllRows' \in SUBSET AllRows
      /\ \A s \in AllRows' : items'[s].st # "NONE"
  BY DEF AllRows, Shrinks, SpaceInv
<1>4. ASSUME NEW b \in Bindings
      PROVE  /\ Rows(b) \in SUBSET Sources /\ IsFiniteSet(Rows(b))
             /\ Rows(b)' \in SUBSET Rows(b)
             /\ \A s \in Rows(b)' : items'[s].st # "NONE"
  <2>1. Rows(b) \subseteq AllRows
    BY DEF Rows, AllRows
  <2>2. IsFiniteSet(Rows(b))
    BY <1>3, <2>1, FS_Subset
  <2>. QED  BY <2>2 DEF Rows, Shrinks
<1>5. IsFiniteSet(AllRows') /\ Total(items', AllRows') <= InstallationLimits.bytes
  <2>1. /\ IsFiniteSet(AllRows') /\ Total(items', AllRows') \in Nat
        /\ Total(items, AllRows) \in Nat /\ Total(items', AllRows') <= Total(items, AllRows)
    BY <1>2, <1>3
  <2>. QED  BY <1>1, <2>1 DEF SpaceInv
<1>6. ASSUME NEW b \in Bindings
      PROVE  Total(items', Rows(b)') <= BindingLimits.bytes
  <2>1. /\ Total(items', Rows(b)') \in Nat /\ Total(items, Rows(b)) \in Nat
        /\ Total(items', Rows(b)') <= Total(items, Rows(b))
    BY <1>2, <1>4
  <2>. QED  BY <1>1, <2>1 DEF SpaceInv
<1>. QED  BY <1>5, <1>6 DEF SpaceInv

\* Admission keeps the charges within the limits: _quota has counted the room of
\* the row, with the withdrawal it may need.
LEMMA AdmissionFits ==
  ASSUME TypeOK, TypeOK', SpaceInv, NEW s \in Sources, NEW t \in Times,
         Enqueue(s, t), items[s].st = "NONE"
  PROVE  SpaceInv'
<1>1. /\ items' = [items EXCEPT ![s] = items'[s]] /\ items'[s].bytes = ObsBytes[s]
      /\ items'[s].st = "PENDING" /\ QuotaAllows(s, t)
  BY AdmittedRow
<1>2. /\ items \in [Sources -> Item] /\ items' \in [Sources -> Item]
      /\ BindingLimits.bytes \in Nat /\ InstallationLimits.bytes \in Nat
      /\ BindingOf[s] \in Bindings
  BY BoundAssumption, SourceAssumption DEF TypeOK
<1>3. \A i \in Sources : i # s => items'[i] = items[i]
  BY <1>1, <1>2
<1>4. Charge(items'[s]) = FirstCharge(s) /\ Charge(items'[s]) \in Nat
  BY <1>1, <1>2, CostsCount DEF Charge, FirstCharge
<1>5. ASSUME NEW R \in SUBSET Sources, IsFiniteSet(R), s \notin R
      PROVE  /\ Total(items', R) \in Nat /\ Total(items, R) \in Nat
             /\ Total(items', R) <= Total(items, R)
             /\ Total(items', R \cup {s}) = FirstCharge(s) + Total(items', R)
  <2>1. \A i \in R : Charge(items'[i]) \in Nat /\ Charge(items'[i]) = Charge(items[i])
    BY <1>2, <1>3, <1>5, CostsCount
  <2>2. R \in SUBSET R /\ \A i \in R : Charge(items'[i]) <= Charge(items[i])
    BY <2>1
  <2>3. Total(items', R) <= Total(items, R)
    BY <1>2, <1>5, <2>2, CheaperTotal
  <2>. QED  BY <1>2, <1>4, <1>5, <2>3, OneMoreTotal, CostsCount
<1>6. /\ AllRows \in SUBSET Sources /\ IsFiniteSet(AllRows) /\ s \notin AllRows
      /\ AllRows' = AllRows \cup {s}
  BY <1>1, <1>3 DEF AllRows, SpaceInv
<1>7. ASSUME NEW b \in Bindings
      PROVE  /\ Rows(b) \in SUBSET Sources /\ IsFiniteSet(Rows(b)) /\ s \notin Rows(b)
             /\ Rows(b)' = IF b = BindingOf[s] THEN Rows(b) \cup {s} ELSE Rows(b)
  <2>1. Rows(b) \subseteq AllRows
    BY DEF Rows, AllRows
  <2>2. IsFiniteSet(Rows(b))
    BY <1>6, <2>1, FS_Subset
  <2>. QED  BY <1>1, <1>3, <2>2 DEF Rows
<1>8. FirstCharge(s) \in Nat
  BY <1>4
<1>9. /\ Total(items, Rows(BindingOf[s])) + FirstCharge(s) <= BindingLimits.bytes
      /\ Total(items, AllRows) + FirstCharge(s) <= InstallationLimits.bytes
  BY <1>1 DEF QuotaAllows, Within, Total, Costs, FirstCharge
<1>10. IsFiniteSet(AllRows') /\ Total(items', AllRows') <= InstallationLimits.bytes
  <2>1. IsFiniteSet(AllRows')
    BY <1>6, FS_AddElement
  <2>. QED  BY <1>2, <1>5, <1>6, <1>8, <1>9, <2>1
<1>11. ASSUME NEW b \in Bindings
      PROVE  Total(items', Rows(b)') <= BindingLimits.bytes
  <2>1. /\ Total(items', Rows(b)) \in Nat /\ Total(items, Rows(b)) \in Nat
        /\ Total(items', Rows(b)) <= Total(items, Rows(b))
        /\ Total(items', Rows(b) \cup {s}) = FirstCharge(s) + Total(items', Rows(b))
    BY <1>5, <1>7
  <2>2. Total(items, Rows(b)) <= BindingLimits.bytes
    BY DEF SpaceInv
  <2>3. CASE b = BindingOf[s]
    <3>1. Rows(b)' = Rows(b) \cup {s}
      BY <1>7, <2>3
    <3>2. Total(items, Rows(b)) + FirstCharge(s) <= BindingLimits.bytes
      BY <1>9, <2>3
    <3>. QED  BY <1>2, <1>8, <2>1, <3>1, <3>2
  <2>4. CASE b # BindingOf[s]
    <3>1. Rows(b)' = Rows(b)
      BY <1>7, <2>4
    <3>. QED  BY <1>2, <2>1, <2>2, <3>1
  <2>. QED  BY <2>3, <2>4
<1>. QED  BY <1>10, <1>11 DEF SpaceInv

\* Every operation keeps the charges within the limits.
LEMMA SpaceStep ==
  ASSUME TypeOK, TypeOK', RowInv, SpaceInv, [Next]_vars
  PROVE  SpaceInv'
<1>1. CASE \A s \in Sources : Shrinks(s)
  BY <1>1, ShrinkingFits
<1>2. CASE \E s \in Sources : ~Shrinks(s)
  <2>1. PICK s \in Sources : ~Shrinks(s)
    BY <1>2
  <2>2. PICK t \in Times : Enqueue(s, t) /\ items[s].st = "NONE"
    BY <2>1, RowSteps, OnlyAdmissionGrows
  <2>. QED  BY <2>2, AdmissionFits
<1>. QED  BY <1>1, <1>2

-----------------------------------------------------------------------------
(* The send reservation *)

OneLive == \A b, c \in Bindings : bindings[b].st \in Live /\ bindings[c].st \in Live => b = c

\* A leased row is the one the last claim was issued for.
LeaseOK(s) ==
  /\ bindings[BindingOf[s]].st \in Live
  /\ items[s].gen = bindings[BindingOf[s]].gen
  /\ capacity = [token |-> items[s].token, until |-> items[s].until]
  /\ Len(claims) > 0 /\ items[s].token = Len(claims)
  /\ claims[Len(claims)].source = s /\ claims[Len(claims)].op = items[s].op
  /\ claims[Len(claims)].fate = "OPEN"

\* The reservation outlives the row it was taken for: it stays until the last
\* claim is settled or over.
LastReserved ==
  Len(claims) > 0 =>
    \/ claims[Len(claims)].fate # "OPEN"
    \/ capacity.until = claims[Len(claims)].until
    \/ bindings[BindingOf[claims[Len(claims)].source]].st = "RESTORED"

LeaseInv ==
  /\ OneLive
  /\ \A s \in Sources : items[s].st = "LEASED" => LeaseOK(s)
  /\ \A n \in DOMAIN claims : bindings[BindingOf[claims[n].source]].st # "NONE"
  /\ LastReserved
  /\ ClaimsNeverOverlap

\* Bindings only move forward.
Forward ==
  \A b \in Bindings :
    /\ bindings[b].st # "NONE" => bindings'[b].st # "NONE"
    /\ bindings[b].st = "RESTORED" => bindings'[b].st = "RESTORED"
    /\ bindings[b].st # "NONE" => bindings'[b].clock >= bindings[b].clock

\* _binding stores the time it saw and moves no binding back.
LEMMA TouchForward ==
  ASSUME TypeOK, NEW b \in Bindings, NEW t \in Nat, Current(b, t), Touch(b, t)
  PROVE  /\ Forward
         /\ bindings'[b].clock = t
         /\ \A c \in Bindings :
              bindings'[c].st = bindings[c].st /\ bindings'[c].gen = bindings[c].gen
<1>1. \A c \in Bindings : bindings[c] \in Binding /\ bindings[c].clock \in Nat
  BY DEF TypeOK, Binding
<1>2. /\ bindings'[b].clock = t
      /\ bindings'[b].st = bindings[b].st /\ bindings'[b].gen = bindings[b].gen
  BY <1>1 DEF Touch, TypeOK, Binding
<1>3. \A c \in Bindings : c # b => bindings'[c] = bindings[c]
  BY DEF Touch, TypeOK
<1>. QED  BY <1>1, <1>2, <1>3 DEF Forward, Current

\* Steps that issue and settle no claim, and leave no row leased under another
\* generation or binding.
Calm ==
  /\ UNCHANGED <<capacity, claims>>
  /\ Forward
  /\ OneLive'
  /\ \A s \in Sources : items'[s].st = "LEASED" =>
       /\ items'[s] = items[s]
       /\ bindings'[BindingOf[s]].st \in Live
       /\ bindings'[BindingOf[s]].gen = bindings[BindingOf[s]].gen

\* A step that takes no lease keeps the invariant of the leases.
LEMMA CalmKeepsLeaseInv ==
  ASSUME TypeOK, LeaseInv, Calm
  PROVE  LeaseInv'
<1>1. \A n \in DOMAIN claims : BindingOf[claims[n].source] \in Bindings
  BY ClaimTypes
<1>2. claims' = claims /\ capacity' = capacity
  BY DEF Calm
<1>3. (\A s \in Sources : items[s].st = "LEASED" => LeaseOK(s))'
  BY <1>2 DEF Calm, LeaseInv, LeaseOK
<1>4. (\A n \in DOMAIN claims : bindings[BindingOf[claims[n].source]].st # "NONE")'
  BY <1>1, <1>2 DEF Calm, LeaseInv, Forward
<1>5. LastReserved'
  <2>1. Len(claims) > 0 => Len(claims) \in DOMAIN claims
    BY DEF TypeOK
  <2>. QED  BY <1>1, <1>2, <2>1 DEF Calm, LeaseInv, LastReserved, Forward
<1>6. ClaimsNeverOverlap'
  BY <1>1, <1>2 DEF Calm, LeaseInv, ClaimsNeverOverlap, Forward
<1>. QED  BY <1>3, <1>4, <1>5, <1>6 DEF Calm, LeaseInv

\* The claim a claiming step issues.
LEMMA ClaimIssued ==
  ASSUME TypeOK, RowInv, NEW b \in Bindings, NEW s \in Sources, NEW t \in Times,
         NEW lease \in Leases, ClaimOne(b, s, t, lease)
  PROVE  LET new == Len(claims) + 1
             c == claims'[new]
         IN  /\ Len(claims') = new /\ new \in Nat \ {0}
             /\ DOMAIN claims' = DOMAIN claims \cup {new}
             /\ \A n \in DOMAIN claims : n # new /\ claims'[n] = claims[n]
             /\ c.source = s /\ c.op = items'[s].op /\ c.at = t /\ c.fate = "OPEN"
             /\ c.until = items'[s].until
             /\ capacity' = [token |-> new, until |-> items'[s].until]
<1>. DEFINE row == Swept(b, t)[s]
            until == LeaseUntil(s, row.op, t, lease)
            e == [source |-> s, token |-> Len(claims) + 1, gen |-> bindings[b].gen,
                  op |-> row.op, at |-> t, until |-> until, fate |-> "OPEN"]
<1>1. claims' = Append(claims, e) /\ capacity' = [token |-> Len(claims) + 1, until |-> until]
  BY Zenon DEF ClaimOne, FreshToken
<1>2. items'[s].op = row.op /\ items'[s].until = until
  BY ClaimedRow
<1>. HIDE DEF row, until, e
<1>3. claims \in Seq(Claim) /\ Len(claims) \in Nat
  BY DEF TypeOK
<1>4. /\ Len(claims') = Len(claims) + 1 /\ claims'[Len(claims) + 1] = e
      /\ \A n \in 1..Len(claims) : claims'[n] = claims[n]
      /\ DOMAIN claims' = 1..(Len(claims) + 1)
  BY <1>1, <1>3
<1>5. DOMAIN claims = 1..Len(claims)
  BY <1>3
<1>6. e.source = s /\ e.op = row.op /\ e.at = t /\ e.until = until /\ e.fate = "OPEN"
  BY DEF e
<1>7. DOMAIN claims' = DOMAIN claims \cup {Len(claims) + 1}
  BY <1>3, <1>4, <1>5
<1>8. \A n \in DOMAIN claims : n # Len(claims) + 1 /\ claims'[n] = claims[n]
  BY <1>3, <1>4, <1>5
<1>. QED  BY <1>1, <1>2, <1>3, <1>4, <1>6, <1>7, <1>8

\* A row leased after a step that neither claims it was leased before.
LEMMA StillLeased ==
  ASSUME TypeOK, RowInv, [Next]_vars, UNCHANGED claims, NEW s \in Sources,
         items'[s].st = "LEASED"
  PROVE  items'[s] = items[s]
<1>1. RowStep(s)
  BY RowSteps
<1>2. ASSUME NEW t \in Times, PruneTerminal(BindingOf[s], t), s \in Prunable(BindingOf[s], t)
      PROVE  FALSE
  <2>1. items'[s] = NoItem
    BY <1>2 DEF PruneTerminal
  <2>. QED  BY <2>1 DEF NoItem
<1>3. ASSUME NEW t \in Times, NEW lease \in Leases, ClaimOne(BindingOf[s], s, t, lease)
      PROVE  FALSE
  <2>1. BindingOf[s] \in Bindings
    BY SourceAssumption
  <2>2. Len(claims') = Len(claims) + 1 /\ Len(claims) \in Nat
    BY <1>3, <2>1, ClaimIssued DEF TypeOK
  <2>. QED  BY <2>2
<1>4. ASSUME NEW n \in DOMAIN claims, NEW receipt \in Receipts, NEW t \in Times,
             Acknowledge(n, receipt, t), claims[n].source = s
      PROVE  FALSE
  <2>1. items[s] \in Item
    BY DEF TypeOK
  <2>2. items[s].op \in {"OBSERVATION", "WITHDRAWAL"}
    BY <2>1 DEF Item, Operations
  <2>3. /\ items[s].op = "OBSERVATION" => items'[s].st = "RECEIVED"
        /\ items[s].op = "WITHDRAWAL" => items'[s].st = "WITHDRAWN"
    BY <1>4, AcknowledgedRow
  <2>. QED  BY <2>2, <2>3
<1>5. ASSUME NEW t \in Times, Enqueue(s, t), items[s].st = "NONE"
      PROVE  FALSE
  BY <1>5, AdmittedRow
<1>. QED  BY <1>1, <1>2, <1>3, <1>4, <1>5, Zenon DEF RowStep, KeptStep, Reshaped

\* Operations that only touch their binding's clock are calm.
LEMMA TouchCalm ==
  ASSUME TypeOK, RowInv, LeaseInv, [Next]_vars, UNCHANGED <<capacity, claims>>,
         NEW b \in Bindings, NEW t \in Nat, Current(b, t), Touch(b, t)
  PROVE  Calm
<1>1. Forward /\ \A c \in Bindings : bindings'[c].st = bindings[c].st /\ bindings'[c].gen = bindings[c].gen
  BY TouchForward
<1>2. OneLive'
  BY <1>1 DEF LeaseInv, OneLive
<1>3. ASSUME NEW s \in Sources, items'[s].st = "LEASED"
      PROVE  /\ items'[s] = items[s]
             /\ bindings'[BindingOf[s]].st \in Live
             /\ bindings'[BindingOf[s]].gen = bindings[BindingOf[s]].gen
  <2>1. items'[s] = items[s]
    BY <1>3, StillLeased
  <2>2. LeaseOK(s) /\ BindingOf[s] \in Bindings
    BY <1>3, <2>1, SourceAssumption DEF LeaseInv
  <2>. QED  BY <1>1, <2>1, <2>2 DEF LeaseOK
<1>. QED  BY <1>1, <1>2, <1>3, Zenon DEF Calm

\* An operation that changes the state of one binding leaves no row of it leased.
LEMMA BindingCalm ==
  ASSUME TypeOK, RowInv, LeaseInv, [Next]_vars, UNCHANGED <<capacity, claims>>,
         NEW b \in Bindings, NEW next, bindings' = [bindings EXCEPT ![b] = next],
         next.st \in BindingStates \ {"NONE"}, bindings[b].st # "NONE" => next.clock >= bindings[b].clock,
         bindings[b].st # "RESTORED",
         next.st \in Live => \A c \in Bindings : bindings[c].st \in Live => c = b,
         \A s \in Sources : BindingOf[s] = b => items'[s].st # "LEASED"
  PROVE  Calm
<1>1. bindings'[b] = next /\ \A c \in Bindings : c # b => bindings'[c] = bindings[c]
  BY DEF TypeOK
<1>2. \A c \in Bindings : bindings[c].clock \in Nat
  BY DEF TypeOK, Binding
<1>3. Forward
  BY <1>1, <1>2 DEF Forward
<1>4. OneLive'
  BY <1>1 DEF LeaseInv, OneLive
<1>5. ASSUME NEW s \in Sources, items'[s].st = "LEASED"
      PROVE  /\ items'[s] = items[s]
             /\ bindings'[BindingOf[s]].st \in Live
             /\ bindings'[BindingOf[s]].gen = bindings[BindingOf[s]].gen
  <2>1. items'[s] = items[s] /\ BindingOf[s] # b
    BY <1>5, StillLeased
  <2>2. LeaseOK(s) /\ BindingOf[s] \in Bindings
    BY <1>5, <2>1, SourceAssumption DEF LeaseInv
  <2>. QED  BY <1>1, <2>1, <2>2 DEF LeaseOK
<1>. QED  BY <1>3, <1>4, <1>5, Zenon DEF Calm

\* A claim is issued only when the reservation is over, so no lease is left and
\* the last claim is settled or over.
LEMMA ClaimKeepsLeaseInv ==
  ASSUME TypeOK, TypeOK', RowInv, LeaseInv, [Next]_vars,
         NEW b \in Bindings, NEW s \in Sources, NEW t \in Times, NEW lease \in Leases,
         ClaimOne(b, s, t, lease)
  PROVE  LeaseInv'
<1>. DEFINE new == Len(claims) + 1
<1>0. DOMAIN claims = 1..Len(claims) /\ Len(claims) \in Nat
  BY DEF TypeOK
<1>1. /\ Len(claims') = new /\ new \in Nat \ {0}
      /\ DOMAIN claims' = DOMAIN claims \cup {new}
      /\ \A n \in DOMAIN claims : n # new /\ claims'[n] = claims[n]
      /\ claims'[new].source = s /\ claims'[new].op = items'[s].op
      /\ claims'[new].at = t /\ claims'[new].fate = "OPEN"
      /\ claims'[new].until = items'[s].until
      /\ capacity' = [token |-> new, until |-> items'[s].until]
  BY ClaimIssued
<1>2. /\ BindingOf[s] = b /\ items'[s].st = "LEASED" /\ items'[s].token = new
      /\ items'[s].gen = bindings[b].gen
  BY ClaimedRow
<1>3. /\ t \in Nat /\ Current(b, t) /\ Touch(b, t) /\ bindings[b].st \in Live
      /\ ~(capacity.until > t)
  BY TimeAssumption, Zenon DEF ClaimOne, Reserved
<1>4. /\ Forward
      /\ \A c \in Bindings : bindings'[c].st = bindings[c].st /\ bindings'[c].gen = bindings[c].gen
  BY <1>3, TouchForward
<1>5. OneLive'
  BY <1>4 DEF LeaseInv, OneLive
<1>6. ASSUME NEW o \in Sources, o # s
      PROVE  items'[o].st # "LEASED"
  <2>1. items'[o] = Swept(b, t)[o]
    <3>1. Swept(b, t) \in [Sources -> Item]
      BY <1>3, SweepTypes DEF TypeOK
    <3>. QED  BY <1>6, <3>1 DEF ClaimOne
  <2>. SUFFICES ASSUME Swept(b, t)[o].st = "LEASED" PROVE FALSE
    BY <2>1
  <2>2. items[o] = Swept(b, t)[o]
    BY <1>3, SweepReshapes DEF Reshaped
  <2>3. LeaseOK(o) /\ BindingOf[o] \in Bindings
    BY <2>2, SourceAssumption DEF LeaseInv
  <2>4. BindingOf[o] = b
    BY <1>3, <2>3 DEF LeaseOK, LeaseInv, OneLive
  <2>5. items[o].until > t
    BY <1>3, <2>4, SweepReshapes
  <2>. QED  BY <1>3, <2>3, <2>5 DEF LeaseOK
<1>7. (\A o \in Sources : items[o].st = "LEASED" => LeaseOK(o))'
  <2>. SUFFICES LeaseOK(s)'
    BY <1>6
  <2>. QED  BY <1>1, <1>2, <1>3, <1>4 DEF LeaseOK
<1>8. (\A n \in DOMAIN claims : bindings[BindingOf[claims[n].source]].st # "NONE")'
  <2>1. \A n \in DOMAIN claims : BindingOf[claims[n].source] \in Bindings
    BY ClaimTypes
  <2>2. bindings'[b].st # "NONE"
    BY <1>3, <1>4 DEF Live
  <2>. QED  BY <1>1, <1>2, <1>4, <2>1, <2>2 DEF LeaseInv, Forward
<1>9. LastReserved'
  BY <1>1 DEF LastReserved
<1>10. ClaimsNeverOverlap'
  <2>. SUFFICES ASSUME NEW n \in DOMAIN claims, n + 1 \in DOMAIN claims'
                PROVE  \/ claims'[n].fate # "OPEN"
                       \/ claims'[n].until <= claims'[n + 1].at
                       \/ bindings'[BindingOf[claims'[n].source]].st = "RESTORED"
    <3>1. ASSUME NEW n \in DOMAIN claims', n + 1 \in DOMAIN claims' PROVE n \in DOMAIN claims
      BY <1>0, <1>1, <3>1
    <3>. QED  BY <3>1, Zenon DEF ClaimsNeverOverlap
  <2>1. claims'[n] = claims[n] /\ BindingOf[claims[n].source] \in Bindings
    BY <1>1, ClaimTypes
  <2>2. CASE n + 1 \in DOMAIN claims
    BY <1>1, <1>4, <2>1, <2>2 DEF LeaseInv, ClaimsNeverOverlap, Forward
  <2>3. CASE n + 1 = new
    <3>1. n = Len(claims) /\ Len(claims) > 0
      BY <1>0, <1>1, <2>3
    <3>2. \/ claims[n].fate # "OPEN"
          \/ capacity.until = claims[n].until
          \/ bindings[BindingOf[claims[n].source]].st = "RESTORED"
      BY <3>1 DEF LeaseInv, LastReserved
    <3>3. claims[n].until \in Nat /\ t \in Nat
      BY <1>3, ClaimTypes DEF Claim
    <3>. QED  BY <1>1, <1>3, <1>4, <2>1, <2>3, <3>2, <3>3 DEF Forward
  <2>. QED  BY <1>0, <1>1, <2>2, <2>3
<1>. QED  BY <1>5, <1>7, <1>8, <1>9, <1>10 DEF LeaseInv

\* What settling a claim does to the history of claims: the claim is the last
\* one, it was open, and it is not any more.
LEMMA SettledClaim ==
  ASSUME TypeOK, LeaseInv, NEW n \in DOMAIN claims, NEW t \in Nat, HoldsLease(n, t),
         FreeCapacity(n), NEW fate, Settle(n, fate)
  PROVE  /\ claims[n].fate = "OPEN" /\ n = Len(claims)
         /\ Current(BindingOf[claims[n].source], t)
         /\ items[claims[n].source].st = "LEASED"
         /\ items[claims[n].source].op = claims[n].op
         /\ DOMAIN claims' = DOMAIN claims /\ Len(claims') = Len(claims)
         /\ \A m \in DOMAIN claims :
              /\ claims'[m].source = claims[m].source /\ claims'[m].op = claims[m].op
              /\ claims'[m].until = claims[m].until /\ claims'[m].at = claims[m].at
              /\ claims'[m].fate = IF m = n THEN fate ELSE claims[m].fate
<1>. DEFINE s == claims[n].source
<1>1. s \in Sources /\ claims[n].token = n /\ claims[n] \in Claim
  BY ClaimTypes
<1>2. items[s].st = "LEASED" /\ items[s].token = n /\ items[s].op = claims[n].op
      /\ Current(BindingOf[s], t)
  BY <1>1 DEF HoldsLease
<1>3. LeaseOK(s)
  BY <1>1, <1>2 DEF LeaseInv
<1>4. n = Len(claims) /\ claims[n].fate = "OPEN"
  BY <1>2, <1>3 DEF LeaseOK
<1>5. claims' = [claims EXCEPT ![n] = [claims[n] EXCEPT !.fate = fate]]
  BY DEF Settle
<1>6. LET c == [claims[n] EXCEPT !.fate = fate] IN
      /\ c.source = claims[n].source /\ c.op = claims[n].op /\ c.until = claims[n].until
      /\ c.at = claims[n].at /\ c.fate = fate
  BY <1>1 DEF Claim
<1>7. claims \in Seq(Claim)
  BY DEF TypeOK
<1>8. DOMAIN claims' = DOMAIN claims /\ Len(claims') = Len(claims)
  <2>1. DOMAIN claims' = DOMAIN claims /\ DOMAIN claims = 1..Len(claims) /\ Len(claims) \in Nat
    BY <1>5, <1>7
  <2>. QED  BY <2>1, <1>7, <1>5, LenProperties
<1>9. \A m \in DOMAIN claims : claims'[m] = IF m = n THEN [claims[n] EXCEPT !.fate = fate]
                                                    ELSE claims[m]
  BY <1>5
<1>. QED  BY <1>2, <1>4, <1>6, <1>8, <1>9

\* A settled claim leaves no row leased and its reservation is given up.
LEMMA SettleKeepsLeaseInv ==
  ASSUME TypeOK, RowInv, LeaseInv, [Next]_vars, NEW n \in DOMAIN claims, NEW t \in Nat,
         HoldsLease(n, t), FreeCapacity(n), Touch(BindingOf[claims[n].source], t),
         NEW fate \in {"RETRIED", "ACKNOWLEDGED", "REJECTED"}, Settle(n, fate),
         items' = [items EXCEPT ![claims[n].source] = items'[claims[n].source]],
         items'[claims[n].source].st # "LEASED"
  PROVE  LeaseInv'
<1>. DEFINE s == claims[n].source
<1>1. s \in Sources /\ BindingOf[s] \in Bindings
  BY ClaimTypes
<1>2. /\ claims[n].fate = "OPEN" /\ n = Len(claims) /\ Current(BindingOf[s], t)
      /\ items[s].st = "LEASED"
      /\ DOMAIN claims' = DOMAIN claims /\ Len(claims') = Len(claims)
      /\ \A m \in DOMAIN claims :
           /\ claims'[m].source = claims[m].source /\ claims'[m].op = claims[m].op
           /\ claims'[m].until = claims[m].until /\ claims'[m].at = claims[m].at
           /\ claims'[m].fate = IF m = n THEN fate ELSE claims[m].fate
  BY SettledClaim
<1>3. Forward /\ \A c \in Bindings : bindings'[c].st = bindings[c].st
  BY <1>1, <1>2, TouchForward
<1>4. \A o \in Sources : items'[o].st # "LEASED"
  <2>1. \A o \in Sources : o # s => items'[o] = items[o]
    BY DEF TypeOK
  <2>2. \A o \in Sources : items[o].st = "LEASED" => o = s
    BY <1>1, <1>2 DEF LeaseInv, LeaseOK
  <2>. QED  BY <2>1, <2>2
<1>5. OneLive'
  BY <1>3 DEF LeaseInv, OneLive
<1>6. (\A m \in DOMAIN claims : bindings[BindingOf[claims[m].source]].st # "NONE")'
  BY <1>2, <1>3, ClaimTypes DEF LeaseInv
<1>7. LastReserved'
  BY <1>2 DEF LastReserved
<1>8. ClaimsNeverOverlap'
  BY <1>2, <1>3, ClaimTypes DEF LeaseInv, ClaimsNeverOverlap
<1>. QED  BY <1>4, <1>5, <1>6, <1>7, <1>8, Zenon DEF LeaseInv

\* After a restore nothing is leased and every binding that ever was is restored.
LEMMA RestoreKeepsLeaseInv ==
  ASSUME TypeOK, RowInv, LeaseInv, NEW t \in Times, MarkRestored(t)
  PROVE  LeaseInv' /\ Forward
<1>1. \A b \in Bindings : bindings'[b].st = IF bindings[b].st = "NONE" THEN "NONE" ELSE "RESTORED"
  BY DEF MarkRestored, TypeOK, Binding
<1>2. \A b \in Bindings : bindings'[b].clock >= bindings[b].clock
  <2>1. ASSUME NEW b \in Bindings PROVE bindings'[b].clock >= bindings[b].clock
    <3>1. bindings[b] \in Binding /\ bindings[b].clock \in Nat /\ t \in Nat
      BY TimeAssumption DEF TypeOK, Binding
    <3>2. bindings'[b].clock \in {bindings[b].clock, IF bindings[b].clock > t
                                                   THEN bindings[b].clock ELSE t}
      BY <3>1 DEF MarkRestored, Binding
    <3>. QED  BY <3>1, <3>2
  <2>. QED  BY <2>1
<1>3. Forward
  BY <1>1, <1>2 DEF Forward
<1>4. \A s \in Sources : items'[s].st # "LEASED"
  <2>1. \A s \in Sources : items[s] \in Item /\ RowOK(items[s]) /\ items'[s] = Restoring(items[s], t)
    BY DEF MarkRestored, TypeOK, RowInv
  <2>2. t \in Nat
    BY TimeAssumption
  <2>. QED  BY <2>1, <2>2, RestoringReshapes
<1>5. OneLive'
  BY <1>1 DEF OneLive, Live
<1>6. claims' = claims
  BY DEF MarkRestored
<1>7. \A n \in DOMAIN claims : bindings'[BindingOf[claims[n].source]].st = "RESTORED"
  BY <1>1, ClaimTypes DEF LeaseInv
<1>8. LastReserved'
  <2>1. Len(claims) > 0 => Len(claims) \in DOMAIN claims
    BY DEF TypeOK
  <2>. QED  BY <1>6, <1>7, <2>1 DEF LastReserved
<1>9. ClaimsNeverOverlap'
  BY <1>6, <1>7 DEF ClaimsNeverOverlap
<1>10. (\A n \in DOMAIN claims : bindings[BindingOf[claims[n].source]].st # "NONE")'
  BY <1>6, <1>7
<1>. QED  BY <1>3, <1>4, <1>5, <1>8, <1>9, <1>10, Zenon DEF LeaseInv

\* Every step keeps the reservation's invariant and moves bindings forward.
LEMMA LeaseInvStep ==
  ASSUME TypeOK, TypeOK', RowInv, LeaseInv, [Next]_vars
  PROVE  LeaseInv' /\ Forward
<1>. USE TimeAssumption, SourceAssumption
<1>1. ASSUME UNCHANGED <<capacity, claims>>,
             NEW b \in Bindings, NEW t \in Nat, Current(b, t), Touch(b, t)
      PROVE  LeaseInv' /\ Forward
  BY <1>1, TouchCalm, CalmKeepsLeaseInv DEF Calm
<1>2. ASSUME UNCHANGED <<capacity, claims>>, NEW b \in Bindings, bindings[b].st \in Live,
             NEW next, bindings' = [bindings EXCEPT ![b] = next],
             next.st \in BindingStates \ {"NONE"}, next.clock >= bindings[b].clock,
             NEW rows \in [Sources -> Item], \A s \in Sources : RowOK(rows[s]),
             items' = ReleaseAll(b, rows)
      PROVE  LeaseInv' /\ Forward
  <2>1. \A s \in Sources : BindingOf[s] = b => items'[s].st # "LEASED"
    BY <1>2, ReleaseAllReshapes
  <2>2. \A c \in Bindings : bindings[c].st \in Live => c = b
    BY <1>2 DEF LeaseInv, OneLive
  <2>3. bindings[b].st # "RESTORED"
    BY <1>2 DEF Live
  <2>4. Calm
    BY <1>2, <2>1, <2>2, <2>3, BindingCalm
  <2>. QED  BY <2>4, CalmKeepsLeaseInv DEF Calm
<1>3. ASSUME NEW b \in Bindings, NEW t \in Times, CreateBinding(b, t)
      PROVE  LeaseInv' /\ Forward
  <2>. DEFINE next == [st |-> "PAUSED", gen |-> 1, activated |-> t, clock |-> t]
  <2>1. bindings[b].st = "NONE" /\ UNCHANGED <<items, capacity, claims>>
        /\ bindings' = [bindings EXCEPT ![b] = next]
        /\ \A c \in Bindings : bindings[c].st \notin Live
    BY <1>3 DEF CreateBinding
  <2>2. \A s \in Sources : items'[s].st # "LEASED"
    BY <2>1 DEF LeaseInv, LeaseOK
  <2>3. next.st \in BindingStates \ {"NONE"}
    BY DEF BindingStates, Live
  <2>. HIDE DEF next
  <2>4. Calm
    BY <2>1, <2>2, <2>3, BindingCalm
  <2>. QED  BY <2>4, CalmKeepsLeaseInv DEF Calm
<1>4. ASSUME NEW b \in Bindings, NEW t \in Nat,
             Pause(b, t) \/ Resume(b, t) \/ PauseKeyless(b)
      PROVE  LeaseInv' /\ Forward
  <2>. DEFINE old == bindings[b]
              more == IF old.gen < MaxGeneration THEN old.gen + 1 ELSE old.gen
              paused == [old EXCEPT !.st = "PAUSED", !.gen = old.gen + 1, !.clock = t]
              active == [old EXCEPT !.st = "ACTIVE", !.gen = old.gen + 1,
                                    !.activated = t, !.clock = t]
              stopped == [old EXCEPT !.st = "PAUSED", !.gen = more]
  <2>1. old \in Binding /\ old.clock \in Nat
    BY DEF TypeOK, Binding
  <2>2. /\ paused.st = "PAUSED" /\ paused.clock = t
        /\ active.st = "ACTIVE" /\ active.clock = t
        /\ stopped.st = "PAUSED" /\ stopped.clock = old.clock
    BY <2>1 DEF Binding
  <2>3. /\ bindings[b].st \in Live
        /\ items' = ReleaseAll(b, items) /\ UNCHANGED <<capacity, claims>>
    BY <1>4 DEF Pause, Resume, PauseKeyless, Live
  <2>4. \/ t >= old.clock /\ bindings' = [bindings EXCEPT ![b] = paused]
        \/ t >= old.clock /\ bindings' = [bindings EXCEPT ![b] = active]
        \/ bindings' = [bindings EXCEPT ![b] = stopped]
    BY <1>4, Zenon DEF Pause, Resume, PauseKeyless, Current
  <2>. HIDE DEF paused, active, stopped
  <2>5. items \in [Sources -> Item] /\ \A s \in Sources : RowOK(items[s])
    BY DEF TypeOK, RowInv
  <2>6. {"PAUSED", "ACTIVE"} \subseteq BindingStates \ {"NONE"}
    BY DEF BindingStates, Live
  <2>7. PICK next : /\ bindings' = [bindings EXCEPT ![b] = next]
                    /\ next.st \in BindingStates \ {"NONE"} /\ next.clock >= old.clock
    BY <2>1, <2>2, <2>4, <2>6
  <2>. QED  BY <1>2, <2>3, <2>5, <2>7, Zenon
<1>5. ASSUME NEW b \in Bindings, NEW t \in Times, NEW restored \in BOOLEAN,
             Disconnect(b, restored, t)
      PROVE  LeaseInv' /\ Forward
  <2>. DEFINE old == bindings[b]
              st == IF restored THEN "RESTORED" ELSE "DISCONNECTED"
              next == [old EXCEPT !.st = st, !.gen = old.gen + 1, !.clock = t]
              rows == [i \in Sources |->
                IF i \in Rows(b) THEN Withdrawing(items[i], "LOCAL_EXPORT_REMOVED", t)
                ELSE items[i]]
  <2>1. /\ items' = ReleaseAll(b, rows) /\ UNCHANGED <<capacity, claims>>
        /\ bindings' = [bindings EXCEPT ![b] = next]
        /\ bindings[b].st \in Live /\ t >= old.clock
    BY <1>5, Zenon DEF Disconnect, Current
  <2>2. next.st \in BindingStates \ {"NONE"} /\ next.clock = t
    <3>1. old \in Binding
      BY DEF TypeOK
    <3>. QED  BY <3>1 DEF Binding, BindingStates, Live
  <2>3. \A s \in Sources : rows[s] \in Item /\ RowOK(rows[s])
    <3>. SUFFICES ASSUME NEW s \in Sources PROVE rows[s] \in Item /\ RowOK(rows[s])
      OBVIOUS
    <3>1. items[s] \in Item /\ RowOK(items[s])
      BY DEF TypeOK, RowInv
    <3>2. CASE s \in Rows(b)
      <4>1. rows[s] = Withdrawing(items[s], "LOCAL_EXPORT_REMOVED", t) /\ items[s].st # "NONE"
        BY <3>2 DEF Rows
      <4>. HIDE DEF rows
      <4>2. Withdrawing(items[s], "LOCAL_EXPORT_REMOVED", t) \in Item
        BY <3>1, RowTypes
      <4>3. Reshaped(items[s], Withdrawing(items[s], "LOCAL_EXPORT_REMOVED", t))
        BY <3>1, <4>1, WithdrawingReshapes
      <4>. QED  BY <4>1, <4>2, <4>3 DEF Reshaped
    <3>3. CASE s \notin Rows(b)
      BY <3>1, <3>3
    <3>. QED  BY <3>2, <3>3
  <2>4. rows \in [Sources -> Item]
    BY <2>3, Zenon
  <2>. HIDE DEF rows, next
  <2>. QED  BY <1>2, <2>1, <2>2, <2>3, <2>4
<1>6. ASSUME NEW n \in DOMAIN claims, NEW t \in Times, NEW delay \in Delays, Retry(n, t, delay)
      PROVE  LeaseInv' /\ Forward
  <2>. DEFINE s == claims[n].source
              row == [Unleased(items[s]) EXCEPT !.st = "PENDING", !.next = t + delay]
  <2>1. s \in Sources /\ items[s] \in Item /\ BindingOf[s] \in Bindings
    BY ClaimTypes
  <2>2. /\ HoldsLease(n, t) /\ Touch(BindingOf[s], t) /\ FreeCapacity(n) /\ Settle(n, "RETRIED")
        /\ items' = [items EXCEPT ![s] = row]
    BY <1>6 DEF Retry
  <2>3. row.st = "PENDING"
    BY <2>1 DEF Unleased, Item
  <2>. HIDE DEF row
  <2>4. items'[s] = row
    BY <2>1, <2>2 DEF TypeOK
  <2>5. LeaseInv'
    BY <2>2, <2>3, <2>4, SettleKeepsLeaseInv
  <2>. QED  BY <2>1, <2>2, <2>5, TouchForward DEF HoldsLease
<1>7. ASSUME NEW n \in DOMAIN claims, NEW t \in Times, Reject(n, t)
      PROVE  LeaseInv' /\ Forward
  <2>. DEFINE s == claims[n].source
              row == IF items[s].op = "OBSERVATION"
                     THEN Withdrawing(items[s], "LOCAL_EXPORT_REMOVED", t)
                     ELSE [Unleased(items[s]) EXCEPT !.st = "BLOCKED", !.bytes = 0,
                                                     !.terminal = t]
  <2>1. s \in Sources /\ items[s] \in Item /\ BindingOf[s] \in Bindings /\ RowOK(items[s])
    BY ClaimTypes DEF RowInv
  <2>2. /\ HoldsLease(n, t) /\ Touch(BindingOf[s], t) /\ FreeCapacity(n) /\ Settle(n, "REJECTED")
        /\ items' = [items EXCEPT ![s] = row]
    BY <1>7 DEF Reject
  <2>3. items[s].st = "LEASED"
    BY <2>2 DEF HoldsLease
  <2>4. row.st # "LEASED"
    <3>1. items[s].op = "OBSERVATION" =>
            Withdrawing(items[s], "LOCAL_EXPORT_REMOVED", t).st # "LEASED"
      BY <2>1, <2>3, WithdrawingReshapes
    <3>2. [Unleased(items[s]) EXCEPT !.st = "BLOCKED", !.bytes = 0, !.terminal = t].st = "BLOCKED"
      BY <2>1 DEF Unleased, Item
    <3>. QED  BY <3>1, <3>2
  <2>. HIDE DEF row
  <2>5. items'[s] = row
    BY <2>1, <2>2 DEF TypeOK
  <2>6. LeaseInv'
    BY <2>2, <2>4, <2>5, SettleKeepsLeaseInv
  <2>. QED  BY <2>1, <2>2, <2>6, TouchForward DEF HoldsLease
<1>8. ASSUME NEW n \in DOMAIN claims, NEW t \in Times, NEW receipt \in Receipts,
             Acknowledge(n, receipt, t)
      PROVE  LeaseInv' /\ Forward
  <2>. DEFINE s == claims[n].source
  <2>1. s \in Sources /\ items[s] \in Item /\ BindingOf[s] \in Bindings
        /\ items[s].op \in {"OBSERVATION", "WITHDRAWAL"}
    BY ClaimTypes DEF Item, Operations
  <2>2. HoldsLease(n, t) /\ Touch(BindingOf[s], t) /\ FreeCapacity(n) /\ Settle(n, "ACKNOWLEDGED")
    BY <1>8 DEF Acknowledge
  <2>3. items' = [items EXCEPT ![s] = items'[s]] /\ items'[s].st # "LEASED"
    BY <1>8, <2>1, AcknowledgedRow
  <2>4. LeaseInv'
    BY <2>2, <2>3, SettleKeepsLeaseInv
  <2>. QED  BY <2>1, <2>2, <2>4, TouchForward DEF HoldsLease
<1>9. ASSUME NEW b \in Bindings, NEW s \in Sources, NEW t \in Times, NEW lease \in Leases,
             ClaimOne(b, s, t, lease)
      PROVE  LeaseInv' /\ Forward
  <2>1. Current(b, t) /\ Touch(b, t) /\ t \in Nat
    BY <1>9 DEF ClaimOne
  <2>. QED  BY <1>9, <2>1, ClaimKeepsLeaseInv, TouchForward
<1>10. ASSUME NEW b \in Bindings, NEW t \in Times, BindingStep(b, t)
       PROVE  LeaseInv' /\ Forward
  <2>1. t \in Nat
    OBVIOUS
  <2>2. ASSUME Expire(b, t) \/ ClaimNothing(b, t) \/ PruneTerminal(b, t) \/ Inspect(b, t)
        PROVE  LeaseInv' /\ Forward
    <3>1. UNCHANGED <<capacity, claims>> /\ Current(b, t) /\ Touch(b, t)
      BY <2>2 DEF Expire, ClaimNothing, PruneTerminal, Inspect
    <3>. QED  BY <1>1, <2>1, <3>1
  <2>. QED  BY <1>10, <2>1, <2>2, <1>3, <1>4, <1>5, <1>9, Zenon DEF BindingStep
<1>11. ASSUME NEW s \in Sources, NEW t \in Times, SourceStep(s, t)
       PROVE  LeaseInv' /\ Forward
  <2>1. UNCHANGED <<capacity, claims>> /\ Current(BindingOf[s], t) /\ Touch(BindingOf[s], t)
    BY <1>11 DEF SourceStep, Enqueue, Withdraw
  <2>2. BindingOf[s] \in Bindings /\ t \in Nat
    OBVIOUS
  <2>. QED  BY <1>1, <2>1, <2>2
<1>12. ASSUME NEW n \in DOMAIN claims, NEW t \in Times, SettlementStep(n, t)
       PROVE  LeaseInv' /\ Forward
  <2>1. ASSUME NEW receipt, AcknowledgeAgain(n, receipt, t)
        PROVE  LeaseInv' /\ Forward
    <3>1. BindingOf[claims[n].source] \in Bindings /\ t \in Nat
      BY ClaimTypes
    <3>2. /\ UNCHANGED <<capacity, claims>> /\ Current(BindingOf[claims[n].source], t)
          /\ Touch(BindingOf[claims[n].source], t)
      BY <2>1 DEF AcknowledgeAgain
    <3>. QED  BY <1>1, <3>1, <3>2
  <2>. QED  BY <1>12, <2>1, <1>6, <1>7, <1>8, Zenon DEF SettlementStep
<1>13. ASSUME NEW b \in Bindings, PauseKeyless(b)
       PROVE  LeaseInv' /\ Forward
  <2>1. 0 \in Nat
    OBVIOUS
  <2>. QED  BY <1>4, <1>13, <2>1
<1>14. CASE UNCHANGED vars
  <2>1. UNCHANGED <<capacity, claims>> /\ bindings' = bindings /\ items' = items
    BY <1>14 DEF vars
  <2>2. \A b \in Bindings : bindings[b].clock \in Nat
    BY DEF TypeOK, Binding
  <2>3. Forward
    BY <2>1, <2>2 DEF Forward
  <2>4. Calm
    BY <2>1, <2>3 DEF Calm, LeaseInv, LeaseOK, OneLive
  <2>. QED  BY <2>3, <2>4, CalmKeepsLeaseInv
<1>. QED
  BY <1>10, <1>11, <1>12, <1>13, <1>14, RestoreKeepsLeaseInv, Zenon DEF Next

-----------------------------------------------------------------------------
(* The history of a source *)

WithdrawalClaimed(s) ==
  \E n \in DOMAIN claims : claims[n].source = s /\ claims[n].op = "WITHDRAWAL"

\* What the row of s knows of the claims issued for s.  The clock bounds are what
\* keeps a pruned source from being admitted again: a row is pruned a retention
\* after it was settled, and by then its deadline has passed.
HistoryOK(s) ==
  LET row == items[s]
      binding == bindings[BindingOf[s]]
  IN
  /\ row.st # "NONE" => binding.st # "NONE" /\ Admitted[s] <= binding.clock
  /\ row.attempts > 0 => Exposed(s)
  /\ Exposed(s) /\ row.st # "NONE" => row.attempts > 0
  /\ WithdrawalClaimed(s) => Exposed(s)
  /\ WithdrawalClaimed(s) /\ row.st # "NONE" => row.op = "WITHDRAWAL"
  /\ row.st = "WITHDRAWN" => Retracted(s) /\ Admitted[s] <= row.terminal
  /\ Exposed(s) /\ row.st = "NONE" => Retracted(s) /\ Deadline[s] <= binding.clock

HistoryInv == \A s \in Sources : HistoryOK(s)

IInv == TypeOK /\ RowInv /\ LeaseInv /\ HistoryInv

SameHistory(s) ==
  /\ Exposed(s)' <=> Exposed(s)
  /\ WithdrawalClaimed(s)' <=> WithdrawalClaimed(s)
  /\ Retracted(s) => Retracted(s)'

\* A step that claims and settles nothing keeps the history.
LEMMA UnchangedHistory ==
  ASSUME NEW s, UNCHANGED claims
  PROVE  SameHistory(s)
BY DEF SameHistory, Exposed, WithdrawalClaimed, Retracted

\* Settling a claim loses nothing of the history.
LEMMA SettledHistory ==
  ASSUME TypeOK, LeaseInv, NEW s, NEW n \in DOMAIN claims, NEW t \in Nat, HoldsLease(n, t),
         FreeCapacity(n), NEW fate, Settle(n, fate)
  PROVE  SameHistory(s)
<1>1. /\ claims[n].fate = "OPEN" /\ DOMAIN claims' = DOMAIN claims
      /\ \A m \in DOMAIN claims :
           /\ claims'[m].source = claims[m].source /\ claims'[m].op = claims[m].op
           /\ claims'[m].fate = IF m = n THEN fate ELSE claims[m].fate
  BY SettledClaim
<1>2. Exposed(s)' <=> Exposed(s)
  BY <1>1 DEF Exposed
<1>3. WithdrawalClaimed(s)' <=> WithdrawalClaimed(s)
  BY <1>1 DEF WithdrawalClaimed
<1>4. Retracted(s) => Retracted(s)'
  BY <1>1 DEF Retracted
<1>. QED  BY <1>2, <1>3, <1>4 DEF SameHistory

\* The claim of s adds to the history of s, and of no other source.
LEMMA ClaimedHistory ==
  ASSUME TypeOK, RowInv, NEW b \in Bindings, NEW s \in Sources, NEW t \in Times,
         NEW lease \in Leases, ClaimOne(b, s, t, lease)
  PROVE  /\ \A o \in Sources \ {s} : SameHistory(o)
         /\ Retracted(s) => Retracted(s)'
         /\ Exposed(s)' <=> Exposed(s) \/ items'[s].op = "OBSERVATION"
         /\ WithdrawalClaimed(s)' <=> WithdrawalClaimed(s) \/ items'[s].op = "WITHDRAWAL"
<1>. DEFINE new == Len(claims) + 1
<1>1. /\ DOMAIN claims' = DOMAIN claims \cup {new}
      /\ \A n \in DOMAIN claims : n # new /\ claims'[n] = claims[n]
      /\ claims'[new].source = s /\ claims'[new].op = items'[s].op
      /\ claims'[new].fate = "OPEN"
  BY ClaimIssued
<1>. HIDE DEF new
<1>2. ASSUME NEW o \in Sources
      PROVE  /\ Retracted(o) => Retracted(o)'
             /\ Exposed(o)' <=> Exposed(o) \/ (o = s /\ items'[s].op = "OBSERVATION")
             /\ WithdrawalClaimed(o)' <=>
                  WithdrawalClaimed(o) \/ (o = s /\ items'[s].op = "WITHDRAWAL")
  <2>1. Retracted(o) => Retracted(o)'
    BY <1>1 DEF Retracted
  <2>2. Exposed(o)' <=> Exposed(o) \/ (o = s /\ items'[s].op = "OBSERVATION")
    BY <1>1 DEF Exposed
  <2>3. WithdrawalClaimed(o)' <=>
          WithdrawalClaimed(o) \/ (o = s /\ items'[s].op = "WITHDRAWAL")
    BY <1>1 DEF WithdrawalClaimed
  <2>. QED  BY <2>1, <2>2, <2>3
<1>. QED  BY <1>2 DEF SameHistory

\* Only a claim of the source itself adds to its history.
LEMMA HistorySteps ==
  ASSUME TypeOK, RowInv, LeaseInv, [Next]_vars, NEW s \in Sources
  PROVE  SameHistory(s) \/ \E t \in Times, lease \in Leases : ClaimOne(BindingOf[s], s, t, lease)
<1>1. ASSUME UNCHANGED claims PROVE SameHistory(s)
  BY <1>1, UnchangedHistory
<1>2. ASSUME NEW b \in Bindings, NEW t \in Times, NEW i \in Sources, NEW lease \in Leases,
             ClaimOne(b, i, t, lease), ~SameHistory(s)
      PROVE  ClaimOne(BindingOf[s], s, t, lease)
  <2>1. i = s
    BY <1>2, ClaimedHistory
  <2>2. BindingOf[i] = b
    BY <1>2, ClaimedRow
  <2>. QED  BY <1>2, <2>1, <2>2
<1>3. ASSUME NEW n \in DOMAIN claims, NEW t \in Times, SettlementStep(n, t)
      PROVE  SameHistory(s)
  <2>1. t \in Nat
    BY TimeAssumption
  <2>2. \/ UNCHANGED claims
        \/ \E fate : HoldsLease(n, t) /\ FreeCapacity(n) /\ Settle(n, fate)
    BY <1>3 DEF SettlementStep, Retry, Reject, Acknowledge, AcknowledgeAgain
  <2>. QED  BY <1>1, <2>1, <2>2, SettledHistory
<1>4. ASSUME NEW b \in Bindings, NEW t \in Times, BindingStep(b, t)
      PROVE  \/ UNCHANGED claims
             \/ \E i \in Sources, lease \in Leases : ClaimOne(b, i, t, lease)
  <2>1. ASSUME NEW restored, Disconnect(b, restored, t) PROVE UNCHANGED claims
    BY <2>1 DEF Disconnect
  <2>2. ASSUME \/ CreateBinding(b, t) \/ Pause(b, t) \/ Resume(b, t) \/ Expire(b, t)
               \/ ClaimNothing(b, t) \/ PruneTerminal(b, t) \/ Inspect(b, t)
        PROVE UNCHANGED claims
    BY <2>2 DEF CreateBinding, Pause, Resume, Expire, ClaimNothing, PruneTerminal, Inspect
  <2>. QED  BY <1>4, <2>1, <2>2, Zenon DEF BindingStep
<1>5. ASSUME NEW i \in Sources, NEW t \in Times, SourceStep(i, t)
      PROVE  UNCHANGED claims
  BY <1>5 DEF SourceStep, Enqueue, Withdraw
<1>6. ASSUME \/ \E t \in Times : MarkRestored(t)
             \/ \E b \in Bindings : PauseKeyless(b)
             \/ UNCHANGED vars
      PROVE  UNCHANGED claims
  BY <1>6 DEF MarkRestored, PauseKeyless, vars
<1>7. CASE \E b \in Bindings, t \in Times : BindingStep(b, t)
  BY <1>1, <1>2, <1>4, <1>7
<1>. QED  BY <1>1, <1>3, <1>5, <1>6, <1>7, Zenon DEF Next

\* Every step keeps the invariant of the history.
LEMMA HistoryInvStep ==
  ASSUME IInv, [Next]_vars
  PROVE  HistoryInv'
<1>. USE TimeAssumption, SourceAssumption
<1>. SUFFICES ASSUME NEW s \in Sources PROVE HistoryOK(s)'
  BY DEF HistoryInv
<1>. DEFINE b == BindingOf[s]
<1>1. /\ TypeOK /\ TypeOK' /\ RowInv /\ RowInv' /\ LeaseInv /\ Forward
      /\ HistoryOK(s) /\ RowOK(items[s]) /\ RowOK(items'[s])
      /\ b \in Bindings /\ items[s] \in Item
  <2>1. TypeOK /\ RowInv /\ LeaseInv /\ HistoryInv
    BY DEF IInv
  <2>2. TypeOK' /\ RowInv'
    BY <2>1, TypeStep, RowInvStep
  <2>3. Forward
    BY <2>1, <2>2, LeaseInvStep
  <2>. QED  BY <2>1, <2>2, <2>3 DEF HistoryInv, RowInv, TypeOK
<1>2. bindings[b].clock \in Nat /\ bindings'[b].clock \in Nat
  BY <1>1 DEF TypeOK, Binding
<1>3. bindings[b].st # "NONE" => bindings'[b].st # "NONE"
                                 /\ bindings'[b].clock >= bindings[b].clock
  BY <1>1 DEF Forward
<1>4. Exposed(s) => bindings[b].st # "NONE"
  BY <1>1 DEF Exposed, LeaseInv
<1>5. Admitted[s] \in Nat /\ Deadline[s] \in Nat /\ Deadline[s] <= Admitted[s] + Day
  OBVIOUS
<1>6. RowStep(s)
  BY <1>1, RowSteps
<1>7. SameHistory(s) \/ \E t \in Times, lease \in Leases : ClaimOne(b, s, t, lease)
  BY <1>1, HistorySteps
<1>8. ASSUME NEW t \in Times, NEW lease \in Leases, ClaimOne(b, s, t, lease)
      PROVE  HistoryOK(s)'
  <2>1. /\ items'[s].st = "LEASED" /\ items'[s].attempts > 0 /\ items[s].st # "NONE"
        /\ items'[s].op = Swept(b, t)[s].op
        /\ Reshaped(items[s], Swept(b, t)[s])
    BY <1>1, <1>8, ClaimedRow
  <2>2. /\ Exposed(s)' <=> Exposed(s) \/ items'[s].op = "OBSERVATION"
        /\ WithdrawalClaimed(s)' <=> WithdrawalClaimed(s) \/ items'[s].op = "WITHDRAWAL"
    BY <1>1, <1>8, ClaimedHistory
  <2>3. items'[s].op = "OBSERVATION" \/ items'[s].op = "WITHDRAWAL"
    BY <1>1 DEF TypeOK, Item, Operations
  <2>4. items'[s].op = "WITHDRAWAL" => Exposed(s)
    <3>1. items'[s].op = "WITHDRAWAL" => items[s].attempts > 0
      BY <2>1 DEF Reshaped, RowOK
    <3>. QED  BY <3>1, <1>1 DEF HistoryOK
  <2>5. WithdrawalClaimed(s) => items'[s].op = "WITHDRAWAL"
    BY <2>1, <1>1 DEF HistoryOK, Reshaped
  <2>6. Admitted[s] <= bindings'[b].clock /\ bindings'[b].st # "NONE"
    BY <1>1, <1>2, <1>3, <1>5, <2>1 DEF HistoryOK
  <2>. QED  BY <2>1, <2>2, <2>3, <2>4, <2>5, <2>6 DEF HistoryOK
<1>9. ASSUME SameHistory(s), Reshaped(items[s], items'[s])
      PROVE  HistoryOK(s)'
  <2>1. /\ items'[s].st = "NONE" <=> items[s].st = "NONE"
        /\ items'[s].attempts = items[s].attempts
        /\ items[s].op = "WITHDRAWAL" => items'[s].op = "WITHDRAWAL"
        /\ items'[s].st = "WITHDRAWN" => /\ items[s].st = "WITHDRAWN"
                                         /\ items'[s].terminal = items[s].terminal
    BY <1>9 DEF Reshaped
  <2>2. /\ Exposed(s)' <=> Exposed(s)
        /\ WithdrawalClaimed(s)' <=> WithdrawalClaimed(s)
        /\ Retracted(s) => Retracted(s)'
    BY <1>9 DEF SameHistory
  <2>3. items'[s].st # "NONE" => bindings'[b].st # "NONE" /\ Admitted[s] <= bindings'[b].clock
    BY <1>1, <1>2, <1>3, <1>5, <2>1 DEF HistoryOK
  <2>4. Exposed(s) /\ items'[s].st = "NONE" => Deadline[s] <= bindings'[b].clock
    BY <1>1, <1>2, <1>3, <1>4, <1>5, <2>1 DEF HistoryOK
  <2>. QED  BY <1>1, <2>1, <2>2, <2>3, <2>4 DEF HistoryOK
<1>10. ASSUME SameHistory(s), NEW t \in Times, Enqueue(s, t), items[s].st = "NONE"
       PROVE  HistoryOK(s)'
  <2>1. /\ items'[s].st = "PENDING" /\ items'[s].op = "OBSERVATION" /\ items'[s].attempts = 0
        /\ bindings[b].clock <= t /\ t < Deadline[s] /\ Admitted[s] <= t
        /\ bindings'[b].clock = t
    BY <1>1, <1>10, AdmittedRow
  <2>2. ~Exposed(s)
    BY <1>1, <1>2, <1>5, <1>10, <2>1 DEF HistoryOK
  <2>3. ~Exposed(s)' /\ ~WithdrawalClaimed(s)'
    BY <1>1, <1>10, <2>2 DEF HistoryOK, SameHistory
  <2>4. bindings'[b].st # "NONE"
    BY <1>3, <1>10 DEF Enqueue, Current
  <2>. QED  BY <2>1, <2>3, <2>4 DEF HistoryOK
<1>11. ASSUME SameHistory(s), NEW n \in DOMAIN claims, NEW receipt \in Receipts, NEW t \in Times,
              Acknowledge(n, receipt, t), claims[n].source = s
       PROVE  HistoryOK(s)'
  <2>1. /\ items[s].st = "LEASED" /\ items[s].op = claims[n].op
        /\ items'[s].op = items[s].op /\ items'[s].attempts = items[s].attempts
        /\ items[s].op = "OBSERVATION" => items'[s].st = "RECEIVED"
        /\ items[s].op = "WITHDRAWAL" => items'[s].st = "WITHDRAWN"
        /\ items'[s].terminal = t
    BY <1>1, <1>11, AcknowledgedRow
  <2>2. /\ HoldsLease(n, t) /\ FreeCapacity(n) /\ Settle(n, "ACKNOWLEDGED")
        /\ Touch(b, t) /\ Current(b, t)
    BY <1>11 DEF Acknowledge, HoldsLease
  <2>3. /\ DOMAIN claims' = DOMAIN claims
        /\ claims'[n].source = s /\ claims'[n].op = claims[n].op
        /\ claims'[n].fate = "ACKNOWLEDGED"
    BY <1>1, <1>11, <2>2, SettledClaim
  <2>4. items[s].op = "WITHDRAWAL" => Retracted(s)'
    BY <2>1, <2>3 DEF Retracted
  <2>5. items[s].op \in {"OBSERVATION", "WITHDRAWAL"}
    BY <1>1 DEF Item, Operations
  <2>6. Admitted[s] <= t /\ Admitted[s] <= bindings'[b].clock /\ bindings'[b].st # "NONE"
    <3>1. Admitted[s] <= bindings[b].clock /\ bindings[b].st # "NONE"
      BY <1>1, <2>1 DEF HistoryOK
    <3>2. bindings[b].clock <= t /\ t \in Nat
      BY <2>2 DEF Current
    <3>. QED  BY <1>2, <1>3, <1>5, <3>1, <3>2
  <2>. QED  BY <1>1, <1>11, <2>1, <2>4, <2>5, <2>6 DEF HistoryOK, SameHistory
<1>12. ASSUME SameHistory(s), NEW t \in Times, PruneTerminal(b, t), s \in Prunable(b, t)
       PROVE  HistoryOK(s)'
  <2>1. items'[s] = NoItem
    BY <1>12 DEF PruneTerminal
  <2>2. items'[s].st = "NONE" /\ items'[s].attempts = 0
    BY <2>1 DEF NoItem
  <2>3. bindings'[b].clock = t
    BY <1>1, <1>12, TouchForward DEF PruneTerminal
  <2>4. Exposed(s) => Retracted(s) /\ Deadline[s] <= t
    <3>. SUFFICES ASSUME Exposed(s) PROVE Retracted(s) /\ Deadline[s] <= t
      OBVIOUS
    <3>1. items[s].st # "NONE" /\ items[s].terminal # None /\ items[s].terminal <= t - Retain
          /\ (items[s].attempts = 0 \/ items[s].st = "WITHDRAWN")
      BY <1>12 DEF Prunable, Rows
    <3>2. items[s].attempts > 0
      BY <1>1, <3>1 DEF HistoryOK
    <3>3. Retracted(s) /\ Admitted[s] <= items[s].terminal
      BY <1>1, <3>1, <3>2 DEF HistoryOK
    <3>4. items[s].terminal \in Int
      BY <1>1 DEF Item, NatOrNone, None
    <3>5. items[s].terminal <= t - Retain
      BY <3>1
    <3>6. t \in Nat /\ Retain \in Nat /\ Day \in Nat /\ Day <= Retain
      OBVIOUS
    <3>. QED  BY <1>5, <3>3, <3>4, <3>5, <3>6
  <2>. QED  BY <1>1, <1>12, <2>2, <2>3, <2>4 DEF HistoryOK, SameHistory
<1>13. CASE SameHistory(s)
  <2>1. CASE \E t \in Times, lease \in Leases : ClaimOne(b, s, t, lease)
    BY <1>8, <2>1
  <2>. QED  BY <1>6, <1>9, <1>10, <1>11, <1>12, <1>13, <2>1, Zenon DEF RowStep, KeptStep
<1>. QED  BY <1>7, <1>8, <1>13

-----------------------------------------------------------------------------
(* Theorems *)

\* The invariant holds of the empty outbox.
LEMMA InitInv == Init => IInv
<1>. SUFFICES ASSUME Init PROVE IInv
  OBVIOUS
<1>1. \A s \in Sources : items[s] = NoItem
  BY DEF Init
<1>2. claims = <<>> /\ DOMAIN claims = {} /\ Len(claims) = 0
  BY DEF Init
<1>3. \A b \in Bindings : bindings[b].st = "NONE"
  BY DEF Init
<1>4. TypeOK
  <2>1. [st |-> "NONE", gen |-> 0, activated |-> 0, clock |-> 0] \in Binding
    BY DEF Binding, BindingStates
  <2>2. NoCapacity \in Capacity
    BY DEF NoCapacity, Capacity, NatOrNone
  <2>3. claims \in Seq(Claim)
    BY DEF Init
  <2>. QED  BY <1>2, <2>1, <2>2, <2>3, NoItemType, Zenon DEF Init, TypeOK
<1>5. RowInv
  BY <1>1 DEF RowInv, RowOK, NoItem
<1>6. LeaseInv
  BY <1>1, <1>2, <1>3 DEF LeaseInv, OneLive, Live, LastReserved, ClaimsNeverOverlap, NoItem
<1>7. HistoryInv
  BY <1>1, <1>2 DEF HistoryInv, HistoryOK, NoItem, Exposed, WithdrawalClaimed, Retracted
<1>. QED  BY <1>4, <1>5, <1>6, <1>7 DEF IInv

\* Every operation keeps the invariant.
LEMMA InvStep ==
  ASSUME IInv, [Next]_vars
  PROVE  IInv'
<1>1. TypeOK /\ RowInv /\ LeaseInv
  BY DEF IInv
<1>2. TypeOK' /\ RowInv'
  BY <1>1, TypeStep, RowInvStep
<1>. QED  BY <1>1, <1>2, LeaseInvStep, HistoryInvStep DEF IInv

\* The inductive invariant: types, what a row's columns say together, the one
\* send reservation, and what a row remembers of the claims issued for it.
THEOREM Invariant == Spec => []IInv
BY InitInv, InvStep, PTL DEF Spec

\* Type correctness of the outbox.
THEOREM TypeCorrect == Spec => []TypeOK
<1>1. IInv => TypeOK
  BY DEF IInv
<1>. QED  BY Invariant, <1>1, PTL

\* A leased row belongs to the live binding's generation and owns the one send
\* reservation, so at most one row is leased.
THEOREM LeasesHoldCapacity == Spec => []LeaseHoldsCapacity
<1>1. IInv => LeaseHoldsCapacity
  BY DEF IInv, LeaseInv, LeaseOK, LeaseHoldsCapacity
<1>. QED  BY Invariant, <1>1, PTL

\* A lease is settled, or over by the clock of the next claim, before the next
\* claim is issued: requests never overlap.
THEOREM ClaimsAreExclusive == Spec => []ClaimsNeverOverlap
<1>1. IInv => ClaimsNeverOverlap
  BY DEF IInv, LeaseInv
<1>. QED  BY Invariant, <1>1, PTL

\* An observation that may have been sent is remembered until its withdrawal is
\* acknowledged, in every order of deletion, expiry, restore and pruning.
THEOREM ObligationsAreKept == Spec => []ObligationKept
<1>1. IInv => ObligationKept
  <2>. SUFFICES ASSUME IInv, NEW s \in Sources, Exposed(s), ~Retracted(s)
                PROVE  items[s].st \in {"PENDING", "LEASED", "RECEIVED", "BLOCKED"}
    BY DEF ObligationKept
  <2>1. HistoryOK(s) /\ RowOK(items[s]) /\ items[s].st \in ItemStates
    BY DEF IInv, HistoryInv, RowInv, TypeOK, Item
  <2>. QED  BY <2>1 DEF HistoryOK, RowOK, ItemStates
<1>. QED  BY Invariant, <1>1, PTL

\* The rows are finitely many and within the limits from the start on.
LEMMA SpaceInvariant == Spec => []SpaceInv
<1>1. Init => SpaceInv
  <2>. SUFFICES ASSUME Init PROVE SpaceInv
    OBVIOUS
  <2>1. AllRows = {} /\ \A b \in Bindings : Rows(b) = {}
    BY DEF Init, AllRows, Rows, NoItem
  <2>2. Total(items, {}) = 0 /\ IsFiniteSet({})
    BY SumOfNothing, FS_EmptySet DEF Total
  <2>. QED  BY <2>1, <2>2, BoundAssumption DEF SpaceInv
<1>2. IInv /\ IInv' /\ SpaceInv /\ [Next]_vars => SpaceInv'
  BY SpaceStep DEF IInv
<1>. QED  BY <1>1, <1>2, Invariant, PTL DEF Spec

\* The store never outgrows its byte limits, whatever the number of rows and
\* whatever is withdrawn, restored or pruned: every row is charged at least what
\* it holds, admission alone adds charges, and _quota bounds their sum.
THEOREM StorageStaysBounded == Spec => []StorageBounded
<1>1. IInv /\ SpaceInv => StorageBounded
  <2>. SUFFICES ASSUME IInv, SpaceInv PROVE StorageBounded
    OBVIOUS
  <2>. DEFINE sizes == [s \in Sources |-> items[s].bytes]
              costs == Costs(items)
  <2>1. items \in [Sources -> Item] /\ RowInv
    BY DEF IInv, TypeOK
  <2>2. ASSUME NEW R \in SUBSET AllRows
        PROVE  /\ SumFunctionOnSet(sizes, R) \in Nat /\ Total(items, R) \in Nat
               /\ SumFunctionOnSet(sizes, R) <= Total(items, R)
    <3>1. \A s \in R : /\ sizes[s] = items[s].bytes /\ costs[s] = Charge(items[s])
                       /\ items[s] \in Item /\ RowOK(items[s]) /\ items[s].st # "NONE"
      BY <2>1 DEF Costs, AllRows, RowInv
    <3>. HIDE DEF sizes, costs
    <3>2. \A s \in R : sizes[s] \in Nat /\ costs[s] \in Nat /\ sizes[s] <= costs[s]
      BY <3>1, ChargeCovers
    <3>3. IsFiniteSet(R)
      BY FS_Subset DEF SpaceInv
    <3>4. SumFunctionOnSet(sizes, R) <= SumFunctionOnSet(costs, R)
      BY <3>2, <3>3, SumOfSmaller
    <3>5. SumFunctionOnSet(sizes, R) \in Nat /\ SumFunctionOnSet(costs, R) \in Nat
      BY <3>2, <3>3, SumTakesOut
    <3>. QED  BY <3>4, <3>5 DEF costs, Total
  <2>3. BindingLimits.bytes \in Nat /\ InstallationLimits.bytes \in Nat
    BY BoundAssumption
  <2>4. StoredBytes(AllRows) <= InstallationLimits.bytes
    <3>1. SumFunctionOnSet(sizes, AllRows) <= InstallationLimits.bytes
      BY <2>2, <2>3 DEF SpaceInv
    <3>. QED  BY <3>1 DEF StoredBytes
  <2>5. ASSUME NEW b \in Bindings
        PROVE  StoredBytes(Rows(b)) <= BindingLimits.bytes
    <3>1. Rows(b) \in SUBSET AllRows
      BY DEF Rows, AllRows
    <3>2. Total(items, Rows(b)) <= BindingLimits.bytes
      BY DEF SpaceInv
    <3>3. SumFunctionOnSet(sizes, Rows(b)) <= BindingLimits.bytes
      BY <2>2, <2>3, <3>1, <3>2
    <3>. QED  BY <3>3 DEF StoredBytes
  <2>. QED  BY <2>4, <2>5 DEF StorageBounded
<1>. QED  BY <1>1, Invariant, SpaceInvariant, PTL

\* No observation is claimed after a withdrawal of the same source, not even
\* after the source's row was pruned.
THEOREM NothingResurrects == Spec => []NoResurrection
<1>1. Init => NoResurrection
  BY DEF Init, NoResurrection
<1>2. IInv /\ NoResurrection /\ [Next]_vars => NoResurrection'
  <2>. SUFFICES ASSUME IInv, NoResurrection, [Next]_vars PROVE NoResurrection'
    OBVIOUS
  <2>1. TypeOK /\ RowInv /\ LeaseInv /\ HistoryInv
    BY DEF IInv
  <2>2. CASE \E b \in Bindings, s \in Sources, t \in Times, lease \in Leases :
               ClaimOne(b, s, t, lease)
    <3>1. PICK b \in Bindings, s \in Sources, t \in Times, lease \in Leases :
                 ClaimOne(b, s, t, lease)
      BY <2>2
    <3>. DEFINE new == Len(claims) + 1
    <3>2. /\ DOMAIN claims' = DOMAIN claims \cup {new}
          /\ \A n \in DOMAIN claims : n # new /\ claims'[n] = claims[n]
          /\ claims'[new].source = s /\ claims'[new].op = items'[s].op
      BY <2>1, <3>1, ClaimIssued
    <3>3. \A n \in DOMAIN claims : n \in Nat /\ n < new
      BY <2>1 DEF TypeOK
    <3>4. items'[s].op \in {"OBSERVATION", "WITHDRAWAL"}
      BY <2>1, TypeStep DEF TypeOK, Item, Operations
    <3>5. items'[s].op = "OBSERVATION" => ~WithdrawalClaimed(s)
      <4>1. /\ items'[s].op = Swept(b, t)[s].op /\ items[s].st # "NONE"
            /\ Reshaped(items[s], Swept(b, t)[s])
        BY <2>1, <3>1, ClaimedRow
      <4>2. HistoryOK(s)
        BY <2>1 DEF HistoryInv
      <4>. QED  BY <4>1, <4>2 DEF HistoryOK, Reshaped
    <3>. SUFFICES ASSUME NEW m \in DOMAIN claims', NEW n \in DOMAIN claims',
                         claims'[m].source = claims'[n].source,
                         claims'[m].op = "WITHDRAWAL", m < n
                  PROVE  claims'[n].op = "WITHDRAWAL"
      BY DEF NoResurrection
    <3>6. new \in Nat
      BY <2>1 DEF TypeOK
    <3>. HIDE DEF new
    <3>7. m \in DOMAIN claims
      BY <3>2, <3>3, <3>6
    <3>8. CASE n \in DOMAIN claims
      BY <3>2, <3>7, <3>8 DEF NoResurrection
    <3>9. CASE n = new
      BY <3>2, <3>4, <3>5, <3>7, <3>9 DEF WithdrawalClaimed
    <3>. QED  BY <3>2, <3>8, <3>9
  <2>3. CASE UNCHANGED claims
    BY <2>3 DEF NoResurrection
  <2>4. ASSUME NEW n \in DOMAIN claims, NEW t \in Times, SettlementStep(n, t)
        PROVE  NoResurrection'
    <3>1. t \in Nat
      BY TimeAssumption
    <3>2. CASE \E fate : HoldsLease(n, t) /\ FreeCapacity(n) /\ Settle(n, fate)
      <4>1. /\ DOMAIN claims' = DOMAIN claims
            /\ \A m \in DOMAIN claims : /\ claims'[m].source = claims[m].source
                                        /\ claims'[m].op = claims[m].op
        BY <2>1, <3>1, <3>2, SettledClaim
      <4>. QED  BY <4>1 DEF NoResurrection
    <3>. QED  BY <2>3, <2>4, <3>2
           DEF SettlementStep, Retry, Reject, Acknowledge, AcknowledgeAgain
  <2>5. ASSUME NEW b \in Bindings, NEW t \in Times, BindingStep(b, t)
        PROVE  \/ UNCHANGED claims
               \/ \E i \in Sources, lease \in Leases : ClaimOne(b, i, t, lease)
    <3>1. ASSUME NEW restored, Disconnect(b, restored, t) PROVE UNCHANGED claims
      BY <3>1 DEF Disconnect
    <3>2. ASSUME \/ CreateBinding(b, t) \/ Pause(b, t) \/ Resume(b, t) \/ Expire(b, t)
                 \/ ClaimNothing(b, t) \/ PruneTerminal(b, t) \/ Inspect(b, t)
          PROVE UNCHANGED claims
      BY <3>2 DEF CreateBinding, Pause, Resume, Expire, ClaimNothing, PruneTerminal, Inspect
    <3>. QED  BY <2>5, <3>1, <3>2, Zenon DEF BindingStep
  <2>6. ASSUME NEW i \in Sources, NEW t \in Times, SourceStep(i, t)
        PROVE  UNCHANGED claims
    BY <2>6 DEF SourceStep, Enqueue, Withdraw
  <2>7. ASSUME \/ \E t \in Times : MarkRestored(t)
               \/ \E b \in Bindings : PauseKeyless(b)
               \/ UNCHANGED vars
        PROVE  UNCHANGED claims
    BY <2>7 DEF MarkRestored, PauseKeyless, vars
  <2>. QED  BY <2>2, <2>3, <2>4, <2>5, <2>6, <2>7, Zenon DEF Next
<1>. QED  BY Invariant, <1>1, <1>2, PTL DEF Spec

-----------------------------------------------------------------------------
(* Refinement: the outbox implements SourceExport *)

\* What SourceExport lets a step do to one source.
Moved(p, q) == p = q \/ <<p, q>> \in Export!Moves

\* Every phase is one of SourceExport's.
LEMMA PhaseTypes ==
  ASSUME NEW s \in Sources
  PROVE  Phase(s) \in Export!Phases
BY DEF Phase, Export!Phases

\* A row that is only reshaped moves from Queued to Dropped or from Exposed to
\* Owed, if it moves at all.
LEMMA ReshapedMoves ==
  ASSUME NEW s \in Sources, TypeOK, RowInv, Reshaped(items[s], items'[s]),
         Exposed(s)' <=> Exposed(s)
  PROVE  /\ Moved(Phase(s), Phase(s)')
         /\ ~(Phase(s) = "Queued" /\ Phase(s)' = "Exposed")
<1>1. items[s] \in Item /\ RowOK(items[s]) /\ RowOK(items'[s])
  BY DEF TypeOK, RowInv, Reshaped
<1>2. CASE items[s].st = "NONE"
  <2>1. Phase(s)' = Phase(s) /\ Phase(s) # "Queued"
    BY <1>2 DEF Reshaped, Phase
  <2>. QED  BY <2>1 DEF Moved
<1>3. CASE items[s].st # "NONE"
  <2>1. items'[s].st # "NONE" /\ items'[s].attempts = items[s].attempts
        /\ items[s].attempts \in Nat
    BY <1>1, <1>3 DEF Reshaped, Item
  <2>. QED  BY <1>1, <1>3, <2>1 DEF Reshaped, RowOK, Phase, Moved, Export!Moves
<1>. QED  BY <1>2, <1>3

\* A claim exposes its own source, or continues a withdrawal that is owed.
LEMMA ClaimMoves ==
  ASSUME NEW s \in Sources, IInv, NEW t \in Times, NEW lease \in Leases,
         ClaimOne(BindingOf[s], s, t, lease)
  PROVE  Moved(Phase(s), Phase(s)')
<1>. DEFINE row == Swept(BindingOf[s], t)[s]
<1>1. /\ TypeOK /\ RowInv /\ BindingOf[s] \in Bindings
      /\ items[s] \in Item /\ RowOK(items[s])
  BY SourceAssumption DEF IInv, TypeOK, RowInv
<1>2. /\ items'[s].st = "LEASED" /\ items'[s].attempts > 0 /\ items'[s].op = row.op
      /\ row.st = "PENDING" /\ items[s].st # "NONE" /\ Reshaped(items[s], row)
  BY <1>1, ClaimedRow
<1>. HIDE DEF row
<1>3. Phase(s)' = IF row.op = "WITHDRAWAL" THEN "Owed" ELSE "Exposed"
  BY <1>2 DEF Phase
<1>4. items[s].attempts \in Nat
  BY <1>1 DEF Item
<1>. QED  BY <1>1, <1>2, <1>3, <1>4 DEF Reshaped, RowOK, Phase, Moved, Export!Moves

\* An acknowledgement settles what is exposed or retracts what is owed.
LEMMA AcknowledgeMoves ==
  ASSUME NEW s \in Sources, IInv, NEW n \in DOMAIN claims, NEW receipt \in Receipts,
         NEW t \in Times, Acknowledge(n, receipt, t), claims[n].source = s
  PROVE  /\ Moved(Phase(s), Phase(s)')
         /\ Phase(s) # "Queued"
<1>1. TypeOK /\ RowInv /\ items[s] \in Item /\ RowOK(items[s])
  BY DEF IInv, TypeOK, RowInv
<1>2. /\ items[s].st = "LEASED" /\ items'[s].op = items[s].op
      /\ items'[s].attempts = items[s].attempts
      /\ items[s].op = "OBSERVATION" => items'[s].st = "RECEIVED"
      /\ items[s].op = "WITHDRAWAL" => items'[s].st = "WITHDRAWN"
  BY <1>1, AcknowledgedRow
<1>3. items[s].op \in {"OBSERVATION", "WITHDRAWAL"} /\ items[s].attempts > 0
  BY <1>1, <1>2 DEF Item, Operations, RowOK
<1>4. Phase(s) = IF items[s].op = "WITHDRAWAL" THEN "Owed" ELSE "Exposed"
  BY <1>2, <1>3 DEF Phase
<1>5. Phase(s)' = IF items[s].op = "WITHDRAWAL" THEN "Retracted" ELSE "Exposed"
  BY <1>2, <1>3 DEF Phase
<1>. QED  BY <1>3, <1>4, <1>5 DEF Moved, Export!Moves

\* A new row is the row of a source that was never sent: one that was sent and
\* forgotten has outlived its deadline.
LEMMA AdmissionMoves ==
  ASSUME NEW s \in Sources, IInv, NEW t \in Times, Enqueue(s, t), items[s].st = "NONE",
         Exposed(s)' <=> Exposed(s)
  PROVE  /\ Moved(Phase(s), Phase(s)')
         /\ Phase(s)' # "Exposed"
<1>1. TypeOK /\ HistoryOK(s) /\ BindingOf[s] \in Bindings
  BY SourceAssumption DEF IInv, HistoryInv
<1>2. /\ items'[s].st = "PENDING" /\ items'[s].op = "OBSERVATION" /\ items'[s].attempts = 0
      /\ bindings[BindingOf[s]].clock <= t /\ t < Deadline[s]
  BY <1>1, AdmittedRow
<1>3. bindings[BindingOf[s]].clock \in Nat /\ t \in Nat /\ Deadline[s] \in Nat
  BY <1>1, SourceAssumption, TimeAssumption DEF TypeOK, Binding
<1>4. ~Exposed(s)
  BY <1>1, <1>2, <1>3 DEF HistoryOK
<1>5. Phase(s) = "Absent"
  BY <1>4 DEF Phase
<1>6. Phase(s)' = "Queued"
  BY <1>2 DEF Phase
<1>. QED  BY <1>5, <1>6 DEF Moved, Export!Moves

\* A pruned row was dropped before any attempt, or retracted.
LEMMA PruneMoves ==
  ASSUME NEW s \in Sources, IInv, NEW t \in Times, PruneTerminal(BindingOf[s], t),
         s \in Prunable(BindingOf[s], t), Exposed(s)' <=> Exposed(s)
  PROVE  /\ Moved(Phase(s), Phase(s)')
         /\ Phase(s)' # "Exposed"
<1>1. HistoryOK(s) /\ RowOK(items[s]) /\ items[s].attempts \in Nat
  BY DEF IInv, HistoryInv, RowInv, TypeOK, Item
<1>2. items'[s].st = "NONE"
  BY DEF PruneTerminal, NoItem
<1>3. Phase(s)' = IF Exposed(s) THEN "Forgotten" ELSE "Absent"
  BY <1>2 DEF Phase
<1>4. \/ items[s].st \in {"CANCELLED", "EXPIRED"} /\ items[s].attempts = 0
      \/ items[s].st = "WITHDRAWN"
  BY DEF Prunable
<1>5. CASE items[s].st \in {"CANCELLED", "EXPIRED"} /\ items[s].attempts = 0
  <2>1. ~Exposed(s)
    BY <1>1, <1>5 DEF HistoryOK
  <2>2. Phase(s) = "Dropped"
    BY <1>5 DEF Phase
  <2>. QED  BY <1>3, <2>1, <2>2 DEF Moved, Export!Moves
<1>6. CASE items[s].st = "WITHDRAWN"
  <2>1. Exposed(s)
    BY <1>1, <1>6 DEF HistoryOK, RowOK
  <2>2. Phase(s) = "Retracted"
    BY <1>6 DEF Phase
  <2>. QED  BY <1>3, <2>1, <2>2 DEF Moved, Export!Moves
<1>. QED  BY <1>4, <1>5, <1>6

\* A source moves as SourceExport says, and only its own claim exposes it.
LEMMA PhaseStep ==
  ASSUME NEW s \in Sources, IInv, [Next]_vars
  PROVE  /\ Moved(Phase(s), Phase(s)')
         /\ Phase(s) = "Queued" /\ Phase(s)' = "Exposed" =>
              \E t \in Times, lease \in Leases : ClaimOne(BindingOf[s], s, t, lease)
<1>1. TypeOK /\ RowInv /\ LeaseInv
  BY DEF IInv
<1>2. RowStep(s)
  BY <1>1, RowSteps
<1>3. CASE \E t \in Times, lease \in Leases : ClaimOne(BindingOf[s], s, t, lease)
  BY <1>3, ClaimMoves
<1>4. CASE SameHistory(s)
  <2>1. Exposed(s)' <=> Exposed(s)
    BY <1>4 DEF SameHistory
  <2>2. CASE Reshaped(items[s], items'[s])
    BY <1>1, <2>1, <2>2, ReshapedMoves
  <2>3. CASE \E t \in Times : Enqueue(s, t) /\ items[s].st = "NONE"
    BY <2>1, <2>3, AdmissionMoves
  <2>4. CASE \E n \in DOMAIN claims, receipt \in Receipts, t \in Times :
               Acknowledge(n, receipt, t) /\ claims[n].source = s
    BY <2>4, AcknowledgeMoves
  <2>5. CASE \E t \in Times : PruneTerminal(BindingOf[s], t) /\ s \in Prunable(BindingOf[s], t)
    BY <2>1, <2>5, PruneMoves
  <2>. QED  BY <1>2, <1>3, <2>2, <2>3, <2>4, <2>5, Zenon DEF RowStep, KeptStep
<1>. QED  BY <1>1, <1>3, <1>4, HistorySteps

\* One step issues one claim.
LEMMA OneClaim ==
  ASSUME TypeOK, NEW s, NEW o, NEW b, NEW c, NEW t, NEW u, NEW lease, NEW length,
         ClaimOne(b, s, t, lease), ClaimOne(c, o, u, length)
  PROVE  s = o
<1>1. claims \in Seq(Claim) /\ Len(claims) \in Nat
  BY DEF TypeOK
<1>2. claims'[Len(claims) + 1].source = s
  BY <1>1 DEF ClaimOne
<1>3. claims'[Len(claims) + 1].source = o
  BY <1>1 DEF ClaimOne
<1>. QED  BY <1>2, <1>3

\* The outbox keeps the promise of SourceExport for every set of bindings,
\* sources, limits and clock readings: a source that may have been sent leaves
\* only through an acknowledged withdrawal, nothing withdrawn is sent again, and
\* no step exposes two sources.
THEOREM Refinement == Spec => KeepsPromise
<1>1. Init => Export!Init
  <2>. SUFFICES ASSUME Init PROVE Export!Init
    OBVIOUS
  <2>1. \A s \in Sources : items[s].st = "NONE"
    BY DEF Init, NoItem
  <2>2. DOMAIN claims = {}
    BY DEF Init
  <2>3. \A s \in Sources : Phase(s) = "Absent"
    BY <2>1, <2>2 DEF Phase, Exposed
  <2>. QED  BY <2>3 DEF Export!Init
<1>2. IInv /\ [Next]_vars => Export!Next
  <2>. SUFFICES ASSUME IInv, [Next]_vars PROVE Export!Next
    OBVIOUS
  <2>1. \A s \in Sources : Phase(s)' \in Export!Phases
    BY DEF Phase, Export!Phases
  <2>2. \A s \in Sources : Moved(Phase(s), Phase(s)')
    BY PhaseStep
  <2>3. ASSUME NEW s \in Sources, NEW o \in Sources,
               Phase(s) = "Queued", Phase(s)' = "Exposed",
               Phase(o) = "Queued", Phase(o)' = "Exposed"
        PROVE  s = o
    <3>1. TypeOK
      BY DEF IInv
    <3>2. \E t \in Times, lease \in Leases : ClaimOne(BindingOf[s], s, t, lease)
      BY <2>3, PhaseStep
    <3>3. \E t \in Times, lease \in Leases : ClaimOne(BindingOf[o], o, t, lease)
      BY <2>3, PhaseStep
    <3>. QED  BY <3>1, <3>2, <3>3, OneClaim
  <2>. QED  BY <2>1, <2>2, <2>3, Zenon DEF Export!Next, Moved
<1>. QED  BY Invariant, <1>1, <1>2, PTL DEF Spec, KeepsPromise, Export!Spec

\* An acknowledged withdrawal is final under every operation, restores included.
THEOREM AcknowledgedIsFinal == Spec => AcknowledgedWithdrawalFinal
<1>. DEFINE Final(s) == items[s].st = "WITHDRAWN" =>
       \/ items'[s] = NoItem
       \/ /\ items'[s].st = "WITHDRAWN" /\ items'[s].op = "WITHDRAWAL"
          /\ items'[s].receipt = items[s].receipt
          /\ items'[s].obsReceipt = items[s].obsReceipt
          /\ items'[s].terminal = items[s].terminal
<1>1. IInv /\ [Next]_vars => \A s \in Sources : Final(s)
  <2>. SUFFICES ASSUME IInv, [Next]_vars, NEW s \in Sources PROVE Final(s)
    OBVIOUS
  <2>1. TypeOK /\ RowInv /\ RowOK(items[s]) /\ RowStep(s) /\ BindingOf[s] \in Bindings
    BY RowSteps, SourceAssumption DEF IInv, RowInv
  <2>2. CASE Reshaped(items[s], items'[s])
    BY <2>1, <2>2 DEF Reshaped, RowOK
  <2>3. CASE items[s].st = "NONE"
    BY <2>3
  <2>4. ASSUME NEW t \in Times, NEW lease \in Leases, ClaimOne(BindingOf[s], s, t, lease)
        PROVE  items[s].st # "WITHDRAWN"
    BY <2>1, <2>4, ClaimedRow DEF Reshaped
  <2>5. ASSUME NEW n \in DOMAIN claims, NEW receipt \in Receipts, NEW t \in Times,
               Acknowledge(n, receipt, t), claims[n].source = s
        PROVE  items[s].st # "WITHDRAWN"
    BY <2>1, <2>5, AcknowledgedRow
  <2>6. ASSUME NEW t \in Times, PruneTerminal(BindingOf[s], t), s \in Prunable(BindingOf[s], t)
        PROVE  items'[s] = NoItem
    BY <2>6 DEF PruneTerminal
  <2>. QED  BY <2>1, <2>2, <2>3, <2>4, <2>5, <2>6, Zenon DEF RowStep, KeptStep
<1>2. (\A s \in Sources : Final(s)) => [\A s \in Sources : Final(s)]_vars
  OBVIOUS
<1>. QED  BY Invariant, <1>1, <1>2, PTL DEF Spec, AcknowledgedWithdrawalFinal
=============================================================================
