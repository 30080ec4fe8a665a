--------------------------- MODULE SendingProofs ---------------------------
(***************************************************************************)
(* What the delivery worker and the media queue promise, for every value   *)
(* of the constants.  Both run on the outbox, whose inductive invariant    *)
(* holds of them too.                                                      *)
(*                                                                         *)
(* Each step of Delivery is an operation of the outbox or leaves it alone  *)
(* (QueueStep).  What the cloud shows of a source is tied to the history   *)
(* of its claims: only what was claimed arrives, and an acknowledged       *)
(* withdrawal has arrived.                                                 *)
(*                                                                         *)
(* Of a picture, what was sent stays covered by its observation's row, and *)
(* no request of either queue overlaps the next.  The reservation is       *)
(* followed from the last request on: while that one is open and its lease *)
(* runs, the reservation says so, whatever became of the row it was taken  *)
(* for.                                                                    *)
(***************************************************************************)
EXTENDS Delivery, MediaOutbox, OutboxProofs

-----------------------------------------------------------------------------
(***************************** The delivery worker *************************)

-----------------------------------------------------------------------------
(* The invariant *)

\* What a pass knows at each of its places.
WorkerFits ==
  /\ worker.pc # "IDLE" => worker.binding \in Bindings
  /\ worker.pc \in Requesting \cup {"SETTLING"} => worker.claim \in DOMAIN claims

\* The cloud acted on claim n.
Landed(n) ==
  /\ cloud[claims[n].source] # "UNKNOWN"
  /\ claims[n].op = "WITHDRAWAL" => cloud[claims[n].source] = "WITHDRAWN"

\* Whoever says that a request was answered may say so because it arrived.
AnswersAreTrue ==
  /\ \A n \in answered : Landed(n)
  /\ worker.pc = "SETTLING" /\ worker.response = "OK" => Landed(worker.claim)

\* The cloud holds what was claimed, and not what was withdrawn for certain.
CloudIsClaimed ==
  \A s \in Sources :
    /\ cloud[s] # "UNKNOWN" => Exposed(s)
    /\ Retracted(s) => cloud[s] = "WITHDRAWN"
    /\ items[s].st = "RECEIVED" => cloud[s] # "UNKNOWN"

\* An authorization is about a record that was there, unless it went since.
AuthorizedIsThere ==
  worker.pc = "AUTHORIZED" /\ Claim1.op = "OBSERVATION" =>
    source[Served] = "AVAILABLE" \/ raced

DeliveryIInv ==
  /\ IInv /\ DeliveryTypeOK /\ WorkerFits
  /\ AnswersAreTrue /\ CloudIsClaimed /\ AuthorizedIsThere

-----------------------------------------------------------------------------
(* The queue *)

\* Every step is an operation of the outbox, at the laptop's clock, or leaves
\* the outbox alone.
LEMMA QueueStep ==
  ASSUME TypeOK, DeliveryTypeOK, WorkerFits, [DeliveryNext]_everything
  PROVE  [Next]_vars
<1>1. now \in Times
  BY DEF DeliveryTypeOK
<1>2. worker.pc # "IDLE" => Binding1 \in Bindings
  BY DEF WorkerFits, Binding1
<1>3. worker.pc \in Requesting \cup {"SETTLING"} => worker.claim \in DOMAIN claims
  BY DEF WorkerFits
<1>4. ASSUME NEW b \in Bindings, BindingStep(b, now) PROVE [Next]_vars
  BY <1>1, <1>4, Zenon DEF Next
<1>5. ASSUME NEW s \in Sources, SourceStep(s, now) PROVE [Next]_vars
  BY <1>1, <1>5, Zenon DEF Next
<1>6. ASSUME NEW n \in DOMAIN claims, SettlementStep(n, now) PROVE [Next]_vars
  BY <1>1, <1>6, Zenon DEF Next
<1>7. ASSUME NEW b \in Bindings, PauseKeyless(b) PROVE [Next]_vars
  BY <1>7, Zenon DEF Next
<1>8. \A s : Reason(s) \in Reasons
  BY DEF Reason, Reasons
<1>9. ASSUME NEW s \in Sources, Withdraw(s, Reason(s), now) PROVE [Next]_vars
  BY <1>5, <1>8, <1>9, Zenon DEF SourceStep
<1>10. worker.pc \in Requesting \cup {"SETTLING"} => Served \in Sources
  BY <1>3, ClaimTypes DEF IInv, Served, Claim1
<1>11. ASSUME NEW s \in Sources, Publish(s) \/ Delete(s) \/ Change(s)
       PROVE  [Next]_vars
  <2>1. "LOCAL_DELETED" \in Reasons
    BY DEF Reasons
  <2>. QED BY <1>5, <1>11, <2>1, Zenon DEF Publish, Delete, Change, SourceStep
<1>12. CASE Manage
  BY <1>4, <1>7, <1>12, Zenon DEF Manage, BindingStep
<1>13. ASSUME NEW s \in Sources, ReconcileRow(s) PROVE [Next]_vars
  BY <1>9, <1>13, Zenon DEF ReconcileRow
<1>14. CASE EndReconcile \/ NothingToClaim
  <2>1. worker.pc # "IDLE"
    BY <1>14 DEF EndReconcile, NothingToClaim
  <2>. QED BY <1>2, <1>4, <1>14, <2>1, Zenon DEF EndReconcile, NothingToClaim, BindingStep
<1>15. CASE TakeClaim
  <2>1. Lease \in Leases
    BY DeliveryAssumption
  <2>2. worker.pc # "IDLE"
    BY <1>15 DEF TakeClaim
  <2>. QED BY <1>2, <1>4, <1>15, <2>1, <2>2, Zenon DEF TakeClaim, BindingStep
<1>16. CASE \/ \E b \in Bindings : BeginPass(b)
            \/ TooLate \/ Authorize \/ RefuseAndHalt \/ Cancel \/ Send \/ Receive
            \/ SettleFenced \/ TimeOut \/ BeRefused \/ Hang \/ Crash \/ Stop
            \/ Start \/ Tick \/ SetBack \/ \E n \in wire : Lose(n) \/ Arrive(n)
  BY <1>16 DEF BeginPass, TooLate, Authorize, RefuseAndHalt, Cancel, Send, Receive,
               SettleFenced, TimeOut, BeRefused, Hang, Crash, Stop, Lose, Start, Tick,
               SetBack, Arrive
<1>17. CASE Refuse
  <2>1. worker.pc \in Requesting \cup {"SETTLING"}
    BY <1>17 DEF Refuse, Requesting
  <2>. QED BY <1>9, <1>10, <1>17, <2>1 DEF Refuse
<1>18. CASE SettleRevoked \/ SettleHalted
  <2>1. worker.pc # "IDLE"
    BY <1>18 DEF SettleRevoked, SettleHalted
  <2>. QED BY <1>2, <1>7, <1>18, <2>1, Zenon DEF SettleRevoked, SettleHalted
<1>19. CASE SettleGone
  <2>1. worker.pc \in Requesting \cup {"SETTLING"}
    BY <1>19 DEF SettleGone, Settling
  <2>. QED BY <1>9, <1>10, <1>19, <2>1, Zenon DEF SettleGone
<1>20. CASE SettleReceipt \/ SettleFailure
  <2>1. worker.pc \in Requesting \cup {"SETTLING"} /\ Backoff \in Delays
    BY <1>20, DeliveryAssumption DEF SettleReceipt, SettleFailure, Settling
  <2>2. \/ \E receipt \in Receipts : Acknowledge(worker.claim, receipt, now)
        \/ Reject(worker.claim, now) \/ Retry(worker.claim, now, Backoff)
    BY <1>20 DEF SettleReceipt, SettleFailure
  <2>. QED BY <1>3, <1>6, <2>1, <2>2, Zenon DEF SettlementStep
<1>21. CASE UNCHANGED everything
  BY <1>21 DEF everything
<1>22. ASSUME NEW b \in Bindings, BreakPass(b) PROVE [Next]_vars
  BY <1>7, <1>22, Zenon DEF BreakPass
<1>. QED
  BY <1>11, <1>12, <1>13, <1>14, <1>15, <1>16, <1>17, <1>18, <1>19, <1>20, <1>21, <1>22,
     Zenon DEF DeliveryNext, Pass, Adversity

\* The steps that write the claims: one is issued, a receipt is acknowledged, a
\* failure is settled.
LEMMA ClaimWriters ==
  ASSUME [DeliveryNext]_everything
  PROVE  UNCHANGED claims \/ TakeClaim \/ SettleReceipt \/ SettleFailure
<1>1. ASSUME NEW s, Publish(s) \/ Delete(s) \/ Change(s) \/ ReconcileRow(s)
      PROVE  UNCHANGED claims
  BY <1>1 DEF Publish, Delete, Change, ReconcileRow, Enqueue, Withdraw, vars
<1>2. CASE Manage
  BY <1>2 DEF Manage, CreateBinding, PauseKeyless, Resume, Disconnect
<1>3. CASE \/ EndReconcile \/ NothingToClaim \/ Refuse \/ SettleRevoked \/ SettleHalted
           \/ SettleGone \/ \E b \in Bindings : BreakPass(b)
  BY <1>3 DEF EndReconcile, NothingToClaim, Refuse, SettleRevoked, SettleHalted, SettleGone,
              BreakPass, PruneTerminal, ClaimNothing, Withdraw, PauseKeyless, vars
<1>4. CASE \/ \E b \in Bindings : BeginPass(b)
           \/ TooLate \/ Authorize \/ RefuseAndHalt \/ Cancel \/ Send \/ Receive
           \/ SettleFenced \/ TimeOut \/ BeRefused \/ Hang \/ Crash \/ Stop
           \/ Start \/ Tick \/ SetBack \/ \E n \in wire : Lose(n) \/ Arrive(n)
  BY <1>4 DEF BeginPass, TooLate, Authorize, RefuseAndHalt, Cancel, Send, Receive,
              SettleFenced, TimeOut, BeRefused, Hang, Crash, Stop, Lose, Start, Tick,
              SetBack, Arrive, vars
<1>5. CASE UNCHANGED everything
  BY <1>5 DEF everything, vars
<1>. QED  BY <1>1, <1>2, <1>3, <1>4, <1>5, Zenon DEF DeliveryNext, Pass, Adversity

\* The claims only grow, keep their source and operation, and none is
\* acknowledged but the worker's, by the receipt it has in hand.
LEMMA ClaimsKept ==
  ASSUME IInv, DeliveryTypeOK, WorkerFits, AnswersAreTrue, [DeliveryNext]_everything
  PROVE  /\ Len(claims) \in Nat /\ Len(claims') \in Nat /\ Len(claims') >= Len(claims)
         /\ DOMAIN claims = 1..Len(claims) /\ DOMAIN claims' = 1..Len(claims')
         /\ \A n \in DOMAIN claims : /\ n \in DOMAIN claims'
                                     /\ claims'[n].source = claims[n].source
                                     /\ claims'[n].op = claims[n].op
         /\ \A n \in DOMAIN claims' : claims'[n].fate = "ACKNOWLEDGED" =>
              \/ n \in DOMAIN claims /\ claims[n].fate = "ACKNOWLEDGED"
              \/ n \in DOMAIN claims /\ Landed(n) /\ UNCHANGED cloud
         /\ TakeClaim => Len(claims') = Len(claims) + 1
<1>. USE TimeAssumption, SourceAssumption, DeliveryAssumption
<1>1. TypeOK /\ RowInv /\ LeaseInv /\ TypeOK'
  BY QueueStep, TypeStep DEF IInv
<1>2. /\ claims \in Seq(Claim) /\ claims' \in Seq(Claim)
      /\ Len(claims) \in Nat /\ Len(claims') \in Nat
      /\ DOMAIN claims = 1..Len(claims) /\ DOMAIN claims' = 1..Len(claims')
  BY <1>1 DEF TypeOK
<1>3. now \in Times
  BY DEF DeliveryTypeOK
<1>4. CASE TakeClaim
  <2>1. Binding1 \in Bindings
    BY <1>4 DEF TakeClaim, WorkerFits, Binding1
  <2>2. PICK s \in Sources : ClaimOne(Binding1, s, now, Lease)
    BY <1>4 DEF TakeClaim
  <2>. DEFINE new == Len(claims) + 1
  <2>3. /\ Len(claims') = new /\ DOMAIN claims' = DOMAIN claims \cup {new}
        /\ \A n \in DOMAIN claims : n # new /\ claims'[n] = claims[n]
        /\ claims'[new].fate = "OPEN"
    BY <1>1, <1>3, <2>1, <2>2, ClaimIssued
  <2>. QED BY <1>2, <2>3
<1>5. CASE SettleReceipt \/ SettleFailure
  <2>. DEFINE m == worker.claim
  <2>1. m \in DOMAIN claims /\ worker.pc = "SETTLING" /\ UNCHANGED cloud /\ ~TakeClaim
    BY <1>5 DEF SettleReceipt, SettleFailure, Settling, WorkerFits, network, TakeClaim
  <2>2. PICK fate \in {"RETRIED", "ACKNOWLEDGED", "REJECTED"} :
          /\ HoldsLease(m, now) /\ FreeCapacity(m) /\ Settle(m, fate)
          /\ fate = "ACKNOWLEDGED" => worker.response = "OK"
    BY <1>5 DEF SettleReceipt, SettleFailure, Acknowledge, Reject, Retry
  <2>3. /\ DOMAIN claims' = DOMAIN claims /\ Len(claims') = Len(claims)
        /\ \A n \in DOMAIN claims :
             /\ claims'[n].source = claims[n].source /\ claims'[n].op = claims[n].op
             /\ claims'[n].fate = IF n = m THEN fate ELSE claims[n].fate
    BY <1>1, <1>3, <2>1, <2>2, SettledClaim
  <2>4. fate = "ACKNOWLEDGED" => Landed(m)
    BY <2>1, <2>2 DEF AnswersAreTrue
  <2>. HIDE DEF m
  <2>5. \A n \in DOMAIN claims' : claims'[n].fate = "ACKNOWLEDGED" =>
          \/ n \in DOMAIN claims /\ claims[n].fate = "ACKNOWLEDGED"
          \/ n \in DOMAIN claims /\ Landed(n) /\ UNCHANGED cloud
    BY <2>1, <2>3, <2>4, Zenon
  <2>6. Len(claims') >= Len(claims)
    BY <1>2, <2>3
  <2>. QED BY <1>2, <2>1, <2>3, <2>5, <2>6, Zenon
<1>6. CASE UNCHANGED claims /\ ~TakeClaim
  <2>1. Len(claims') >= Len(claims)
    BY <1>2, <1>6
  <2>. QED BY <1>2, <1>6, <2>1, Zenon
<1>. QED  BY <1>4, <1>5, <1>6, ClaimWriters

-----------------------------------------------------------------------------
(* The worker *)

\* What a step does to the worker: nothing, the end of the pass, or one move.
LEMMA WorkerSteps ==
  ASSUME [DeliveryNext]_everything
  PROVE  \/ UNCHANGED worker
         \/ Ends
         \/ \E b \in Bindings : BeginPass(b)
         \/ \E s \in Sources : ReconcileRow(s)
         \/ EndReconcile \/ TakeClaim \/ Authorize \/ Send
         \/ \E r \in Responses : /\ worker.pc \in Requesting /\ Responds(r)
                                 /\ r = "OK" => Receive
<1>1. ASSUME NEW s, Publish(s) \/ Delete(s) \/ Change(s)
      PROVE  UNCHANGED worker
  BY <1>1 DEF Publish, Delete, Change
<1>2. CASE \/ Manage \/ Stop \/ Start \/ Tick \/ SetBack \/ UNCHANGED everything
           \/ \E n \in wire : Lose(n) \/ Arrive(n)
           \/ \E b \in Bindings : BreakPass(b)
  BY <1>2 DEF Manage, Stop, Start, Tick, SetBack, everything, Lose, Arrive, BreakPass
<1>3. CASE \/ NothingToClaim \/ TooLate \/ SettleFenced \/ SettleRevoked \/ SettleHalted
           \/ SettleGone \/ SettleReceipt \/ SettleFailure \/ Hang \/ Crash
  BY <1>3 DEF NothingToClaim, TooLate, SettleFenced, SettleRevoked, SettleHalted,
              SettleGone, SettleReceipt, SettleFailure, Hang, Crash
<1>4. CASE Refuse \/ RefuseAndHalt \/ Cancel \/ Receive \/ TimeOut \/ BeRefused
  BY <1>4 DEF Refuse, RefuseAndHalt, Cancel, Receive, TimeOut, BeRefused, Responses,
              Requesting
<1>. QED  BY <1>1, <1>2, <1>3, <1>4, Zenon DEF DeliveryNext, Pass, Adversity

\* A step keeps the worker in shape.
LEMMA WorkerTypes ==
  ASSUME IInv, DeliveryTypeOK, WorkerFits, AnswersAreTrue, [DeliveryNext]_everything
  PROVE  /\ worker' \in [pc : WorkerStates, binding : Bindings \cup {None},
                         page : SUBSET Sources, claim : 0..Len(claims'), response : Responses]
         /\ worker'.pc = "IDLE" => worker' = Idle
         /\ WorkerFits'
<1>. DEFINE l == Len(claims)
            m == Len(claims')
            Workers == [pc : WorkerStates, binding : Bindings \cup {None},
                        page : SUBSET Sources, claim : Nat, response : Responses]
            Fits == /\ worker' \in Workers /\ worker'.claim <= m
                    /\ worker'.pc = "IDLE" => worker' = Idle
                    /\ worker'.pc # "IDLE" => worker'.binding \in Bindings
                    /\ worker'.pc \in Requesting \cup {"SETTLING"} => worker'.claim > 0
<1>1. l \in Nat /\ m \in Nat /\ m >= l /\ (TakeClaim => m = l + 1)
  BY ClaimsKept
<1>2. DOMAIN claims = 1..l /\ DOMAIN claims' = 1..m
  BY ClaimsKept
<1>3. /\ worker \in Workers /\ worker.claim <= l
      /\ worker.pc = "IDLE" => worker = Idle
      /\ worker.pc # "IDLE" => worker.binding \in Bindings
      /\ worker.pc \in Requesting \cup {"SETTLING"} => worker.claim > 0
  <2>1. worker \in [pc : WorkerStates, binding : Bindings \cup {None},
                    page : SUBSET Sources, claim : 0..Len(claims), response : Responses]
    BY DEF DeliveryTypeOK
  <2>2. worker.claim \in 0..l
    BY <2>1
  <2>. HIDE DEF l
  <2>3. worker \in Workers /\ worker.claim <= l
    BY <1>1, <2>1, <2>2
  <2>4. worker.pc \in Requesting \cup {"SETTLING"} => worker.claim > 0
    BY <1>2, <2>2 DEF WorkerFits
  <2>. QED BY <2>3, <2>4 DEF DeliveryTypeOK, WorkerFits
<1>4. ASSUME TakeClaim
      PROVE  Fits
  <2>1. worker' = [worker EXCEPT !.pc = "CLAIMED", !.claim = m]
        /\ worker.pc = "CLAIMING"
    BY <1>1, <1>4 DEF TakeClaim, FreshToken
  <2>. HIDE DEF l, m
  <2>2. "CLAIMED" \in WorkerStates /\ worker.pc # "IDLE" /\ m > 0
    BY <1>1, <1>4, <2>1 DEF WorkerStates, Requesting, Locked
  <2>3. worker' \in Workers
    BY <1>1, <1>3, <2>1, <2>2
  <2>4. worker'.pc = "CLAIMED" /\ worker'.claim = m /\ worker'.binding = worker.binding
    BY <1>3, <2>1
  <2>. QED  BY <1>1, <1>3, <2>2, <2>3, <2>4
<1>. HIDE DEF l, m
<1>5. ASSUME UNCHANGED worker
      PROVE  Fits
  BY <1>1, <1>3, <1>5
<1>6. ASSUME Ends
      PROVE  Fits
  BY <1>1, <1>6 DEF Ends, Idle, WorkerStates, Requesting, Responses, Locked
<1>7. ASSUME NEW b \in Bindings, BeginPass(b) PROVE Fits
  <2>1. worker' = [pc |-> "RECONCILING", binding |-> b, page |-> Page(b), claim |-> 0,
                    response |-> "NONE"]
    BY <1>7 DEF BeginPass, Idle
  <2>2. Page(b) \subseteq Sources
    BY DEF Page, Rows
  <2>. HIDE DEF Page
  <2>. QED  BY <1>1, <2>1, <2>2 DEF WorkerStates, Requesting, Responses, Locked
<1>8. ASSUME EndReconcile \/ Authorize \/ Send \/ \E s \in Sources : ReconcileRow(s)
      PROVE  Fits
  <2>1. ASSUME NEW s \in Sources, ReconcileRow(s) PROVE Fits
    BY <1>1, <1>3, <2>1 DEF ReconcileRow, Requesting
  <2>2. ASSUME Authorize \/ Send PROVE Fits
    BY <1>1, <1>3, <2>2 DEF Authorize, Send, Goes, WorkerStates, Requesting, Locked
  <2>3. ASSUME EndReconcile PROVE Fits
    <3>1. worker' = [worker EXCEPT !.pc = "CLAIMING", !.page = {}]
          /\ worker.pc = "RECONCILING"
      BY <2>3 DEF EndReconcile
    <3>2. "CLAIMING" \in WorkerStates \ (Requesting \cup {"SETTLING", "IDLE"})
      BY DEF WorkerStates, Requesting, Locked
    <3>3. {} \in SUBSET Sources /\ worker.pc # "IDLE"
      BY <3>1
    <3>4. worker' \in Workers /\ worker'.pc = "CLAIMING"
          /\ worker'.claim = worker.claim /\ worker'.binding = worker.binding
      BY <1>3, <3>1, <3>2, <3>3
    <3>. QED BY <1>1, <1>3, <3>2, <3>3, <3>4
  <2>. QED BY <1>8, <2>1, <2>2, <2>3
<1>9. ASSUME NEW r \in Responses, worker.pc \in Requesting, Responds(r) PROVE Fits
  <2>1. "SETTLING" \in WorkerStates /\ worker.pc # "IDLE"
    BY <1>9 DEF WorkerStates, Requesting
  <2>2. worker' = [worker EXCEPT !.pc = "SETTLING", !.response = r]
    BY <1>9 DEF Responds
  <2>3. worker' \in Workers /\ worker'.pc = "SETTLING"
        /\ worker'.claim = worker.claim /\ worker'.binding = worker.binding
    BY <1>3, <1>9, <2>1, <2>2
  <2>. QED  BY <1>1, <1>3, <1>9, <2>1, <2>3
<1>10. Fits
  BY <1>5, <1>6, <1>7, <1>8, <1>4, <1>9, WorkerSteps, Zenon
<1>11. worker'.claim \in 0..m
  BY <1>1, <1>10
<1>12. worker' \in [pc : WorkerStates, binding : Bindings \cup {None},
                    page : SUBSET Sources, claim : 0..Len(claims'), response : Responses]
  BY <1>10, <1>11 DEF m
<1>13. worker'.pc \in Requesting \cup {"SETTLING"} => worker'.claim \in DOMAIN claims'
  BY <1>2, <1>1, <1>10, <1>11
<1>. QED  BY <1>10, <1>12, <1>13 DEF WorkerFits

\* A step keeps the clock, the records, the network and the cloud in shape.
LEMMA NetworkTypes ==
  ASSUME IInv, DeliveryTypeOK, WorkerFits, AnswersAreTrue, [DeliveryNext]_everything
  PROVE  DeliveryTypeOK'
<1>. DEFINE Rest == /\ now' \in Times
                    /\ source' \in [Sources -> {"ABSENT", "AVAILABLE", "INELIGIBLE", "DELETED"}]
                    /\ stopping' \in BOOLEAN /\ raced' \in BOOLEAN
                    /\ adjusted' \in BOOLEAN /\ halted' \in BOOLEAN
                    /\ cursor' \in Sources \cup {None} /\ refused' \subseteq Sources
                    /\ wire' \subseteq DOMAIN claims /\ answered' \subseteq DOMAIN claims
                    /\ cloud' \in [Sources -> {"UNKNOWN", "AVAILABLE", "WITHDRAWN"}]
<1>1. \A n \in DOMAIN claims : n \in DOMAIN claims'
  BY ClaimsKept
<1>2. /\ now \in Times
      /\ source \in [Sources -> {"ABSENT", "AVAILABLE", "INELIGIBLE", "DELETED"}]
      /\ stopping \in BOOLEAN /\ raced \in BOOLEAN
      /\ adjusted \in BOOLEAN /\ halted \in BOOLEAN
      /\ cursor \in Sources \cup {None} /\ refused \subseteq Sources
      /\ wire \subseteq DOMAIN claims /\ answered \subseteq DOMAIN claims
      /\ cloud \in [Sources -> {"UNKNOWN", "AVAILABLE", "WITHDRAWN"}]
  BY DEF DeliveryTypeOK
<1>3. ASSUME NEW s, Publish(s) \/ Delete(s) \/ Change(s)
      PROVE  Rest
  BY <1>2, <1>3 DEF Publish, Delete, Change, clock, uploader, network, history
<1>4. ASSUME UNCHANGED <<clock, source, uploader, wire, cloud, history>>,
             answered' \in {answered, {}}
      PROVE  Rest
  BY <1>2, <1>4 DEF clock, uploader, history
<1>5. ASSUME NEW s, ReconcileRow(s) PROVE Rest
  BY <1>4, <1>5 DEF ReconcileRow, network
<1>6. ASSUME \/ Manage \/ EndReconcile \/ TakeClaim \/ NothingToClaim \/ TooLate \/ Refuse
             \/ RefuseAndHalt \/ Receive \/ SettleFenced \/ SettleRevoked \/ SettleGone
             \/ SettleReceipt \/ UNCHANGED everything
      PROVE  Rest
  BY <1>4, <1>6
     DEF Manage, EndReconcile, TakeClaim, NothingToClaim, TooLate, Refuse, RefuseAndHalt,
         Receive, SettleFenced, SettleRevoked, SettleGone, SettleReceipt, Responds,
         everything, network
<1>7. ASSUME \/ Authorize \/ Cancel \/ TimeOut \/ Stop \/ Start \/ Hang \/ Crash
             \/ BeRefused \/ SettleHalted
      PROVE  Rest
  BY <1>2, <1>7
     DEF Authorize, Cancel, TimeOut, Stop, Start, Hang, Crash, BeRefused, SettleHalted,
         Responds, Fresh, clock, uploader, network, history
<1>8. ASSUME Send PROVE Rest
  <2>1. worker.claim \in DOMAIN claims
    BY <1>8 DEF Send, WorkerFits, Requesting
  <2>. QED BY <1>2, <1>8, <2>1 DEF Send, clock, uploader
<1>9. ASSUME Tick \/ SetBack PROVE Rest
  <2>1. /\ now \in 0..MaxTime /\ MaxTime \in Nat
        /\ (now' = now + 1 /\ now < MaxTime) \/ (now' = now - 1 /\ now > 0)
    BY <1>2, <1>9, DeliveryAssumption DEF Tick, SetBack
  <2>2. now' \in Times
    BY <2>1, DeliveryAssumption
  <2>. QED BY <1>2, <1>9, <2>2 DEF Tick, SetBack, uploader, network, history
<1>10. ASSUME NEW n \in wire, Lose(n) \/ Arrive(n) PROVE Rest
  <2>1. CASE Lose(n)
    BY <1>2, <2>1 DEF Lose, clock, uploader, history
  <2>2. CASE Arrive(n)
    BY <1>2, <2>2 DEF Arrive, Arriving, clock, uploader, history
  <2>. QED BY <1>10, <2>1, <2>2
<1>11. ASSUME SettleFailure PROVE Rest
  <2>1. Served \in Sources
    <3>1. worker.claim \in DOMAIN claims
      BY <1>11 DEF SettleFailure, Settling, WorkerFits
    <3>. QED BY <3>1, ClaimTypes DEF IInv, Served, Claim1
  <2>. QED BY <1>2, <1>11, <2>1 DEF SettleFailure, clock, uploader, network
<1>12. ASSUME NEW b \in Bindings, BeginPass(b) \/ BreakPass(b) PROVE Rest
  <2>1. Page(b) \subseteq Sources
    BY DEF Page, Rows
  <2>2. UNCHANGED <<clock, source, stopping, network, history>>
    BY <1>12 DEF BeginPass, BreakPass
  <2>3. halted' \in BOOLEAN
    BY <1>2, <1>12 DEF BeginPass, BreakPass
  <2>. HIDE DEF Page
  <2>4. cursor' \in Sources \cup {None}
    BY <1>2, <1>12, <2>1 DEF BeginPass, BreakPass, MovesPast
  <2>. QED BY <1>2, <2>2, <2>3, <2>4 DEF clock, network, history
<1>13. Rest
  BY <1>3, <1>5, <1>6, <1>7, <1>8, <1>9, <1>10, <1>11, <1>12, Zenon
     DEF DeliveryNext, Pass, Adversity
<1>14. /\ worker' \in [pc : WorkerStates, binding : Bindings \cup {None},
                       page : SUBSET Sources, claim : 0..Len(claims'), response : Responses]
       /\ worker'.pc = "IDLE" => worker' = Idle
  BY WorkerTypes
<1>15. wire' \subseteq DOMAIN claims' /\ answered' \subseteq DOMAIN claims'
  BY <1>1, <1>13
<1>. HIDE DEF Rest
<1>16. now' \in Times /\ stopping' \in BOOLEAN /\ raced' \in BOOLEAN
       /\ adjusted' \in BOOLEAN /\ halted' \in BOOLEAN
       /\ cursor' \in Sources \cup {None} /\ refused' \subseteq Sources
       /\ source' \in [Sources -> {"ABSENT", "AVAILABLE", "INELIGIBLE", "DELETED"}]
       /\ cloud' \in [Sources -> {"UNKNOWN", "AVAILABLE", "WITHDRAWN"}]
  BY <1>13 DEF Rest
<1>. QED  BY <1>14, <1>15, <1>16 DEF DeliveryTypeOK

-----------------------------------------------------------------------------
(* The cloud *)

\* What has arrived stays, and a request that arrives has landed; requests are
\* answered only when they have.
LEMMA CloudSteps ==
  ASSUME IInv, DeliveryTypeOK, WorkerFits, AnswersAreTrue, [DeliveryNext]_everything
  PROVE  /\ \A s \in Sources : /\ cloud[s] # "UNKNOWN" => cloud'[s] # "UNKNOWN"
                               /\ cloud[s] = "WITHDRAWN" => cloud'[s] = "WITHDRAWN"
                               /\ cloud[s] = "UNKNOWN" /\ cloud'[s] # "UNKNOWN" =>
                                    \E n \in DOMAIN claims : claims[n].source = s
         /\ \A n \in answered' : n \in DOMAIN claims /\ Landed(n)'
<1>. DEFINE Kept == /\ UNCHANGED cloud
                    /\ answered' \subseteq answered
            Grown == \A s \in Sources :
                       /\ cloud[s] # "UNKNOWN" => cloud'[s] # "UNKNOWN"
                       /\ cloud[s] = "WITHDRAWN" => cloud'[s] = "WITHDRAWN"
                       /\ cloud[s] = "UNKNOWN" /\ cloud'[s] # "UNKNOWN" =>
                            \E n \in DOMAIN claims : claims[n].source = s
<1>1. \A n \in DOMAIN claims : /\ claims'[n].source = claims[n].source
                               /\ claims'[n].op = claims[n].op
                               /\ claims[n].source \in Sources
                               /\ claims[n].op \in {"OBSERVATION", "WITHDRAWAL"}
  <2>1. \A n \in DOMAIN claims : claims[n] \in Claim
    BY ClaimTypes DEF IInv
  <2>2. \A n \in DOMAIN claims : claims[n].op \in {"OBSERVATION", "WITHDRAWAL"}
    BY <2>1 DEF Claim, Operations
  <2>. QED BY <2>1, <2>2, ClaimsKept DEF Claim
<1>2. wire \subseteq DOMAIN claims /\ answered \subseteq DOMAIN claims
      /\ cloud \in [Sources -> {"UNKNOWN", "AVAILABLE", "WITHDRAWN"}]
  BY DEF DeliveryTypeOK
<1>3. ASSUME NEW s, Publish(s) \/ Delete(s) \/ Change(s) \/ ReconcileRow(s)
      PROVE  Kept
  BY <1>3 DEF Publish, Delete, Change, ReconcileRow, network
<1>4. ASSUME UNCHANGED network
      PROVE  Kept
  BY <1>4 DEF network
<1>5. ASSUME \/ Manage \/ EndReconcile \/ TakeClaim \/ NothingToClaim \/ TooLate
             \/ SettleFenced \/ SettleRevoked \/ SettleHalted \/ SettleGone
             \/ SettleReceipt \/ SettleFailure \/ UNCHANGED everything \/ Authorize
             \/ Stop \/ Start \/ Tick \/ SetBack
             \/ \E b \in Bindings : BeginPass(b) \/ BreakPass(b)
      PROVE  Kept
  BY <1>4, <1>5
     DEF Manage, EndReconcile, TakeClaim, NothingToClaim, TooLate, SettleFenced,
         SettleRevoked, SettleHalted, SettleGone, SettleReceipt, SettleFailure, BeginPass,
         BreakPass, everything, Authorize, Stop, Start, Tick, SetBack
<1>6. ASSUME \/ Send \/ Receive \/ BeRefused \/ Refuse \/ RefuseAndHalt \/ Cancel
             \/ TimeOut \/ Hang \/ Crash \/ \E n \in wire : Lose(n)
      PROVE  Kept
  BY <1>6 DEF Send, Receive, BeRefused, Refuse, RefuseAndHalt, Cancel, TimeOut, Hang, Crash,
              Lose, Responds
<1>7. ASSUME NEW n \in wire, Arrive(n)
      PROVE  /\ Grown
             /\ \A m \in answered' : m \in DOMAIN claims /\ Landed(m)'
  <2>. DEFINE s == claims[n].source
  <2>1. n \in DOMAIN claims /\ s \in Sources
        /\ claims[n].op \in {"OBSERVATION", "WITHDRAWAL"}
    BY <1>1, <1>2
  <2>2. cloud' = [cloud EXCEPT ![s] = Arriving(cloud[s], claims[n].op)]
        /\ answered' \subseteq answered \cup {n}
    BY <1>7 DEF Arrive
  <2>. HIDE DEF s
  <2>3. /\ cloud'[s] = Arriving(cloud[s], claims[n].op)
        /\ \A o \in Sources : o # s => cloud'[o] = cloud[o]
    BY <1>2, <2>1, <2>2
  <2>4. /\ cloud'[s] # "UNKNOWN"
        /\ claims[n].op = "WITHDRAWAL" => cloud'[s] = "WITHDRAWN"
        /\ cloud[s] = "WITHDRAWN" => cloud'[s] = "WITHDRAWN"
    BY <2>1, <2>3 DEF Arriving
  <2>5. Grown
    BY <2>1, <2>3, <2>4 DEF s
  <2>6. Landed(n)'
    BY <1>1, <2>1, <2>4 DEF Landed, s
  <2>7. ASSUME NEW m \in answered PROVE m \in DOMAIN claims /\ Landed(m)'
    <3>1. m \in DOMAIN claims /\ Landed(m) /\ claims[m].source \in Sources
      BY <1>1, <1>2 DEF AnswersAreTrue
    <3>. QED BY <1>1, <2>5, <3>1 DEF Landed
  <2>. QED BY <2>1, <2>2, <2>5, <2>6, <2>7
<1>8. CASE Kept
  <2>1. \A m \in answered' : m \in DOMAIN claims /\ Landed(m)
    BY <1>2, <1>8 DEF AnswersAreTrue
  <2>2. \A m \in answered' : Landed(m)'
    BY <1>1, <1>8, <2>1 DEF Landed
  <2>. QED BY <1>8, <2>1, <2>2
<1>. QED
  BY <1>3, <1>5, <1>6, <1>7, <1>8, Zenon DEF DeliveryNext, Pass, Adversity
\* What the history of the claims says of a source after a step.
LEMMA HistoryKept ==
  ASSUME IInv, DeliveryTypeOK, WorkerFits, AnswersAreTrue, [DeliveryNext]_everything,
         NEW s \in Sources
  PROVE  /\ Exposed(s) => Exposed(s)'
         /\ (\E n \in DOMAIN claims : claims[n].source = s) => Exposed(s)
         /\ Retracted(s)' => Retracted(s) \/ (cloud[s] = "WITHDRAWN" /\ UNCHANGED cloud)
<1>1. /\ \A n \in DOMAIN claims : /\ n \in DOMAIN claims'
                                  /\ claims'[n].source = claims[n].source
                                  /\ claims'[n].op = claims[n].op
      /\ \A n \in DOMAIN claims' : claims'[n].fate = "ACKNOWLEDGED" =>
           \/ n \in DOMAIN claims /\ claims[n].fate = "ACKNOWLEDGED"
           \/ n \in DOMAIN claims /\ Landed(n) /\ UNCHANGED cloud
  BY ClaimsKept
<1>2. Exposed(s) => Exposed(s)'
  BY <1>1 DEF Exposed
<1>3. ASSUME NEW n \in DOMAIN claims, claims[n].source = s PROVE Exposed(s)
  <2>1. claims[n] \in Claim
    BY ClaimTypes DEF IInv
  <2>2. claims[n].op = "OBSERVATION" \/ claims[n].op = "WITHDRAWAL"
    BY <2>1 DEF Claim, Operations
  <2>3. WithdrawalClaimed(s) => Exposed(s)
    BY DEF IInv, HistoryInv, HistoryOK
  <2>. QED BY <1>3, <2>2, <2>3 DEF Exposed, WithdrawalClaimed
<1>4. ASSUME Retracted(s)', ~Retracted(s)
      PROVE  cloud[s] = "WITHDRAWN" /\ UNCHANGED cloud
  <2>1. PICK n \in DOMAIN claims' : /\ claims'[n].source = s /\ claims'[n].op = "WITHDRAWAL"
                                    /\ claims'[n].fate = "ACKNOWLEDGED"
    BY <1>4 DEF Retracted
  <2>2. n \in DOMAIN claims /\ Landed(n) /\ UNCHANGED cloud
        /\ claims[n].source = s /\ claims[n].op = "WITHDRAWAL"
    BY <1>1, <1>4, <2>1 DEF Retracted
  <2>. QED BY <2>2 DEF Landed
<1>. QED  BY <1>2, <1>3, <1>4

\* A row comes to be received by an acknowledgement, which has arrived.
LEMMA ReceivedArrived ==
  ASSUME IInv, DeliveryTypeOK, WorkerFits, AnswersAreTrue, [DeliveryNext]_everything,
         NEW s \in Sources, items'[s].st = "RECEIVED", items[s].st # "RECEIVED"
  PROVE  cloud[s] # "UNKNOWN" /\ UNCHANGED cloud
<1>. USE TimeAssumption, SourceAssumption
<1>1. TypeOK /\ RowInv /\ LeaseInv /\ [Next]_vars /\ BindingOf[s] \in Bindings
  BY QueueStep DEF IInv
<1>2. RowStep(s)
  BY <1>1, RowSteps
<1>3. ~Reshaped(items[s], items'[s])
  BY DEF Reshaped
<1>4. ASSUME NEW t \in Times, Enqueue(s, t), items[s].st = "NONE" PROVE FALSE
  BY <1>1, <1>4, AdmittedRow
<1>5. ASSUME NEW t \in Times, NEW lease \in Leases, ClaimOne(BindingOf[s], s, t, lease)
      PROVE  FALSE
  BY <1>1, <1>5, ClaimedRow
<1>6. ASSUME NEW t \in Times, PruneTerminal(BindingOf[s], t), s \in Prunable(BindingOf[s], t)
      PROVE  FALSE
  <2>1. items'[s] = NoItem
    BY <1>6 DEF PruneTerminal
  <2>. QED BY <2>1 DEF NoItem
<1>7. PICK n \in DOMAIN claims, receipt \in Receipts, t \in Times :
        Acknowledge(n, receipt, t) /\ claims[n].source = s
  BY <1>2, <1>3, <1>4, <1>5, <1>6, Zenon DEF RowStep, KeptStep
<1>8. HoldsLease(n, t) /\ FreeCapacity(n) /\ Settle(n, "ACKNOWLEDGED") /\ t \in Nat
  BY <1>7 DEF Acknowledge
<1>9. /\ claims[n].fate = "OPEN" /\ n \in DOMAIN claims'
      /\ claims'[n].fate = "ACKNOWLEDGED"
  BY <1>1, <1>8, SettledClaim
<1>10. Landed(n) /\ UNCHANGED cloud
  BY <1>9, ClaimsKept
<1>. QED  BY <1>7, <1>10 DEF Landed

\* A step keeps the cloud within what was claimed and answered.
LEMMA CloudStep ==
  ASSUME IInv, DeliveryTypeOK, WorkerFits, AnswersAreTrue, CloudIsClaimed,
         [DeliveryNext]_everything
  PROVE  CloudIsClaimed'
<1>. SUFFICES ASSUME NEW s \in Sources
              PROVE  /\ cloud'[s] # "UNKNOWN" => Exposed(s)'
                     /\ Retracted(s)' => cloud'[s] = "WITHDRAWN"
                     /\ items'[s].st = "RECEIVED" => cloud'[s] # "UNKNOWN"
  BY DEF CloudIsClaimed
<1>1. /\ cloud[s] # "UNKNOWN" => Exposed(s)
      /\ Retracted(s) => cloud[s] = "WITHDRAWN"
      /\ items[s].st = "RECEIVED" => cloud[s] # "UNKNOWN"
  BY DEF CloudIsClaimed
<1>2. /\ cloud[s] # "UNKNOWN" => cloud'[s] # "UNKNOWN"
      /\ cloud[s] = "WITHDRAWN" => cloud'[s] = "WITHDRAWN"
      /\ cloud[s] = "UNKNOWN" /\ cloud'[s] # "UNKNOWN" =>
           \E n \in DOMAIN claims : claims[n].source = s
  BY CloudSteps
<1>3. /\ Exposed(s) => Exposed(s)'
      /\ (\E n \in DOMAIN claims : claims[n].source = s) => Exposed(s)
      /\ Retracted(s)' => Retracted(s) \/ (cloud[s] = "WITHDRAWN" /\ UNCHANGED cloud)
  BY HistoryKept
<1>4. items'[s].st = "RECEIVED" => cloud'[s] # "UNKNOWN"
  BY <1>1, <1>2, ReceivedArrived
<1>. QED  BY <1>1, <1>2, <1>3, <1>4

\* A step keeps the answers true.
LEMMA AnswerStep ==
  ASSUME IInv, DeliveryTypeOK, WorkerFits, AnswersAreTrue, [DeliveryNext]_everything
  PROVE  AnswersAreTrue'
<1>1. \A n \in answered' : Landed(n)'
  BY CloudSteps
<1>2. ASSUME NEW n \in DOMAIN claims, Landed(n) PROVE Landed(n)'
  <2>1. claims[n].source \in Sources
    BY ClaimTypes DEF IInv
  <2>2. claims'[n].source = claims[n].source /\ claims'[n].op = claims[n].op
    BY ClaimsKept
  <2>. QED BY <1>2, <2>1, <2>2, CloudSteps DEF Landed
<1>3. ASSUME worker'.pc = "SETTLING", worker'.response = "OK"
      PROVE  worker'.claim \in DOMAIN claims /\ Landed(worker'.claim)
  <2>1. CASE UNCHANGED worker
    BY <1>3, <2>1 DEF AnswersAreTrue, WorkerFits
  <2>2. CASE Ends \/ \E b \in Bindings : BeginPass(b)
    <3>1. ASSUME NEW b,
                 worker' = [Idle EXCEPT !.pc = "RECONCILING", !.binding = b, !.page = Page(b)]
          PROVE  worker'.pc = "RECONCILING"
      BY <3>1 DEF Idle
    <3>2. Ends => worker'.pc = "IDLE"
      BY DEF Ends, Idle
    <3>. QED BY <1>3, <2>2, <3>1, <3>2 DEF BeginPass
  <2>3. CASE \/ EndReconcile \/ TakeClaim \/ Authorize \/ Send
             \/ \E s \in Sources : ReconcileRow(s)
    <3>1. worker \in [pc : WorkerStates, binding : Bindings \cup {None},
                      page : SUBSET Sources, claim : 0..Len(claims), response : Responses]
      BY DEF DeliveryTypeOK
    <3>. QED
      BY <1>3, <2>3, <3>1 DEF EndReconcile, TakeClaim, Authorize, Send, ReconcileRow, Goes
  <2>4. ASSUME NEW r \in Responses, worker.pc \in Requesting, Responds(r), r = "OK" => Receive
        PROVE  worker'.claim \in DOMAIN claims /\ Landed(worker'.claim)
    <3>1. worker \in [pc : WorkerStates, binding : Bindings \cup {None},
                      page : SUBSET Sources, claim : 0..Len(claims), response : Responses]
      BY DEF DeliveryTypeOK
    <3>2. worker'.response = r /\ worker'.claim = worker.claim
      BY <2>4, <3>1 DEF Responds
    <3>3. worker.claim \in answered
      BY <1>3, <2>4, <3>2 DEF Receive
    <3>. QED BY <2>4, <3>2, <3>3 DEF AnswersAreTrue, WorkerFits
  <2>. QED BY <2>1, <2>2, <2>3, <2>4, WorkerSteps, Zenon
<1>. QED  BY <1>1, <1>2, <1>3 DEF AnswersAreTrue
-----------------------------------------------------------------------------
(* The authorization *)

\* A step that leaves a pass authorized keeps its record, or says that it went.
LEMMA AuthorizationStep ==
  ASSUME IInv, DeliveryTypeOK, WorkerFits, AnswersAreTrue, AuthorizedIsThere,
         [DeliveryNext]_everything
  PROVE  AuthorizedIsThere'
<1>. SUFFICES ASSUME worker'.pc = "AUTHORIZED",
                     claims'[worker'.claim].op = "OBSERVATION"
              PROVE  source'[claims'[worker'.claim].source] = "AVAILABLE" \/ raced'
  BY DEF AuthorizedIsThere, Claim1, Served
<1>1. worker \in [pc : WorkerStates, binding : Bindings \cup {None},
                  page : SUBSET Sources, claim : 0..Len(claims), response : Responses]
      /\ source \in [Sources -> {"ABSENT", "AVAILABLE", "INELIGIBLE", "DELETED"}]
  BY DEF DeliveryTypeOK
<1>2. \A n \in DOMAIN claims : /\ claims'[n].source = claims[n].source
                               /\ claims'[n].op = claims[n].op
                               /\ claims[n].source \in Sources
  BY ClaimsKept, ClaimTypes DEF IInv
<1>3. CASE Authorize
  <2>1. worker'.claim = worker.claim /\ worker.pc = "CLAIMED" /\ ~ServedGone /\ source' = source
    BY <1>1, <1>3 DEF Authorize, Goes
  <2>2. worker.claim \in DOMAIN claims
    BY <2>1 DEF WorkerFits, Requesting
  <2>3. claims[worker.claim].op = "OBSERVATION"
    BY <1>2, <2>1, <2>2
  <2>4. source[claims[worker.claim].source] = "AVAILABLE"
    BY <2>1, <2>3 DEF ServedGone, Gone, Claim1, Served
  <2>. QED BY <1>2, <2>1, <2>2, <2>4
<1>4. ASSUME ~Authorize
      PROVE  UNCHANGED worker
  <2>1. CASE Ends \/ \E b \in Bindings : BeginPass(b)
    <3>1. ASSUME NEW b,
                 worker' = [Idle EXCEPT !.pc = "RECONCILING", !.binding = b, !.page = Page(b)]
          PROVE  worker'.pc = "RECONCILING"
      BY <3>1 DEF Idle
    <3>2. Ends => worker'.pc = "IDLE"
      BY DEF Ends, Idle
    <3>. QED BY <2>1, <3>1, <3>2 DEF BeginPass
  <2>2. CASE EndReconcile \/ TakeClaim \/ Send \/ \E s \in Sources : ReconcileRow(s)
    BY <1>1, <2>2 DEF EndReconcile, TakeClaim, Send, ReconcileRow, Goes
  <2>3. CASE \E r \in Responses : Responds(r)
    BY <1>1, <2>3 DEF Responds
  <2>. QED BY <1>4, <2>1, <2>2, <2>3, WorkerSteps, Zenon
<1>5. ASSUME UNCHANGED worker
      PROVE  source'[claims'[worker'.claim].source] = "AVAILABLE" \/ raced'
  <2>. DEFINE s == claims[worker.claim].source
  <2>1. worker.pc = "AUTHORIZED" /\ worker.claim \in DOMAIN claims /\ s \in Sources
    BY <1>2, <1>5 DEF WorkerFits, Requesting
  <2>2. source[s] = "AVAILABLE" \/ raced
    BY <1>2, <1>5, <2>1 DEF AuthorizedIsThere, Claim1, Served
  <2>3. ASSUME NEW o \in Sources, Delete(o) \/ Change(o) PROVE raced'
    BY <2>1, <2>3 DEF Delete, Change
  <2>4. ASSUME NEW o \in Sources, Publish(o) PROVE source'[s] = "AVAILABLE" \/ raced'
    BY <1>1, <2>1, <2>2, <2>4 DEF Publish, history
  <2>5. ASSUME UNCHANGED <<source, raced>>
        PROVE  source'[s] = "AVAILABLE" \/ raced'
    BY <2>2, <2>5
  <2>6. ASSUME Pass
        PROVE  source'[s] = "AVAILABLE" \/ raced'
    <3>1. \A b \in Bindings : ~BeginPass(b)
      BY <2>1 DEF BeginPass, MayBegin
    <3>2. \A o \in Sources : ~ReconcileRow(o)
      BY <2>1 DEF ReconcileRow
    <3>3. ~Authorize
      BY <2>1 DEF Authorize
    <3>4. ~Send /\ ~Cancel
      BY <1>1, <1>5, <2>1 DEF Send, Cancel, Goes, Responds
    <3>5. UNCHANGED <<source, raced>>
      BY <2>6, <3>1, <3>2, <3>3, <3>4, Zenon
         DEF Pass, EndReconcile, TakeClaim, NothingToClaim, TooLate, Refuse, RefuseAndHalt,
             Receive, SettleFenced, SettleRevoked, SettleHalted, SettleGone, SettleReceipt,
             SettleFailure, history
    <3>. QED BY <2>5, <3>5
  <2>7. ASSUME \/ Adversity \/ Manage \/ Start \/ Tick \/ SetBack \/ UNCHANGED everything
               \/ \E n \in wire : Arrive(n)
        PROVE  source'[s] = "AVAILABLE" \/ raced'
    <3>1. ~TimeOut /\ ~Hang /\ ~Crash
      <4>1. worker'.pc = "AUTHORIZED"
        BY <1>5, <2>1
      <4>2. Ends => worker'.pc = "IDLE"
        BY DEF Ends, Idle
      <4>3. ASSUME NEW r \in Responses, Responds(r) PROVE worker'.pc = "SETTLING"
        BY <1>1, <4>3 DEF Responds
      <4>4. "REQUEST_TIMEOUT" \in Responses /\ "CONTEXT_CHANGED" \in Responses
        BY DEF Responses
      <4>. QED BY <4>1, <4>2, <4>3, <4>4, Zenon DEF TimeOut, Hang, Crash
    <3>2. UNCHANGED <<source, raced>>
      BY <2>7, <3>1, Zenon
         DEF Adversity, BeRefused, Stop, Lose, BreakPass, Manage, Start, Tick, SetBack,
             everything, history, Arrive
    <3>. QED BY <2>5, <3>2
  <2>8. source'[s] = "AVAILABLE" \/ raced'
    BY <2>3, <2>4, <2>5, <2>6, <2>7, Zenon DEF DeliveryNext
  <2>. QED BY <1>2, <1>5, <2>1, <2>8
<1>. QED  BY <1>3, <1>4, <1>5

-----------------------------------------------------------------------------
(* Theorems *)

\* The invariant holds before anything was recorded or sent.
LEMMA DeliveryInitInv == DeliveryInit => DeliveryIInv
<1>. SUFFICES ASSUME DeliveryInit PROVE DeliveryIInv
  OBVIOUS
<1>1. IInv /\ claims = <<>> /\ items = [s \in Sources |-> NoItem]
  BY InitInv DEF DeliveryInit, Init
<1>2. /\ now = 0 /\ source = [s \in Sources |-> "ABSENT"]
      /\ worker = [pc |-> "IDLE", binding |-> None, page |-> {}, claim |-> 0,
                   response |-> "NONE"]
      /\ adjusted = FALSE /\ halted = FALSE /\ cursor = None /\ refused = {}
      /\ stopping = FALSE /\ wire = {} /\ answered = {} /\ raced = FALSE
      /\ cloud = [s \in Sources |-> "UNKNOWN"]
  BY DEF DeliveryInit, Idle
<1>3. DOMAIN claims = {} /\ Len(claims) = 0
  BY <1>1
<1>4. DeliveryTypeOK
  <2>1. now \in Times
    BY <1>2, DeliveryAssumption
  <2>2. worker \in [pc : WorkerStates, binding : Bindings \cup {None},
                    page : SUBSET Sources, claim : 0..Len(claims), response : Responses]
    BY <1>2, <1>3 DEF WorkerStates, Responses
  <2>3. worker = Idle
    BY <1>2 DEF Idle
  <2>. QED BY <1>2, <2>1, <2>2, <2>3 DEF DeliveryTypeOK
<1>5. WorkerFits /\ AnswersAreTrue /\ AuthorizedIsThere
  BY <1>2 DEF WorkerFits, AnswersAreTrue, AuthorizedIsThere, Requesting
<1>6. CloudIsClaimed
  BY <1>1, <1>2, <1>3 DEF CloudIsClaimed, Exposed, Retracted, NoItem
<1>. QED  BY <1>1, <1>4, <1>5, <1>6 DEF DeliveryIInv

\* The inductive invariant: the outbox's own, and what the cloud holds of a
\* source against the claims issued for it.
THEOREM DeliveryInvariant == DeliverySpec => []DeliveryIInv
<1>1. DeliveryIInv /\ [DeliveryNext]_everything => DeliveryIInv'
  <2>. SUFFICES ASSUME DeliveryIInv, [DeliveryNext]_everything PROVE DeliveryIInv'
    OBVIOUS
  <2>1. /\ IInv /\ DeliveryTypeOK /\ WorkerFits /\ AnswersAreTrue
        /\ CloudIsClaimed /\ AuthorizedIsThere
    BY DEF DeliveryIInv
  <2>2. TypeOK
    BY <2>1 DEF IInv
  <2>3. IInv'
    BY <2>1, <2>2, QueueStep, InvStep
  <2>4. DeliveryTypeOK' /\ WorkerFits'
    BY <2>1, NetworkTypes, WorkerTypes
  <2>5. AnswersAreTrue' /\ CloudIsClaimed' /\ AuthorizedIsThere'
    BY <2>1, AnswerStep, CloudStep, AuthorizationStep
  <2>. QED BY <2>3, <2>4, <2>5 DEF DeliveryIInv
<1>. QED  BY DeliveryInitInv, <1>1, PTL DEF DeliverySpec

\* Whatever crash, timeout, stop or change of context interrupts a pass, the
\* laptop's rows answer for what the cloud shows, and its receipts are true.
THEOREM CloudIsAnsweredFor == DeliverySpec => []DeliveryInv
<1>1. DeliveryIInv => DeliveryInv
  <2>. SUFFICES ASSUME DeliveryIInv PROVE DeliveryInv
    OBVIOUS
  <2>1. DeliveryTypeOK /\ CloudIsClaimed /\ HistoryInv
    BY DEF DeliveryIInv, IInv
  <2>2. ASSUME NEW s \in Sources
        PROVE  /\ cloud[s] = "AVAILABLE" =>
                    /\ items[s].st \in {"PENDING", "LEASED", "RECEIVED", "BLOCKED"}
                    /\ items[s].attempts > 0
               /\ items[s].st = "WITHDRAWN" => cloud[s] = "WITHDRAWN"
               /\ items[s].st = "RECEIVED" => cloud[s] # "UNKNOWN"
    <3>1. /\ cloud[s] # "UNKNOWN" => Exposed(s)
          /\ Retracted(s) => cloud[s] = "WITHDRAWN"
          /\ items[s].st = "RECEIVED" => cloud[s] # "UNKNOWN"
      BY <2>1 DEF CloudIsClaimed
    <3>2. HistoryOK(s) /\ RowOK(items[s]) /\ items[s].st \in ItemStates
      <4>1. items[s] \in Item
        BY DEF DeliveryIInv, IInv, TypeOK
      <4>. QED BY <2>1, <4>1 DEF HistoryInv, DeliveryIInv, IInv, RowInv, Item
    <3>3. /\ items[s].st = "WITHDRAWN" => Retracted(s)
          /\ Exposed(s) /\ items[s].st # "NONE" => items[s].attempts > 0
          /\ Exposed(s) /\ items[s].st = "NONE" => Retracted(s)
      BY <3>2 DEF HistoryOK
    <3>4. items[s].st \in {"CANCELLED", "EXPIRED"} => ~(items[s].attempts > 0)
      BY <3>2 DEF RowOK
    <3>5. cloud[s] = "AVAILABLE" => Exposed(s) /\ ~Retracted(s)
      BY <3>1
    <3>. QED BY <3>1, <3>2, <3>3, <3>4, <3>5 DEF ItemStates
  <2>. QED BY <2>1, <2>2 DEF DeliveryInv, ExposureIsOwned, ReceiptIsTruth
<1>. QED  BY DeliveryInvariant, <1>1, PTL

\* A source that was gone when the pass was last authorized is never sent, in
\* any interleaving of deletions, crashes and changes of the connection.
THEOREM GoneIsNotSent == DeliverySpec => SentOnlyIfThere
<1>1. DeliveryIInv => [worker.pc = "AUTHORIZED" /\ worker'.pc = "SENT"
                         /\ Claim1.op = "OBSERVATION"
                       => source[Served] = "AVAILABLE" \/ raced]_everything
  BY DEF DeliveryIInv, AuthorizedIsThere
<1>. QED  BY DeliveryInvariant, <1>1, PTL DEF SentOnlyIfThere

\* The worker, its request process and the hooks use the outbox by its operations
\* only: whatever they do keeps the outbox's specification, and so its promise
\* about every source, over crashes, timeouts and stops.
THEOREM DeliveryImplementsOutbox == DeliverySpec => Spec /\ KeepsPromise
<1>1. DeliveryInit => Init
  BY DEF DeliveryInit
<1>2. DeliveryIInv /\ [DeliveryNext]_everything => [Next]_vars
  BY QueueStep DEF DeliveryIInv, IInv
<1>3. DeliverySpec => Spec
  BY DeliveryInvariant, <1>1, <1>2, PTL DEF DeliverySpec, Spec
<1>. QED  BY <1>3, Refinement, PTL

-----------------------------------------------------------------------------
(******************************* The media queue ***************************)

-----------------------------------------------------------------------------
(* The invariant *)

\* A row that is absent holds nothing.
MediaRowsOK == \A s \in Sources : media[s].st = "NONE" => media[s] = NoMedia

\* A request was issued under a binding, after claims that were issued before.
Issued ==
  /\ \A n \in DOMAIN claims : bindings[BindingOf[claims[n].source]].st # "NONE"
  /\ \A n \in DOMAIN uploads : /\ bindings[BindingOf[uploads[n].source]].st # "NONE"
                               /\ uploads[n].after <= Len(claims)

\* The reservation speaks for request c, or nothing needs to.
Spoken(c) ==
  \/ c.fate # "OPEN" \/ capacity.until = c.until
  \/ bindings[BindingOf[c.source]].st = "RESTORED"

\* The reservation speaks for the last request.
LastIsSpoken ==
  /\ \A n \in DOMAIN uploads : LatestUpload(n) => Spoken(uploads[n])
  /\ \A n \in DOMAIN claims : LatestClaim(n) => Spoken(claims[n])

MediaIInv ==
  /\ TypeOK /\ RowInv /\ MediaTypeOK /\ MediaRowsOK /\ MediaCoveredByParent
  /\ Issued /\ LastIsSpoken /\ RequestsNeverOverlap

-----------------------------------------------------------------------------
(* The steps as the outbox sees them *)

\* What a step of the media queue is to the outbox: one of its own, or one that
\* only settles an upload, or a pass that claims an upload.
LEMMA OutboxSteps ==
  ASSUME MediaTypeOK, [MediaNext]_allVars
  PROVE  \/ [Next]_vars
         \/ \E t \in Times, n \in DOMAIN uploads : \E m : SettleUpload(n, t, m)
         \/ \E s \in Sources, t \in Times, lease \in Leases : PassClaimsMedia(s, t, lease)
<1>1. ASSUME NEW t \in Times, ParentStep(t) PROVE [Next]_vars
  <2>1. FALSE \in BOOLEAN
    OBVIOUS
  <2>. QED BY <1>1, <2>1, Zenon DEF ParentStep, Next, BindingStep, SourceStep
<1>2. ASSUME NEW t \in Times, MediaRestore(t) PROVE [Next]_vars
  BY <1>2, Zenon DEF MediaRestore, Next
<1>3. ASSUME NEW t \in Times, NEW s \in Sources, MediaPublish(s, t) PROVE [Next]_vars
  BY <1>3, Zenon DEF MediaPublish, Next, SourceStep
<1>4. ~Quiet => pass \in Bindings
  BY DEF Quiet, MediaTypeOK
<1>5. ASSUME NEW t \in Times, PassStep(t)
      PROVE  \/ [Next]_vars
             \/ \E s \in Sources, lease \in Leases : PassClaimsMedia(s, t, lease)
  <2>1. ASSUME NEW b \in Bindings, ReconcilePass(b, t) PROVE [Next]_vars
    BY <2>1, Zenon DEF ReconcilePass, Next, BindingStep
  <2>2. ASSUME NEW s \in Sources, NEW lease \in Leases, PassClaims(s, t, lease)
        PROVE  [Next]_vars
    BY <1>4, <2>2, Zenon DEF PassClaims, Next, BindingStep
  <2>3. ASSUME PassClaimsNothing(t) PROVE [Next]_vars
    BY <1>4, <2>3, Zenon DEF PassClaimsNothing, Next, BindingStep
  <2>. QED BY <1>5, <2>1, <2>2, <2>3, Zenon DEF PassStep
<1>6. ASSUME NEW t \in Times, NEW n \in DOMAIN uploads, UploadStep(n, t)
      PROVE  [Next]_vars \/ \E m : SettleUpload(n, t, m)
  <2>1. CASE MediaRevoked(n, t)
    <3>1. uploads[n].source \in Sources
      <4>1. uploads[n] \in MediaClaim
        BY DEF MediaTypeOK
      <4>. QED BY <4>1 DEF MediaClaim
    <3>2. BindingOf[uploads[n].source] \in Bindings
      BY <3>1, SourceAssumption
    <3>. QED BY <2>1, <3>2, Zenon DEF MediaRevoked, Next
  <2>. QED
    BY <1>6, <2>1, Zenon
       DEF UploadStep, MediaRetry, AcknowledgeManifest, AcknowledgeContent, MediaReject
<1>7. CASE UNCHANGED allVars
  BY <1>7 DEF allVars, vars
<1>. QED  BY <1>1, <1>2, <1>3, <1>5, <1>6, <1>7, Zenon DEF MediaNext

\* A pass that claims an upload, as the outbox sees it: the sweep of a claim.
LEMMA UploadClaimed ==
  ASSUME TypeOK, MediaTypeOK, NEW s \in Sources, NEW t \in Times, NEW lease \in Leases,
         PassClaimsMedia(s, t, lease)
  PROVE  /\ pass \in Bindings /\ BindingOf[s] = pass
         /\ Current(pass, t) /\ Touch(pass, t) /\ items' = Swept(pass, t)
         /\ UNCHANGED claims
         /\ Smaller(t + lease, Deadline[s]) \in Nat /\ MediaToken \in Nat
         /\ ~Reserved(t)
         /\ items'[s].st = "RECEIVED"
<1>1. pass \in Bindings
  BY DEF PassClaimsMedia, Quiet, MediaTypeOK
<1>2. BindingOf[s] = pass /\ Swept(pass, t)[s].st = "RECEIVED"
  BY DEF PassClaimsMedia, MediaDue
<1>3. Current(pass, t)
  <2>1. t = bindings[pass].clock /\ bindings[pass].st = "ACTIVE" /\ t \in Nat
    BY TimeAssumption DEF PassClaimsMedia
  <2>. QED BY <2>1 DEF Current
<1>4. Smaller(t + lease, Deadline[s]) \in Nat
  <2>1. t \in Nat /\ lease \in Nat /\ Deadline[s] \in Nat
    BY TimeAssumption, SourceAssumption
  <2>. QED BY <2>1 DEF Smaller
<1>5. MediaToken \in Nat
  <2>1. uploads \in Seq(MediaClaim) /\ MaxClaims \in Nat
    BY BoundAssumption DEF MediaTypeOK
  <2>. QED BY <2>1 DEF MediaToken
<1>6. items' = Swept(pass, t) /\ UNCHANGED claims /\ ~Reserved(t) /\ Touch(pass, t)
  BY Zenon DEF PassClaimsMedia, MediaReserved
<1>. QED  BY <1>1, <1>2, <1>3, <1>4, <1>5, <1>6

\* Every step keeps the types of the outbox, does to the rows what the outbox
\* does to them, and moves no binding back.
LEMMA ParentSteps ==
  ASSUME TypeOK, RowInv, MediaTypeOK, [MediaNext]_allVars
  PROVE  /\ TypeOK' /\ RowInv'
         /\ \A s \in Sources : RowStep(s)
<1>1. CASE [Next]_vars
  BY <1>1, TypeStep, RowInvStep, RowSteps
<1>2. ASSUME NEW t \in Times, NEW n \in DOMAIN uploads, NEW m, SettleUpload(n, t, m)
      PROVE  TypeOK' /\ RowInv' /\ \A i \in Sources : RowStep(i)
  <2>1. UNCHANGED <<bindings, items, claims>> /\ capacity' \in Capacity
    BY <1>2 DEF SettleUpload, TypeOK, NoCapacity, Capacity, NatOrNone
  <2>. QED BY <2>1, ReshapedSelf DEF TypeOK, RowInv, RowStep, KeptStep
<1>3. ASSUME NEW s \in Sources, NEW t \in Times, NEW lease \in Leases,
             PassClaimsMedia(s, t, lease)
      PROVE  TypeOK' /\ RowInv' /\ \A i \in Sources : RowStep(i)
  <2>1. /\ pass \in Bindings /\ Touch(pass, t) /\ items' = Swept(pass, t) /\ UNCHANGED claims
        /\ Smaller(t + lease, Deadline[s]) \in Nat /\ MediaToken \in Nat /\ t \in Nat
    BY <1>3, UploadClaimed, TimeAssumption
  <2>2. capacity' = [token |-> MediaToken, until |-> Smaller(t + lease, Deadline[s])]
    BY <1>3, Zenon DEF PassClaimsMedia
  <2>3. capacity' \in Capacity
    BY <2>1, <2>2 DEF Capacity, NatOrNone
  <2>4. bindings' \in [Bindings -> Binding] /\ items' \in [Sources -> Item]
    BY <2>1, TouchTypes, SweepTypes DEF TypeOK
  <2>5. Keeps
    BY <1>3, <2>1, Zenon DEF Keeps
  <2>6. \A i \in Sources : RowStep(i)
    BY <2>5, KeptSteps DEF RowStep
  <2>7. RowInv'
    BY <2>6, RowKept DEF RowInv
  <2>. QED BY <2>1, <2>3, <2>4, <2>6, <2>7 DEF TypeOK
<1>. QED  BY <1>1, <1>2, <1>3, OutboxSteps
-----------------------------------------------------------------------------
(* The media rows *)

\* A media row in order.
MediaOK(m) ==
  /\ m \in MediaItem
  /\ (m.st \in MediaLeased) = (m.token # None)
  /\ m.st = "NONE" => m = NoMedia

\* What was sent of a picture is covered by its parent row p.
Covers(m, p) ==
  /\ m.ever => p.obsReceipt # None /\ (p.st = "RECEIVED" \/ p.op = "WITHDRAWAL")
  /\ m.st = "WITHDRAWN" => p.st = "WITHDRAWN"

\* What becomes of a media row beside a parent p, other than a claim.
Turned(m, q, p) ==
  /\ MediaOK(q)
  /\ q.ever => m.ever
  /\ q.st = "WITHDRAWN" => m.st = "WITHDRAWN" \/ p.st = "WITHDRAWN"

\* The absent row is in order and needs no cover.
LEMMA NoMediaOK == MediaOK(NoMedia) /\ \A p : Covers(NoMedia, p)
BY DEF MediaOK, NoMedia, MediaItem, MediaStates, MediaLeased, NatOrNone, None, Covers

\* _sync_parent turns a media row.
LEMMA MirroredTurns ==
  ASSUME NEW m, MediaOK(m), NEW p, NEW t \in Nat
  PROVE  Turned(m, Mirrored(m, p, t), p)
<1>. DEFINE settled(st) == [Bare(m) EXCEPT !.st = st, !.terminal = Stamped(m, t)]
<1>1. m \in MediaItem /\ Stamped(m, t) \in NatOrNone /\ None \in NatOrNone
  BY DEF MediaOK, MediaItem, Stamped, NatOrNone
<1>2. ASSUME NEW st \in {"WITHDRAWN", "CANCELLED"}
      PROVE  MediaOK(settled(st)) /\ settled(st).ever = m.ever /\ settled(st).st = st
  <2>1. st \in MediaStates /\ st \notin MediaLeased /\ st # "NONE"
    BY DEF MediaStates, MediaSettled, MediaLeased
  <2>2. settled(st) \in MediaItem
    BY <1>1, <2>1 DEF Bare, MediaItem
  <2>3. settled(st).st = st /\ settled(st).token = None /\ settled(st).ever = m.ever
    BY <1>1 DEF Bare, MediaItem
  <2>. QED BY <2>1, <2>2, <2>3 DEF MediaOK
<1>3. Mirrored(m, p, t) \in {m, settled("WITHDRAWN"), settled("CANCELLED")}
      /\ (Mirrored(m, p, t) = settled("WITHDRAWN")
            => m.st = "WITHDRAWN" \/ p.st = "WITHDRAWN" \/ Mirrored(m, p, t) = m
               \/ Mirrored(m, p, t) = settled("CANCELLED"))
  BY DEF Mirrored
<1>4. Turned(m, m, p)
  BY DEF Turned
<1>5. Turned(m, settled("CANCELLED"), p)
  BY <1>2 DEF Turned
<1>6. p.st = "WITHDRAWN" => Turned(m, settled("WITHDRAWN"), p)
  BY <1>2 DEF Turned
<1>. HIDE DEF settled
<1>. QED  BY <1>3, <1>4, <1>5, <1>6 DEF Turned, Mirrored, settled

\* Giving back a lapsed lease turns a media row.
LEMMA GivenBack ==
  ASSUME NEW m, MediaOK(m), NEW st \in MediaPending
  PROVE  /\ MediaOK([Bare(m) EXCEPT !.st = st])
         /\ [Bare(m) EXCEPT !.st = st].ever = m.ever
         /\ [Bare(m) EXCEPT !.st = st].st = st
<1>. DEFINE q == [Bare(m) EXCEPT !.st = st]
<1>1. m \in MediaItem /\ None \in NatOrNone
  BY DEF MediaOK, NatOrNone
<1>2. st \in MediaStates /\ st \notin MediaLeased /\ st # "NONE"
  BY DEF MediaStates, MediaPending, MediaLeased
<1>3. q \in MediaItem /\ q.st = st /\ q.token = None /\ q.ever = m.ever
  BY <1>1, <1>2 DEF Bare, MediaItem
<1>. QED  BY <1>2, <1>3 DEF MediaOK

\* The sweep of a claim turns the media rows.
LEMMA MediaSweptTurns ==
  ASSUME NEW b, NEW rows, NEW t \in Nat, NEW s \in Sources, MediaOK(media[s])
  PROVE  Turned(media[s], MediaSwept(b, rows, t)[s], rows[s])
<1>. DEFINE m == Mirrors(b, rows, t)[s]
            st == IF m.st = "LEASED_MANIFEST" THEN "PENDING_MANIFEST" ELSE "PENDING_CONTENT"
<1>1. m = IF BindingOf[s] = b THEN Mirrored(media[s], rows[s], t) ELSE media[s]
  BY DEF Mirrors
<1>2. Turned(media[s], m, rows[s])
  BY <1>1, MirroredTurns DEF Turned
<1>3. \/ MediaSwept(b, rows, t)[s] = m
      \/ MediaSwept(b, rows, t)[s] = [Bare(m) EXCEPT !.st = st]
  BY DEF MediaSwept
<1>4. st \in MediaPending /\ st # "WITHDRAWN"
  BY DEF MediaPending
<1>. HIDE DEF m, st
<1>5. MediaOK(m)
  BY <1>2 DEF Turned
<1>6. /\ MediaOK([Bare(m) EXCEPT !.st = st])
      /\ [Bare(m) EXCEPT !.st = st].ever = m.ever
      /\ [Bare(m) EXCEPT !.st = st].st # "WITHDRAWN"
  BY <1>4, <1>5, GivenBack
<1>7. Turned(media[s], [Bare(m) EXCEPT !.st = st], rows[s])
  BY <1>2, <1>6 DEF Turned
<1>. QED  BY <1>2, <1>3, <1>7

\* reconcile turns the media rows or removes them.
LEMMA ReconciledTurns ==
  ASSUME NEW b, NEW t \in Nat, NEW s \in Sources, MediaOK(media[s])
  PROVE  Turned(media[s], Reconciled(b, t)[s], items[s])
<1>. DEFINE m == Mirrors(b, items, t)[s]
<1>1. m = IF BindingOf[s] = b THEN Mirrored(media[s], items[s], t) ELSE media[s]
  BY DEF Mirrors
<1>2. Turned(media[s], m, items[s])
  BY <1>1, MirroredTurns DEF Turned
<1>3. Reconciled(b, t)[s] = m \/ Reconciled(b, t)[s] = NoMedia
  BY DEF Reconciled
<1>4. MediaOK(NoMedia) /\ ~NoMedia.ever /\ NoMedia.st # "WITHDRAWN"
  BY NoMediaOK DEF NoMedia
<1>. QED  BY <1>2, <1>3, <1>4 DEF Turned

\* mark_restored turns a media row and withdraws none.
LEMMA MediaRestoringTurns ==
  ASSUME NEW m, MediaOK(m), NEW t \in Nat, NEW p
  PROVE  Turned(m, MediaRestoring(m, t), p)
<1>. DEFINE q(st, k) == [Bare(m) EXCEPT !.st = st, !.terminal = k]
<1>1. m \in MediaItem /\ t \in NatOrNone /\ None \in NatOrNone
  BY DEF MediaOK, NatOrNone
<1>2. ASSUME NEW st \in {"BLOCKED", "CANCELLED"}, NEW k \in NatOrNone
      PROVE  Turned(m, q(st, k), p)
  <2>1. st \in MediaStates /\ st \notin MediaLeased /\ st # "NONE" /\ st # "WITHDRAWN"
    BY DEF MediaStates, MediaSettled, MediaLeased
  <2>2. /\ q(st, k) \in MediaItem /\ q(st, k).st = st /\ q(st, k).token = None
        /\ q(st, k).ever = m.ever
    BY <1>1, <2>1 DEF Bare, MediaItem
  <2>. QED BY <2>1, <2>2 DEF MediaOK, Turned
<1>3. MediaRestoring(m, t) \in {m, q("BLOCKED", None), q("CANCELLED", t)}
  BY DEF MediaRestoring
<1>4. Turned(m, m, p)
  BY DEF Turned
<1>. QED  BY <1>1, <1>2, <1>3, <1>4

\* What is settled of a leased media row is in order, and not withdrawn.
LEMMA SettledMedia ==
  ASSUME MediaTypeOK, NEW t \in Times, NEW n \in DOMAIN uploads, UploadStep(n, t),
         ~MediaRevoked(n, t)
  PROVE  \E m : /\ SettleUpload(n, t, m) /\ MediaOK(m)
                /\ m.ever = media[uploads[n].source].ever
                /\ m.st # "WITHDRAWN" /\ m.st # "NONE"
<1>. DEFINE old == media[uploads[n].source]
<1>1. uploads[n].source \in Sources
  <2>1. uploads[n] \in MediaClaim
    BY DEF MediaTypeOK
  <2>. QED BY <2>1 DEF MediaClaim
<1>2. old \in MediaItem /\ t \in Nat /\ t \in NatOrNone /\ None \in NatOrNone
  BY <1>1, TimeAssumption DEF MediaTypeOK, NatOrNone
<1>. DEFINE Good(m) == /\ MediaOK(m) /\ m.ever = old.ever
                       /\ m.st # "WITHDRAWN" /\ m.st # "NONE"
<1>3. ASSUME NEW st \in {"PENDING_MANIFEST", "PENDING_CONTENT", "READY", "BLOCKED"},
             NEW next \in Nat, NEW evidence \in NatOrNone, NEW k \in NatOrNone, NEW q,
             q = [[[[Bare(old) EXCEPT !.st = st] EXCEPT !.next = next]
                    EXCEPT !.evidence = evidence] EXCEPT !.terminal = k]
      PROVE  Good(q)
  <2>1. st \in MediaStates /\ st \notin MediaLeased /\ st # "NONE" /\ st # "WITHDRAWN"
    BY DEF MediaStates, MediaPending, MediaLeased
  <2>2. q \in MediaItem /\ q.st = st /\ q.token = None /\ q.ever = old.ever
    BY <1>2, <1>3, <2>1 DEF Bare, MediaItem
  <2>. QED BY <2>1, <2>2 DEF MediaOK
<1>4. old.next \in Nat /\ old.evidence \in NatOrNone /\ old.terminal \in NatOrNone
  BY <1>2 DEF MediaItem
<1>. HIDE DEF Good
<1>5. ASSUME NEW delay \in Delays, MediaRetry(n, t, delay)
      PROVE  \E m : SettleUpload(n, t, m) /\ Good(m)
  <2>. DEFINE st == IF old.st = "LEASED_MANIFEST" THEN "PENDING_MANIFEST" ELSE "PENDING_CONTENT"
              next == t + delay
              q == [Bare(old) EXCEPT !.next = next, !.st = st]
  <2>1. SettleUpload(n, t, q)
    BY <1>5, Zenon DEF MediaRetry
  <2>2. next \in Nat
    BY <1>2, TimeAssumption
  <2>3. st \in {"PENDING_MANIFEST", "PENDING_CONTENT", "READY", "BLOCKED"}
    OBVIOUS
  <2>4. Good(q)
    <3>. HIDE DEF st, next
    <3>. DEFINE r == [[[[Bare(old) EXCEPT !.st = st] EXCEPT !.next = next]
                       EXCEPT !.evidence = old.evidence] EXCEPT !.terminal = old.terminal]
    <3>1. q = r
      BY <1>2 DEF Bare, MediaItem
    <3>2. Good(r)
      BY <1>3, <1>4, <2>2, <2>3
    <3>. HIDE DEF q, r
    <3>. QED BY <3>1, <3>2
  <2>. QED BY <2>1, <2>4
<1>6. ASSUME NEW evidence \in EvidenceIds, NEW uploadRequired \in BOOLEAN,
             AcknowledgeManifest(n, t, evidence, uploadRequired)
      PROVE  \E m : SettleUpload(n, t, m) /\ Good(m)
  <2>. DEFINE st == IF uploadRequired THEN "PENDING_CONTENT" ELSE "READY"
              k == IF uploadRequired THEN None ELSE t
              q == [Bare(old) EXCEPT !.evidence = evidence, !.next = t, !.st = st, !.terminal = k]
  <2>1. SettleUpload(n, t, q)
    BY <1>6, Zenon DEF AcknowledgeManifest
  <2>2. evidence \in NatOrNone /\ k \in NatOrNone
    BY <1>2, MediaAssumption DEF NatOrNone
  <2>3. st \in {"PENDING_MANIFEST", "PENDING_CONTENT", "READY", "BLOCKED"}
    OBVIOUS
  <2>4. Good(q)
    <3>. HIDE DEF st, k
    <3>1. q = [[[[Bare(old) EXCEPT !.st = st] EXCEPT !.next = t]
                 EXCEPT !.evidence = evidence] EXCEPT !.terminal = k]
      BY <1>2 DEF Bare, MediaItem
    <3>. QED BY <1>2, <1>3, <2>2, <2>3, <3>1
  <2>. QED BY <2>1, <2>4
<1>7. ASSUME AcknowledgeContent(n, t) \/ MediaReject(n, t)
      PROVE  \E m : SettleUpload(n, t, m) /\ Good(m)
  <2>1. PICK st \in {"READY", "BLOCKED"} :
          SettleUpload(n, t, [Bare(old) EXCEPT !.st = st, !.terminal = t])
    BY <1>7, Zenon DEF AcknowledgeContent, MediaReject
  <2>. DEFINE q == [Bare(old) EXCEPT !.st = st, !.terminal = t]
  <2>2. q = [[[[Bare(old) EXCEPT !.st = st] EXCEPT !.next = old.next]
               EXCEPT !.evidence = old.evidence] EXCEPT !.terminal = t]
    BY <1>2 DEF Bare, MediaItem
  <2>3. Good(q)
    BY <1>2, <1>3, <1>4, <2>2
  <2>. QED BY <2>1, <2>3
<1>8. \E m : SettleUpload(n, t, m) /\ Good(m)
  BY <1>5, <1>6, <1>7, Zenon DEF UploadStep
<1>. QED  BY <1>8 DEF Good
-----------------------------------------------------------------------------
(* The media rows beside their parents *)

\* A turned row is covered by its parent, if the row before was and nothing was
\* forgotten of the parent.
LEMMA TurnedIsCovered ==
  ASSUME TypeOK, RowInv, NEW s \in Sources, KeptStep(s), Covers(media[s], items[s]),
         NEW q, Turned(media[s], q, items'[s])
  PROVE  Covers(q, items'[s])
BY RowKept DEF Turned, Covers, RowStep

\* Every step leaves every media row in order and covered, and the passes in shape.
LEMMA MediaSteps ==
  ASSUME TypeOK, RowInv, MediaTypeOK, MediaRowsOK, MediaCoveredByParent,
         [MediaNext]_allVars
  PROVE  /\ pass' \in Bindings \cup {None}
         /\ \E f : media' = [s \in Sources |-> f[s]]
         /\ \A s \in Sources : MediaOK(media'[s]) /\ Covers(media'[s], items'[s])
<1>. DEFINE Shaped == pass' \in Bindings \cup {None} /\ DOMAIN media' = Sources
                      /\ media' = [s \in Sources |-> media'[s]]
            Good == \A s \in Sources : MediaOK(media'[s]) /\ Covers(media'[s], items'[s])
<1>1. /\ pass \in Bindings \cup {None} /\ media \in [Sources -> MediaItem]
      /\ \A s \in Sources : MediaOK(media[s]) /\ Covers(media[s], items[s])
  BY DEF MediaTypeOK, MediaRowsOK, MediaCoveredByParent, MediaOK, Covers
<1>2. \A s \in Sources : Turned(media[s], media[s], items'[s])
  BY <1>1 DEF Turned
<1>3. ASSUME Keeps, \A s \in Sources : Turned(media[s], media'[s], items'[s])
      PROVE  Good
  <2>1. \A s \in Sources : MediaOK(media'[s])
    BY <1>3 DEF Turned
  <2>2. \A s \in Sources : Covers(media'[s], items'[s])
    BY <1>1, <1>3, KeptSteps, TurnedIsCovered
  <2>. QED BY <2>1, <2>2
<1>4. ASSUME Keeps, UNCHANGED media PROVE Good
  BY <1>2, <1>3, <1>4
<1>5. ASSUME NEW t \in Times, ParentStep(t) PROVE Keeps /\ UNCHANGED <<media, pass>>
  <2>1. ASSUME NEW b \in Bindings, CreateBinding(b, t) PROVE Keeps
    BY <2>1 DEF CreateBinding, Keeps
  <2>2. ASSUME NEW b \in Bindings, Pause(b, t) \/ Resume(b, t) \/ PauseKeyless(b)
        PROVE  Keeps
    BY <2>2, Zenon DEF Pause, Resume, PauseKeyless, Keeps
  <2>3. ASSUME NEW b \in Bindings, Disconnect(b, FALSE, t) PROVE Keeps
    <3>1. FALSE \in BOOLEAN
      OBVIOUS
    <3>. QED BY <2>3, <3>1, Zenon DEF Keeps
  <2>4. ASSUME NEW s \in Sources, NEW reason \in Reasons, Withdraw(s, reason, t) PROVE Keeps
    BY <2>4, Zenon DEF Keeps, SourceStep
  <2>5. ASSUME NEW n \in DOMAIN claims, SettlementStep(n, t) PROVE Keeps
    BY <2>5, Zenon DEF Keeps
  <2>6. Keeps
    BY <1>5, <2>1, <2>2, <2>3, <2>4, <2>5, Zenon DEF ParentStep
  <2>. QED BY <1>5, <2>6 DEF ParentStep, mediaVars
<1>6. ASSUME NEW t \in Times, MediaRestore(t) PROVE Shaped /\ Good
  <2>1. t \in Nat /\ Keeps /\ pass' = pass
        /\ media' = [s \in Sources |-> MediaRestoring(media[s], t)]
    BY <1>6, TimeAssumption DEF MediaRestore, Keeps
  <2>2. \A s \in Sources : Turned(media[s], media'[s], items'[s])
    BY <1>1, <2>1, MediaRestoringTurns
  <2>. QED BY <1>1, <1>3, <2>1, <2>2
<1>7. ASSUME NEW t \in Times, NEW s \in Sources, MediaPublish(s, t) PROVE Shaped /\ Good
  <2>1. Keeps /\ pass' = pass /\ t \in Nat
    <3>1. SourceStep(s, t)
      BY <1>7 DEF MediaPublish, SourceStep
    <3>. QED BY <1>7, <3>1, TimeAssumption, Zenon DEF MediaPublish, Keeps
  <2>. DEFINE new == [NoMedia EXCEPT !.st = "PENDING_MANIFEST", !.created = t, !.next = t]
  <2>2. UNCHANGED media \/ media' = [media EXCEPT ![s] = new]
    BY <1>7 DEF MediaPublish
  <2>3. MediaOK(new) /\ new.ever = FALSE /\ new.st = "PENDING_MANIFEST"
    <3>1. "PENDING_MANIFEST" \in MediaStates /\ "PENDING_MANIFEST" \notin MediaLeased
          /\ NoMedia \in MediaItem
      BY NoMediaOK DEF MediaOK, MediaStates, MediaPending, MediaLeased
    <3>2. NoMedia.token = None /\ NoMedia.ever = FALSE
      BY DEF NoMedia
    <3>3. new \in MediaItem /\ new.token = NoMedia.token /\ new.ever = NoMedia.ever
          /\ new.st = "PENDING_MANIFEST"
      BY <2>1, <3>1 DEF MediaItem
    <3>. QED BY <3>1, <3>2, <3>3 DEF MediaOK
  <2>. HIDE DEF new
  <2>4. \A o : Turned(media[s], new, o)
    BY <2>3 DEF Turned
  <2>5. \A o \in Sources : Turned(media[o], media'[o], items'[o])
    BY <1>1, <1>2, <2>2, <2>4
  <2>6. media' = [o \in Sources |-> media'[o]] /\ DOMAIN media' = Sources
    BY <1>1, <2>2
  <2>. QED BY <1>1, <1>3, <2>1, <2>5, <2>6
<1>8. ASSUME NEW t \in Times, NEW b \in Bindings, ReconcilePass(b, t) PROVE Shaped /\ Good
  <2>1. /\ t \in Nat /\ ~StillReferenced(b, t) /\ PruneTerminal(b, t) /\ pass' = b
        /\ media' = Reconciled(b, t)
    BY <1>8, TimeAssumption DEF ReconcilePass
  <2>2. ASSUME NEW s \in Sources
        PROVE  MediaOK(media'[s]) /\ Covers(media'[s], items'[s])
    <3>1. Turned(media[s], media'[s], items[s])
      BY <1>1, <2>1, ReconciledTurns
    <3>2. CASE s \in Prunable(b, t)
      <4>1. media'[s].st = "NONE"
        BY <2>1, <3>2 DEF StillReferenced
      <4>2. media'[s] = NoMedia
        BY <3>1, <4>1 DEF Turned, MediaOK
      <4>. QED BY <4>2, NoMediaOK
    <3>3. CASE s \notin Prunable(b, t)
      <4>1. items'[s] = items[s]
        BY <2>1, <3>3 DEF PruneTerminal
      <4>. QED BY <1>1, <3>1, <4>1 DEF Turned, Covers
    <3>. QED BY <3>2, <3>3
  <2>3. media' = [s \in Sources |-> media'[s]] /\ DOMAIN media' = Sources
    BY <2>1 DEF Reconciled
  <2>. QED BY <2>1, <2>2, <2>3
<1>9. ASSUME NEW t \in Times, NEW s \in Sources, NEW lease \in Leases, PassClaims(s, t, lease)
      PROVE  Keeps /\ UNCHANGED media /\ pass' = None
  <2>1. pass \in Bindings
    BY <1>1, <1>9 DEF PassClaims, Quiet
  <2>. QED BY <1>9, <2>1, Zenon DEF PassClaims, Keeps, mediaVars
<1>10. ASSUME NEW t \in Times, PassClaimsNothing(t) PROVE Shaped /\ Good
  <2>1. pass \in Bindings
    BY <1>1, <1>10 DEF PassClaimsNothing, Quiet
  <2>2. items' = Swept(pass, t) /\ media' = MediaSwept(pass, items', t) /\ pass' = None
    BY <1>10 DEF PassClaimsNothing, ClaimNothing
  <2>3. Keeps /\ t \in Nat
    BY <2>1, <2>2, TimeAssumption, Zenon DEF Keeps
  <2>4. \A s \in Sources : Turned(media[s], media'[s], items'[s])
    BY <1>1, <2>2, <2>3, MediaSweptTurns
  <2>5. media' = [s \in Sources |-> media'[s]] /\ DOMAIN media' = Sources
    BY <2>2 DEF MediaSwept
  <2>. QED BY <1>3, <2>2, <2>3, <2>4, <2>5
<1>11. ASSUME NEW t \in Times, NEW s \in Sources, NEW lease \in Leases,
              PassClaimsMedia(s, t, lease)
       PROVE  Shaped /\ Good
  <2>. DEFINE until == Smaller(t + lease, Deadline[s])
              m == MediaSwept(pass, items', t)
              st == IF m[s].st = "PENDING_MANIFEST" THEN "LEASED_MANIFEST" ELSE "LEASED_CONTENT"
              new == [m[s] EXCEPT !.st = st, !.ever = TRUE, !.token = MediaToken,
                                  !.until = until, !.gen = bindings[pass].gen]
  <2>1. /\ pass \in Bindings /\ items' = Swept(pass, t) /\ until \in Nat /\ MediaToken \in Nat
        /\ items'[s].st = "RECEIVED" /\ t \in Nat
    BY <1>11, UploadClaimed, TimeAssumption
  <2>2. media' = [m EXCEPT ![s] = new] /\ pass' = None
    BY <1>11, <2>1, Zenon DEF PassClaimsMedia
  <2>3. Keeps
    BY <1>11, <2>1, Zenon DEF Keeps
  <2>4. \A o \in Sources : Turned(media[o], m[o], items'[o])
    BY <1>1, <2>1, MediaSweptTurns
  <2>5. bindings[pass].gen \in Nat
    BY <2>1 DEF TypeOK, Binding
  <2>6. m = [o \in Sources |-> m[o]]
    BY DEF MediaSwept
  <2>7. MediaOK(m[s]) /\ st \in MediaLeased
    BY <2>4 DEF Turned, MediaLeased
  <2>. HIDE DEF until, m, st
  <2>8. m[s] \in MediaItem /\ MediaToken \in NatOrNone /\ until \in NatOrNone
        /\ bindings[pass].gen \in NatOrNone /\ MediaToken # None
        /\ st \in MediaStates /\ st # "NONE" /\ st # "WITHDRAWN"
    BY <2>1, <2>5, <2>7 DEF MediaOK, NatOrNone, None, MediaStates, MediaLeased
  <2>9. new \in MediaItem /\ new.st = st /\ new.token = MediaToken
    BY <2>8 DEF MediaItem
  <2>10. MediaOK(new)
    BY <2>7, <2>8, <2>9 DEF MediaOK
  <2>11. Covers(new, items'[s])
    <3>1. RowOK(items'[s])
      BY <2>3, KeptSteps, RowKept DEF RowStep
    <3>. QED BY <2>1, <2>8, <2>9, <3>1 DEF Covers, RowOK
  <2>12. media'[s] = new /\ \A o \in Sources : o # s => media'[o] = m[o]
    BY <2>2, <2>6
  <2>. HIDE DEF new
  <2>13. \A o \in Sources : MediaOK(m[o]) /\ Covers(m[o], items'[o])
    BY <1>1, <2>3, <2>4, KeptSteps, TurnedIsCovered DEF Turned
  <2>14. media' = [o \in Sources |-> media'[o]] /\ DOMAIN media' = Sources
    BY <2>2, <2>6
  <2>. QED BY <2>2, <2>10, <2>11, <2>12, <2>13, <2>14
<1>12. ASSUME NEW t \in Times, NEW n \in DOMAIN uploads, UploadStep(n, t),
              ~MediaRevoked(n, t)
       PROVE  Shaped /\ Good
  <2>. DEFINE s == uploads[n].source
  <2>1. PICK m : /\ SettleUpload(n, t, m) /\ MediaOK(m) /\ m.ever = media[s].ever
                 /\ m.st # "WITHDRAWN" /\ m.st # "NONE"
    BY <1>12, SettledMedia
  <2>2. media' = [media EXCEPT ![s] = m] /\ UNCHANGED <<items, pass>>
    BY <2>1 DEF SettleUpload
  <2>. HIDE DEF s
  <2>3. Keeps
    BY <2>2 DEF Keeps
  <2>4. \A o \in Sources : Turned(media[o], media'[o], items'[o])
    BY <1>1, <1>2, <2>1, <2>2 DEF Turned
  <2>5. media' = [o \in Sources |-> media'[o]] /\ DOMAIN media' = Sources
    BY <1>1, <2>2
  <2>. QED BY <1>1, <1>3, <2>2, <2>3, <2>4, <2>5
<1>13. ASSUME NEW t \in Times, NEW n \in DOMAIN uploads, MediaRevoked(n, t)
       PROVE  Keeps /\ UNCHANGED <<media, pass>>
  <2>1. uploads[n] \in MediaClaim
    BY DEF MediaTypeOK
  <2>2. BindingOf[uploads[n].source] \in Bindings
    BY <2>1, SourceAssumption DEF MediaClaim
  <2>. QED BY <1>13, <2>2, Zenon DEF MediaRevoked, Keeps, PauseKeyless, mediaVars
<1>14. CASE UNCHANGED allVars
  <2>1. Keeps /\ UNCHANGED <<media, pass>>
    BY <1>14 DEF allVars, vars, mediaVars, Keeps
  <2>. QED BY <1>1, <1>4, <2>1
<1>15. UNCHANGED media => DOMAIN media' = Sources /\ media' = [s \in Sources |-> media'[s]]
  BY <1>1
<1>16. Shaped /\ Good
  <2>1. ASSUME Keeps, UNCHANGED media, pass' = pass \/ pass' = None PROVE Shaped /\ Good
    BY <1>1, <1>4, <1>15, <2>1
  <2>. QED BY <1>5, <1>6, <1>7, <1>8, <1>9, <1>10, <1>11, <1>12, <1>13, <1>14, <2>1, Zenon
       DEF MediaNext, PassStep
<1>. QED  BY <1>16
-----------------------------------------------------------------------------
(* The requests *)

\* What the invariant needs to know of an upload's fields.
LEMMA UploadTypes ==
  ASSUME MediaTypeOK
  PROVE  /\ Len(uploads) \in Nat /\ DOMAIN uploads = 1..Len(uploads)
         /\ \A n \in DOMAIN uploads :
              /\ uploads[n] \in MediaClaim
              /\ uploads[n].source \in Sources /\ BindingOf[uploads[n].source] \in Bindings
              /\ uploads[n].at \in Nat /\ uploads[n].until \in Nat /\ uploads[n].after \in Nat
<1>1. uploads \in Seq(MediaClaim)
  BY DEF MediaTypeOK
<1>2. \A u \in MediaClaim : /\ u.source \in Sources /\ BindingOf[u.source] \in Bindings
                            /\ u.at \in Nat /\ u.until \in Nat /\ u.after \in Nat
  BY SourceAssumption DEF MediaClaim
<1>3. \A n \in DOMAIN uploads : uploads[n] \in MediaClaim
  BY <1>1
<1>. HIDE DEF MediaClaim
<1>. QED  BY <1>1, <1>2, <1>3

\* No binding is forgotten, and none comes back from a restore.
Onward ==
  \A b \in Bindings :
    /\ bindings[b].st # "NONE" => bindings'[b].st # "NONE"
    /\ bindings[b].st = "RESTORED" => bindings'[b].st = "RESTORED"

\* Every operation of the outbox moves its bindings onward.
LEMMA OutboxOnward ==
  ASSUME TypeOK, [Next]_vars
  PROVE  Onward
<1>1. ASSUME NEW b \in Bindings, NEW r, bindings' = [bindings EXCEPT ![b] = r],
             bindings[b].st # "RESTORED", r.st # "NONE"
      PROVE  Onward
  BY <1>1 DEF Onward, TypeOK
<1>2. UNCHANGED bindings => Onward
  BY DEF Onward
<1>3. ASSUME NEW b \in Bindings, NEW t \in Times, Current(b, t), Touch(b, t)
      PROVE  Onward
  BY <1>3, TouchForward, TimeAssumption DEF Forward, Onward
<1>4. ASSUME NEW b \in Bindings, NEW t \in Times, BindingStep(b, t) PROVE Onward
  <2>1. CASE CreateBinding(b, t)
    <3>1. [st |-> "PAUSED", gen |-> 1, activated |-> t, clock |-> t].st # "NONE"
      OBVIOUS
    <3>2. bindings[b].st # "RESTORED"
      BY <2>1 DEF CreateBinding
    <3>. QED BY <1>1, <2>1, <3>1, <3>2 DEF CreateBinding
  <2>2. CASE Pause(b, t) \/ Resume(b, t) \/ \E restored \in BOOLEAN : Disconnect(b, restored, t)
    <3>1. bindings[b] \in Binding
      BY DEF TypeOK
    <3>2. bindings[b].st # "RESTORED"
      BY <2>2 DEF Pause, Resume, Disconnect, Live
    <3>3. \E r : bindings' = [bindings EXCEPT ![b] = r] /\ r.st # "NONE"
      <4>1. CASE Pause(b, t)
        <5>. DEFINE r == [bindings[b] EXCEPT !.st = "PAUSED", !.gen = bindings[b].gen + 1,
                                             !.clock = t]
        <5>1. bindings' = [bindings EXCEPT ![b] = r]
          BY <4>1, Zenon DEF Pause
        <5>2. r.st # "NONE"
          BY <3>1 DEF Binding
        <5>. HIDE DEF r
        <5>. QED BY <5>1, <5>2
      <4>2. CASE Resume(b, t)
        <5>. DEFINE r == [bindings[b] EXCEPT !.st = "ACTIVE", !.gen = bindings[b].gen + 1,
                                             !.activated = t, !.clock = t]
        <5>1. bindings' = [bindings EXCEPT ![b] = r]
          BY <4>2, Zenon DEF Resume
        <5>2. r.st # "NONE"
          BY <3>1 DEF Binding
        <5>. HIDE DEF r
        <5>. QED BY <5>1, <5>2
      <4>3. ASSUME NEW restored \in BOOLEAN, Disconnect(b, restored, t)
            PROVE  \E r : bindings' = [bindings EXCEPT ![b] = r] /\ r.st # "NONE"
        <5>. DEFINE st == IF restored THEN "RESTORED" ELSE "DISCONNECTED"
                    r == [bindings[b] EXCEPT !.st = st, !.gen = bindings[b].gen + 1, !.clock = t]
        <5>1. bindings' = [bindings EXCEPT ![b] = r]
          BY <4>3, Zenon DEF Disconnect
        <5>2. r.st # "NONE"
          BY <3>1 DEF Binding
        <5>. HIDE DEF r
        <5>. QED BY <5>1, <5>2
      <4>. QED BY <2>2, <4>1, <4>2, <4>3
    <3>. QED BY <1>1, <3>2, <3>3
  <2>3. CASE \/ Expire(b, t) \/ ClaimNothing(b, t) \/ PruneTerminal(b, t) \/ Inspect(b, t)
             \/ \E s \in Sources, lease \in Leases : ClaimOne(b, s, t, lease)
    BY <1>3, <2>3, Zenon DEF Expire, ClaimNothing, PruneTerminal, Inspect, ClaimOne
  <2>. QED BY <1>4, <2>1, <2>2, <2>3, Zenon DEF BindingStep
<1>5. ASSUME NEW s \in Sources, NEW t \in Times, SourceStep(s, t) PROVE Onward
  <2>1. BindingOf[s] \in Bindings
    BY SourceAssumption
  <2>. QED BY <1>3, <1>5, <2>1, Zenon DEF SourceStep, Enqueue, Withdraw
<1>6. ASSUME NEW n \in DOMAIN claims, NEW t \in Times, SettlementStep(n, t) PROVE Onward
  <2>1. BindingOf[claims[n].source] \in Bindings
    BY ClaimTypes
  <2>. QED BY <1>3, <1>6, <2>1, Zenon
           DEF SettlementStep, Reject, Retry, Acknowledge, AcknowledgeAgain, HoldsLease
<1>7. ASSUME NEW t \in Times, MarkRestored(t) PROVE Onward
  <2>1. \A b \in Bindings : bindings[b] \in Binding
    BY DEF TypeOK
  <2>. QED BY <1>7, <2>1 DEF MarkRestored, Onward, Binding
<1>8. ASSUME NEW b \in Bindings, PauseKeyless(b) PROVE Onward
  <2>1. bindings[b] \in Binding /\ bindings[b].st # "RESTORED"
    BY <1>8 DEF PauseKeyless, Live, TypeOK
  <2>2. PICK g : bindings' = [bindings EXCEPT ![b] =
                   [bindings[b] EXCEPT !.st = "PAUSED", !.gen = g]]
    BY <1>8 DEF PauseKeyless
  <2>3. [bindings[b] EXCEPT !.st = "PAUSED", !.gen = g].st # "NONE"
    BY <2>1 DEF Binding
  <2>. QED BY <1>1, <2>1, <2>2, <2>3
<1>9. CASE UNCHANGED vars
  BY <1>2, <1>9 DEF vars
<1>. QED  BY <1>4, <1>5, <1>6, <1>7, <1>8, <1>9, Zenon DEF Next

\* Nothing is claimed or settled, and the reservation stays, or is dropped by a
\* restore of every binding.
Still ==
  /\ UNCHANGED <<claims, uploads>>
  /\ \/ UNCHANGED capacity
     \/ \A b \in Bindings : bindings[b].st # "NONE" => bindings'[b].st = "RESTORED"

\* The last request is settled, of either queue.
ClaimSettled ==
  /\ UNCHANGED uploads
  /\ \E n \in DOMAIN claims, fate \in {"RETRIED", "ACKNOWLEDGED", "REJECTED"} :
       LatestClaim(n) /\ Settle(n, fate)

UploadSettled ==
  /\ UNCHANGED claims
  /\ \E n \in DOMAIN uploads :
       LatestUpload(n) /\ uploads' = [uploads EXCEPT ![n].fate = "SETTLED"]

\* What a step does to the requests: nothing, the last one is settled, or the
\* next one is issued.
LEMMA RequestSteps ==
  ASSUME TypeOK, MediaTypeOK, [MediaNext]_allVars
  PROVE  /\ Onward
         /\ \/ Still \/ ClaimSettled \/ UploadSettled
            \/ /\ UNCHANGED uploads
               /\ \E s \in Sources, t \in Times, lease \in Leases : ClaimOne(pass, s, t, lease)
               /\ pass \in Bindings
            \/ \E s \in Sources, t \in Times, lease \in Leases : PassClaimsMedia(s, t, lease)
<1>. DEFINE Claiming == /\ UNCHANGED uploads
                        /\ \E s \in Sources, t \in Times, lease \in Leases :
                             ClaimOne(pass, s, t, lease)
                        /\ pass \in Bindings
            Uploading == \E s \in Sources, t \in Times, lease \in Leases :
                           PassClaimsMedia(s, t, lease)
<1>1. ASSUME NEW t \in Times, ParentStep(t) PROVE Still \/ ClaimSettled
  <2>1. UNCHANGED uploads
    BY <1>1 DEF ParentStep, mediaVars
  <2>2. ASSUME NEW b \in Bindings,
               \/ CreateBinding(b, t) \/ Pause(b, t) \/ Resume(b, t) \/ PauseKeyless(b)
               \/ Disconnect(b, FALSE, t)
        PROVE  Still
    BY <2>1, <2>2 DEF CreateBinding, Pause, Resume, PauseKeyless, Disconnect, Still
  <2>3. ASSUME NEW s \in Sources, NEW reason \in Reasons, Withdraw(s, reason, t) PROVE Still
    BY <2>1, <2>3 DEF Withdraw, Still
  <2>4. ASSUME NEW n \in DOMAIN claims, LatestClaim(n), SettlementStep(n, t)
        PROVE  Still \/ ClaimSettled
    <3>1. CASE \E receipt \in Receipts : AcknowledgeAgain(n, receipt, t)
      BY <2>1, <3>1 DEF AcknowledgeAgain, Still
    <3>2. CASE \/ Reject(n, t) \/ \E delay \in Delays : Retry(n, t, delay)
               \/ \E receipt \in Receipts : Acknowledge(n, receipt, t)
      <4>1. \E fate \in {"RETRIED", "ACKNOWLEDGED", "REJECTED"} : Settle(n, fate)
        BY <3>2 DEF Reject, Retry, Acknowledge
      <4>. QED BY <2>1, <2>4, <4>1, Zenon DEF ClaimSettled
    <3>. QED BY <2>4, <3>1, <3>2, Zenon DEF SettlementStep
  <2>. QED BY <1>1, <2>2, <2>3, <2>4, Zenon DEF ParentStep
<1>2. ASSUME NEW t \in Times, MediaRestore(t) PROVE Still
  <2>1. MarkRestored(t) /\ UNCHANGED uploads
    BY <1>2 DEF MediaRestore
  <2>2. \A b \in Bindings : bindings[b] \in Binding
    BY DEF TypeOK
  <2>3. \A b \in Bindings : bindings[b].st # "NONE" => bindings'[b].st = "RESTORED"
    BY <2>1, <2>2 DEF MarkRestored, Binding
  <2>. QED BY <2>1, <2>3 DEF MarkRestored, Still
<1>3. ASSUME NEW t \in Times, NEW s \in Sources, MediaPublish(s, t) PROVE Still
  BY <1>3, Zenon DEF MediaPublish, Enqueue, Still
<1>4. ~Quiet => pass \in Bindings
  BY DEF Quiet, MediaTypeOK
<1>5. ASSUME NEW t \in Times, PassStep(t) PROVE Still \/ Claiming \/ Uploading
  <2>1. ASSUME NEW b \in Bindings, ReconcilePass(b, t) PROVE Still
    BY <2>1, Zenon DEF ReconcilePass, PruneTerminal, Still
  <2>2. ASSUME NEW s \in Sources, NEW lease \in Leases, PassClaims(s, t, lease)
        PROVE  Claiming
    BY <1>4, <2>2 DEF PassClaims, mediaVars
  <2>3. PassClaimsNothing(t) => Still
    BY Zenon DEF PassClaimsNothing, ClaimNothing, Still
  <2>. QED BY <1>5, <2>1, <2>2, <2>3, Zenon DEF PassStep
<1>6. ASSUME NEW t \in Times, NEW n \in DOMAIN uploads, UploadStep(n, t)
      PROVE  Still \/ UploadSettled
  <2>1. CASE MediaRevoked(n, t)
    BY <2>1 DEF MediaRevoked, PauseKeyless, mediaVars, Still
  <2>2. ASSUME NEW m, SettleUpload(n, t, m) PROVE UploadSettled
    BY <2>2, Zenon DEF SettleUpload, HoldsMedia, UploadSettled
  <2>. QED
    BY <1>6, <2>1, <2>2, Zenon
       DEF UploadStep, MediaRetry, AcknowledgeManifest, AcknowledgeContent, MediaReject
<1>7. UNCHANGED allVars => Still
  BY DEF allVars, vars, mediaVars, Still
<1>8. Still \/ ClaimSettled \/ UploadSettled \/ Claiming \/ Uploading
  BY <1>1, <1>2, <1>3, <1>5, <1>6, <1>7, Zenon DEF MediaNext
<1>9. Onward
  <2>1. CASE [Next]_vars
    BY <2>1, OutboxOnward
  <2>2. ASSUME NEW t \in Times, NEW n \in DOMAIN uploads, NEW m, SettleUpload(n, t, m)
        PROVE  Onward
    BY <2>2 DEF SettleUpload, Onward
  <2>3. ASSUME NEW t \in Times, NEW s \in Sources, NEW lease \in Leases,
               PassClaimsMedia(s, t, lease)
        PROVE  Onward
    BY <2>3, UploadClaimed, TouchForward, TimeAssumption DEF Forward, Onward
  <2>. QED BY <2>1, <2>2, <2>3, OutboxSteps
<1>. QED  BY <1>8, <1>9
-----------------------------------------------------------------------------
(* The requests beside each other *)

\* Request d is request c, or c settled.
Later(c, d) ==
  /\ d.source = c.source /\ d.at = c.at /\ d.until = c.until
  /\ c.fate # "OPEN" => d.fate # "OPEN"

\* Every request issued so far is carried over, settled or not.
Carried ==
  /\ \A n \in DOMAIN claims : n \in DOMAIN claims' /\ Later(claims[n], claims'[n])
  /\ \A n \in DOMAIN uploads : /\ n \in DOMAIN uploads' /\ Later(uploads[n], uploads'[n])
                               /\ uploads'[n].after = uploads[n].after

\* No request is issued.
NoneIssued ==
  /\ Len(claims') = Len(claims) /\ DOMAIN claims' = DOMAIN claims
  /\ Len(uploads') = Len(uploads) /\ DOMAIN uploads' = DOMAIN uploads

\* Settling a claim carries the requests over and issues none.
LEMMA SettledClaimCarries ==
  ASSUME TypeOK, MediaTypeOK, UNCHANGED uploads, NEW n \in DOMAIN claims,
         NEW fate \in {"RETRIED", "ACKNOWLEDGED", "REJECTED"}, Settle(n, fate)
  PROVE  Carried /\ NoneIssued /\ claims'[n].fate # "OPEN"
<1>1. claims \in Seq(Claim) /\ claims' = [claims EXCEPT ![n].fate = fate]
  BY DEF TypeOK, Settle
<1>2. DOMAIN claims' = DOMAIN claims /\ Len(claims') = Len(claims)
  BY <1>1
<1>3. \A m \in DOMAIN claims :
        claims'[m] = IF m = n THEN [claims[m] EXCEPT !.fate = fate] ELSE claims[m]
  BY <1>1
<1>4. \A c \in Claim : /\ Later(c, [c EXCEPT !.fate = fate])
                       /\ [c EXCEPT !.fate = fate].fate = fate
  BY DEF Claim, Later
<1>5. \A c : Later(c, c)
  BY DEF Later
<1>6. \A m \in DOMAIN claims : claims[m] \in Claim
  BY <1>1
<1>7. \A m \in DOMAIN claims : Later(claims[m], claims'[m])
  BY <1>3, <1>4, <1>5, <1>6
<1>8. claims'[n].fate # "OPEN"
  BY <1>3, <1>4, <1>6
<1>. QED  BY <1>2, <1>5, <1>7, <1>8 DEF Carried, NoneIssued

\* Settling an upload carries the requests over and issues none.
LEMMA SettledUploadCarries ==
  ASSUME TypeOK, MediaTypeOK, UNCHANGED claims, NEW n \in DOMAIN uploads,
         uploads' = [uploads EXCEPT ![n].fate = "SETTLED"]
  PROVE  /\ Carried /\ NoneIssued /\ uploads'[n].fate # "OPEN"
         /\ uploads' \in Seq(MediaClaim)
         /\ \A m \in DOMAIN uploads : uploads'[m].token = uploads[m].token
<1>1. uploads \in Seq(MediaClaim)
  BY DEF MediaTypeOK
<1>2. DOMAIN uploads' = DOMAIN uploads /\ Len(uploads') = Len(uploads)
  BY <1>1
<1>3. \A m \in DOMAIN uploads :
        uploads'[m] = IF m = n THEN [uploads[m] EXCEPT !.fate = "SETTLED"] ELSE uploads[m]
  BY <1>1
<1>4. \A u \in MediaClaim :
        /\ Later(u, [u EXCEPT !.fate = "SETTLED"]) /\ [u EXCEPT !.fate = "SETTLED"] \in MediaClaim
        /\ [u EXCEPT !.fate = "SETTLED"].fate = "SETTLED"
        /\ [u EXCEPT !.fate = "SETTLED"].after = u.after
        /\ [u EXCEPT !.fate = "SETTLED"].token = u.token
  BY DEF MediaClaim, Later
<1>5. \A c : Later(c, c)
  BY DEF Later
<1>6. \A m \in DOMAIN uploads : uploads[m] \in MediaClaim
  BY <1>1
<1>7. \A m \in DOMAIN uploads :
        /\ Later(uploads[m], uploads'[m]) /\ uploads'[m] \in MediaClaim
        /\ uploads'[m].after = uploads[m].after /\ uploads'[m].token = uploads[m].token
  BY <1>3, <1>4, <1>5, <1>6
<1>8. uploads'[n].fate # "OPEN"
  BY <1>3, <1>4, <1>6
<1>9. uploads' \in Seq(MediaClaim)
  BY <1>1, <1>2, <1>7
<1>. QED  BY <1>2, <1>5, <1>7, <1>8, <1>9 DEF Carried, NoneIssued

\* The claim a pass issues comes after all others.
LEMMA NextClaim ==
  ASSUME TypeOK, RowInv, MediaTypeOK, UNCHANGED uploads, pass \in Bindings,
         NEW s \in Sources, NEW t \in Times, NEW lease \in Leases, ClaimOne(pass, s, t, lease)
  PROVE  LET new == Len(claims) + 1 IN
         /\ Carried
         /\ Len(claims') = new /\ DOMAIN claims' = DOMAIN claims \cup {new}
         /\ claims'[new].source = s /\ claims'[new].at = t
         /\ capacity'.until = claims'[new].until
         /\ ~Reserved(t) /\ bindings'[BindingOf[s]].st # "NONE"
<1>. DEFINE new == Len(claims) + 1
<1>1. /\ Len(claims') = new /\ DOMAIN claims' = DOMAIN claims \cup {new}
      /\ \A n \in DOMAIN claims : claims'[n] = claims[n]
      /\ claims'[new].source = s /\ claims'[new].at = t
      /\ claims'[new].until = items'[s].until
      /\ capacity' = [token |-> new, until |-> items'[s].until]
  BY ClaimIssued
<1>. HIDE DEF new
<1>2. BindingOf[s] = pass
  BY ClaimedRow
<1>3. Current(pass, t) /\ Touch(pass, t) /\ ~Reserved(t)
  BY DEF ClaimOne
<1>4. bindings'[pass].st # "NONE"
  BY <1>3, TouchForward, TimeAssumption DEF Current
<1>5. capacity'.until = claims'[new].until
  BY <1>1
<1>6. Carried
  BY <1>1 DEF Carried, Later
<1>. QED  BY <1>1, <1>2, <1>3, <1>4, <1>5, <1>6 DEF new

\* The upload a pass issues comes after all others.
LEMMA NextUpload ==
  ASSUME TypeOK, MediaTypeOK, NEW s \in Sources, NEW t \in Times, NEW lease \in Leases,
         PassClaimsMedia(s, t, lease)
  PROVE  LET new == Len(uploads) + 1 IN
         /\ Carried /\ UNCHANGED claims
         /\ uploads' \in Seq(MediaClaim)
         /\ Len(uploads') = new /\ DOMAIN uploads' = DOMAIN uploads \cup {new}
         /\ \A n \in DOMAIN uploads : uploads'[n] = uploads[n]
         /\ uploads'[new].source = s /\ uploads'[new].at = t
         /\ uploads'[new].after = Len(claims) /\ uploads'[new].token = MaxClaims + new
         /\ capacity'.until = uploads'[new].until
         /\ ~Reserved(t) /\ bindings'[BindingOf[s]].st # "NONE"
<1>. DEFINE until == Smaller(t + lease, Deadline[s])
            u == [source |-> s, token |-> MediaToken, gen |-> bindings[pass].gen, at |-> t,
                  until |-> until, after |-> Len(claims), fate |-> "OPEN"]
<1>1. uploads' = Append(uploads, u) /\ capacity' = [token |-> MediaToken, until |-> until]
  BY Zenon DEF PassClaimsMedia
<1>2. /\ pass \in Bindings /\ BindingOf[s] = pass /\ Current(pass, t) /\ Touch(pass, t)
      /\ UNCHANGED claims /\ until \in Nat /\ MediaToken \in Nat /\ ~Reserved(t)
  BY UploadClaimed
<1>3. bindings'[pass].st # "NONE"
  BY <1>2, TouchForward, TimeAssumption DEF Current
<1>4. bindings[pass].gen \in Nat /\ Len(claims) \in Nat /\ t \in Nat
  BY <1>2, TimeAssumption DEF TypeOK, Binding
<1>5. MediaToken = MaxClaims + (Len(uploads) + 1) /\ uploads \in Seq(MediaClaim)
  BY BoundAssumption DEF MediaToken, MediaTypeOK
<1>. HIDE DEF until
<1>6. u \in MediaClaim
  BY <1>2, <1>4 DEF MediaClaim
<1>7. /\ u.source = s /\ u.at = t /\ u.after = Len(claims) /\ u.token = MediaToken
      /\ u.until = until
  OBVIOUS
<1>. HIDE DEF u
<1>8. /\ Len(uploads') = Len(uploads) + 1 /\ uploads'[Len(uploads) + 1] = u
      /\ DOMAIN uploads' = 1..(Len(uploads) + 1)
      /\ \A n \in 1..Len(uploads) : uploads'[n] = uploads[n]
      /\ DOMAIN uploads = 1..Len(uploads) /\ uploads' \in Seq(MediaClaim)
  BY <1>1, <1>5, <1>6
<1>9. DOMAIN uploads' = DOMAIN uploads \cup {Len(uploads) + 1}
  BY <1>5, <1>8
<1>10. Carried
  BY <1>2, <1>8, <1>9 DEF Carried, Later
<1>. QED  BY <1>1, <1>2, <1>3, <1>5, <1>7, <1>8, <1>9, <1>10

\* Every step keeps the types of the media queue, its rows in order, and what was
\* sent covered.
LEMMA MediaInvStep ==
  ASSUME TypeOK, RowInv, MediaTypeOK, MediaRowsOK, MediaCoveredByParent, [MediaNext]_allVars
  PROVE  MediaTypeOK' /\ MediaRowsOK' /\ MediaCoveredByParent'
<1>1. /\ pass' \in Bindings \cup {None} /\ \E f : media' = [s \in Sources |-> f[s]]
      /\ \A s \in Sources : MediaOK(media'[s]) /\ Covers(media'[s], items'[s])
  BY MediaSteps
<1>2. uploads' \in Seq(MediaClaim) /\ \A n \in DOMAIN uploads' : uploads'[n].token = MaxClaims + n
  <2>1. CASE UNCHANGED uploads
    BY <2>1 DEF MediaTypeOK
  <2>2. CASE UploadSettled
    <3>1. PICK n \in DOMAIN uploads : uploads' = [uploads EXCEPT ![n].fate = "SETTLED"]
      BY <2>2 DEF UploadSettled
    <3>2. UNCHANGED claims
      BY <2>2 DEF UploadSettled
    <3>3. /\ uploads' \in Seq(MediaClaim) /\ DOMAIN uploads' = DOMAIN uploads
          /\ \A m \in DOMAIN uploads : uploads'[m].token = uploads[m].token
      BY <3>1, <3>2, SettledUploadCarries DEF NoneIssued
    <3>. QED BY <3>3 DEF MediaTypeOK
  <2>3. ASSUME NEW s \in Sources, NEW t \in Times, NEW lease \in Leases,
               PassClaimsMedia(s, t, lease)
        PROVE  /\ uploads' \in Seq(MediaClaim)
               /\ \A n \in DOMAIN uploads' : uploads'[n].token = MaxClaims + n
    BY <2>3, NextUpload DEF MediaTypeOK
  <2>. QED BY <2>1, <2>2, <2>3, RequestSteps DEF Still, ClaimSettled
<1>3. media' \in [Sources -> MediaItem]
  BY <1>1 DEF MediaOK
<1>. QED  BY <1>1, <1>2, <1>3 DEF MediaTypeOK, MediaRowsOK, MediaCoveredByParent, MediaOK, Covers

\* What was over stays over: nothing reopens a request, and bindings go onward.
LEMMA OverStays ==
  ASSUME Onward, NEW c, NEW d, Later(c, d), BindingOf[c.source] \in Bindings, NEW t, Over(c, t)
  PROVE  d.fate # "OPEN" \/ d.until <= t \/ bindings'[BindingOf[d.source]].st = "RESTORED"
BY DEF Over, Later, Onward

\* A request the reservation spoke for is over once the reservation has lapsed.
LEMMA SpokenIsOver ==
  ASSUME TypeOK, NEW c, c.until \in Nat, Spoken(c), NEW t \in Nat, ~Reserved(t)
  PROVE  Over(c, t)
<1>1. capacity.until \in NatOrNone
  BY DEF TypeOK, Capacity
<1>2. capacity.until \in Int
  BY <1>1 DEF NatOrNone, None
<1>. QED  BY <1>2 DEF Spoken, Over, Reserved

\* Requests are issued under a binding, and uploads after claims, by every step.
LEMMA IssuedStep ==
  ASSUME TypeOK, RowInv, MediaTypeOK, Issued, [MediaNext]_allVars
  PROVE  Issued'
<1>1. /\ \A n \in DOMAIN claims : BindingOf[claims[n].source] \in Bindings
      /\ \A n \in DOMAIN uploads : BindingOf[uploads[n].source] \in Bindings
                                   /\ uploads[n].after \in Nat
      /\ Onward /\ Len(claims) \in Nat
  BY ClaimTypes, UploadTypes, RequestSteps DEF TypeOK
<1>2. ASSUME Carried, Len(claims') >= Len(claims)
      PROVE  /\ \A n \in DOMAIN claims : bindings'[BindingOf[claims'[n].source]].st # "NONE"
             /\ \A n \in DOMAIN uploads : /\ bindings'[BindingOf[uploads'[n].source]].st # "NONE"
                                          /\ uploads'[n].after <= Len(claims')
  <2>1. /\ \A n \in DOMAIN claims : claims'[n].source = claims[n].source
        /\ \A n \in DOMAIN uploads : /\ uploads'[n].source = uploads[n].source
                                     /\ uploads'[n].after = uploads[n].after
    BY <1>2 DEF Carried, Later
  <2>2. Len(claims') \in Nat
    BY ParentSteps DEF TypeOK
  <2>3. \A n \in DOMAIN uploads : uploads[n].after <= Len(claims')
    BY <1>1, <1>2, <2>2 DEF Issued
  <2>. QED BY <1>1, <2>1, <2>3 DEF Onward, Issued
<1>3. ASSUME Carried, NoneIssued PROVE Issued'
  <2>1. Len(claims') >= Len(claims)
    BY <1>1, <1>3 DEF NoneIssued
  <2>. QED BY <1>2, <1>3, <2>1 DEF NoneIssued, Issued
<1>4. CASE Still
  <2>1. Carried /\ NoneIssued
    BY <1>4 DEF Still, Carried, NoneIssued, Later
  <2>. QED BY <1>3, <2>1
<1>5. CASE ClaimSettled
  BY <1>3, <1>5, SettledClaimCarries DEF ClaimSettled
<1>6. CASE UploadSettled
  BY <1>3, <1>6, SettledUploadCarries DEF UploadSettled
<1>7. ASSUME UNCHANGED uploads, pass \in Bindings,
             NEW s \in Sources, NEW t \in Times, NEW lease \in Leases, ClaimOne(pass, s, t, lease)
      PROVE  Issued'
  <2>. DEFINE new == Len(claims) + 1
  <2>1. /\ Carried /\ Len(claims') = new /\ DOMAIN claims' = DOMAIN claims \cup {new}
        /\ claims'[new].source = s /\ bindings'[BindingOf[s]].st # "NONE"
    BY <1>7, NextClaim
  <2>2. Len(claims') >= Len(claims)
    BY <1>1, <2>1
  <2>. HIDE DEF new
  <2>. QED BY <1>2, <1>7, <2>1, <2>2 DEF Issued
<1>8. ASSUME NEW s \in Sources, NEW t \in Times, NEW lease \in Leases, PassClaimsMedia(s, t, lease)
      PROVE  Issued'
  <2>. DEFINE new == Len(uploads) + 1
  <2>1. /\ Carried /\ UNCHANGED claims /\ DOMAIN uploads' = DOMAIN uploads \cup {new}
        /\ uploads'[new].source = s /\ uploads'[new].after = Len(claims)
        /\ bindings'[BindingOf[s]].st # "NONE"
    BY <1>8, NextUpload
  <2>2. Len(claims') >= Len(claims)
    BY <1>1, <2>1
  <2>. HIDE DEF new
  <2>. QED BY <1>1, <1>2, <2>1, <2>2 DEF Issued
<1>. QED  BY <1>4, <1>5, <1>6, <1>7, <1>8, RequestSteps

\* After every step the reservation speaks for the last request.
LEMMA SpokenStep ==
  ASSUME TypeOK, RowInv, MediaTypeOK, Issued, LastIsSpoken, [MediaNext]_allVars
  PROVE  LastIsSpoken'
<1>1. /\ \A n \in DOMAIN claims : BindingOf[claims[n].source] \in Bindings
      /\ \A n \in DOMAIN uploads : BindingOf[uploads[n].source] \in Bindings
                                   /\ uploads[n].after \in Nat
      /\ Onward /\ Len(claims) \in Nat /\ Len(uploads) \in Nat
      /\ DOMAIN claims = 1..Len(claims) /\ DOMAIN uploads = 1..Len(uploads)
  BY ClaimTypes, UploadTypes, RequestSteps DEF TypeOK
<1>2. CASE Still
  <2>1. UNCHANGED <<claims, uploads>>
    BY <1>2 DEF Still
  <2>2. CASE UNCHANGED capacity
    BY <1>1, <2>1, <2>2 DEF LastIsSpoken, LatestUpload, LatestClaim, Spoken, Onward
  <2>3. CASE \A b \in Bindings : bindings[b].st # "NONE" => bindings'[b].st = "RESTORED"
    <3>1. /\ \A n \in DOMAIN claims : bindings'[BindingOf[claims[n].source]].st = "RESTORED"
          /\ \A n \in DOMAIN uploads : bindings'[BindingOf[uploads[n].source]].st = "RESTORED"
      BY <1>1, <2>3 DEF Issued
    <3>. QED BY <2>1, <3>1 DEF LastIsSpoken, Spoken
  <2>. QED BY <1>2, <2>2, <2>3 DEF Still
<1>3. CASE ClaimSettled
  <2>1. PICK n \in DOMAIN claims : /\ LatestClaim(n) /\ UNCHANGED uploads /\ NoneIssued
                                   /\ claims'[n].fate # "OPEN"
    BY <1>3, SettledClaimCarries DEF ClaimSettled
  <2>2. n = Len(claims) /\ \A u \in DOMAIN uploads : uploads[u].after < n
    BY <2>1 DEF LatestClaim
  <2>3. \A u \in DOMAIN uploads' : ~LatestUpload(u)'
    BY <1>1, <2>1, <2>2 DEF LatestUpload, NoneIssued
  <2>4. \A k \in DOMAIN claims' : LatestClaim(k)' => k = n
    BY <2>1, <2>2 DEF LatestClaim, NoneIssued
  <2>. QED BY <2>1, <2>3, <2>4 DEF LastIsSpoken, Spoken
<1>4. CASE UploadSettled
  <2>1. PICK n \in DOMAIN uploads : /\ LatestUpload(n) /\ UNCHANGED claims /\ Carried
                                    /\ NoneIssued /\ uploads'[n].fate # "OPEN"
    BY <1>4, SettledUploadCarries DEF UploadSettled
  <2>2. n = Len(uploads) /\ uploads[n].after = Len(claims)
    BY <2>1 DEF LatestUpload
  <2>3. n \in DOMAIN uploads' /\ uploads'[n].after = Len(claims)
    BY <2>1, <2>2 DEF Carried
  <2>4. \A k \in DOMAIN claims' : ~LatestClaim(k)'
    BY <1>1, <2>1, <2>3 DEF LatestClaim
  <2>5. \A u \in DOMAIN uploads' : LatestUpload(u)' => u = n
    BY <2>1, <2>2 DEF LatestUpload, NoneIssued
  <2>. QED BY <2>1, <2>4, <2>5 DEF LastIsSpoken, Spoken
<1>5. ASSUME UNCHANGED uploads, pass \in Bindings,
             NEW s \in Sources, NEW t \in Times, NEW lease \in Leases, ClaimOne(pass, s, t, lease)
      PROVE  LastIsSpoken'
  <2>. DEFINE new == Len(claims) + 1
  <2>1. Len(claims') = new /\ capacity'.until = claims'[new].until
    BY <1>5, NextClaim
  <2>2. \A u \in DOMAIN uploads : uploads[u].after < new
    BY <1>1 DEF Issued
  <2>3. \A u \in DOMAIN uploads' : ~LatestUpload(u)'
    BY <1>1, <1>5, <2>1, <2>2 DEF LatestUpload
  <2>4. \A k \in DOMAIN claims' : LatestClaim(k)' => k = new
    BY <2>1 DEF LatestClaim
  <2>. HIDE DEF new
  <2>. QED BY <2>1, <2>3, <2>4 DEF LastIsSpoken, Spoken
<1>6. ASSUME NEW s \in Sources, NEW t \in Times, NEW lease \in Leases, PassClaimsMedia(s, t, lease)
      PROVE  LastIsSpoken'
  <2>. DEFINE new == Len(uploads) + 1
  <2>1. /\ UNCHANGED claims /\ Len(uploads') = new /\ new \in DOMAIN uploads'
        /\ uploads'[new].after = Len(claims) /\ capacity'.until = uploads'[new].until
    BY <1>6, NextUpload
  <2>2. \A u \in DOMAIN uploads' : LatestUpload(u)' => u = new
    BY <2>1 DEF LatestUpload
  <2>. HIDE DEF new
  <2>3. \A k \in DOMAIN claims' : ~LatestClaim(k)'
    BY <1>1, <2>1 DEF LatestClaim
  <2>. QED BY <2>1, <2>2, <2>3 DEF LastIsSpoken, Spoken
<1>. QED  BY <1>2, <1>3, <1>4, <1>5, <1>6, RequestSteps

\* No step issues a request that overlaps the one before it.
LEMMA OverlapStep ==
  ASSUME TypeOK, RowInv, MediaTypeOK, Issued, LastIsSpoken, RequestsNeverOverlap,
         [MediaNext]_allVars
  PROVE  RequestsNeverOverlap'
<1>. DEFINE OverNext(d, t) == \/ d.fate # "OPEN" \/ d.until <= t
                              \/ bindings'[BindingOf[d.source]].st = "RESTORED"
<1>1. /\ \A n \in DOMAIN claims : BindingOf[claims[n].source] \in Bindings
                                  /\ claims[n].until \in Nat
      /\ \A n \in DOMAIN uploads : BindingOf[uploads[n].source] \in Bindings
                                   /\ uploads[n].after \in Nat /\ uploads[n].until \in Nat
      /\ Onward /\ Len(claims) \in Nat /\ Len(uploads) \in Nat
      /\ DOMAIN claims = 1..Len(claims) /\ DOMAIN uploads = 1..Len(uploads)
  BY ClaimTypes, UploadTypes, RequestSteps DEF TypeOK, Claim
\* The three kinds of neighbours, after the step.
<1>. DEFINE Uploads(n) == n > 1 /\ uploads'[n - 1].after = uploads'[n].after
                            => OverNext(uploads'[n - 1], uploads'[n].at)
            Claiming(n, k) ==
              /\ k = uploads'[n].after + 1
              /\ \A m \in DOMAIN uploads' : m > n => uploads'[m].after >= k
              => OverNext(uploads'[n], claims'[k].at)
            Uploading(n, k) ==
              /\ k = uploads'[n].after
              /\ \A m \in DOMAIN uploads' : m < n => uploads'[m].after < k
              => OverNext(claims'[k], uploads'[n].at)
<1>2. ASSUME Carried
      PROVE  /\ \A n \in DOMAIN uploads : Uploads(n)
             /\ \A n \in DOMAIN uploads, k \in DOMAIN claims : Claiming(n, k) /\ Uploading(n, k)
  <2>1. /\ \A n \in DOMAIN claims : Later(claims[n], claims'[n]) /\ claims'[n].at = claims[n].at
        /\ \A n \in DOMAIN uploads : /\ n \in DOMAIN uploads' /\ Later(uploads[n], uploads'[n])
                                     /\ uploads'[n].at = uploads[n].at
                                     /\ uploads'[n].after = uploads[n].after
    BY <1>2 DEF Carried, Later
  <2>2. \A n \in DOMAIN claims : \A t : Over(claims[n], t) => OverNext(claims'[n], t)
    BY <1>1, <2>1, OverStays
  <2>3. \A n \in DOMAIN uploads : \A t : Over(uploads[n], t) => OverNext(uploads'[n], t)
    BY <1>1, <2>1, OverStays
  <2>. HIDE DEF OverNext
  <2>4. ASSUME NEW n \in DOMAIN uploads PROVE Uploads(n)
    <3>1. n > 1 => n - 1 \in DOMAIN uploads
      BY <1>1
    <3>. QED BY <2>1, <2>3, <3>1 DEF RequestsNeverOverlap
  <2>5. ASSUME NEW n \in DOMAIN uploads, NEW k \in DOMAIN claims
        PROVE  Claiming(n, k) /\ Uploading(n, k)
    <3>1. Claiming(n, k)
      BY <2>1, <2>3 DEF RequestsNeverOverlap
    <3>2. Uploading(n, k)
      BY <2>1, <2>2 DEF RequestsNeverOverlap
    <3>. QED BY <3>1, <3>2
  <2>. QED BY <2>4, <2>5
<1>3. ASSUME \A n \in DOMAIN uploads' : Uploads(n),
             \A n \in DOMAIN uploads', k \in DOMAIN claims' : Claiming(n, k) /\ Uploading(n, k)
      PROVE  RequestsNeverOverlap'
  BY <1>3 DEF RequestsNeverOverlap, Over
<1>. HIDE DEF Uploads, Claiming, Uploading
<1>4. ASSUME Carried, NoneIssued PROVE RequestsNeverOverlap'
  BY <1>2, <1>3, <1>4 DEF NoneIssued
<1>5. CASE Still
  <2>1. Carried /\ NoneIssued
    BY <1>5 DEF Still, Carried, NoneIssued, Later
  <2>. QED BY <1>4, <2>1
<1>6. CASE ClaimSettled
  BY <1>4, <1>6, SettledClaimCarries DEF ClaimSettled
<1>7. CASE UploadSettled
  BY <1>4, <1>7, SettledUploadCarries DEF UploadSettled
<1>8. ASSUME UNCHANGED uploads, pass \in Bindings,
             NEW s \in Sources, NEW t \in Times, NEW lease \in Leases, ClaimOne(pass, s, t, lease)
      PROVE  RequestsNeverOverlap'
  <2>. DEFINE new == Len(claims) + 1
  <2>1. /\ Carried /\ DOMAIN claims' = DOMAIN claims \cup {new}
        /\ claims'[new].at = t /\ ~Reserved(t) /\ t \in Nat
    BY <1>8, NextClaim, TimeAssumption
  <2>2. ASSUME NEW n \in DOMAIN uploads PROVE Claiming(n, new)
    <3>. SUFFICES ASSUME new = uploads[n].after + 1,
                         \A m \in DOMAIN uploads : m > n => uploads[m].after >= new
                  PROVE  OverNext(uploads'[n], t)
      BY <1>8, <2>1 DEF Claiming
    <3>1. Len(uploads) \in DOMAIN uploads /\ Len(uploads) >= n
      BY <1>1
    <3>2. uploads[Len(uploads)].after <= Len(claims)
      BY <3>1 DEF Issued
    <3>3. n = Len(uploads) /\ uploads[n].after = Len(claims)
      BY <1>1, <3>1, <3>2
    <3>4. Spoken(uploads[n])
      BY <3>3 DEF LastIsSpoken, LatestUpload
    <3>5. Over(uploads[n], t)
      BY <1>1, <2>1, <3>4, SpokenIsOver
    <3>6. Later(uploads[n], uploads'[n])
      BY <2>1 DEF Carried
    <3>. QED BY <1>1, <3>5, <3>6, OverStays
  <2>3. ASSUME NEW n \in DOMAIN uploads PROVE Uploading(n, new)
    <3>1. uploads[n].after <= Len(claims)
      BY DEF Issued
    <3>. QED BY <1>1, <1>8, <3>1 DEF Uploading
  <2>. HIDE DEF new
  <2>. QED BY <1>2, <1>3, <1>8, <2>1, <2>2, <2>3
<1>9. ASSUME NEW s \in Sources, NEW t \in Times, NEW lease \in Leases, PassClaimsMedia(s, t, lease)
      PROVE  RequestsNeverOverlap'
  <2>. DEFINE new == Len(uploads) + 1
  <2>1. /\ Carried /\ UNCHANGED claims /\ DOMAIN uploads' = DOMAIN uploads \cup {new}
        /\ uploads'[new].at = t /\ uploads'[new].after = Len(claims)
        /\ \A n \in DOMAIN uploads : uploads'[n] = uploads[n]
        /\ ~Reserved(t) /\ t \in Nat
    BY <1>9, NextUpload, TimeAssumption
  <2>2. Uploads(new)
    <3>. SUFFICES ASSUME new > 1, uploads'[new - 1].after = Len(claims)
                  PROVE  OverNext(uploads'[new - 1], t)
      BY <2>1 DEF Uploads
    <3>1. new - 1 = Len(uploads) /\ Len(uploads) \in DOMAIN uploads
      BY <1>1
    <3>2. uploads'[Len(uploads)] = uploads[Len(uploads)]
      BY <2>1, <3>1
    <3>3. LatestUpload(Len(uploads))
      BY <3>1, <3>2 DEF LatestUpload
    <3>4. Over(uploads[Len(uploads)], t)
      BY <1>1, <2>1, <3>1, <3>3, SpokenIsOver DEF LastIsSpoken
    <3>5. Later(uploads[Len(uploads)], uploads[Len(uploads)])
      BY DEF Later
    <3>. HIDE DEF new
    <3>. QED BY <1>1, <3>1, <3>2, <3>4, <3>5, OverStays
  <2>3. ASSUME NEW k \in DOMAIN claims PROVE Claiming(new, k)
    <3>1. k # Len(claims) + 1
      BY <1>1
    <3>. QED BY <2>1, <3>1 DEF Claiming
  <2>4. ASSUME NEW k \in DOMAIN claims PROVE Uploading(new, k)
    <3>. SUFFICES ASSUME k = Len(claims),
                         \A m \in DOMAIN uploads : m < new => uploads'[m].after < k
                  PROVE  OverNext(claims'[k], t)
      BY <2>1 DEF Uploading
    <3>1. \A m \in DOMAIN uploads : uploads[m].after < k
      BY <1>1, <2>1
    <3>2. LatestClaim(k)
      BY <3>1 DEF LatestClaim
    <3>3. Over(claims[k], t)
      BY <1>1, <2>1, <3>2, SpokenIsOver DEF LastIsSpoken
    <3>4. claims'[k] = claims[k] /\ Later(claims[k], claims[k])
      BY <2>1 DEF Later
    <3>. QED BY <1>1, <3>3, <3>4, OverStays
  <2>. HIDE DEF new
  <2>. QED BY <1>2, <1>3, <2>1, <2>2, <2>3, <2>4
<1>. QED  BY <1>5, <1>6, <1>7, <1>8, <1>9, RequestSteps

-----------------------------------------------------------------------------
(* Theorems *)

\* The invariant holds of the empty queues.
LEMMA MediaInitInv == MediaInit => MediaIInv
<1>. SUFFICES ASSUME MediaInit PROVE MediaIInv
  OBVIOUS
<1>1. TypeOK /\ RowInv
  BY InitInv DEF MediaInit, IInv
<1>2. /\ uploads = <<>> /\ DOMAIN uploads = {} /\ claims = <<>> /\ DOMAIN claims = {}
      /\ \A s \in Sources : media[s] = NoMedia
      /\ pass = None
  BY DEF MediaInit, Init
<1>3. MediaTypeOK /\ MediaRowsOK /\ MediaCoveredByParent
  <2>1. MediaOK(NoMedia) /\ NoMedia.ever = FALSE /\ NoMedia.st = "NONE"
    BY NoMediaOK DEF NoMedia
  <2>2. media \in [Sources -> MediaItem]
    BY <2>1 DEF MediaInit, MediaOK
  <2>3. uploads \in Seq(MediaClaim)
    BY <1>2
  <2>. QED BY <1>2, <2>1, <2>2, <2>3
           DEF MediaTypeOK, MediaRowsOK, MediaCoveredByParent, MediaOK
<1>. QED  BY <1>1, <1>2, <1>3 DEF MediaIInv, Issued, LastIsSpoken, RequestsNeverOverlap

\* Every step keeps it.
LEMMA MediaStep ==
  ASSUME MediaIInv, [MediaNext]_allVars
  PROVE  MediaIInv'
<1>1. /\ TypeOK /\ RowInv /\ MediaTypeOK /\ MediaRowsOK /\ MediaCoveredByParent
      /\ Issued /\ LastIsSpoken /\ RequestsNeverOverlap
  BY DEF MediaIInv
<1>2. TypeOK' /\ RowInv'
  BY <1>1, ParentSteps
<1>3. MediaTypeOK' /\ MediaRowsOK' /\ MediaCoveredByParent'
  BY <1>1, MediaInvStep
<1>4. Issued' /\ LastIsSpoken'
  BY <1>1, IssuedStep, SpokenStep
<1>. QED  BY <1>1, <1>2, <1>3, <1>4, OverlapStep DEF MediaIInv

\* The inductive invariant: what a media row says beside its parent, and the one
\* reservation that speaks for the last request of either queue.
THEOREM MediaInvariant == MediaSpec => []MediaIInv
BY MediaInitInv, MediaStep, PTL DEF MediaSpec

\* A picture is sent only of an acknowledged observation, and stays covered by its
\* row until that row's withdrawal: through the mirror of _sync_parent, lapsed
\* leases, restores, and both queues' pruning.
THEOREM PicturesAreCovered == MediaSpec => []MediaInv
<1>1. MediaIInv => MediaInv
  BY DEF MediaIInv, MediaInv
<1>. QED  BY MediaInvariant, <1>1, PTL

\* Each request of either queue is over when the next is issued.
THEOREM RequestsAreExclusive == MediaSpec => []RequestsNeverOverlap
<1>1. MediaIInv => RequestsNeverOverlap
  BY DEF MediaIInv
<1>. QED  BY MediaInvariant, <1>1, PTL
=============================================================================
