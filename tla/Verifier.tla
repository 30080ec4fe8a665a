------------------------------ MODULE Verifier ------------------------------
(***************************************************************************)
(* External reviews of interactions (src/services/api/xai_verifier.py).    *)
(* A manager's request reserves a dollar of the installation's budget and  *)
(* a row REQUESTING in one transaction, commits it, and only then reads    *)
(* the frames and calls the provider; the answer is judged against the     *)
(* interaction as it is now, which is read outside a transaction, and      *)
(* written in another.  The process may stop between any two of these.     *)
(* Whoever looks at the settings closes rows REQUESTING for two minutes:   *)
(* the provider's deadline is per read, so such a row's request may still  *)
(* be alive.  The refusals that come before the reservation change nothing *)
(* and are the guards of Reserve.                                          *)
(***************************************************************************)
EXTENDS Integers, FiniteSets

CONSTANTS
  Trials,        \* completed interactions on recorded video
  Reviews,       \* xai_verification rows
  RetryNames,    \* idempotency keys, each with the manager who uses it
  Cap,           \* HARD_TEST_CAP_USD_CENTS over REQUEST_RESERVATION_USD_CENTS
  Threshold,     \* failures that open the circuit
  MaxEdits,      \* bound: versions of one interaction
  TriedAnswers   \* bound: the answers a provider is tried with

ProductTransitions == {"TAKE_PRODUCT", "RETURN_PRODUCT", "PLACE_IN_BASKET", "POSSIBLE_CONCEALMENT"}
Answers == [action : ProductTransitions \cup {"NORMAL_SHOPPING", "UNCLEAR"},
            visibility : {"ADEQUATE", "PARTIAL", "INADEQUATE"},
            seen : BOOLEAN,     \* person, transition and sequence
            cites : 0 .. 2]

ASSUME VerifierAssumption ==
  {Cap, Threshold, MaxEdits} \subseteq Nat /\ Threshold > 0 /\ TriedAnswers \subseteq Answers

VARIABLES
  enabled,   \* of the branch's settings: enabled and approved in all five ways
  usage,     \* request_count of the ledger
  trials,    \* the interactions: their version, 0 when deleted
  expired,   \* those whose expires_at has come, which is their reviews' too
  reviews,   \* the rows
  receipts,  \* idempotency: <<key, interaction>> with the version it named
  request,   \* where the request behind a review is, its answer, and
             \* (history) the interaction's version when the answer came
  breaker,   \* [failures, open, cooled]
  sent       \* history: how often a review was posted to the provider

verifierVars == <<enabled, usage, trials, expired, reviews, receipts, request, breaker, sent>>

NoAnswer == [action |-> "UNCLEAR", visibility |-> "INADEQUATE", seen |-> FALSE, cites |-> 0]

NoReview == [st |-> "NONE", trial |-> CHOOSE i \in Trials : TRUE, version |-> 0,
             comparison |-> "NONE", cites |-> 0]
Idle0 == [at |-> "NONE", answer |-> NoAnswer, found |-> 0]

VerifierInit ==
  /\ enabled = FALSE
  /\ usage = 0
  /\ trials = [i \in Trials |-> 1]
  /\ expired = {}
  /\ reviews = [v \in Reviews |-> NoReview]
  /\ receipts = [r \in RetryNames \X Trials |-> 0]
  /\ request = [v \in Reviews |-> Idle0]
  /\ breaker = [failures |-> 0, open |-> FALSE, cooled |-> FALSE]
  /\ sent = [v \in Reviews |-> 0]

-----------------------------------------------------------------------------
(* Judging an answer *)

\* coherent_verdict with the index check of verify
Coherent(a) ==
  /\ a.action \in ProductTransitions => a.visibility = "ADEQUATE" /\ a.seen /\ a.cites >= 2
  /\ a.visibility = "INADEQUATE" => a.action = "UNCLEAR"

\* compare_blind_result
Compare(local, a) ==
  IF a.visibility # "ADEQUATE" \/ ~a.seen \/ a.action = "UNCLEAR" THEN "INCONCLUSIVE"
  ELSE IF a.action = local THEN "SUPPORTS"
  ELSE IF /\ local = "POSSIBLE_CONCEALMENT"
          /\ a.action \in {"RETURN_PRODUCT", "PLACE_IN_BASKET", "NORMAL_SHOPPING"}
       THEN "CONTRADICTS" ELSE "INCONCLUSIVE"

LocalAction == "POSSIBLE_CONCEALMENT"

-----------------------------------------------------------------------------
(* The breaker; its clock is `cooled' *)

AfterFailure(b) ==
  [failures |-> IF b.failures < Threshold THEN b.failures + 1 ELSE b.failures,
   open |-> b.open \/ b.failures + 1 >= Threshold,
   cooled |-> b.cooled /\ b.failures + 1 < Threshold]
AfterSuccess == [failures |-> 0, open |-> FALSE, cooled |-> FALSE]

CoolDown ==
  /\ breaker.open /\ ~breaker.cooled
  /\ breaker' = [breaker EXCEPT !.cooled = TRUE]
  /\ UNCHANGED <<enabled, usage, trials, expired, reviews, receipts, request, sent>>

-----------------------------------------------------------------------------
(* Settings and the life of interactions *)

Configure ==
  /\ enabled' = ~enabled
  /\ UNCHANGED <<usage, trials, expired, reviews, receipts, request, breaker, sent>>

TrialChanges(i) ==
  /\ trials[i] \in 1 .. MaxEdits - 1
  /\ trials' = [trials EXCEPT ![i] = trials[i] + 1]
  /\ UNCHANGED <<enabled, usage, expired, reviews, receipts, request, breaker, sent>>

Expires(i) ==
  /\ i \notin expired
  /\ expired' = expired \cup {i}
  /\ UNCHANGED <<enabled, usage, trials, reviews, receipts, request, breaker, sent>>

\* Deleted at any time, or swept after its expiry: its reviews stay
\* until their own time comes
TrialGone(i) ==
  /\ trials[i] > 0
  /\ trials' = [trials EXCEPT ![i] = 0]
  /\ UNCHANGED <<enabled, usage, expired, reviews, receipts, request, breaker, sent>>

-----------------------------------------------------------------------------
(* A review *)

\* A key that was answered for an interaction only replays its review.
Unanswered(key, i) == receipts[<<key, i>>] = 0

\* verify, up to its commit; reserve_global_usage
Reserve(v, key, i) ==
  /\ enabled
  /\ trials[i] > 0 /\ i \notin expired /\ Unanswered(key, i)
  /\ usage < Cap
  /\ reviews[v].st = "NONE" /\ request[v].at = "NONE" /\ sent[v] = 0
  /\ usage' = usage + 1
  /\ reviews' = [reviews EXCEPT ![v] =
       [NoReview EXCEPT !.st = "REQUESTING", !.trial = i, !.version = trials[i]]]
  /\ receipts' = [receipts EXCEPT ![<<key, i>>] = trials[i]]
  /\ request' = [request EXCEPT ![v].at = "READING"]
  /\ UNCHANGED <<enabled, trials, expired, breaker, sent>>

Fails(v) ==
  /\ reviews' = [reviews EXCEPT ![v].st = "FAILED"]
  /\ request' = [request EXCEPT ![v] = Idle0]
  /\ UNCHANGED <<enabled, usage, trials, expired, receipts, sent>>

\* A frame cannot be opened, minimised or redacted, or the credential is not
\* there.
EvidenceUnavailable(v) ==
  request[v].at \in {"READING", "ALLOWED"} /\ Fails(v) /\ UNCHANGED breaker

\* read_frame's EvidenceError is none of the errors verify catches: the
\* request ends and the row stays as it was committed.
FrameRefused(v) ==
  /\ request[v].at = "READING"
  /\ request' = [request EXCEPT ![v] = Idle0]
  /\ UNCHANGED <<enabled, usage, trials, expired, reviews, receipts, breaker, sent>>

\* allow: closed, or open for a minute and tried again
Allow(v) ==
  /\ request[v].at = "READING"
  /\ \/ /\ ~breaker.open \/ breaker.cooled
        /\ breaker' = IF breaker.open THEN AfterSuccess ELSE breaker
        /\ request' = [request EXCEPT ![v].at = "ALLOWED"]
        /\ UNCHANGED <<enabled, usage, trials, expired, reviews, receipts, sent>>
     \/ breaker.open /\ ~breaker.cooled /\ Fails(v) /\ UNCHANGED breaker

\* The model is there: one post, never a second.
Post(v) ==
  /\ request[v].at = "ALLOWED"
  /\ request' = [request EXCEPT ![v].at = "SENT"]
  /\ sent' = [sent EXCEPT ![v] = sent[v] + 1]
  /\ UNCHANGED <<enabled, usage, trials, expired, reviews, receipts, breaker>>

\* The model is not there, a timeout, a refusal, an answer that is not one.
ProviderFails(v) ==
  /\ request[v].at \in {"ALLOWED", "SENT"}
  /\ breaker' = AfterFailure(breaker)
  /\ Fails(v)

ProviderAnswers(v, a) ==
  /\ request[v].at = "SENT" /\ Coherent(a)
  /\ breaker' = AfterSuccess
  /\ request' = [request EXCEPT ![v] =
       [at |-> "ANSWERED", answer |-> a, found |-> trials[reviews[v].trial]]]
  /\ UNCHANGED <<enabled, usage, trials, expired, reviews, receipts, sent>>

\* An interaction that is still there.
SourceThere(v) == trials[reviews[v].trial] > 0

\* The interaction as it is now
SameSource(v) == trials[reviews[v].trial] = reviews[v].version

Recheck(v) ==
  /\ request[v].at = "ANSWERED"
  /\ \/ /\ SameSource(v)
        /\ request' = [request EXCEPT ![v].at = "CHECKED"]
        /\ UNCHANGED <<enabled, usage, trials, expired, reviews, receipts, sent>>
     \/ ~SameSource(v) /\ Fails(v)
  /\ UNCHANGED breaker

\* Whatever became of the row in the meantime
CompleteReview(v) ==
  /\ request[v].at = "CHECKED"
  /\ reviews' = [reviews EXCEPT
       ![v].st = "COMPLETED",
       ![v].comparison = Compare(LocalAction, request[v].answer),
       ![v].cites = request[v].answer.cites]
  /\ request' = [request EXCEPT ![v].at = "DONE", ![v].answer = NoAnswer]
  /\ UNCHANGED <<enabled, usage, trials, expired, receipts, breaker, sent>>

Stop ==
  /\ \E v \in Reviews : request[v].at \notin {"NONE", "DONE"}
  /\ request' = [v \in Reviews |-> IF request[v].at = "DONE" THEN request[v] ELSE Idle0]
  /\ breaker' = AfterSuccess
  /\ UNCHANGED <<enabled, usage, trials, expired, reviews, receipts, sent>>

-----------------------------------------------------------------------------
(* GET /api/xai-verifier *)

\* Any row that is old.
OldRow(v) == reviews[v].st \notin {"NONE", "UNKNOWN_BILLING"}

\* recover_stale_requests, for a row of two minutes
StaleRow(v) == reviews[v].st = "REQUESTING"

RecoverStale(v) ==
  /\ StaleRow(v)
  /\ reviews' = [reviews EXCEPT ![v].st = "UNKNOWN_BILLING"]
  /\ UNCHANGED <<enabled, usage, trials, expired, receipts, request, breaker, sent>>

\* cleanup: the rows whose own time has come, whether or not the interaction
\* is still there
Due(v) == reviews[v].trial \in expired /\ reviews[v].st # "NONE"

Cleanup ==
  /\ \E v \in Reviews : Due(v) /\ reviews[v].st # "EXPIRED"
  /\ reviews' = [v \in Reviews |->
       IF Due(v) THEN [reviews[v] EXCEPT !.st = "EXPIRED"] ELSE reviews[v]]
  /\ UNCHANGED <<enabled, usage, trials, expired, receipts, request, breaker, sent>>

-----------------------------------------------------------------------------

ReviewStep(v) ==
  \/ \E key \in RetryNames, i \in Trials : Reserve(v, key, i)
  \/ EvidenceUnavailable(v)
  \/ FrameRefused(v)
  \/ Allow(v)
  \/ Post(v)
  \/ ProviderFails(v)
  \/ \E a \in TriedAnswers : ProviderAnswers(v, a)
  \/ Recheck(v)
  \/ CompleteReview(v)
  \/ RecoverStale(v)

VerifierNext ==
  \/ \E v \in Reviews : ReviewStep(v)
  \/ \E i \in Trials : TrialChanges(i) \/ Expires(i) \/ TrialGone(i)
  \/ Cleanup
  \/ Configure
  \/ CoolDown
  \/ Stop

VerifierSpec == VerifierInit /\ [][VerifierNext]_verifierVars

-----------------------------------------------------------------------------
(* Properties *)

\* Every post to the provider was paid for before it was made, by one
\* reservation of its own, and the posts never exceed the ceiling: no crash,
\* retry or late answer makes a second post for one reservation.
PostsArePaid ==
  /\ \A v \in Reviews : sent[v] <= 1
  /\ Cardinality({v \in Reviews : sent[v] > 0}) <= usage
  /\ usage <= Cap

\* A row is closed once, except that a request that outlived the two minutes
\* replaces "billing unknown" by what it found: the sweep never undoes an answer.
AnswersStand ==
  [][\A v \in Reviews : reviews[v].st \in {"COMPLETED", "FAILED"} =>
       reviews'[v].st \in {reviews[v].st, "EXPIRED"}]_verifierVars

\* A completed review is about evidence that was still there, unchanged, when
\* the provider's answer came back.
ReviewMatchesSource ==
  \A v \in Reviews : reviews[v].st = "COMPLETED" => request[v].found = reviews[v].version

\* A review that supports the local finding cites two frames or more.
SupportIsVisible ==
  \A v \in Reviews : reviews[v].comparison = "SUPPORTS" => reviews[v].cites >= 2

\* A retry key buys one review of an interaction: the reservations made are
\* no more than the receipts kept.
OneReviewPerKey ==
  usage <= Cardinality({r \in RetryNames \X Trials : receipts[r] > 0})

\* What is posted was paid for, once for a key, and what is answered is about
\* evidence that is there.
VerifierInv == PostsArePaid /\ OneReviewPerKey /\ ReviewMatchesSource /\ SupportIsVisible
=============================================================================
