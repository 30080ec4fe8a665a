----------------------------- MODULE Projection -----------------------------
(***************************************************************************)
(* From a model's reply to what may leave the laptop: the experimental     *)
(* rules over one sampled window (src/services/api/interaction_vision.py,  *)
(* sampled_window_interpretation in custody_engine.py), the projection to  *)
(* metadata (cloud_observation.py) and the admission it needs              *)
(* (cloud_hooks.py).  A clip is submitted in one transaction, analysed in  *)
(* none, and published in another; the cloud binding, the wall clock and   *)
(* the process environment may change in between.  The jobs themselves are *)
(* in Interactions, the queue in Outbox.                                   *)
(***************************************************************************)
EXTENDS Integers, Sequences, FiniteSets, FiniteSetsExt

CONSTANTS
  Clips,        \* interaction ids
  Samples,      \* what a browser may send: the source seconds of its frames
  Citations,    \* evidence_frame_indices a model may return
  Unasked,      \* no admission, no result, no queue row
  Early, KeepFor, Old,   \* 5 minutes, 24 hours, 30 days
  MaxMoment,    \* bound: the clock
  MaxLink       \* bound: a binding's number and generation, added

ASSUME ProjectionAssumption ==
  /\ Early \in Nat /\ KeepFor \in Nat \ {0} /\ Old \in Nat
  /\ Early <= KeepFor /\ KeepFor <= Old /\ MaxMoment \in Nat /\ MaxLink \in Nat

VARIABLES
  provider,  \* how VisionProvider was built: disabled, and whether its results
             \* may raise an alarm, as the doubles of the repository's tests do
  disabled,  \* AISLESIGNALS_VISION_DISABLED now
  moment,    \* the wall clock, which may be set back
  link,      \* the branch's cloud_sync_bindings row
  clips,     \* interaction entities
  outgoing,  \* cloud_sync_items: what was queued for each clip
  fenced     \* history: clips that were waiting when the binding changed

projectionVars == <<provider, disabled, moment, link, clips, outgoing, fenced>>

Transitions == {"TAKE_PRODUCT", "RETURN_PRODUCT", "PLACE_IN_BASKET", "POSSIBLE_CONCEALMENT"}
\* ModelObservation: the schema refuses everything else.
ReportedObservations ==
  [action : Transitions \cup {"NORMAL_SHOPPING", "UNCLEAR"},
   visibility : {"clear", "partial", "poor"},
   person : BOOLEAN, product : BOOLEAN, sequence : BOOLEAN, cites : Citations]

NoClip == [st |-> "NONE", sample |-> <<>>, source |-> "CAMERA", calibrated |-> FALSE,
           created |-> 0, admission |-> Unasked, result |-> Unasked]

ProjectionInit ==
  /\ provider \in [disabled : BOOLEAN, corroborates : BOOLEAN]
  /\ disabled = provider.disabled
  /\ moment = 0
  /\ link = [id |-> 1, generation |-> 2, active |-> TRUE, activated |-> 0]
  /\ clips = [c \in Clips |-> NoClip]
  /\ outgoing = [c \in Clips |-> Unasked]
  /\ fenced = {}

-----------------------------------------------------------------------------
(* The rules over one sampled window *)

Increasing(s) == \A i, j \in DOMAIN s : i < j => s[i] < s[j]

\* validate_frames
ValidFrames(s) ==
  /\ Len(s) \in 3..6 /\ Increasing(s)
  /\ \A i \in DOMAIN s : s[i] \in 0..(7 * 86400)
  /\ s[Len(s)] - s[1] <= 12

\* public_observation refuses references that are not frames, in order, once.
ValidCitation(cites, count) ==
  Increasing(cites) /\ \A i \in DOMAIN cites : cites[i] \in 0..(count - 1)

SawTransition(o) == o.visibility = "clear" /\ o.product /\ o.sequence /\ Len(o.cites) >= 2
Supported(o) == SawTransition(o) /\ o.person

\* A transition without its evidence, or nobody to see, is UNCLEAR.
Normalised(o) ==
  IF (o.action \in Transitions /\ ~SawTransition(o)) \/ o.visibility = "poor" \/ ~o.person
  THEN "UNCLEAR" ELSE o.action

Attention(o) == o.action = "POSSIBLE_CONCEALMENT" /\ Supported(o)

Strength(o) ==
  LET met == Cardinality({i \in 1..5 :
               <<o.visibility = "clear", o.person, o.product, o.sequence, Len(o.cites) >= 2>>[i]})
  IN IF met = 5 THEN "STRONG" ELSE IF met >= 3 THEN "PARTIAL" ELSE "INSUFFICIENT"

\* sampled_window_interpretation, for a normalised action a
Interpretation(a, o) ==
  IF a = "NORMAL_SHOPPING" /\ o.visibility = "clear" /\ o.person
    THEN [decision |-> "OBSERVING", custody |-> "ON_SHELF"]
  ELSE IF ~Supported(o) \/ a \notin Transitions
    THEN [decision |-> "ABSTAIN", custody |-> "UNACCOUNTED"]
  ELSE [decision |-> IF a = "RETURN_PRODUCT" THEN "NORMAL_RESOLVED"
                     ELSE IF a = "PLACE_IN_BASKET" THEN "OBSERVING" ELSE "REVIEW_REQUIRED",
        custody |-> [TAKE_PRODUCT |-> "IN_HAND", RETURN_PRODUCT |-> "RETURNED",
                     PLACE_IN_BASKET |-> "IN_BASKET",
                     POSSIBLE_CONCEALMENT |-> "CONCEALED_OBSERVED"][a]]

\* A result that could raise an alarm is one the tests' doubles make of a
\* sequence the rules call worth attention; the shipped provider's cannot.
Alarm(o) == provider.corroborates /\ Attention(o)

PublicObservation(o) ==
  [action |-> Normalised(o), attention |-> Attention(o), strength |-> Strength(o),
   window |-> Interpretation(Normalised(o), o), alarm |-> Alarm(o)]

-----------------------------------------------------------------------------
(* The projection *)

\* expires_at is set 24 hours after created_at, so the deadline is both.
Deadline(c) == clips[c].created + KeepFor

Barred(c, bindingId, generation) ==
  LET item == clips[c]
      admission == item.admission IN
  \/ admission = Unasked
  \/ <<admission.id, admission.generation>> # <<bindingId, generation>>
  \/ item.source = "RECORDED_VIDEO"
  \/ item.st # "completed"
  \/ item.result.action # "POSSIBLE_CONCEALMENT"
  \/ ~item.result.alarm
  \/ item.created \notin (moment - Old)..(moment + Early)
  \/ admission.activated > moment + Early
  \/ item.created < admission.activated

\* map_observation; the codes of what bars a clip are one here.
Mapped(c, bindingId, generation) ==
  IF Barred(c, bindingId, generation) THEN "EXCLUDED"
  ELSE IF moment >= Deadline(c) THEN "EXPIRED" ELSE "MAPPED"

\* admit: what a submission remembers of an active binding.
Admission ==
  IF link.active THEN [id |-> link.id, generation |-> link.generation, activated |-> link.activated]
  ELSE Unasked

\* A projection that trusts the admission's own generation.
ProjectedAsAdmitted(c, backlog) ==
  Mapped(c, link.id, IF clips[c].admission # Unasked
                     THEN clips[c].admission.generation ELSE link.generation)

\* CloudHooks._map: backlog already passed admission, so only its binding must
\* still be there.
Projected(c, backlog) ==
  Mapped(c, link.id, IF backlog /\ clips[c].admission # Unasked
                     THEN clips[c].admission.generation ELSE link.generation)

\* source_state, when the sender asks whether a queued clip may still be sent
SourceState(c) ==
  IF clips[c].st = "GONE" THEN "DELETED"
  ELSE IF Projected(c, TRUE) = "EXPIRED" THEN "EXPIRED"
  ELSE IF Projected(c, TRUE) # "MAPPED" \/ outgoing[c] = Unasked THEN "INELIGIBLE"
  ELSE IF outgoing[c].admitted # clips[c].created \/ outgoing[c].deadline # Deadline(c)
       THEN "INELIGIBLE"
  ELSE "AVAILABLE"
-----------------------------------------------------------------------------
(* Steps *)

Waiting == {c \in Clips : clips[c].st \in {"pending", "running"}}
\* Only the environment of now is asked.
OffNow == disabled

Off == provider.disabled \/ disabled

\* submit: one clip holds the inference slot until its job is over; a screen
\* area counts as a camera here.
Submit(c, sample, source, calibrated) ==
  /\ clips[c].st = "NONE" /\ Waiting = {}
  /\ ValidFrames(sample)
  /\ clips' = [clips EXCEPT ![c] =
       [NoClip EXCEPT !.st = "pending", !.sample = sample, !.source = source,
                      !.calibrated = calibrated, !.created = moment, !.admission = Admission]]
  /\ UNCHANGED <<provider, disabled, moment, link, outgoing, fenced>>

Failed(c) == clips' = [clips EXCEPT ![c] = [NoClip EXCEPT !.st = "failed"]]

\* analyze: what comes of the replies the schema and the rules accept.
Accepted(count) ==
  {PublicObservation(o) : o \in {p \in ReportedObservations : ValidCitation(p.cites, count)}}

Analyse(c) ==
  /\ clips[c].st = "pending" /\ ~Off /\ ValidFrames(clips[c].sample)
  /\ \E r \in Accepted(Len(clips[c].sample)) :
       clips' = [clips EXCEPT ![c].st = "running", ![c].sample = <<>>, ![c].result = r]
  /\ UNCHANGED <<provider, disabled, moment, link, outgoing, fenced>>

\* Disabled; or the local service did not answer in time, not with 200, not
\* plainly encoded, too long, not with JSON, unfinished, with tool calls, or
\* with references that are not frames.
AnalysisFails(c) ==
  /\ clips[c].st = "pending" /\ Failed(c)
  /\ UNCHANGED <<provider, disabled, moment, link, outgoing, fenced>>

\* The transaction that publishes: an expired job, or one whose authority
\* ended, is cancelled.
Cancel(c) ==
  /\ clips[c].st = "running"
  /\ clips' = [clips EXCEPT ![c] = [NoClip EXCEPT !.st = "cancelled"]]
  /\ UNCHANGED <<provider, disabled, moment, link, outgoing, fenced>>

Completed(item) ==
  [item EXCEPT !.st = "completed",
               !.result = [item.result EXCEPT !.alarm = @ /\ item.calibrated]]

Complete(c) ==
  /\ clips[c].st = "running" /\ moment < Deadline(c)
  /\ clips' = [clips EXCEPT ![c] = Completed(clips[c])]

\* CloudHooks.publish in the same transaction, for the completed clip: enqueue
\* refuses what was admitted before the activation, and may be full.
Queue(c) ==
  \/ /\ link.active /\ Projected(c, FALSE)' = "MAPPED"
     /\ clips[c].created >= link.activated
     /\ outgoing' = [outgoing EXCEPT ![c] =
          [admitted |-> clips[c].created, deadline |-> Deadline(c)]]
  \/ UNCHANGED outgoing

Publish(c) ==
  /\ Complete(c) /\ UNCHANGED <<provider, disabled, moment, link, fenced>>
  /\ Queue(c)

\* Deleted by the manager, or by the janitor after it expired.
Remove(c) ==
  /\ clips[c].st \in {"completed", "failed", "cancelled"}
  /\ clips' = [clips EXCEPT ![c] = [NoClip EXCEPT !.st = "GONE"]]
  /\ UNCHANGED <<provider, disabled, moment, link, outgoing, fenced>>

\* Pausing keeps the activation and resuming starts a new one; pairing again
\* after a disconnection makes another binding, which confirming activates.
Relink ==
  /\ \/ /\ link.id + link.generation < MaxLink
        /\ link' = [link EXCEPT !.generation = @ + 1, !.active = ~@,
                                !.activated = IF link.active THEN @ ELSE moment]
     \/ /\ link.id = 1 /\ ~link.active
        /\ link' = [id |-> 2, generation |-> 2, active |-> TRUE, activated |-> moment]
  /\ fenced' = fenced \cup Waiting
  /\ UNCHANGED <<provider, disabled, moment, clips, outgoing>>

SetClock(t) ==
  /\ t \in (0..moment) \cup {moment + 1} /\ t <= MaxMoment /\ moment' = t
  /\ UNCHANGED <<provider, disabled, link, clips, outgoing, fenced>>

SetEnvironment ==
  /\ disabled' = ~disabled
  /\ UNCHANGED <<provider, moment, link, clips, outgoing, fenced>>

ProjectionNext ==
  \/ \E c \in Clips :
       \/ \E sample \in Samples, calibrated \in BOOLEAN,
             source \in {"CAMERA", "RECORDED_VIDEO"} :
            Submit(c, sample, source, calibrated)
       \/ Analyse(c) \/ AnalysisFails(c) \/ Cancel(c) \/ Publish(c) \/ Remove(c)
  \/ Relink \/ SetEnvironment
  \/ \E t \in 0..MaxMoment : SetClock(t)

ProjectionSpec == ProjectionInit /\ [][ProjectionNext]_projectionVars

-----------------------------------------------------------------------------
(* Properties *)

Analysed(c) == clips[c].result # Unasked

\* The rules agree with each other: what is called worth attention is also a
\* strong match that asks for a review of a concealment, and no decision
\* beyond an abstention rests on less than the whole sequence, although the
\* eligibility is computed before the action is normalised and the
\* interpretation after it.
AttentionIsExplained ==
  \A c \in Clips : Analysed(c) =>
    LET r == clips[c].result IN
    /\ r.attention => /\ r.action = "POSSIBLE_CONCEALMENT" /\ r.strength = "STRONG"
                      /\ r.window = [decision |-> "REVIEW_REQUIRED",
                                     custody |-> "CONCEALED_OBSERVED"]
    /\ r.window.decision \in {"REVIEW_REQUIRED", "NORMAL_RESOLVED"} =>
         r.strength = "STRONG" /\ r.action \in Transitions
    /\ r.action \in Transitions => r.strength = "STRONG"

\* With the provider that is shipped nothing is ever queued for the cloud:
\* no sampled window can raise an alarm before the custody chain is validated.
NothingLeavesUnvalidated ==
  ~provider.corroborates => \A c \in Clips : outgoing[c] = Unasked

\* A clip that was waiting when its binding was paused, resumed or replaced is
\* not queued under what followed, though its job goes on and completes.
FencedStaysHome == \A c \in fenced : outgoing[c] = Unasked

\* What the sender is told it may still send was calibrated, is not recorded
\* video, belongs to the present binding, was not submitted in the future, and
\* is still within a day of its submission on the clock of now.
SendableIsDue ==
  \A c \in Clips : SourceState(c) = "AVAILABLE" =>
    /\ clips[c].calibrated /\ clips[c].source # "RECORDED_VIDEO"
    /\ clips[c].admission.id = link.id
    /\ clips[c].created <= moment + Early /\ moment < clips[c].created + KeepFor

\* A launcher without vision never has a clip analysed, whatever happens to
\* the environment of its process (interaction_vision.py:251).
DisabledForLife ==
  provider.disabled => \A c \in Clips : ~Analysed(c)

\* What the analysis says hangs together, and a launcher without vision says
\* nothing.
AnalysisInv == AttentionIsExplained /\ DisabledForLife

\* Only what is validated, of the present binding and still due is exported.
ProjectionInv == NothingLeavesUnvalidated /\ FencedStaysHome /\ SendableIsDue
=============================================================================
