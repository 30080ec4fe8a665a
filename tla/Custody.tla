------------------------------- MODULE Custody -------------------------------
(***************************************************************************)
(* ProductCustodyEngine (src/services/api/custody_engine.py): what a       *)
(* sequence of observed facts says about one product in one episode of one *)
(* visit.  Records are kept in memory up to a limit, the one with the      *)
(* oldest observation makes room, and an engine that forgot anything       *)
(* abstains until it is reset.  A fact that does not fit compromises its   *)
(* record for good.  Both go on observing: a record in doubt moves through *)
(* its states and may come to show a whole chain, and only the guards of   *)
(* the assessment keep the engine from an alarm.                           *)
(***************************************************************************)
EXTENDS Integers, FiniteSets

Coverage == {"CUSTODY_CONTINUOUS_TO_EXIT", "CHECKOUT_PATH_OBSERVED"}

CONSTANTS
  Episodes,     \* <<visit, episode, product>>
  Eyes,         \* camera ids
  NoEye,        \* the camera of a record without observations
  Told,         \* bound: the facts that are reported
  Windows,      \* bound: <<fact, interval>>, the coverage a tracker reports
  MaxRecords,   \* max_records, 256
  MaxEvents,    \* MAX_EVENTS_PER_RECORD, 128
  MaxEpisode,   \* max_episode_ms
  Grace,        \* pos_grace_ms
  MaxAt,        \* bound: times of observations
  Again,        \* bound: the facts that are reported again
  Late,         \* bound: and from when on
  Sequel        \* bound: and the facts that are told, at a time, of a record or
                \* an engine that is to abstain

ASSUME CustodyAssumption ==
  /\ {MaxRecords, MaxEvents, MaxEpisode, Grace, MaxAt, Late} \subseteq Nat /\ MaxRecords > 0
  /\ Windows \subseteq Coverage \X (Nat \X Nat) /\ NoEye \notin Eyes

VARIABLES
  records,    \* the engine's _records
  degraded,   \* capacity_degraded
  answer,     \* the last assessment
  forgotten   \* history: something observed since the reset was dropped, a
              \* record or an event of one

custodyVars == <<records, degraded, answer, forgotten>>

Losses == {"VISIBILITY_LOST", "CAMERA_GAP"}
Chain == <<"PERSON_CONFIRMED", "SHELF_DEPARTURE", "HAND_CUSTODY",
           "CONCEALMENT_TRANSITION", "EXIT_CROSSED">>
CoreChain == {Chain[n] : n \in 1 .. 5}
Facts == CoreChain \cup Coverage \cup Losses \cup
  {"RETURN_TO_SHELF", "PLACE_IN_BASKET", "CHECKOUT_COMPLETED", "CAMERA_HANDOFF",
   "NO_MATCHED_CHECKOUT_EVENT"}

NoAnswerYet == [episode |-> NoEye, decision |-> "OBSERVING", alarm |-> FALSE]

FreshRecord ==
  [state |-> "ON_SHELF", last |-> -1, started |-> -1, camera |-> NoEye,
   times |-> [f \in Facts |-> -1], compromised |-> FALSE,
   coverage |-> [f \in Coverage |-> {}], watermark |-> -1, healthy |-> FALSE,
   events |-> 0]

CustodyInit ==
  /\ records = [e \in {} |-> FreshRecord]
  /\ degraded = FALSE
  /\ answer = NoAnswerYet
  /\ forgotten = FALSE

-----------------------------------------------------------------------------
(* One observation *)

\* What can be reported.  A sound report is direct and clear, from the source
\* its fact must come from (tracker, point of sale), linked to the product,
\* with the association confirmed; the health of a till is its own matter.
Observations(at) ==
  LET Report(facts, windows, watermarks, health) ==
        [fact : facts, camera : Eyes, at : {at}, sound : BOOLEAN, window : windows,
         watermark : watermarks, healthy : health]
  IN  Report(Told \ (Coverage \cup {"NO_MATCHED_CHECKOUT_EVENT", "CHECKOUT_COMPLETED"}),
             {<<0, 0>>}, {0}, {FALSE})
      \cup Report(Told \cap {"CHECKOUT_COMPLETED"}, {<<0, 0>>}, {0}, BOOLEAN)
      \cup Report(Told \cap {"NO_MATCHED_CHECKOUT_EVENT"}, {<<0, 0>>}, {0, at}, BOOLEAN)
      \cup UNION {Report({w[1]}, {w[2]}, {0}, {FALSE}) : w \in Windows}

\* _transition: the state a fact may find, and the one it leaves
Expected(fact) ==
  CASE fact = "SHELF_DEPARTURE" -> {"ON_SHELF"}
    [] fact = "HAND_CUSTODY" -> {"UNACCOUNTED"}
    [] fact \in {"RETURN_TO_SHELF", "PLACE_IN_BASKET", "CONCEALMENT_TRANSITION"} -> {"IN_HAND"}
    [] fact = "CHECKOUT_COMPLETED" -> {"IN_HAND", "IN_BASKET", "CONCEALED_OBSERVED"}
    [] fact = "CUSTODY_CONTINUOUS_TO_EXIT" -> {"IN_HAND", "CONCEALED_OBSERVED"}
    [] OTHER -> {"ON_SHELF", "UNACCOUNTED", "IN_HAND", "IN_BASKET",
                 "CONCEALED_OBSERVED", "PURCHASED", "RETURNED"}

Moved(state, fact) ==
  CASE fact = "SHELF_DEPARTURE" -> "UNACCOUNTED"
    [] fact = "HAND_CUSTODY" -> "IN_HAND"
    [] fact = "RETURN_TO_SHELF" -> "RETURNED"
    [] fact = "PLACE_IN_BASKET" -> "IN_BASKET"
    [] fact = "CONCEALMENT_TRANSITION" -> "CONCEALED_OBSERVED"
    [] fact = "CHECKOUT_COMPLETED" -> "PURCHASED"
    [] OTHER -> state

\* The camera may change by a handoff only, and a handoff must change it.
CameraFits(r, o) ==
  /\ r.camera = NoEye \/ o.camera = r.camera \/ o.fact = "CAMERA_HANDOFF"
  /\ o.fact = "CAMERA_HANDOFF" => r.camera # NoEye /\ o.camera # r.camera

\* The till must have closed its books on the moment of the exit.
TillFits(r, o) ==
  o.fact = "NO_MATCHED_CHECKOUT_EVENT" =>
    LET exit == r.times["EXIT_CROSSED"] IN
    o.healthy /\ exit >= 0 /\ o.at >= exit + Grace /\ o.watermark >= exit

Fits(r, o) ==
  /\ o.sound
  /\ r.started >= 0 => o.at - r.started <= MaxEpisode
  /\ CameraFits(r, o)
  /\ o.fact \notin Losses
  /\ o.fact \in Coverage => o.window[2] >= o.window[1]
  /\ r.state \in Expected(o.fact)
  /\ o.fact = "CONCEALMENT_TRANSITION" => r.times["PERSON_CONFIRMED"] >= 0
  /\ TillFits(r, o)

\* observe, for an observation later than the record's last one
After(r, o) ==
  [state |-> Moved(r.state, o.fact), last |-> o.at,
   started |-> IF r.started < 0 THEN o.at ELSE r.started, camera |-> o.camera,
   times |-> [r.times EXCEPT ![o.fact] = o.at],
   compromised |-> r.compromised \/ ~Fits(r, o),
   coverage |-> [f \in Coverage |->
     IF f = o.fact /\ o.window[1] <= o.window[2] THEN r.coverage[f] \cup {o.window}
     ELSE r.coverage[f]],
   watermark |-> IF o.fact # "NO_MATCHED_CHECKOUT_EVENT" THEN r.watermark
                 ELSE IF o.watermark = 0 THEN -1 ELSE o.watermark,
   healthy |-> IF o.fact \in {"NO_MATCHED_CHECKOUT_EVENT", "CHECKOUT_COMPLETED"}
               THEN o.healthy ELSE r.healthy,
   events |-> IF r.events < MaxEvents THEN r.events + 1 ELSE MaxEvents]

-----------------------------------------------------------------------------
(* Assessment *)

\* _covers: the intervals, in order, leave no gap.
Covers(intervals, from, upto) ==
  \A t \in from .. upto - 1 : \E w \in intervals : w[1] <= t /\ t + 1 <= w[2]

Shelf(r) == r.times["SHELF_DEPARTURE"]
Exit(r) == r.times["EXIT_CROSSED"]

CoverageComplete(r) ==
  /\ Shelf(r) >= 0 /\ Exit(r) >= Shelf(r)
  /\ \A f \in Coverage : Covers(r.coverage[f], Shelf(r), Exit(r))

OrderedChain(r) == \A n \in 1 .. 4 : r.times[Chain[n]] < r.times[Chain[n + 1]]

TillFinalized(r) ==
  /\ r.healthy /\ Exit(r) >= 0 /\ r.watermark >= Exit(r)
  /\ r.times["NO_MATCHED_CHECKOUT_EVENT"] >= Exit(r) + Grace

Resolved(r) == {r.times["CHECKOUT_COMPLETED"], r.times["RETURN_TO_SHELF"]}

WholeChain(r) ==
  /\ \A f \in CoreChain \cup Coverage \cup {"NO_MATCHED_CHECKOUT_EVENT"} : r.times[f] >= 0
  /\ OrderedChain(r) /\ CoverageComplete(r) /\ TillFinalized(r)
  /\ \A t \in Resolved(r) : t < Shelf(r)

\* A chain that is whole, whatever was dropped before it.
ChainAlone(r, lost) == ~r.compromised /\ WholeChain(r)

HighAttention(r, lost) == ~r.compromised /\ ~lost /\ WholeChain(r)

Decision(r, lost) ==
  IF HighAttention(r, lost) THEN "HIGH_ATTENTION"
  ELSE IF \/ lost \/ r.compromised
          \/ Exit(r) >= 0 /\ (\E f \in Coverage : r.times[f] >= 0) /\ ~CoverageComplete(r)
       THEN "ABSTAIN"
  ELSE IF r.state \in {"RETURNED", "PURCHASED"} THEN "NORMAL_RESOLVED"
  ELSE IF \/ r.state = "CONCEALED_OBSERVED"
          \/ Exit(r) >= 0 /\ r.state \in {"IN_HAND", "UNACCOUNTED"}
       THEN "REVIEW_REQUIRED"
  ELSE "OBSERVING"

Assess(e, r, lost) ==
  answer' = LET d == Decision(r, lost) IN
    [episode |-> e, decision |-> d, alarm |-> d = "HIGH_ATTENTION" /\ ~lost]

-----------------------------------------------------------------------------
(* Operations *)

Full(e) == e \notin DOMAIN records /\ Cardinality(DOMAIN records) >= MaxRecords
RecordOf(e) == IF e \in DOMAIN records THEN records[e] ELSE FreshRecord

\* The record that makes room for a new one: of those observed longest ago
MakesRoom(e) ==
  IF ~Full(e) THEN {{}}
  ELSE {{d} : d \in {d \in DOMAIN records :
                        \A f \in DOMAIN records : records[d].last <= records[f].last}}

\* bounds: only facts of Again are reported a second time; what does not fit,
\* and a conflict, comes once, to a record that was told Sequel so far; and an
\* engine that is to abstain is told what could make it forget that.
ToldSequel(r) == \A f \in Facts : r.times[f] >= 0 => f \in Sequel[r.times[f]]

Tellable(e, o) ==
  LET r == RecordOf(e)
      abstains == r.compromised \/ degraded \/ Full(e)
  IN
  /\ r.times[o.fact] < 0 \/ (o.fact \in Again /\ o.at >= Late)
  /\ ~Fits(r, o) => ~abstains /\ ToldSequel(r)
  /\ abstains => o.fact \in Sequel[o.at]

Observe(e, o) ==
  LET before == RecordOf(e)
      after == After(before, o)
  IN
  /\ o.at > before.last
  /\ Tellable(e, o)
  /\ \E gone \in MakesRoom(e) :
       /\ records' = [d \in (DOMAIN records \ gone) \cup {e} |->
                        IF d = e THEN after ELSE records[d]]
       /\ forgotten' = (forgotten \/ gone # {} \/ before.events = MaxEvents)
       /\ degraded' = (degraded \/ gone # {} \/ before.events = MaxEvents)
  /\ Assess(e, after, degraded')

\* An event seen before
Repeated(e) ==
  /\ e \in DOMAIN records
  /\ Assess(e, records[e], degraded)
  /\ UNCHANGED <<records, degraded, forgotten>>

\* A time that is not later, or an event id seen before with other content
Conflict(e) ==
  /\ e \in DOMAIN records /\ ToldSequel(records[e])
  /\ records' = [records EXCEPT ![e].compromised = TRUE]
  /\ Assess(e, records'[e], degraded)
  /\ UNCHANGED <<degraded, forgotten>>

\* recover_after_capacity_alarm
Reset ==
  /\ DOMAIN records # {} \/ degraded
  /\ records' = [e \in {} |-> FreshRecord]
  /\ degraded' = FALSE
  /\ forgotten' = FALSE
  /\ answer' = NoAnswerYet

CustodyNext ==
  \/ \E e \in Episodes :
       \/ \E at \in {RecordOf(e).last + 1} \cap 0 .. MaxAt :
            \E o \in Observations(at) : Observe(e, o)
       \/ Repeated(e)
       \/ Conflict(e)
  \/ Reset

CustodySpec == CustodyInit /\ [][CustodyNext]_custodyVars

-----------------------------------------------------------------------------
(* Properties *)

\* An alarm is about a product that is concealed by all the engine knows:
\* the times that make the chain and the state that the facts led to agree,
\* and nothing ever resolved the episode.
AlarmIsUnresolved ==
  answer.alarm =>
    LET r == RecordOf(answer.episode) IN
    /\ r.state = "CONCEALED_OBSERVED"
    /\ r.times["CHECKOUT_COMPLETED"] < 0 /\ r.times["RETURN_TO_SHELF"] < 0

\* An engine that dropped a record or an event since its reset says nothing
\* but that it abstains, whatever chain it sees from then on: what it dropped
\* may be the checkout.
NothingForgotten == forgotten => answer.decision = "ABSTAIN" /\ ~answer.alarm

\* While an alarm is the last word, the exit lies at least Grace before it
\* and no gap of the tracker lies between shelf and exit, however the exit
\* was reported again after the till had answered.
AlarmIsCovered ==
  answer.alarm =>
    LET r == RecordOf(answer.episode) IN
    /\ r.last >= Exit(r) + Grace /\ r.watermark >= Exit(r)
    /\ \A f \in Coverage, t \in Shelf(r) .. Exit(r) - 1 :
         \E w \in r.coverage[f] : w[1] <= t /\ t < w[2]

\* An alarm is about an episode that is known in full: unresolved, covered from
\* shelf to exit, and with nothing of it dropped.
CustodyInv == AlarmIsUnresolved /\ NothingForgotten /\ AlarmIsCovered
=============================================================================
