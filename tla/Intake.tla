------------------------------- MODULE Intake -------------------------------
(***************************************************************************)
(* What the browsers of one branch report (src/services/api/app.py): the   *)
(* shift, pose events and recording tests with their acknowledgement,      *)
(* simulated observations of a camera, and requests for assistance.  A     *)
(* browser whose answer was lost sends again, with the same retry key or   *)
(* with a new one after a reload: the key's stored result (idempotent)     *)
(* covers the first, the event's own identifier the second.  One request   *)
(* is one transaction; a refused one changes nothing and keeps no result.  *)
(***************************************************************************)
EXTENDS Integers, Sequences, FiniteSets

CONSTANTS
  RetryKeys,   \* retry keys of the browsers of one person
  Events,      \* run_id with event_id or event_index
  SourceIds,   \* source_event_id of the simulator
  Inputs,      \* what a report may say
  NoReport,    \* no report
  MaxRequests  \* bound: requests for assistance

\* What the simulator uses a source identifier for
Used == {"OFFLINE", "DEMO_ONLINE", "HISTORICAL_EVENT", "SHELF_EVENT"}

ASSUME IntakeAssumption == NoReport \notin Inputs \cup Used /\ MaxRequests \in Nat

VARIABLES
  shift,       \* the site's shift_active
  camera,      \* the simulated camera's status
  logged,      \* live_event (and playback_event, which is never acknowledged)
  observed,    \* source_events: what each source identifier was used for
  made,        \* history: observations made for each source identifier
  assistance,  \* requests for assistance
  results      \* idempotency: route, key and input of what was answered

intakeVars == <<shift, camera, logged, observed, made, assistance, results>>

NoEvent == [says |-> NoReport, acknowledged |-> FALSE]

IntakeInit ==
  /\ shift = FALSE /\ camera = "DEMO_ONLINE"
  /\ logged = [e \in Events |-> NoEvent]
  /\ observed = [s \in SourceIds |-> NoReport]
  /\ made = [s \in SourceIds |-> 0]
  /\ assistance = <<>> /\ results = {}

-----------------------------------------------------------------------------

\* A result that is not kept with what it did.
OnceForgotten(route, key, Act) == Act /\ UNCHANGED results

\* idempotent: a key that was answered on its route, the request's path, only
\* replays its result, or conflicts if the input differs; else the action runs
\* and its result is kept with what it did.
Once(route, key, Act) ==
  IF [route |-> route, key |-> key] \in results
  THEN UNCHANGED intakeVars
  ELSE Act /\ results' = results \cup {[route |-> route, key |-> key]}

Shift ==
  /\ shift' = ~shift
  /\ UNCHANGED <<camera, logged, observed, made, assistance, results>>

\* A repeated event that is logged afresh.
LogAfresh(e, says) ==
  /\ logged[e].says \in {NoReport, says}
  /\ logged' = [logged EXCEPT ![e] = [says |-> says, acknowledged |-> FALSE]]
  /\ UNCHANGED <<shift, camera, observed, made, assistance>>

\* record_live_event, record_playback_event: an event logged before is
\* returned as it is if the input agrees, and is a conflict if it does not.
LogEvent(e, says) ==
  /\ IF logged[e] = NoEvent
     THEN logged' = [logged EXCEPT ![e] = [says |-> says, acknowledged |-> FALSE]]
     ELSE logged[e].says = says /\ UNCHANGED logged
  /\ UNCHANGED <<shift, camera, observed, made, assistance>>

RecordEvent(key, e, says) == Once(<<"live-events">>, key, LogEvent(e, says))

\* acknowledge_live_event: whoever comes later finds the first one's.
AcknowledgeEvent(key, e) ==
  /\ logged[e] # NoEvent
  /\ Once(<<"acknowledge", e>>, key,
       /\ logged' = [logged EXCEPT ![e] = [says |-> logged[e].says, acknowledged |-> TRUE]]
       /\ UNCHANGED <<shift, camera, observed, made, assistance>>)

\* simulator: a source identifier is used once, whatever the retry key; a
\* current observation (input other than the historical one) needs a shift
\* and a camera that works.  OFFLINE stands for FROZEN too.
SetCamera(s, status) ==
  /\ observed[s] \in {NoReport, status}
  /\ camera' = IF observed[s] = NoReport THEN status ELSE camera
  /\ observed' = [observed EXCEPT ![s] = status]
  /\ UNCHANGED <<shift, logged, made, assistance>>

ObserveSource(s, historical) ==
  LET says == IF historical THEN "HISTORICAL_EVENT" ELSE "SHELF_EVENT" IN
  /\ IF observed[s] = NoReport
     THEN /\ shift
          /\ camera = "DEMO_ONLINE" \/ historical
          /\ observed' = [observed EXCEPT ![s] = says]
          /\ made' = [made EXCEPT ![s] = made[s] + 1]
     ELSE observed[s] = says /\ UNCHANGED <<observed, made>>
  /\ UNCHANGED <<shift, camera, logged, assistance>>

Simulator(key, s) ==
  Once(<<"simulator">>, key,
    \/ \E status \in {"OFFLINE", "DEMO_ONLINE"} : SetCamera(s, status)
    \/ \E historical \in BOOLEAN : ObserveSource(s, historical))

Assistance(key) ==
  Once(<<"assistance">>, key,
    /\ Len(assistance) < MaxRequests
    /\ assistance' = Append(assistance, [from |-> key, st |-> "REQUESTED"])
    /\ UNCHANGED <<shift, camera, logged, observed, made>>)

TransitionAssistance(i, status) ==
  /\ <<assistance[i].st, status>> \in
       {<<"REQUESTED", "ACKNOWLEDGED">>, <<"REQUESTED", "RESOLVED">>,
        <<"ACKNOWLEDGED", "RESOLVED">>}
  /\ assistance' = [assistance EXCEPT ![i].st = status]
  /\ UNCHANGED <<shift, camera, logged, observed, made, results>>

IntakeNext ==
  \/ Shift
  \/ \E key \in RetryKeys :
       \/ \E e \in Events, says \in Inputs : RecordEvent(key, e, says)
       \/ \E e \in Events : AcknowledgeEvent(key, e)
       \/ \E s \in SourceIds : Simulator(key, s)
       \/ Assistance(key)
  \/ \E i \in DOMAIN assistance, status \in {"ACKNOWLEDGED", "RESOLVED"} :
       TransitionAssistance(i, status)

IntakeSpec == IntakeInit /\ [][IntakeNext]_intakeVars

-----------------------------------------------------------------------------
(* Properties *)

\* A late retry under another key neither changes what was logged first nor
\* takes back that somebody acknowledged it.
LogIsKept ==
  [][\A e \in Events : logged[e] # NoEvent =>
       /\ logged'[e].says = logged[e].says
       /\ logged[e].acknowledged => logged'[e].acknowledged]_logged

\* However often a lost answer makes a browser send again, one source
\* identifier makes at most one observation, and one key one request for
\* assistance.
MadeOnce ==
  /\ \A s \in SourceIds : made[s] <= 1
  /\ \A i, j \in DOMAIN assistance :
       assistance[i].from = assistance[j].from => i = j
=============================================================================
