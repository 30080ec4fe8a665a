---------------------------- MODULE SourceExport ----------------------------
(***************************************************************************)
(* What the cloud outbox promises about each exported source, whatever the *)
(* order of deletions, expiries, rejections, pauses, disconnections,       *)
(* restores and pruning:                                                   *)
(*   Absent    -> Queued     its observation is admitted                   *)
(*   Queued    -> Exposed    it may now be known outside this machine      *)
(*   Queued    -> Dropped    deleted here before any attempt to send it    *)
(*   Exposed   -> Owed       deleted here: a withdrawal must reach the cloud*)
(*   Owed      -> Retracted  the cloud's receipt for the withdrawal is held*)
(*   Dropped   -> Absent, Retracted -> Forgotten   retention is over       *)
(* An exposed source only leaves through Owed and Retracted, and nothing   *)
(* comes back from Owed, Retracted or Forgotten.                           *)
(***************************************************************************)
CONSTANT Sources
VARIABLE phase

Phases == {"Absent", "Queued", "Exposed", "Dropped", "Owed", "Retracted", "Forgotten"}

Moves == {<<"Absent", "Queued">>, <<"Queued", "Exposed">>, <<"Queued", "Dropped">>,
          <<"Exposed", "Owed">>, <<"Owed", "Retracted">>,
          <<"Dropped", "Absent">>, <<"Retracted", "Forgotten">>}

Init == phase = [s \in Sources |-> "Absent"]

\* One step may move many sources (a disconnection withdraws them all), each by
\* one move, and exposes at most one.
Next ==
  /\ phase' \in [Sources -> Phases]
  /\ \A s \in Sources : phase'[s] = phase[s] \/ <<phase[s], phase'[s]>> \in Moves
  /\ \A s, o \in Sources :
       /\ phase[s] = "Queued" /\ phase'[s] = "Exposed"
       /\ phase[o] = "Queued" /\ phase'[o] = "Exposed"
       => s = o

Spec == Init /\ [][Next]_phase
=============================================================================
