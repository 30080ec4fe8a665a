------------------------------- MODULE MCParts -------------------------------
(***************************************************************************)
(* Twelve parts of the system on small instances.  They share no variable, *)
(* so one run checks them side by side: every behaviour is one of the part *)
(* in focus, while the others stay in an initial state.                    *)
(***************************************************************************)
EXTENDS Accounts, SignIn, Passphrases, Casework, Intake, Projection, Database,
        Recovery, Verifier, ControlAuth, Custody, Connection, TLC

CONSTANTS m1, m2, m3, k1, k2, a1, a2

VARIABLE focus

\* The same two values stand for the people, episodes or preparations of one
\* part and another, since only one part moves, and so do k1 and k2.
Alike == Permutations({m1, m2}) \cup Permutations({k1, k2})

MCSamples == {<<0, 4, 8>>, <<0, 4, 4>>, <<0, 7, 14>>}
MCCitations == {<<0>>, <<0, 1>>, <<1, 0>>, <<0, 3>>}
MCWindows == {<<"CUSTODY_CONTINUOUS_TO_EXIT", <<0, 8>>>>, <<"CUSTODY_CONTINUOUS_TO_EXIT", <<0, 4>>>>,
              <<"CHECKOUT_PATH_OBSERVED", <<0, 8>>>>}
MCTold == Facts \ (Coverage \cup {"PLACE_IN_BASKET", "CAMERA_GAP", "CAMERA_HANDOFF"})
MCStory == Chain \o <<"CUSTODY_CONTINUOUS_TO_EXIT", "CHECKOUT_PATH_OBSERVED",
                      "NO_MATCHED_CHECKOUT_EVENT">>
MCSequel == [t \in 0 .. 9 |-> IF t < 8 THEN {MCStory[t + 1]} ELSE Facts]
MCBranchOf == a1 :> 1 @@ a2 :> 2

Reply(action, visibility, seen, cites) ==
  [action |-> action, visibility |-> visibility, seen |-> seen, cites |-> cites]
MCTried == {Reply("POSSIBLE_CONCEALMENT", "ADEQUATE", TRUE, 2),
            Reply("POSSIBLE_CONCEALMENT", "ADEQUATE", TRUE, 1),
            Reply("UNCLEAR", "INADEQUATE", FALSE, 0)}

\* Bound: once a second code is in use, no file is lost and the console changes no device.
SecondIsCalm ==
  (\A p \in Preparations : attempts'[p].st # "NONE") =>
    /\ \A p \in Preparations : vault'[p] # "LOST"
    /\ \A c \in Codes : remote'[c].st # "REVOKED" /\ remote'[c].face = 1

\* Bound: of two open challenges both are sign-ins of one account, while no owner
\* asks for anything and nobody is invited.
TwoAreOfOne ==
  (\A c \in Slots : challenges'[c].kind # "NONE") =>
    /\ reading' = {}
    /\ \E u \in People : \A c \in Slots :
         challenges'[c].kind = "LOGIN" /\ challenges'[c].person = u
    /\ admitted' = {} /\ \A i \in Invites : invitations'[i].st = "NONE"

\* Bound: m3 is only ever invited; as what then makes no difference.
ThirdIsOnlyAsked ==
  /\ users'[m3].st = "NONE"
  /\ \A i \in Invites : invitations'[i].person = m3 => invitations'[i].role = "OWNER"

\* Bound: while two owners' requests are admitted nobody signs in.
TwoRequestsAlone ==
  Cardinality(admitted') = 2 =>
    reading' = {} /\ \A c \in Slots : challenges'[c].kind # "LOGIN"

\* Bound: the rows of external reviews are used in the order of their names.
ReviewsInOrder ==
  \A v \in Reviews \ {1} : reviews'[v].st # "NONE" => reviews'[v - 1].st # "NONE"

\* Bound: once there is a backup, nobody on the staff signs in or out or goes.
StaffStays ==
  archive # NoArchive =>
    laptop'.account = laptop.account /\ laptop'.session = laptop.session

Names == {"ACCOUNTS", "SIGN-IN", "PASSPHRASES", "CASEWORK", "INTAKE", "PROJECTION",
          "DATABASE", "RECOVERY", "REVIEWS", "CLOUD SIGN-IN", "CUSTODY", "PAIRING"}

PartsInit ==
  /\ focus \in Names
  /\ AccountsInit /\ SignInInit /\ PassInit /\ CaseworkInit /\ IntakeInit
  /\ ProjectionInit /\ DatabaseInit /\ RecoveryInit /\ VerifierInit
  /\ AuthInit /\ CustodyInit /\ ConnectionInit
  /\ provider.disabled => ~provider.corroborates    \* nothing to corroborate
  /\ focus # "PROJECTION" => ~provider.disabled /\ ~provider.corroborates
  /\ focus # "DATABASE" => file = Unset /\ \A o \in Openers : openers[o].mode = "pilot"

In(name, Step) == focus = name /\ Step
Still(name, part) == focus # name => UNCHANGED part

PartsNext ==
  /\ \/ In("ACCOUNTS", AccountsNext)
     \/ In("SIGN-IN", SignInNext)
     \/ In("PASSPHRASES", PassNext)
     \/ In("CASEWORK", CaseworkNext)
     \/ In("INTAKE", IntakeNext)
     \/ In("PROJECTION", ProjectionNext)
     \/ In("DATABASE", DatabaseNext)
     \/ In("RECOVERY", RecoveryNext /\ StaffStays)
     \/ In("REVIEWS", VerifierNext /\ ReviewsInOrder)
     \/ In("CLOUD SIGN-IN", AuthNext /\ ThirdIsOnlyAsked /\ TwoAreOfOne /\ TwoRequestsAlone)
     \/ In("CUSTODY", CustodyNext)
     \/ In("PAIRING", ConnectionNext /\ SecondIsCalm)
  /\ Still("ACCOUNTS", accountsVars) /\ Still("SIGN-IN", signInVars)
  /\ Still("PASSPHRASES", passVars) /\ Still("CASEWORK", caseVars)
  /\ Still("INTAKE", intakeVars) /\ Still("PROJECTION", projectionVars)
  /\ Still("DATABASE", databaseVars) /\ Still("RECOVERY", recoveryVars)
  /\ Still("REVIEWS", verifierVars) /\ Still("CLOUD SIGN-IN", authVars)
  /\ Still("CUSTODY", custodyVars) /\ Still("PAIRING", connectionVars)
  /\ UNCHANGED focus

PartsSpec ==
  PartsInit /\ [][PartsNext]_<<focus, accountsVars, signInVars, passVars, caseVars,
                               intakeVars, projectionVars, databaseVars, recoveryVars,
                               verifierVars, authVars, custodyVars, connectionVars>>
=============================================================================
