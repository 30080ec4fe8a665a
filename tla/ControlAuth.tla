---------------------------- MODULE ControlAuth ----------------------------
(***************************************************************************)
(* Owners, invitations and sign-in of the cloud console                    *)
(* (src/services/cloud/control_auth.py, control_store.py).  One            *)
(* transaction is one step: a change by an owner holds the organisation's  *)
(* row exclusively and everything else holds it shared, so transactions    *)
(* that matter to each other are serial.  A request is several of them:    *)
(* require_owner admits it in one and owner_transaction acts in another;   *)
(* a sign-in reads the account, then makes a challenge, then completes it  *)
(* with a code of the authenticator.  A request whose expected_version is  *)
(* not the record's own is refused and changes nothing, as is one that the *)
(* throttle of control_store.py turns away.                                *)
(***************************************************************************)
EXTENDS Integers, FiniteSets

CONSTANTS
  People,        \* addresses of accounts
  Pharmacies,
  Browsers,      \* session tokens
  Slots,         \* 1000 challenges that may be open at a time
  Invites,       \* invitations, by their token
  Nobody,        \* no account, no invitation
  PerUser,       \* 5 live sessions of one user
  MaxTries,      \* 6 codes tried on one challenge
  MaxCode,       \* bound: 30 s steps of the authenticator, by their codes
  MaxReading,    \* bound: sign-ins that are between two transactions
  MaxVersion     \* bound: versions of one account

ASSUME ControlAuthAssumption ==
  /\ Nobody \notin People \cup Invites
  /\ {PerUser, MaxTries, MaxCode, MaxReading, MaxVersion} \subseteq Nat /\ PerUser > 0

VARIABLES
  users,       \* users with user_pharmacies
  pharmacies,
  live,        \* the session each token is good for: neither revoked nor over
  challenges,  \* auth_challenges
  invitations,
  reading,     \* sign-ins between the password and the challenge
  admitted,    \* requests between require_owner and their transaction
  lastStep     \* users.totp_last_step: of the last code accepted, 0 before

authVars == <<users, pharmacies, live, challenges, invitations,
              reading, admitted, lastStep>>

NewRoles == {"OWNER", "MANAGER"}   \* REVIEWER differs in nothing here
NoUserRow == [st |-> "NONE", role |-> "MANAGER", scope |-> {}, version |-> 0]
FreeSlot == [kind |-> "NONE", person |-> Nobody, version |-> 0,
             invite |-> Nobody, tries |-> 0]
NoInvite == [st |-> "NONE", by |-> Nobody, person |-> Nobody,
             role |-> "MANAGER", scope |-> {}]
\* A session knows how many of its user's are newer and not revoked, those that
\* are over included; `version' (history) is the account's when it was made.
LoggedOut == [user |-> Nobody, version |-> 0, newer |-> 0]
Spent == NoInvite   \* used, revoked or over: the name is free for a new token

AuthInit ==
  /\ users = [u \in People |-> NoUserRow]
  /\ pharmacies = [p \in Pharmacies |-> "NONE"]
  /\ live = [k \in Browsers |-> LoggedOut]
  /\ challenges = [c \in Slots |-> FreeSlot]
  /\ invitations = [i \in Invites |-> NoInvite]
  /\ reading = {} /\ admitted = {}
  /\ lastStep = [u \in People |-> 0]

-----------------------------------------------------------------------------
(* Accounts and sessions *)

Founded == \E u \in People : users[u].st # "NONE"
ActiveOwner(u) == users[u].st = "ACTIVE" /\ users[u].role = "OWNER"
Holders == {k \in Browsers : live[k].user # Nobody}
UserOf(k) == live[k].user

\* validate_principal, again in the transaction that acts
Valid(k) == k \in Holders /\ users[UserOf(k)].st = "ACTIVE"
OwnerActs(k) == k \in admitted /\ Valid(k) /\ ActiveOwner(UserOf(k))

Without(us) == [k \in Browsers |-> IF UserOf(k) \in us THEN LoggedOut ELSE live[k]]

\* create_session: the oldest of the user's sessions go.
CreateSession(k, u, version) ==
  /\ k \notin Holders \cup admitted
  /\ live' = [j \in Browsers |->
       IF j = k THEN [user |-> u, version |-> version, newer |-> 0]
       ELSE IF UserOf(j) # u THEN live[j]
       ELSE IF live[j].newer < PerUser - 1
       THEN [live[j] EXCEPT !.newer = live[j].newer + 1] ELSE LoggedOut]

\* _validate_scope
ScopeAllowed(role, ids, requireActive) ==
  /\ (role = "OWNER") = (ids = {})
  /\ \A p \in ids : pharmacies[p] \in
       IF requireActive THEN {"ACTIVE"} ELSE {"ACTIVE", "INACTIVE"}

-----------------------------------------------------------------------------
(* Challenges *)

\* _challenge: what is over or consumed makes room.
Challenge(c, kind, person, version, invite) ==
  /\ challenges[c].kind = "NONE"
  /\ challenges' = [challenges EXCEPT ![c] =
       [kind |-> kind, person |-> person, version |-> version,
        invite |-> invite, tries |-> 0]]

Freed(over) == [c \in Slots |-> IF c \in over THEN FreeSlot ELSE challenges[c]]

\* _challenge_row: one more try of an open challenge
Tried(c) == [challenges EXCEPT ![c].tries = challenges[c].tries + 1]
Open(c, kind) == challenges[c].kind = kind /\ challenges[c].tries < MaxTries

\* A code that is good for its own step again.
VerifiesAgain(u, code) == code >= lastStep[u]

\* verify_totp: a code of a step later than the last one accepted.  Which
\* steps the clock allows is left open: time passes between any two calls.
Verifies(u, code) == code > lastStep[u]
Accept(u, code) == lastStep' = [lastStep EXCEPT ![u] = code]

\* A code that does not verify: the refusal is returned, not raised, so the
\* try is committed.
WrongCode(c) ==
  /\ challenges[c].kind # "NONE" /\ challenges[c].tries < MaxTries
  /\ challenges' = Tried(c)
  /\ UNCHANGED <<users, pharmacies, live, invitations, reading, admitted, lastStep>>

ChallengeEnds(c) ==
  /\ challenges[c].kind # "NONE"
  /\ challenges' = [challenges EXCEPT ![c] = FreeSlot]
  /\ UNCHANGED <<users, pharmacies, live, invitations, reading, admitted, lastStep>>

-----------------------------------------------------------------------------
(* First owner *)

SetupBegin(c, u) ==
  /\ ~Founded
  /\ Challenge(c, "SETUP", u, 0, Nobody)
  /\ UNCHANGED <<users, pharmacies, live, invitations, reading, admitted, lastStep>>

NewUser(u, role, ids) ==
  users' = [users EXCEPT ![u] =
    [st |-> "ACTIVE", role |-> role, scope |-> ids, version |-> 1]]

SetupComplete(c, code, k) ==
  LET u == challenges[c].person IN
  /\ ~Founded /\ Open(c, "SETUP") /\ Verifies(u, code)
  /\ NewUser(u, "OWNER", {})
  /\ Accept(u, code)
  /\ challenges' = [challenges EXCEPT ![c] = FreeSlot]
  /\ CreateSession(k, u, 1)
  /\ UNCHANGED <<pharmacies, invitations, reading, admitted>>

-----------------------------------------------------------------------------
(* Signing in *)

\* login, the first transaction and the right password
LoginReads(u) ==
  /\ users[u].st = "ACTIVE" /\ Cardinality(reading) < MaxReading
  /\ reading' = reading \cup {[user |-> u, version |-> users[u].version]}
  /\ UNCHANGED <<users, pharmacies, live, challenges, invitations, admitted, lastStep>>

\* ... and the second
LoginChallenges(r, c) ==
  /\ Challenge(c, "LOGIN", r.user, r.version, Nobody)
  /\ reading' = reading \ {r}
  /\ UNCHANGED <<users, pharmacies, live, invitations, admitted, lastStep>>

LoginMfa(c, code, k) ==
  LET u == challenges[c].person IN
  /\ Open(c, "LOGIN")
  /\ users[u].st = "ACTIVE" /\ users[u].version = challenges[c].version
  /\ Verifies(u, code)
  /\ Accept(u, code)
  /\ challenges' = [challenges EXCEPT ![c] = FreeSlot]
  /\ CreateSession(k, u, challenges[c].version)
  /\ UNCHANGED <<users, pharmacies, invitations, reading, admitted>>

\* logout
SignOut(k) ==
  /\ k \in Holders
  /\ live' = [j \in Browsers |->
       IF j = k THEN LoggedOut
       ELSE IF UserOf(j) = UserOf(k) /\ live[j].newer > live[k].newer
       THEN [live[j] EXCEPT !.newer = live[j].newer - 1] ELSE live[j]]
  /\ UNCHANGED <<users, pharmacies, challenges, invitations, reading, admitted, lastStep>>

\* Eight hours, or thirty idle minutes: the row stays, and keeps its place.
SessionOver(k) ==
  /\ k \in Holders
  /\ live' = [live EXCEPT ![k] = LoggedOut]
  /\ UNCHANGED <<users, pharmacies, challenges, invitations, reading, admitted, lastStep>>

-----------------------------------------------------------------------------
(* An owner's requests *)

\* require_owner
Admit(k) ==
  /\ Valid(k) /\ ActiveOwner(UserOf(k))
  /\ admitted' = admitted \cup {k}
  /\ UNCHANGED <<users, pharmacies, live, challenges, invitations, reading, lastStep>>

\* owner_transaction finds the session or the role gone.
Refuse(k) ==
  /\ k \in admitted /\ ~OwnerActs(k)
  /\ admitted' = admitted \ {k}
  /\ UNCHANGED <<users, pharmacies, live, challenges, invitations, reading, lastStep>>

CreatePharmacy(k, p) ==
  /\ OwnerActs(k) /\ pharmacies[p] = "NONE"
  /\ pharmacies' = [pharmacies EXCEPT ![p] = "ACTIVE"]
  /\ admitted' = admitted \ {k}
  /\ UNCHANGED <<users, live, challenges, invitations, reading, lastStep>>

\* update_pharmacy: opening or closing it ends its people's sessions.
UpdatePharmacy(k, p, status) ==
  /\ OwnerActs(k) /\ pharmacies[p] # "NONE" /\ status # pharmacies[p]
  /\ pharmacies' = [pharmacies EXCEPT ![p] = status]
  /\ live' = Without({u \in People : p \in users[u].scope})
  /\ admitted' = admitted \ {k}
  /\ UNCHANGED <<users, challenges, invitations, reading, lastStep>>

\* invite: an older pending one for the address is revoked.
Invite(k, i, u, role, ids) ==
  /\ OwnerActs(k) /\ invitations[i].st = "NONE"
  /\ \A c \in Slots : challenges[c].invite # i
  /\ ScopeAllowed(role, ids, TRUE) /\ users[u].st = "NONE"
  /\ invitations' = [j \in Invites |->
       IF j = i THEN [st |-> "PENDING", by |-> UserOf(k), person |-> u,
                      role |-> role, scope |-> ids]
       ELSE IF invitations[j].person = u /\ invitations[j].st = "PENDING"
       THEN Spent ELSE invitations[j]]
  /\ admitted' = admitted \ {k}
  /\ UNCHANGED <<users, pharmacies, live, challenges, reading, lastStep>>

RevokeInvitation(k, i) ==
  /\ OwnerActs(k) /\ invitations[i].st = "PENDING"
  /\ invitations' = [invitations EXCEPT ![i] = Spent]
  /\ challenges' = Freed({c \in Slots : challenges[c].invite = i})
  /\ admitted' = admitted \ {k}
  /\ UNCHANGED <<users, pharmacies, live, reading, lastStep>>

\* What a change of access takes with it: sessions, open sign-ins, and the
\* invitations of somebody who is no owner any more.
RevokedBy(u, active, role) ==
  [i \in Invites |->
     IF invitations[i].by = u /\ invitations[i].st = "PENDING"
        /\ (~active \/ role # "OWNER")
     THEN Spent ELSE invitations[i]]

\* Only the account that asks is looked at.
LastOwnerUnseen(u) == FALSE

LastOwner(u) == \A v \in People \ {u} : ~ActiveOwner(v)

UpdateUser(k, u, active, role, ids) ==
  /\ OwnerActs(k) /\ users[u].st # "NONE" /\ users[u].version < MaxVersion
  /\ ScopeAllowed(role, ids, ids # users[u].scope \/ role # users[u].role)
  /\ ActiveOwner(u) /\ (~active \/ role # "OWNER") => ~LastOwner(u)
  /\ users' = [users EXCEPT ![u] =
       [st |-> IF active THEN "ACTIVE" ELSE "INACTIVE", role |-> role,
        scope |-> ids, version |-> users[u].version + 1]]
  /\ live' = Without({u})
  /\ challenges' = Freed({c \in Slots : challenges[c].kind = "LOGIN" /\ challenges[c].person = u})
  /\ invitations' = RevokedBy(u, active, role)
  /\ admitted' = admitted \ {k}
  /\ UNCHANGED <<pharmacies, reading, lastStep>>

-----------------------------------------------------------------------------
(* Accepting an invitation *)

\* invitation_valid
InvitationValid(i) == invitations[i].st = "PENDING" /\ ActiveOwner(invitations[i].by)

\* invite_begin: a new challenge replaces an older one.
InviteBegin(i, c) ==
  /\ InvitationValid(i)
  /\ challenges[c].kind = "NONE" \/ challenges[c].invite = i
  /\ challenges' = [Freed({d \in Slots : challenges[d].invite = i}) EXCEPT ![c] =
       [kind |-> "INVITATION", person |-> invitations[i].person, version |-> 0,
        invite |-> i, tries |-> 0]]
  /\ UNCHANGED <<users, pharmacies, live, invitations, reading, admitted, lastStep>>

\* invite_complete: the scope must still be there.
InviteComplete(c, code, k) ==
  LET i == challenges[c].invite
      u == challenges[c].person
  IN
  /\ Open(c, "INVITATION") /\ InvitationValid(i) /\ Verifies(u, code)
  /\ users[u].st = "NONE"
  /\ ScopeAllowed(invitations[i].role, invitations[i].scope, TRUE)
  /\ NewUser(u, invitations[i].role, invitations[i].scope)
  /\ invitations' = [invitations EXCEPT ![i] = Spent]
  /\ Accept(u, code)
  /\ challenges' = [challenges EXCEPT ![c] = FreeSlot]
  /\ CreateSession(k, u, 1)
  /\ UNCHANGED <<pharmacies, reading, admitted>>

InvitationEnds(i) ==
  /\ invitations[i].st = "PENDING"
  /\ invitations' = [invitations EXCEPT ![i] = Spent]
  /\ UNCHANGED <<users, pharmacies, live, challenges, reading, admitted, lastStep>>

-----------------------------------------------------------------------------

OwnerRequest(k) ==
  \/ Admit(k)
  \/ Refuse(k)
  \/ \E p \in Pharmacies : CreatePharmacy(k, p)
  \/ \E p \in Pharmacies, status \in {"ACTIVE", "INACTIVE"} : UpdatePharmacy(k, p, status)
  \/ \E i \in Invites : RevokeInvitation(k, i)
  \/ \E u \in People, role \in NewRoles, ids \in SUBSET Pharmacies :
       \/ \E i \in Invites : Invite(k, i, u, role, ids)
       \/ \E active \in BOOLEAN : UpdateUser(k, u, active, role, ids)

ChallengeStep(c) ==
  \/ WrongCode(c)
  \/ ChallengeEnds(c)
  \/ \E u \in People : SetupBegin(c, u)
  \/ \E r \in reading : LoginChallenges(r, c)
  \/ \E i \in Invites : InviteBegin(i, c)
  \/ \E code \in 1 .. MaxCode, k \in Browsers :
       \/ SetupComplete(c, code, k)
       \/ LoginMfa(c, code, k)
       \/ InviteComplete(c, code, k)

AuthNext ==
  \/ \E k \in Browsers : OwnerRequest(k) \/ SignOut(k) \/ SessionOver(k)
  \/ \E c \in Slots : ChallengeStep(c)
  \/ \E u \in People : LoginReads(u)
  \/ \E i \in Invites : InvitationEnds(i)

AuthSpec == AuthInit /\ [][AuthNext]_authVars

-----------------------------------------------------------------------------
(* Properties *)

\* Owners may demote and disable each other at once and themselves: a
\* founded organisation always has an active owner.
OwnerRemains == Founded => \E u \in People : ActiveOwner(u)

\* A live session belongs to the account as it is: no change of access
\* leaves one behind, and no sign-in that was under way makes one.
AccessIsCurrent ==
  \A k \in Holders : /\ users[UserOf(k)].st = "ACTIVE"
                     /\ live[k].version = users[UserOf(k)].version

\* Who can still hand out an account by an invitation is an active owner.
InvitationsAreBacked ==
  \A i \in Invites : invitations[i].st = "PENDING" => ActiveOwner(invitations[i].by)

\* A code of an authenticator opens one session: whoever gets a session
\* showed a code later than every one their account had accepted, whatever
\* challenges were open at the same time.
CodesOnlyOnce ==
  [][\A k \in Browsers : k \in Holders' \ Holders =>
       lastStep'[UserOf(k)'] > lastStep[UserOf(k)']]_authVars

\* Signing in again and again keeps no more than PerUser sessions open.
SessionsAreFew ==
  \A u \in People : Cardinality({k \in Browsers : UserOf(k) = u}) <= PerUser

\* An owner remains, and sessions and invitations are backed by the accounts as
\* they are.
AuthInv == OwnerRemains /\ AccessIsCurrent /\ InvitationsAreBacked /\ SessionsAreFew
=============================================================================
