---------------------------- MODULE PeopleProofs ----------------------------
(***************************************************************************)
(* Who is let in, for every value of the constants: accounts and branches  *)
(* of a pilot laptop (Accounts), the sessions of its API (SignIn), the     *)
(* owners, invitations and codes of the cloud console (ControlAuth) and    *)
(* the limits on wrong passphrases (Passphrases).                          *)
(***************************************************************************)
EXTENDS Accounts, SignIn, Passphrases, ControlAuth, SumProofs

-----------------------------------------------------------------------------
(***************************************************************************)
(* Accounts of a laptop (Accounts)                                         *)
(*                                                                         *)
(* The argument is about single rows: every change of one account's access *)
(* ends its sessions and takes no branch its last manager, and an account  *)
(* or branch that is made where there was none can have neither sessions   *)
(* nor managers to lose.                                                   *)
(***************************************************************************)

-----------------------------------------------------------------------------
(* The inductive invariant *)

IInv == AccountsTypeOK /\ SessionIsCurrent /\ FoundedOnce

\* What no step of one account takes from anybody: the manager of a branch.
ManagersStay == \A s \in Sites : HasManager(s) => HasManager(s)'

\* Another account in the place of u, which has its managers where u was one
\* or had a successor.
Replaced(u, a) ==
  /\ accounts' = [accounts EXCEPT ![u] = a]
  /\ \A s \in Sites : Manages(accounts[u], s) /\ ~Manages(a, s) =>
       \E v \in Users \ {u} : Manages(accounts[v], s)

-----------------------------------------------------------------------------
(* What the operators keep *)

\* The others still manage what they managed.
LEMMA ReplacedKeepsManagers ==
  ASSUME AccountsTypeOK, NEW u \in Users, NEW a, Replaced(u, a)
  PROVE  ManagersStay
<1> SUFFICES ASSUME NEW s \in Sites, HasManager(s)
             PROVE  \E v \in Users : Manages(accounts'[v], s)
  BY DEF ManagersStay, HasManager, Manages
<1>1. accounts'[u] = a /\ \A v \in Users \ {u} : accounts'[v] = accounts[v]
  BY DEF Replaced, AccountsTypeOK
<1>2. PICK v \in Users : Manages(accounts[v], s)
  BY DEF HasManager
<1>3. CASE v # u
  BY <1>1, <1>2, <1>3
<1>4. CASE v = u /\ Manages(a, s)
  BY <1>1, <1>4
<1>5. CASE v = u /\ ~Manages(a, s)
  <2>1. PICK q \in Users \ {u} : Manages(accounts[q], s)
    BY <1>2, <1>5 DEF Replaced
  <2> QED BY <1>1, <2>1
<1> QED BY <1>3, <1>4, <1>5

\* A grant that replaces one of them.
LEMMA RegrantedGrants ==
  ASSUME AccountsTypeOK, NEW u \in Users, NEW s \in Sites, NEW role \in Roles \cup {"NONE"}
  PROVE  /\ Regranted(u, s, role) \in Grants
         /\ \A t \in Sites : Regranted(u, s, role)[t] = IF t = s THEN role ELSE accounts[u].grants[t]
BY DEF Regranted, Grants, AccountsTypeOK, Account

\* An account and its fields.
LEMMA AccountFields ==
  ASSUME AccountsTypeOK, NEW u \in Users
  PROVE  /\ accounts[u].st \in {"NONE", "ENABLED", "DISABLED"}
         /\ accounts[u].home \in Sites \cup {NoUser}
         /\ accounts[u].grants \in Grants /\ accounts[u].epoch \in Nat
BY DEF AccountsTypeOK, Account

\* The sessions a change leaves are those of the others.
LEMMA SignedOutOthers ==
  ASSUME AccountsTypeOK, NEW u \in Users
  PROVE  /\ SignedOut(u) \in [Tokens -> Session]
         /\ \A k \in Tokens : SignedOut(u)[k].user # NoUser =>
              SignedOut(u)[k] = sessions[k] /\ sessions[k].user # u
BY AccountsAssumption DEF SignedOut, AccountsTypeOK, Session, NoSession

\* Each change of access ends the account's sessions.
LEMMA ChangeKeeps ==
  ASSUME IInv, NEW u \in Users, NEW st \in {"ENABLED", "DISABLED"}, NEW grants \in Grants,
         ChangeAccount(u, st, grants)
  PROVE  /\ accounts' \in [Users -> Account] /\ sessions' \in [Tokens -> Session]
         /\ SessionIsCurrent'
<1> DEFINE a == [st |-> st, home |-> accounts[u].home, grants |-> grants,
                 epoch |-> accounts[u].epoch + 1]
<1>1. accounts' = [accounts EXCEPT ![u] = a] /\ sessions' = SignedOut(u)
  BY DEF ChangeAccount
<1>2. a \in Account
  BY AccountFields DEF IInv, Account
<1> HIDE DEF a
<1>3. accounts' \in [Users -> Account] /\ sessions' \in [Tokens -> Session]
      /\ \A v \in Users \ {u} : accounts'[v] = accounts[v]
  BY <1>1, <1>2, SignedOutOthers DEF IInv, AccountsTypeOK
<1>4. ASSUME NEW k \in Tokens, sessions'[k].user # NoUser
      PROVE  /\ accounts'[sessions'[k].user].st = "ENABLED"
             /\ sessions'[k].epoch = accounts'[sessions'[k].user].epoch
  <2>1. sessions'[k] = sessions[k] /\ sessions[k].user # u /\ sessions[k].user # NoUser
    BY <1>1, <1>4, SignedOutOthers DEF IInv
  <2>2. sessions[k].user \in Users \ {u}
    BY <2>1 DEF IInv, AccountsTypeOK, Session
  <2>3. /\ accounts[sessions[k].user].st = "ENABLED"
        /\ sessions[k].epoch = accounts[sessions[k].user].epoch
    BY <2>1 DEF IInv, SessionIsCurrent
  <2> QED BY <1>3, <2>1, <2>2, <2>3
<1> QED BY <1>3, <1>4 DEF SessionIsCurrent

\* An account that was not there had no session.
LEMMA NewAccountKeeps ==
  ASSUME IInv, NEW u \in Users, accounts[u].st = "NONE", NEW home \in Sites, NEW grants \in Grants,
         accounts' = [accounts EXCEPT ![u] = NewAccount(home, grants)], sessions' = sessions
  PROVE  /\ accounts' \in [Users -> Account] /\ SessionIsCurrent'
         /\ Replaced(u, NewAccount(home, grants))
<1>1. NewAccount(home, grants) \in Account
  BY DEF NewAccount, Account
<1>2. /\ accounts' \in [Users -> Account]
      /\ \A v \in Users \ {u} : accounts'[v] = accounts[v]
  BY <1>1 DEF IInv, AccountsTypeOK
<1>3. ASSUME NEW k \in Tokens, sessions[k].user # NoUser
      PROVE  sessions[k].user \in Users \ {u}
  BY <1>3 DEF IInv, SessionIsCurrent, AccountsTypeOK, Session
<1>4. SessionIsCurrent'
  BY <1>2, <1>3 DEF IInv, SessionIsCurrent
<1>5. Replaced(u, NewAccount(home, grants))
  BY DEF Replaced, Manages
<1> QED BY <1>2, <1>4, <1>5

\* A workspace that has a branch or an account was founded.
LEMMA FoundedMany ==
  ASSUME IInv, branches # {} \/ \E u \in Users : accounts[u].st # "NONE"
  PROVE  founded = 1 /\ branches # {}
<1>1. founded \in Nat /\ founded <= 1 /\ founded # 0
  BY DEF IInv, FoundedOnce, AccountsTypeOK
<1> QED BY <1>1 DEF IInv, FoundedOnce

\* Whoever acts in the browser is an account of a branch.
LEMMA ActorKnown ==
  ASSUME IInv, NEW k \in Tokens, ResolvedSession(k)
  PROVE  /\ sessions[k].user \in Users /\ sessions[k].site \in branches
         /\ accounts[sessions[k].user].st = "ENABLED" /\ branches # {}
BY DEF IInv, ResolvedSession, Allowed, AccountsTypeOK, Session

-----------------------------------------------------------------------------
(* Every step keeps the invariant, and every branch its managers *)

Good == IInv' /\ ManagersStay

\* An access change of an account that is there.
LEMMA ChangeGood ==
  ASSUME IInv, NEW u \in Users, NEW st \in {"ENABLED", "DISABLED"}, NEW grants \in Grants,
         accounts[u].st # "NONE", ChangeAccount(u, st, grants), UNCHANGED <<branches, setupVars>>,
         \A s \in Sites : Manages(accounts[u], s) =>
           \/ st = "ENABLED" /\ grants[s] = "MANAGER"
           \/ \E v \in Users \ {u} : Manages(accounts[v], s)
  PROVE  Good
<1> DEFINE a == [st |-> st, home |-> accounts[u].home, grants |-> grants,
                 epoch |-> accounts[u].epoch + 1]
<1>1. accounts' = [accounts EXCEPT ![u] = a] /\ a.st = st /\ a.grants = grants
  BY DEF ChangeAccount
<1> HIDE DEF a
<1>2. Replaced(u, a)
  BY <1>1 DEF Replaced, Manages
<1>3. ManagersStay
  BY <1>2, ReplacedKeepsManagers DEF IInv
<1>4. AccountsTypeOK' /\ SessionIsCurrent'
  BY ChangeKeeps DEF IInv, AccountsTypeOK, setupVars
<1>5. founded' = 1 /\ branches' # {} /\ founded' <= 1
  BY FoundedMany DEF setupVars
<1>6. FoundedOnce'
  BY <1>5 DEF FoundedOnce
<1> QED BY <1>3, <1>4, <1>6 DEF Good, IInv

\* A step of sessions only.
LEMMA SessionGood ==
  ASSUME IInv, sessions' \in [Tokens -> Session], UNCHANGED <<branches, accounts, setupVars>>,
         \A k \in Tokens : sessions'[k].user # NoUser =>
           /\ accounts[sessions'[k].user].st = "ENABLED"
           /\ sessions'[k].epoch = accounts[sessions'[k].user].epoch
  PROVE  Good
<1>1. ManagersStay
  BY DEF ManagersStay, HasManager, Manages
<1> QED BY <1>1 DEF Good, IInv, AccountsTypeOK, SessionIsCurrent, FoundedOnce, setupVars

\* Codes come and go.
LEMMA CodeGood ==
  ASSUME IInv, UNCHANGED <<branches, accounts, sessions, founded>>,
         setup' \in Nat, codefile' \in Nat, issued' \in Nat
  PROVE  Good
<1>1. ManagersStay
  BY DEF ManagersStay, HasManager, Manages
<1> QED BY <1>1 DEF Good, IInv, AccountsTypeOK, SessionIsCurrent, FoundedOnce

\* The first owner of an empty database.
LEMMA SetUpGood ==
  ASSUME IInv, NEW u \in Users, NEW s \in Sites, SetUp(u, s),
         setup' \in Nat, codefile' \in Nat, issued' \in Nat
  PROVE  Good
<1> DEFINE g == [NoGrants EXCEPT ![s] = "MANAGER"]
<1>1. g \in Grants
  BY DEF NoGrants, Grants, Roles
<1>2. accounts[u].st = "NONE" /\ accounts' = [accounts EXCEPT ![u] = NewAccount(s, g)]
      /\ sessions' = sessions /\ branches' = {s} /\ founded' = founded + 1 /\ branches = {}
  BY DEF SetUp, SetupAvailable
<1> HIDE DEF g
<1>3. accounts' \in [Users -> Account] /\ SessionIsCurrent' /\ ManagersStay
  BY <1>1, <1>2, NewAccountKeeps, ReplacedKeepsManagers DEF IInv
<1>4. founded = 0
  BY <1>2 DEF IInv, FoundedOnce, AccountsTypeOK
<1>5. FoundedOnce'
  BY <1>2, <1>4 DEF FoundedOnce
<1> QED BY <1>2, <1>3, <1>4, <1>5 DEF Good, IInv, AccountsTypeOK

\* An account made by the operator or a manager.
LEMMA AddedGood ==
  ASSUME IInv, NEW u \in Users, accounts[u].st = "NONE", branches # {},
         NEW home \in Sites, NEW grants \in Grants,
         accounts' = [accounts EXCEPT ![u] = NewAccount(home, grants)],
         UNCHANGED <<branches, sessions, setupVars>>
  PROVE  Good
<1>1. accounts' \in [Users -> Account] /\ SessionIsCurrent' /\ ManagersStay
  BY NewAccountKeeps, ReplacedKeepsManagers DEF IInv
<1>2. founded' = 1 /\ branches' # {}
  BY FoundedMany DEF setupVars
<1>3. FoundedOnce'
  BY <1>2 DEF FoundedOnce
<1> QED BY <1>1, <1>3 DEF Good, IInv, AccountsTypeOK, setupVars

\* What the operator does to an account.
LEMMA OperatorGood ==
  ASSUME IInv, NEW u \in Users, OperatorStep(u)
  PROVE  Good
<1>0. accounts[u].grants \in Grants /\ accounts[u].st \in {"NONE", "ENABLED", "DISABLED"}
      /\ branches \subseteq Sites
  BY AccountFields DEF IInv, AccountsTypeOK
<1>1. ASSUME NEW s \in Sites, Initialise(u, s) PROVE Good
  BY <1>1, SetUpGood DEF Initialise, IInv, AccountsTypeOK
<1>2. ASSUME NEW ss \in SUBSET Sites, NEW role \in Roles, AddUser(u, ss, role) PROVE Good
  <2> DEFINE g == [s \in Sites |-> IF s \in ss THEN role ELSE "NONE"]
  <2>1. g \in Grants
    BY DEF Grants
  <2>2. PICK home \in ss : accounts' = [accounts EXCEPT ![u] = NewAccount(home, g)]
    BY <1>2 DEF AddUser
  <2> HIDE DEF g
  <2>3. accounts[u].st = "NONE" /\ branches # {} /\ UNCHANGED <<branches, sessions, setupVars>>
    BY <1>2 DEF AddUser
  <2> QED BY <2>1, <2>2, <2>3, AddedGood
<1>3. ASSUME NEW s \in Sites, NEW role \in Roles \cup {"NONE"}, accounts[u].st # "NONE",
             role # "MANAGER" => Preserved(u, {s}),
             ChangeAccount(u, accounts[u].st, Regranted(u, s, role)),
             UNCHANGED <<branches, setupVars>>
      PROVE  Good
  <2>1. \A t \in Sites : Manages(accounts[u], t) =>
          \/ accounts[u].st = "ENABLED" /\ Regranted(u, s, role)[t] = "MANAGER"
          \/ \E v \in Users \ {u} : Manages(accounts[v], t)
    BY <1>3, RegrantedGrants DEF IInv, Manages, Preserved
  <2> QED BY <1>0, <1>3, <2>1, RegrantedGrants, ChangeGood DEF IInv
<1>4. ASSUME NEW s \in Sites, NEW role \in Roles, GrantUser(u, s, role) PROVE Good
  BY <1>3, <1>4 DEF GrantUser
<1>5. ASSUME NEW s \in Sites, RevokeSiteAccess(u, s) PROVE Good
  BY <1>3, <1>5 DEF RevokeSiteAccess
<1>6. CASE DisableUser(u)
  BY <1>0, <1>6, ChangeGood DEF DisableUser, Preserved
<1>7. CASE EnableUser(u)
  BY <1>0, <1>7, ChangeGood DEF EnableUser, Manages
<1>8. CASE SetPassword(u)
  BY <1>0, <1>8, ChangeGood DEF SetPassword, Manages
<1> QED BY <1>1, <1>2, <1>4, <1>5, <1>6, <1>7, <1>8 DEF OperatorStep

\* What a manager's browser, or anybody's, does.
LEMMA BrowserGood ==
  ASSUME IInv, NEW k \in Tokens, BrowserStep(k)
  PROVE  Good
<1>0. sessions[k] \in Session /\ branches \subseteq Sites /\ sessions \in [Tokens -> Session]
      /\ NoSession \in Session
  BY DEF IInv, AccountsTypeOK, NoSession, Session
<1>1. ASSUME NEW s \in Sites, CreateSite(k, s) PROVE Good
  <2> DEFINE u == sessions[k].user
             a == [st |-> accounts[u].st, home |-> accounts[u].home,
                   grants |-> Regranted(u, s, "MANAGER"), epoch |-> accounts[u].epoch]
  <2>1. u \in Users /\ branches # {}
    BY <1>1, ActorKnown DEF CreateSite, ManagerActs
  <2>2. accounts' = [accounts EXCEPT ![u] = a] /\ branches' = branches \cup {s}
        /\ UNCHANGED <<sessions, setupVars>>
    BY <1>1 DEF CreateSite
  <2> HIDE DEF u
  <2> DEFINE g == Regranted(u, s, "MANAGER")
  <2>3. AccountsTypeOK /\ "MANAGER" \in Roles \cup {"NONE"}
    BY DEF IInv, Roles
  <2>4. g \in Grants /\ \A t \in Sites : g[t] = IF t = s THEN "MANAGER" ELSE accounts[u].grants[t]
    BY <2>3, <2>1, RegrantedGrants
  <2>5. a \in Account
    <3>1. AccountsTypeOK /\ g \in Grants
      BY <2>3, <2>4
    <3> HIDE DEF g
    <3> QED BY <2>1, <3>1, AccountFields DEF Account, a, g
  <2>6. a.st = accounts[u].st /\ a.epoch = accounts[u].epoch
        /\ a.grants = Regranted(u, s, "MANAGER")
    OBVIOUS
  <2>7. \A t \in Sites : Manages(accounts[u], t) => Manages(a, t)
    BY <2>1, <2>6, <2>4 DEF Manages
  <2> HIDE DEF a
  <2>8. Replaced(u, a)
    BY <2>2, <2>7 DEF Replaced
  <2>9. ManagersStay
    BY <2>1, <2>8, ReplacedKeepsManagers DEF IInv
  <2>10. accounts' \in [Users -> Account]
        /\ \A v \in Users : accounts'[v].st = accounts[v].st /\ accounts'[v].epoch = accounts[v].epoch
    BY <2>1, <2>2, <2>5, <2>6 DEF IInv, AccountsTypeOK
  <2>11. SessionIsCurrent'
    BY <2>2, <2>10 DEF IInv, SessionIsCurrent, AccountsTypeOK, Session
  <2>12. founded' = 1 /\ branches' # {}
    BY <2>1, <2>2, FoundedMany DEF setupVars
  <2>13. FoundedOnce'
    BY <2>12 DEF FoundedOnce
  <2>14. AccountsTypeOK'
    BY <2>2, <2>10 DEF IInv, AccountsTypeOK, setupVars
  <2> QED BY <2>9, <2>11, <2>13, <2>14 DEF Good, IInv
<1>2. ASSUME NEW u \in Users, NEW grants \in Grants, CreateUser(k, u, grants) PROVE Good
  <2>1. branches # {} /\ accounts[u].st = "NONE" /\ UNCHANGED <<branches, sessions, setupVars>>
    BY <1>2, ActorKnown DEF CreateUser, ManagerActs
  <2>2. PICK home \in Sites : accounts' = [accounts EXCEPT ![u] = NewAccount(home, grants)]
    BY <1>0, <1>2 DEF CreateUser, Managed
  <2> QED BY <2>1, <2>2, AddedGood
<1>3. ASSUME NEW u \in Users, NEW s \in Sites, NEW role \in Roles \cup {"NONE"},
             ChangeAccess(k, u, s, role)
      PROVE  Good
  <2>1. accounts[u].st # "NONE" /\ accounts[u].st \in {"NONE", "ENABLED", "DISABLED"}
    BY <1>3, AccountFields DEF ChangeAccess, Reaches, IInv
  <2>2. \A t \in Sites : Manages(accounts[u], t) =>
          \/ accounts[u].st = "ENABLED" /\ Regranted(u, s, role)[t] = "MANAGER"
          \/ \E v \in Users \ {u} : Manages(accounts[v], t)
    BY <1>3, RegrantedGrants DEF IInv, Manages, Preserved, ChangeAccess
  <2> QED BY <1>3, <2>1, <2>2, RegrantedGrants, ChangeGood DEF IInv, ChangeAccess
<1>4. ASSUME NEW u \in Users, NEW enabled \in BOOLEAN, ChangeEnabled(k, u, enabled) PROVE Good
  <2> DEFINE st == IF enabled THEN "ENABLED" ELSE "DISABLED"
  <2>1. accounts[u].st # "NONE" /\ accounts[u].grants \in Grants
    BY <1>4, AccountFields DEF ChangeEnabled, ReachesAll, Reaches, IInv
  <2>2. \A s \in Sites : Manages(accounts[u], s) =>
          \/ st = "ENABLED" /\ accounts[u].grants[s] = "MANAGER"
          \/ \E v \in Users \ {u} : Manages(accounts[v], s)
    BY <1>4 DEF ChangeEnabled, Preserved, Manages
  <2>3. st \in {"ENABLED", "DISABLED"}
    OBVIOUS
  <2>4. ChangeAccount(u, st, accounts[u].grants) /\ UNCHANGED <<branches, setupVars>>
    BY <1>4 DEF ChangeEnabled
  <2> HIDE DEF st
  <2> QED BY <2>1, <2>2, <2>3, <2>4, ChangeGood
<1>5. ASSUME NEW u \in Users, ResetPassword(k, u) PROVE Good
  <2>1. accounts[u].st \in {"ENABLED", "DISABLED"} /\ accounts[u].grants \in Grants
    BY <1>5, AccountFields DEF ResetPassword, ReachesAll, Reaches, IInv
  <2> QED BY <1>5, <2>1, ChangeGood DEF ResetPassword, Manages
<1>6. ASSUME NEW u \in Users, NEW old \in Tokens \cup {NoUser}, Login(u, k, old) PROVE Good
  <2>1. PICK s \in Sites : sessions' = [j \in Tokens |->
          IF j = k THEN [user |-> u, site |-> s, epoch |-> accounts[u].epoch]
          ELSE IF j = old THEN NoSession ELSE sessions[j]]
    BY <1>0, <1>6 DEF Login, Allowed
  <2> DEFINE new == [user |-> u, site |-> s, epoch |-> accounts[u].epoch]
  <2>2. new \in Session /\ new.user = u /\ new.epoch = accounts[u].epoch
    BY AccountFields DEF IInv, Session
  <2> HIDE DEF new
  <2>3. \A j \in Tokens : sessions'[j] = new \/ sessions'[j] = NoSession \/ sessions'[j] = sessions[j]
    BY <2>1 DEF new
  <2>4. sessions' \in [Tokens -> Session]
    BY <1>0, <2>1, <2>2 DEF new
  <2>5. accounts[u].st = "ENABLED" /\ UNCHANGED <<branches, accounts, setupVars>>
    BY <1>6 DEF Login
  <2>6. \A j \in Tokens : sessions'[j].user # NoUser =>
          /\ accounts[sessions'[j].user].st = "ENABLED"
          /\ sessions'[j].epoch = accounts[sessions'[j].user].epoch
    BY <2>2, <2>3, <2>5 DEF IInv, SessionIsCurrent, NoSession
  <2> QED BY <2>4, <2>5, <2>6, SessionGood
<1>7. ASSUME NEW n \in Tokens, NEW s \in Sites, SwitchSite(k, n, s) PROVE Good
  <2> DEFINE new == [user |-> sessions[k].user, site |-> s, epoch |-> sessions[k].epoch]
  <2>1. sessions' = [sessions EXCEPT ![k] = NoSession, ![n] = new]
        /\ UNCHANGED <<branches, accounts, setupVars>> /\ sessions[k].user # NoUser
    BY <1>7 DEF SwitchSite, ResolvedSession
  <2>2. new \in Session /\ new.user = sessions[k].user /\ new.epoch = sessions[k].epoch
    BY <1>0 DEF Session
  <2> HIDE DEF new
  <2>3. sessions' \in [Tokens -> Session]
        /\ \A j \in Tokens : sessions'[j] = new \/ sessions'[j] = NoSession \/ sessions'[j] = sessions[j]
    BY <1>0, <2>1, <2>2
  <2>4. \A j \in Tokens : sessions'[j].user # NoUser =>
          /\ accounts[sessions'[j].user].st = "ENABLED"
          /\ sessions'[j].epoch = accounts[sessions'[j].user].epoch
    BY <2>1, <2>2, <2>3 DEF IInv, SessionIsCurrent, NoSession
  <2> QED BY <2>1, <2>3, <2>4, SessionGood
<1>8. CASE EndSession(k)
  <2>1. sessions' = [sessions EXCEPT ![k] = NoSession] /\ UNCHANGED <<branches, accounts, setupVars>>
    BY <1>8 DEF EndSession
  <2>2. sessions' \in [Tokens -> Session]
        /\ \A j \in Tokens : sessions'[j] = NoSession \/ sessions'[j] = sessions[j]
    BY <1>0, <2>1
  <2>3. \A j \in Tokens : sessions'[j].user # NoUser =>
          /\ accounts[sessions'[j].user].st = "ENABLED"
          /\ sessions'[j].epoch = accounts[sessions'[j].user].epoch
    BY <2>2 DEF IInv, SessionIsCurrent, NoSession
  <2> QED BY <2>1, <2>2, <2>3, SessionGood
<1> QED BY <1>1, <1>2, <1>3, <1>4, <1>5, <1>6, <1>7, <1>8 DEF BrowserStep

-----------------------------------------------------------------------------
(* The theorems *)

\* An empty database.
LEMMA Initially == AccountsInit => IInv
BY DEF AccountsInit, IInv, AccountsTypeOK, SessionIsCurrent, FoundedOnce, NoAccount, NoGrants,
       NoSession, Account, Session, Grants, Roles

\* Every command, every page and every session keeps the invariant, and the
\* branches their managers.
LEMMA Inductive == IInv /\ [AccountsNext]_accountsVars => Good
<1> SUFFICES ASSUME IInv, [AccountsNext]_accountsVars
             PROVE  Good
  OBVIOUS
<1>0. setup \in Nat /\ codefile \in Nat /\ issued \in Nat /\ branches \subseteq Sites
  BY DEF IInv, AccountsTypeOK
<1>1. CASE UNCHANGED accountsVars
  BY <1>0, <1>1, CodeGood DEF accountsVars
<1>2. CASE IssueSetupToken \/ SetupExpires
  BY <1>0, <1>2, CodeGood DEF IssueSetupToken, SetupExpires
<1>3. ASSUME NEW u \in Users, NEW s \in Sites, NEW code \in 1 .. MaxCodes, ClaimSetup(u, s, code)
      PROVE  Good
  BY <1>0, <1>3, SetUpGood DEF ClaimSetup
<1>4. ASSUME NEW s \in Sites, AddSite(s) PROVE Good
  <2>1. founded = 1 /\ ManagersStay
    BY <1>4, FoundedMany DEF AddSite, ManagersStay, HasManager, Manages
  <2>2. FoundedOnce'
    BY <1>4, <2>1 DEF AddSite, FoundedOnce, setupVars
  <2> QED BY <1>0, <1>4, <2>1, <2>2 DEF AddSite, Good, IInv, AccountsTypeOK, SessionIsCurrent, setupVars
<1> QED BY <1>1, <1>2, <1>3, <1>4, OperatorGood, BrowserGood DEF AccountsNext

\* Every table keeps its shape.
THEOREM AccountTypes == AccountsSpec => []AccountsTypeOK
<1>1. IInv => AccountsTypeOK
  BY DEF IInv
<1>2. Good => IInv'
  BY DEF Good
<1> QED BY Initially, Inductive, <1>1, <1>2, PTL DEF AccountsSpec

\* Nobody keeps a session from before a change of their access.
THEOREM SessionsAreCurrent == AccountsSpec => []SessionIsCurrent
<1>1. IInv => SessionIsCurrent
  BY DEF IInv
<1>2. Good => IInv'
  BY DEF Good
<1> QED BY Initially, Inductive, <1>1, <1>2, PTL DEF AccountsSpec

\* A workspace has one first owner.
THEOREM OneFounding == AccountsSpec => []FoundedOnce
<1>1. IInv => FoundedOnce
  BY DEF IInv
<1>2. Good => IInv'
  BY DEF Good
<1> QED BY Initially, Inductive, <1>1, <1>2, PTL DEF AccountsSpec

\* No change of accounts leaves a managed branch without its managers.
THEOREM BranchesKeepManagers == AccountsSpec => BranchKeepsManager
<1>1. Good => IInv' /\ [\A s \in Sites : HasManager(s) => HasManager(s)']_accounts
  BY DEF Good, ManagersStay
<1> QED BY Initially, Inductive, <1>1, PTL DEF AccountsSpec, BranchKeepsManager

\* The three invariants together, as the run checks them.
THEOREM AccountsAreSound == AccountsSpec => []AccountsInv
BY AccountTypes, SessionsAreCurrent, OneFounding, PTL DEF AccountsInv

-----------------------------------------------------------------------------
(***************************************************************************)
(* Sessions of the local API (SignIn)                                      *)
(*                                                                         *)
(* A session that the table or a write under way holds is no older than its *)
(* browser's, and a write that ends a session names it among those it ends: *)
(* so what commits after the answer still tells the browser.               *)
(***************************************************************************)

-----------------------------------------------------------------------------
(* Signing in to the laptop: the inductive invariant *)

\* A table of sessions whose rows are as old as the people behind them say.
SessionTable(rows) ==
  /\ rows \in [Cookies -> Row]
  /\ \A k \in Cookies : rows[k].live => rows[k].created = born[k] /\ rows[k].seen <= active[k]

\* What is written but not committed: a session that it ends it also names.
Pending ==
  \/ writing = NoCookie
  \/ /\ writing \in [rows : [Cookies -> Row], ends : SUBSET Cookies]
     /\ SessionTable(writing.rows)
     /\ \A k \in Cookies : table[k].live => writing.rows[k].live \/ k \in writing.ends

SignInIInv ==
  /\ clock \in Nat /\ cookie \in Cookies \cup {NoCookie} /\ ended \subseteq Cookies
  /\ born \in [Cookies -> Nat] /\ active \in [Cookies -> Nat]
  /\ \A k \in Cookies : active[k] <= clock
  /\ SessionTable(table)
  /\ Pending
  /\ CookieIsKnown

\* Nobody is signed in at first.
LEMMA SignInInitially == SignInInit => SignInIInv
<1> SUFFICES ASSUME SignInInit PROVE SignInIInv
  OBVIOUS
<1>1. NoRow \in Row /\ ~NoRow.live
  BY DEF NoRow, Row
<1> QED BY <1>1 DEF SignInInit, SignInIInv, SessionTable, Pending, CookieIsKnown

\* Time passes.
LEMMA TickKeeps == ASSUME SignInIInv, Tick PROVE SignInIInv'
<1>1. clock' \in Nat /\ \A k \in Cookies : active[k] <= clock'
  BY DEF SignInIInv, Tick
<1>2. UNCHANGED <<table, writing, cookie, born, active, ended>>
  BY DEF Tick
<1> QED BY <1>1, <1>2 DEF SignInIInv, SessionTable, Pending, CookieIsKnown

\* A transaction that is committed after its answer, or is not.
LEMMA CommitKeeps == ASSUME SignInIInv, Commit \/ Crash PROVE SignInIInv'
<1>1. CASE Commit
  <2>1. /\ writing # NoCookie /\ table' = writing.rows /\ ended' = ended \cup writing.ends
        /\ writing' = NoCookie /\ UNCHANGED <<clock, cookie, born, active>>
    BY <1>1 DEF Commit
  <2>2. /\ writing.ends \subseteq Cookies /\ SessionTable(writing.rows)
        /\ \A k \in Cookies : table[k].live => writing.rows[k].live \/ k \in writing.ends
    BY <2>1 DEF SignInIInv, Pending
  <2>3. SessionTable(table)'
    BY <2>1, <2>2 DEF SessionTable
  <2>4. CookieIsKnown'
    BY <2>1, <2>2 DEF CookieIsKnown, SignInIInv
  <2> QED BY <2>1, <2>2, <2>3, <2>4 DEF SignInIInv, Pending
<1>2. CASE Crash
  <2>1. writing' = NoCookie /\ UNCHANGED <<clock, table, cookie, born, active, ended>>
    BY <1>2 DEF Crash
  <2> QED BY <2>1 DEF SignInIInv, Pending, SessionTable, CookieIsKnown
<1> QED BY <1>1, <1>2

\* A row that is deleted at once.
LEMMA DeletedKeeps ==
  ASSUME SignInIInv, NEW k \in Cookies, ExpiredRequest(k) \/ Revoked(k)
  PROVE  SignInIInv'
<1>1. /\ writing = NoCookie /\ table' = [table EXCEPT ![k] = NoRow] /\ ended' = ended \cup {k}
      /\ UNCHANGED <<clock, writing, cookie, born, active>>
  BY DEF ExpiredRequest, Revoked
<1>2. NoRow \in Row /\ ~NoRow.live
  BY DEF NoRow, Row
<1>3. SessionTable(table)'
  BY <1>1, <1>2 DEF SignInIInv, SessionTable
<1>4. CookieIsKnown'
  BY <1>1 DEF SignInIInv, CookieIsKnown, SessionTable
<1> QED BY <1>1, <1>3, <1>4 DEF SignInIInv, Pending

\* An answered request leaves rows of the same people, and ends what it deletes.
LEMMA AnsweredKeeps ==
  ASSUME SignInIInv, NEW k \in Cookies, BackgroundGet(k) \/ PersonActs(k) \/ Logout(k)
  PROVE  SignInIInv'
<1> DEFINE seen == [live |-> TRUE, created |-> table[k].created, seen |-> clock]
<1>1. /\ table[k].live /\ cookie = k /\ cookie' \in {cookie, NoCookie}
      /\ UNCHANGED <<clock, table, born, ended>>
  BY DEF BackgroundGet, PersonActs, Logout, Answer, Requests, AcceptedCookie
<1>2. table[k] \in Row /\ NoRow \in Row /\ ~NoRow.live
  BY DEF SignInIInv, SessionTable, NoRow, Row
<1>3. seen \in Row /\ seen.live /\ seen.created = table[k].created /\ seen.seen = clock
  BY <1>2 DEF SignInIInv, Row
<1>4. \E rows \in {table, [table EXCEPT ![k] = seen], [table EXCEPT ![k] = NoRow]},
         ends \in {{}, {k}} :
        /\ writing' = [rows |-> rows, ends |-> ends]
        /\ rows = [table EXCEPT ![k] = NoRow] => ends = {k}
        /\ \/ rows = table /\ active' = active
           \/ active' = [active EXCEPT ![k] = clock]
  <2>1. CASE BackgroundGet(k)
    <3>1. writing' = [rows |-> table, ends |-> {}] /\ active' = active
      BY <2>1 DEF BackgroundGet, AfterGet
    <3>2. table # [table EXCEPT ![k] = NoRow]
      BY <1>1, <1>2 DEF SignInIInv, SessionTable
    <3> QED BY <3>1, <3>2
  <2>2. CASE PersonActs(k)
    <3>1. /\ writing' = [rows |-> [table EXCEPT ![k] = seen], ends |-> {}]
          /\ active' = [active EXCEPT ![k] = clock]
      BY <2>2 DEF PersonActs, Answer, Touched
    <3>2. [table EXCEPT ![k] = seen] # [table EXCEPT ![k] = NoRow]
      <4> HIDE DEF seen
      <4> QED BY <1>2, <1>3 DEF SignInIInv, SessionTable
    <3> HIDE DEF seen
    <3> QED BY <3>1, <3>2
  <2>3. CASE Logout(k)
    <3>1. /\ writing' = [rows |-> [table EXCEPT ![k] = NoRow], ends |-> {k}]
          /\ active' = [active EXCEPT ![k] = clock]
      BY <2>3 DEF Logout, Answer
    <3> HIDE DEF seen
    <3> QED BY <3>1
  <2> QED BY <2>1, <2>2, <2>3
<1>5. PICK rows \in {table, [table EXCEPT ![k] = seen], [table EXCEPT ![k] = NoRow]},
           ends \in {{}, {k}} :
        /\ writing' = [rows |-> rows, ends |-> ends]
        /\ rows = [table EXCEPT ![k] = NoRow] => ends = {k}
        /\ \/ rows = table /\ active' = active
           \/ active' = [active EXCEPT ![k] = clock]
  BY <1>4
<1> HIDE DEF seen
<1>6. active' \in [Cookies -> Nat] /\ \A j \in Cookies : active[j] <= active'[j] /\ active'[j] <= clock
  BY <1>5 DEF SignInIInv
<1>7. rows \in [Cookies -> Row]
  BY <1>2, <1>3, <1>5 DEF SignInIInv, SessionTable
<1>8. SessionTable(table)'
  <2>1. \A j \in Cookies : table[j].seen \in Nat
    BY DEF SignInIInv, SessionTable, Row
  <2> QED BY <1>1, <1>6, <2>1 DEF SignInIInv, SessionTable
<1>9. \A j \in Cookies : rows[j].live => rows[j].created = born[j] /\ rows[j].seen <= active'[j]
  <2>1. \A j \in Cookies : rows[j] = table[j] \/ rows[j] = NoRow \/ (j = k /\ rows[j] = seen)
    <3>1. table \in [Cookies -> Row]
      BY DEF SignInIInv, SessionTable
    <3> QED BY <1>5, <3>1
  <2>2. rows[k] = seen /\ seen # table[k] => active'[k] = clock
    BY <1>5 DEF SignInIInv
  <2>3. \A j \in Cookies : table[j].live => table[j].created = born[j] /\ table[j].seen <= active'[j]
    BY <1>1, <1>8 DEF SessionTable
  <2> QED BY <1>1, <1>2, <1>3, <1>6, <2>1, <2>2, <2>3 DEF SignInIInv
<1>10. \A j \in Cookies : table[j].live => rows[j].live \/ j \in ends
  BY <1>1, <1>3, <1>5 DEF SignInIInv, SessionTable
<1>11. Pending'
  BY <1>1, <1>5, <1>7, <1>9, <1>10 DEF Pending, SessionTable
<1>12. CookieIsKnown'
  BY <1>1 DEF SignInIInv, CookieIsKnown
<1> QED BY <1>1, <1>6, <1>8, <1>11, <1>12 DEF SignInIInv

\* A change of branch gives the new row the age of the old one.
LEMMA ChangeBranchKeeps ==
  ASSUME SignInIInv, NEW k \in Cookies, NEW new \in Cookies, ChangeBranch(k, new)
  PROVE  SignInIInv'
<1> DEFINE row == [live |-> TRUE, created |-> table[k].created, seen |-> clock]
<1>1. /\ writing = NoCookie /\ cookie = k /\ table[k].live /\ ~table[new].live
      /\ table' = [table EXCEPT ![k] = NoRow, ![new] = row]
      /\ ended' = ended \cup {k} /\ cookie' \in {new, cookie}
      /\ born' = [born EXCEPT ![new] = born[k]] /\ active' = [active EXCEPT ![new] = clock]
      /\ UNCHANGED <<writing, clock>>
  BY DEF ChangeBranch, CommitsSwitch, Requests, AcceptedCookie
<1>2. table[k] \in Row /\ NoRow \in Row /\ ~NoRow.live /\ table \in [Cookies -> Row]
  BY DEF SignInIInv, SessionTable, NoRow, Row
<1>3. row \in Row /\ row.live /\ row.created = table[k].created /\ row.seen = clock
  BY <1>2 DEF SignInIInv, Row
<1> HIDE DEF row
<1>4. /\ table' \in [Cookies -> Row] /\ table'[new] = row /\ table'[k] = NoRow
      /\ \A j \in Cookies \ {k, new} : table'[j] = table[j]
  BY <1>1, <1>2, <1>3
<1>5. /\ born' \in [Cookies -> Nat] /\ active' \in [Cookies -> Nat]
      /\ \A j \in Cookies : active'[j] <= clock'
      /\ born'[new] = born[k] /\ active'[new] = clock
      /\ \A j \in Cookies \ {new} : born'[j] = born[j] /\ active'[j] = active[j]
  BY <1>1 DEF SignInIInv
<1>6. SessionTable(table)'
  <2>1. table[k].created = born[k]
    BY <1>1 DEF SignInIInv, SessionTable
  <2> QED BY <1>2, <1>3, <1>4, <1>5, <2>1 DEF SignInIInv, SessionTable
<1>7. CookieIsKnown'
  BY <1>1, <1>3, <1>4 DEF SignInIInv, CookieIsKnown
<1> QED BY <1>1, <1>5, <1>6, <1>7 DEF SignInIInv, Pending

\* A sign-in makes a row of now, and ends the rows it clears.
LEMMA SignIntoBranchKeeps ==
  ASSUME SignInIInv, NEW k \in Cookies, SignIntoBranch(k)
  PROVE  SignInIInv'
<1> DEFINE over == {j \in Cookies : /\ table[j].live
                                    /\ \/ table[j].created < clock - MaxAge
                                       \/ table[j].seen < clock - Idle
                                       \/ j = cookie}
           row == [live |-> TRUE, created |-> clock, seen |-> clock]
<1>1. /\ writing = NoCookie /\ ~table[k].live
      /\ table' = [j \in Cookies |-> IF j = k THEN row ELSE IF j \in over THEN NoRow ELSE table[j]]
      /\ ended' = ended \cup over /\ cookie' \in {k, cookie}
      /\ born' = [born EXCEPT ![k] = clock] /\ active' = [active EXCEPT ![k] = clock]
      /\ UNCHANGED <<writing, clock>>
  BY DEF SignIntoBranch
<1>2. NoRow \in Row /\ ~NoRow.live /\ table \in [Cookies -> Row]
  BY DEF SignInIInv, SessionTable, NoRow, Row
<1>3. row \in Row /\ row.live /\ row.created = clock /\ row.seen = clock
  BY DEF SignInIInv, Row
<1>4. over \subseteq Cookies /\ (cookie \in Cookies /\ table[cookie].live => cookie \in over)
  OBVIOUS
<1> HIDE DEF row, over
<1>5. /\ table' \in [Cookies -> Row] /\ table'[k] = row
      /\ \A j \in Cookies \ {k} : (table'[j] = NoRow /\ j \in over) \/ table'[j] = table[j]
  BY <1>1, <1>2, <1>3
<1>6. /\ born' \in [Cookies -> Nat] /\ active' \in [Cookies -> Nat]
      /\ \A j \in Cookies : active'[j] <= clock'
      /\ born'[k] = clock /\ active'[k] = clock
      /\ \A j \in Cookies \ {k} : born'[j] = born[j] /\ active'[j] = active[j]
  BY <1>1 DEF SignInIInv
<1>7. SessionTable(table)'
  BY <1>2, <1>3, <1>5, <1>6 DEF SignInIInv, SessionTable
<1>8. CookieIsKnown'
  BY <1>1, <1>3, <1>4, <1>5 DEF SignInIInv, CookieIsKnown
<1> QED BY <1>1, <1>4, <1>6, <1>7, <1>8 DEF SignInIInv, Pending

\* No step of a browser, the clock, a crash or the operator breaks it.
LEMMA SignInInductive == SignInIInv /\ [SignInNext]_signInVars => SignInIInv'
<1> SUFFICES ASSUME SignInIInv, [SignInNext]_signInVars PROVE SignInIInv'
  OBVIOUS
<1>1. CASE UNCHANGED signInVars
  BY <1>1 DEF signInVars, SignInIInv, SessionTable, Pending, CookieIsKnown
<1>2. CASE SignInNext
  BY <1>2, TickKeeps, CommitKeeps, DeletedKeeps, AnsweredKeeps, ChangeBranchKeeps,
     SignIntoBranchKeeps DEF SignInNext
<1> QED BY <1>1, <1>2

\* Nobody overstays, and a cookie never runs ahead of its commit.
THEOREM NobodyIsLetInForTooLong == SignInSpec => []SignInInv
<1>1. SignInIInv => SignInInv
  <2> SUFFICES ASSUME SignInIInv, NEW k \in Cookies, AcceptedCookie(k)
               PROVE  clock - born[k] < MaxAge /\ clock - active[k] < Idle
    BY DEF SignInInv, NobodyOverstays, SignInIInv
  <2>1. table[k].created \in Nat /\ table[k].seen \in Nat /\ active[k] \in Nat /\ clock \in Nat
    BY DEF SignInIInv, SessionTable, Row
  <2>2. table[k].created = born[k] /\ table[k].seen <= active[k]
    BY DEF SignInIInv, SessionTable, AcceptedCookie
  <2>3. MaxAge \in Nat /\ Idle \in Nat
    BY SignInAssumption
  <2> QED BY <2>1, <2>2, <2>3 DEF AcceptedCookie
<1> QED BY SignInInitially, SignInInductive, <1>1, PTL DEF SignInSpec

-----------------------------------------------------------------------------
(***************************************************************************)
(* Owners and sessions of the console (ControlAuth)                        *)
(*                                                                         *)
(* An owner who acts is active, so a demotion of somebody else leaves the  *)
(* actor and a demotion of oneself another.  A session is of the version   *)
(* its account has, because a change of the account ends the sessions with *)
(* the same write.  Ranks below PerUser that differ count the sessions.    *)
(***************************************************************************)

-----------------------------------------------------------------------------
(* Owners and all of the cloud console: the inductive invariant *)

ConsoleUser == [st : {"NONE", "ACTIVE", "INACTIVE"}, role : NewRoles,
            scope : SUBSET Pharmacies, version : Nat]
ConsoleSession == [user : People \cup {Nobody}, version : Nat, newer : Nat]
OpenChallenge == [kind : {"NONE", "SETUP", "LOGIN", "INVITATION"}, person : People \cup {Nobody},
                  version : Nat, invite : Invites \cup {Nobody}, tries : Nat]
Invitation == [st : {"NONE", "PENDING"}, by : People \cup {Nobody}, person : People \cup {Nobody},
               role : NewRoles, scope : SUBSET Pharmacies]

\* Every record keeps its shape, and what is open is open to somebody.
AuthShapes ==
  /\ users \in [People -> ConsoleUser]
  /\ pharmacies \in [Pharmacies -> {"NONE", "ACTIVE", "INACTIVE"}]
  /\ live \in [Browsers -> ConsoleSession]
  /\ challenges \in [Slots -> OpenChallenge]
  /\ invitations \in [Invites -> Invitation]
  /\ reading \subseteq [user : People, version : Nat]
  /\ admitted \subseteq Browsers
  /\ lastStep \in [People -> Nat]
  /\ \A c \in Slots : challenges[c].kind # "NONE" => challenges[c].person \in People
  /\ \A c \in Slots : challenges[c].kind = "INVITATION" => challenges[c].invite \in Invites
  /\ \A i \in Invites : invitations[i].st = "PENDING" =>
       invitations[i].by \in People /\ invitations[i].person \in People

\* The sessions of one user know their order, and none is beyond the limit.
Ranked(all) ==
  \A j \in Browsers : all[j].user # Nobody =>
    /\ all[j].newer < PerUser
    /\ \A k \in Browsers \ {j} :
         all[k].user = all[j].user => all[k].newer # all[j].newer

AuthIInv ==
  /\ AuthShapes /\ Ranked(live)
  /\ OwnerRemains /\ AccessIsCurrent /\ InvitationsAreBacked

\* The records that the operations write.
LEMMA AuthRecords ==
  /\ FreeSlot \in OpenChallenge /\ FreeSlot.kind = "NONE"
  /\ NoInvite \in Invitation /\ NoInvite.st = "NONE"
  /\ NoUserRow \in ConsoleUser /\ NoUserRow.st = "NONE"
  /\ LoggedOut \in ConsoleSession /\ LoggedOut.user = Nobody
BY DEF FreeSlot, OpenChallenge, NoInvite, Invitation, NoUserRow, ConsoleUser, LoggedOut, ConsoleSession, NewRoles

\* Nobody is known at first.
LEMMA AuthInitially == AuthInit => AuthIInv
<1> SUFFICES ASSUME AuthInit PROVE AuthIInv
  OBVIOUS
<1>1. AuthShapes
  BY AuthRecords DEF AuthInit, AuthShapes
<1>2. Ranked(live) /\ OwnerRemains /\ AccessIsCurrent /\ InvitationsAreBacked
  BY AuthRecords DEF AuthInit, Ranked, OwnerRemains, Founded, AccessIsCurrent, Holders, UserOf,
     InvitationsAreBacked
<1> QED BY <1>1, <1>2 DEF AuthIInv

\* A challenge that is made, tried or freed moves nothing else.
LEMMA ChallengesKeep ==
  ASSUME AuthIInv, challenges' \in [Slots -> OpenChallenge],
         \A c \in Slots : \/ challenges'[c].kind = "NONE"
                          \/ /\ challenges'[c].kind = challenges[c].kind
                             /\ challenges'[c].person = challenges[c].person
                             /\ challenges'[c].invite = challenges[c].invite
                          \/ /\ challenges'[c].person \in People
                             /\ challenges'[c].kind = "INVITATION" => challenges'[c].invite \in Invites,
         reading' \subseteq [user : People, version : Nat], admitted' \subseteq Browsers,
         UNCHANGED <<users, pharmacies, live, invitations, lastStep>>
  PROVE  AuthIInv'
<1>1. AuthShapes'
  BY DEF AuthIInv, AuthShapes
<1>2. Ranked(live)' /\ OwnerRemains' /\ AccessIsCurrent' /\ InvitationsAreBacked'
  BY DEF AuthIInv, Ranked, OwnerRemains, Founded, ActiveOwner, AccessIsCurrent, Holders, UserOf,
     InvitationsAreBacked
<1> QED BY <1>1, <1>2 DEF AuthIInv

\* A challenge for a person.
LEMMA ChallengeMade ==
  ASSUME AuthShapes, NEW c \in Slots, NEW kind \in {"SETUP", "LOGIN", "INVITATION"},
         NEW u \in People, NEW version \in Nat, NEW i \in Invites \cup {Nobody},
         NEW f \in [Slots -> OpenChallenge]
  PROVE  LET new == [kind |-> kind, person |-> u, version |-> version, invite |-> i, tries |-> 0]
         IN /\ [f EXCEPT ![c] = new] \in [Slots -> OpenChallenge]
            /\ [f EXCEPT ![c] = new][c].person = u
            /\ [f EXCEPT ![c] = new][c].kind = kind
            /\ [f EXCEPT ![c] = new][c].invite = i
            /\ \A d \in Slots \ {c} : [f EXCEPT ![c] = new][d] = f[d]
<1> DEFINE new == [kind |-> kind, person |-> u, version |-> version, invite |-> i, tries |-> 0]
<1>1. new \in OpenChallenge /\ new.person = u /\ new.kind = kind /\ new.invite = i
  BY DEF OpenChallenge
<1> HIDE DEF new
<1> QED BY <1>1 DEF new

\* A wrong code counts a try.
LEMMA WrongCodeKeeps == ASSUME AuthIInv, NEW c \in Slots, WrongCode(c) PROVE AuthIInv'
<1>1. challenges \in [Slots -> OpenChallenge]
  BY DEF AuthIInv, AuthShapes
<1>2. \A x \in OpenChallenge :
        /\ [x EXCEPT !.tries = x.tries + 1] \in OpenChallenge
        /\ [x EXCEPT !.tries = x.tries + 1].kind = x.kind
        /\ [x EXCEPT !.tries = x.tries + 1].person = x.person
        /\ [x EXCEPT !.tries = x.tries + 1].invite = x.invite
  BY DEF OpenChallenge
<1>3. challenges' = [challenges EXCEPT ![c] = [challenges[c] EXCEPT !.tries = challenges[c].tries + 1]]
  BY <1>1 DEF WrongCode, Tried
<1>4. /\ challenges' \in [Slots -> OpenChallenge]
      /\ \A d \in Slots : /\ challenges'[d].kind = challenges[d].kind
                          /\ challenges'[d].person = challenges[d].person
                          /\ challenges'[d].invite = challenges[d].invite
  BY <1>1, <1>2, <1>3
<1>5. UNCHANGED <<users, pharmacies, live, invitations, reading, admitted, lastStep>>
  BY DEF WrongCode
<1> QED BY <1>4, <1>5, ChallengesKeep DEF AuthIInv, AuthShapes

\* A challenge that is over frees its place.
LEMMA ChallengeEndsKeeps == ASSUME AuthIInv, NEW c \in Slots, ChallengeEnds(c) PROVE AuthIInv'
<1>1. /\ challenges' = [challenges EXCEPT ![c] = FreeSlot]
      /\ UNCHANGED <<users, pharmacies, live, invitations, reading, admitted, lastStep>>
  BY DEF ChallengeEnds
<1>2. challenges' \in [Slots -> OpenChallenge]
  BY <1>1, AuthRecords DEF AuthIInv, AuthShapes
<1>3. \A d \in Slots : challenges'[d].kind = "NONE" \/ challenges'[d] = challenges[d]
  BY <1>1, AuthRecords DEF AuthIInv, AuthShapes
<1> QED BY <1>1, <1>2, <1>3, ChallengesKeep DEF AuthIInv, AuthShapes

\* A first owner is challenged.
LEMMA SetupBeginKeeps ==
  ASSUME AuthIInv, NEW c \in Slots, NEW u \in People, SetupBegin(c, u)
  PROVE  AuthIInv'
<1>1. /\ challenges' = [challenges EXCEPT ![c] =
           [kind |-> "SETUP", person |-> u, version |-> 0, invite |-> Nobody, tries |-> 0]]
      /\ UNCHANGED <<users, pharmacies, live, invitations, reading, admitted, lastStep>>
  BY DEF SetupBegin, Challenge
<1>2. /\ challenges' \in [Slots -> OpenChallenge]
      /\ challenges'[c].person = u /\ challenges'[c].kind = "SETUP"
      /\ \A d \in Slots \ {c} : challenges'[d] = challenges[d]
  <2>1. AuthShapes /\ challenges \in [Slots -> OpenChallenge]
    BY DEF AuthIInv, AuthShapes
  <2>2. 0 \in Nat /\ "SETUP" \in {"SETUP", "LOGIN", "INVITATION"} /\ Nobody \in Invites \cup {Nobody}
    OBVIOUS
  <2> HIDE DEF AuthShapes
  <2> QED BY <1>1, <2>1, <2>2, ChallengeMade
<1> QED BY <1>1, <1>2, ChallengesKeep DEF AuthIInv, AuthShapes

\* Somebody who signs in is challenged, with the version that was read.
LEMMA LoginChallengesKeeps ==
  ASSUME AuthIInv, NEW c \in Slots, NEW r \in reading, LoginChallenges(r, c)
  PROVE  AuthIInv'
<1>1. r.user \in People /\ r.version \in Nat
  BY DEF AuthIInv, AuthShapes
<1>2. /\ challenges' = [challenges EXCEPT ![c] =
           [kind |-> "LOGIN", person |-> r.user, version |-> r.version, invite |-> Nobody, tries |-> 0]]
      /\ reading' = reading \ {r}
      /\ UNCHANGED <<users, pharmacies, live, invitations, admitted, lastStep>>
  BY DEF LoginChallenges, Challenge
<1>3. /\ challenges' \in [Slots -> OpenChallenge]
      /\ challenges'[c].person = r.user /\ challenges'[c].kind = "LOGIN"
      /\ \A d \in Slots \ {c} : challenges'[d] = challenges[d]
  BY <1>1, <1>2, ChallengeMade DEF AuthIInv, AuthShapes
<1> QED BY <1>1, <1>2, <1>3, ChallengesKeep DEF AuthIInv, AuthShapes

\* Places freed, and the others as they were.
LEMMA FreedShapes ==
  ASSUME AuthShapes, NEW over
  PROVE  /\ Freed(over) \in [Slots -> OpenChallenge]
         /\ \A d \in Slots : Freed(over)[d].kind = "NONE" \/ Freed(over)[d] = challenges[d]
BY AuthRecords DEF AuthShapes, Freed

\* Somebody who was invited is challenged.
LEMMA InviteBeginKeeps ==
  ASSUME AuthIInv, NEW c \in Slots, NEW i \in Invites, InviteBegin(i, c)
  PROVE  AuthIInv'
<1> DEFINE f == Freed({d \in Slots : challenges[d].invite = i})
<1>1. invitations[i].person \in People
  BY DEF AuthIInv, AuthShapes, InviteBegin, InvitationValid
<1>2. /\ challenges' = [f EXCEPT ![c] =
           [kind |-> "INVITATION", person |-> invitations[i].person, version |-> 0,
            invite |-> i, tries |-> 0]]
      /\ UNCHANGED <<users, pharmacies, live, invitations, reading, admitted, lastStep>>
  BY DEF InviteBegin
<1>3. /\ f \in [Slots -> OpenChallenge]
      /\ \A d \in Slots : f[d].kind = "NONE" \/ f[d] = challenges[d]
  BY FreedShapes DEF AuthIInv
<1> HIDE DEF f
<1>4. /\ challenges' \in [Slots -> OpenChallenge]
      /\ challenges'[c].person = invitations[i].person /\ challenges'[c].kind = "INVITATION"
      /\ challenges'[c].invite = i
      /\ \A d \in Slots \ {c} : challenges'[d] = f[d]
  BY <1>1, <1>2, <1>3, ChallengeMade DEF AuthIInv
<1> QED BY <1>1, <1>2, <1>3, <1>4, ChallengesKeep DEF AuthIInv, AuthShapes

\* Reading an account and admitting a request write nothing else.
LEMMA ReadsKeep ==
  ASSUME AuthIInv, \/ \E u \in People : LoginReads(u)
                   \/ \E k \in Browsers : Admit(k) \/ Refuse(k)
  PROVE  AuthIInv'
<1>1. /\ reading' \subseteq [user : People, version : Nat] /\ admitted' \subseteq Browsers
      /\ UNCHANGED <<users, pharmacies, live, challenges, invitations, lastStep>>
  <2>1. CASE \E u \in People : LoginReads(u)
    <3>1. \A u \in People : users[u].version \in Nat
      BY DEF AuthIInv, AuthShapes, ConsoleUser
    <3> QED BY <2>1, <3>1 DEF LoginReads, AuthIInv, AuthShapes
  <2>2. CASE \E k \in Browsers : Admit(k) \/ Refuse(k)
    BY <2>2 DEF Admit, Refuse, AuthIInv, AuthShapes
  <2> QED BY <2>1, <2>2
<1> QED BY <1>1, ChallengesKeep DEF AuthIInv, AuthShapes

\* Sessions that end, and those of accounts whose access changes.
LEMMA FewerSessions ==
  ASSUME AuthShapes, Ranked(live), NEW more \in [Browsers -> ConsoleSession],
         \A k \in Browsers : more[k] = live[k] \/ more[k] = LoggedOut
  PROVE  Ranked(more)
BY AuthRecords DEF Ranked

\* A session that is over leaves the others their places.
LEMMA SessionOverKeeps == ASSUME AuthIInv, NEW k \in Browsers, SessionOver(k) PROVE AuthIInv'
<1>1. /\ live' = [live EXCEPT ![k] = LoggedOut]
      /\ UNCHANGED <<users, pharmacies, challenges, invitations, reading, admitted, lastStep>>
  BY DEF SessionOver
<1>2. /\ live' \in [Browsers -> ConsoleSession]
      /\ \A j \in Browsers : live'[j] = live[j] \/ live'[j] = LoggedOut
  BY <1>1, AuthRecords DEF AuthIInv, AuthShapes
<1>3. Ranked(live)'
  <2>1. Ranked(live')
    BY <1>2, FewerSessions DEF AuthIInv
  <2> QED BY <2>1 DEF Ranked
<1>4. AuthShapes'
  BY <1>1, <1>2 DEF AuthIInv, AuthShapes
<1>5. OwnerRemains' /\ AccessIsCurrent' /\ InvitationsAreBacked'
  BY <1>1, <1>2, AuthRecords DEF AuthIInv, OwnerRemains, Founded, ActiveOwner, AccessIsCurrent, Holders, UserOf,
     InvitationsAreBacked
<1> QED BY <1>3, <1>4, <1>5 DEF AuthIInv

\* The sessions older than one that is signed out move up.
LEMMA SignOutKeeps == ASSUME AuthIInv, NEW k \in Browsers, SignOut(k) PROVE AuthIInv'
<1>1. /\ live[k].user # Nobody
      /\ live' = [j \in Browsers |->
           IF j = k THEN LoggedOut
           ELSE IF live[j].user = live[k].user /\ live[j].newer > live[k].newer
           THEN [live[j] EXCEPT !.newer = live[j].newer - 1] ELSE live[j]]
      /\ UNCHANGED <<users, pharmacies, challenges, invitations, reading, admitted, lastStep>>
  BY DEF SignOut, UserOf, Holders
<1>2. \A j \in Browsers : live[j] \in ConsoleSession /\ live[j].newer \in Nat
  BY DEF AuthIInv, AuthShapes, ConsoleSession
<1>3. \A x \in ConsoleSession, n \in Nat :
        /\ [x EXCEPT !.newer = n] \in ConsoleSession /\ [x EXCEPT !.newer = n].newer = n
        /\ [x EXCEPT !.newer = n].user = x.user /\ [x EXCEPT !.newer = n].version = x.version
  BY DEF ConsoleSession
<1>4. ASSUME NEW j \in Browsers
      PROVE  /\ live'[j] \in ConsoleSession
             /\ j = k => live'[j] = LoggedOut
             /\ j # k => /\ live'[j].user = live[j].user /\ live'[j].version = live[j].version
                         /\ live'[j].newer = IF live[j].user = live[k].user /\ live[j].newer > live[k].newer
                                             THEN live[j].newer - 1 ELSE live[j].newer
  <2>1. live[j].newer > live[k].newer => live[j].newer - 1 \in Nat
    BY <1>2
  <2>2. live'[j] = IF j = k THEN LoggedOut
                   ELSE IF live[j].user = live[k].user /\ live[j].newer > live[k].newer
                   THEN [live[j] EXCEPT !.newer = live[j].newer - 1] ELSE live[j]
    BY <1>1
  <2> QED BY <1>2, <1>3, <2>1, <2>2, AuthRecords
<1>5. live' \in [Browsers -> ConsoleSession]
  BY <1>1, <1>4
<1>6. Ranked(live)'
  <2> SUFFICES ASSUME NEW j \in Browsers, live'[j].user # Nobody
               PROVE  /\ live'[j].newer < PerUser
                      /\ \A i \in Browsers \ {j} :
                           live'[i].user = live'[j].user => live'[i].newer # live'[j].newer
    BY DEF Ranked
  <2>1. j # k /\ live[j].user = live'[j].user
    BY <1>4, AuthRecords
  <2>2. live[j].newer < PerUser /\ PerUser \in Nat
    BY <2>1, ControlAuthAssumption DEF AuthIInv, Ranked
  <2>3. ASSUME NEW i \in Browsers \ {j}, live'[i].user = live'[j].user
        PROVE  live'[i].newer # live'[j].newer
    <3>1. i # k /\ live[i].user = live[j].user
      BY <1>4, <2>1, <2>3, AuthRecords
    <3>2. live[i].newer # live[j].newer
      BY <2>1, <3>1 DEF AuthIInv, Ranked
    <3>3. live[j].user = live[k].user => live[i].newer # live[k].newer /\ live[j].newer # live[k].newer
      BY <2>1, <3>1 DEF AuthIInv, Ranked
    <3> QED BY <1>2, <1>4, <2>1, <3>1, <3>2, <3>3
  <2> QED BY <1>2, <1>4, <2>1, <2>2, <2>3
<1>7. AuthShapes'
  BY <1>1, <1>5 DEF AuthIInv, AuthShapes
<1>8. OwnerRemains' /\ AccessIsCurrent' /\ InvitationsAreBacked'
  BY <1>1, <1>4, AuthRecords DEF AuthIInv, OwnerRemains, Founded, ActiveOwner, AccessIsCurrent, Holders, UserOf,
     InvitationsAreBacked
<1> QED BY <1>6, <1>7, <1>8 DEF AuthIInv

\* A new session counts for its user, and makes the oldest one go.
LEMMA CreateSessionRanks ==
  ASSUME AuthShapes, Ranked(live), NEW k \in Browsers, NEW u \in People, NEW version \in Nat,
         CreateSession(k, u, version)
  PROVE  /\ live' \in [Browsers -> ConsoleSession] /\ Ranked(live')
         /\ live'[k].user = u /\ live'[k].version = version
         /\ \A j \in Browsers \ {k} :
              \/ live'[j] = LoggedOut
              \/ live'[j].user = live[j].user /\ live'[j].version = live[j].version
<1> DEFINE new == [user |-> u, version |-> version, newer |-> 0]
<1>1. /\ live[k].user = Nobody
      /\ live' = [j \in Browsers |->
           IF j = k THEN new
           ELSE IF live[j].user # u THEN live[j]
           ELSE IF live[j].newer < PerUser - 1
           THEN [live[j] EXCEPT !.newer = live[j].newer + 1] ELSE LoggedOut]
  BY DEF CreateSession, UserOf, Holders
<1>2. \A j \in Browsers : live[j] \in ConsoleSession /\ live[j].newer \in Nat
  BY DEF AuthShapes, ConsoleSession
<1>3. \A x \in ConsoleSession, n \in Nat :
        /\ [x EXCEPT !.newer = n] \in ConsoleSession /\ [x EXCEPT !.newer = n].newer = n
        /\ [x EXCEPT !.newer = n].user = x.user /\ [x EXCEPT !.newer = n].version = x.version
  BY DEF ConsoleSession
<1>4. new \in ConsoleSession /\ new.user = u /\ new.version = version /\ new.newer = 0 /\ u # Nobody
  BY ControlAuthAssumption DEF ConsoleSession
<1> HIDE DEF new
<1>5. ASSUME NEW j \in Browsers
      PROVE  /\ live'[j] \in ConsoleSession
             /\ j = k => live'[j] = new
             /\ j # k /\ live[j].user # u => live'[j] = live[j]
             /\ j # k /\ live[j].user = u =>
                  \/ live'[j] = LoggedOut
                  \/ /\ live[j].newer < PerUser - 1 /\ live'[j].newer = live[j].newer + 1
                     /\ live'[j].user = u /\ live'[j].version = live[j].version
  <2>1. live[j].newer + 1 \in Nat
    BY <1>2
  <2>2. live'[j] = IF j = k THEN new
                   ELSE IF live[j].user # u THEN live[j]
                   ELSE IF live[j].newer < PerUser - 1
                   THEN [live[j] EXCEPT !.newer = live[j].newer + 1] ELSE LoggedOut
    BY <1>1
  <2> QED BY <1>2, <1>3, <1>4, <2>1, <2>2, AuthRecords
<1>6. live' \in [Browsers -> ConsoleSession]
  BY <1>1, <1>5
<1>7. Ranked(live')
  <2> SUFFICES ASSUME NEW j \in Browsers, live'[j].user # Nobody
               PROVE  /\ live'[j].newer < PerUser
                      /\ \A i \in Browsers \ {j} :
                           live'[i].user = live'[j].user => live'[i].newer # live'[j].newer
    BY DEF Ranked
  <2>1. PerUser \in Nat /\ PerUser > 0
    BY ControlAuthAssumption
  <2>2. live'[j].newer < PerUser
    BY <1>2, <1>4, <1>5, <2>1, AuthRecords DEF Ranked
  <2>3. ASSUME NEW i \in Browsers \ {j}, live'[i].user = live'[j].user
        PROVE  live'[i].newer # live'[j].newer
    <3>1. i # k /\ j # k => live[i].user = live[j].user /\ live[i].newer # live[j].newer
      BY <1>5, <2>3, AuthRecords DEF Ranked
    <3> QED BY <1>2, <1>4, <1>5, <2>3, <3>1, AuthRecords
  <2> QED BY <2>2, <2>3
<1> QED BY <1>4, <1>5, <1>6, <1>7

\* What a session is made for: an account as it is, or one that is made with it.
LEMMA NewSessionKeeps ==
  ASSUME AuthIInv, NEW k \in Browsers, NEW u \in People, NEW version \in Nat,
         CreateSession(k, u, version),
         users' \in [People -> ConsoleUser], users'[u].st = "ACTIVE", users'[u].version = version,
         \A v \in People \ {u} : users'[v] = users[v],
         users'[u] = users[u] \/ users[u].st = "NONE",
         users'[u].role = "OWNER" \/ Founded,
         invitations' \in [Invites -> Invitation],
         \A i \in Invites : invitations'[i] = invitations[i] \/ invitations'[i].st = "NONE",
         challenges' \in [Slots -> OpenChallenge],
         \A c \in Slots : challenges'[c] = challenges[c] \/ challenges'[c].kind = "NONE",
         lastStep' \in [People -> Nat],
         UNCHANGED <<pharmacies, reading, admitted>>
  PROVE  AuthIInv'
<1>1. /\ live' \in [Browsers -> ConsoleSession] /\ Ranked(live')
      /\ live'[k].user = u /\ live'[k].version = version
      /\ \A j \in Browsers \ {k} :
           \/ live'[j] = LoggedOut
           \/ live'[j].user = live[j].user /\ live'[j].version = live[j].version
  BY CreateSessionRanks DEF AuthIInv
<1>2. AuthShapes'
  BY <1>1 DEF AuthIInv, AuthShapes
<1>3. Ranked(live)'
  BY <1>1 DEF Ranked
<1>4. \A v \in People : ActiveOwner(v) => ActiveOwner(v)'
  BY DEF ActiveOwner
<1>5. OwnerRemains'
  <2>1. CASE Founded
    BY <1>4, <2>1 DEF AuthIInv, OwnerRemains
  <2>2. CASE ~Founded
    BY <2>2 DEF OwnerRemains, ActiveOwner
  <2> QED BY <2>1, <2>2
<1>6. AccessIsCurrent'
  <2> SUFFICES ASSUME NEW j \in Browsers, live'[j].user # Nobody
               PROVE  /\ users'[live'[j].user].st = "ACTIVE"
                      /\ live'[j].version = users'[live'[j].user].version
    BY DEF AccessIsCurrent, Holders, UserOf
  <2>1. CASE j = k
    BY <1>1, <2>1
  <2>2. CASE j # k
    <3>1. live'[j].user = live[j].user /\ live'[j].version = live[j].version
      BY <1>1, <2>2, AuthRecords
    <3>2. /\ users[live[j].user].st = "ACTIVE" /\ live[j].version = users[live[j].user].version
          /\ live[j].user \in People
      BY <3>1 DEF AuthIInv, AccessIsCurrent, Holders, UserOf, AuthShapes, ConsoleSession
    <3> QED BY <3>1, <3>2
  <2> QED BY <2>1, <2>2
<1>7. InvitationsAreBacked'
  <2>1. \A i \in Invites : invitations[i].st = "PENDING" => invitations[i].by \in People
    BY DEF AuthIInv, AuthShapes
  <2> QED BY <1>4, <2>1 DEF AuthIInv, InvitationsAreBacked
<1> QED BY <1>2, <1>3, <1>5, <1>6, <1>7 DEF AuthIInv

\* A new account.
LEMMA NewUserShape ==
  ASSUME AuthShapes, NEW u \in People, NEW role \in NewRoles, NEW ids \in SUBSET Pharmacies,
         NewUser(u, role, ids)
  PROVE  /\ users' \in [People -> ConsoleUser]
         /\ users'[u].st = "ACTIVE" /\ users'[u].version = 1 /\ users'[u].role = role
         /\ \A v \in People \ {u} : users'[v] = users[v]
<1> DEFINE row == [st |-> "ACTIVE", role |-> role, scope |-> ids, version |-> 1]
<1>1. row \in ConsoleUser /\ row.st = "ACTIVE" /\ row.version = 1 /\ row.role = role
  BY DEF ConsoleUser
<1>2. users' = [users EXCEPT ![u] = row]
  BY DEF NewUser
<1> HIDE DEF row
<1> QED BY <1>1, <1>2 DEF AuthShapes

\* A code that completes a challenge.
LEMMA CompletedChallenge ==
  ASSUME AuthShapes, NEW c \in Slots, NEW u \in People, NEW code \in 1 .. MaxCode,
         Accept(u, code), challenges' = [challenges EXCEPT ![c] = FreeSlot]
  PROVE  /\ challenges' \in [Slots -> OpenChallenge]
         /\ \A d \in Slots : challenges'[d] = challenges[d] \/ challenges'[d].kind = "NONE"
         /\ lastStep' \in [People -> Nat] /\ lastStep'[u] = code
<1>1. code \in Nat
  BY ControlAuthAssumption
<1> QED BY <1>1, AuthRecords DEF AuthShapes, Accept

\* The first owner is an active one.
LEMMA SetupCompleteKeeps ==
  ASSUME AuthIInv, NEW c \in Slots, NEW code \in 1 .. MaxCode, NEW k \in Browsers,
         SetupComplete(c, code, k)
  PROVE  AuthIInv'
<1> DEFINE u == challenges[c].person
<1>1. u \in People
  BY DEF SetupComplete, Open, AuthIInv, AuthShapes
<1>2. /\ ~Founded /\ NewUser(u, "OWNER", {}) /\ Accept(u, code)
      /\ challenges' = [challenges EXCEPT ![c] = FreeSlot] /\ CreateSession(k, u, 1)
      /\ UNCHANGED <<pharmacies, invitations, reading, admitted>>
  BY DEF SetupComplete
<1> HIDE DEF u
<1>3. users[u].st = "NONE"
  BY <1>1, <1>2 DEF Founded
<1>4. /\ users' \in [People -> ConsoleUser]
      /\ users'[u].st = "ACTIVE" /\ users'[u].version = 1 /\ users'[u].role = "OWNER"
      /\ \A v \in People \ {u} : users'[v] = users[v]
  BY <1>1, <1>2, NewUserShape DEF AuthIInv, NewRoles
<1>5. /\ challenges' \in [Slots -> OpenChallenge]
      /\ \A d \in Slots : challenges'[d] = challenges[d] \/ challenges'[d].kind = "NONE"
      /\ lastStep' \in [People -> Nat]
  BY <1>1, <1>2, CompletedChallenge DEF AuthIInv
<1>6. invitations' \in [Invites -> Invitation]
  BY <1>2 DEF AuthIInv, AuthShapes
<1> QED BY <1>1, <1>2, <1>3, <1>4, <1>5, <1>6, NewSessionKeeps

\* A sign-in completes for the version it was challenged for.
LEMMA LoginMfaKeeps ==
  ASSUME AuthIInv, NEW c \in Slots, NEW code \in 1 .. MaxCode, NEW k \in Browsers,
         LoginMfa(c, code, k)
  PROVE  AuthIInv'
<1> DEFINE u == challenges[c].person
           version == challenges[c].version
<1>1. u \in People /\ version \in Nat
  BY DEF LoginMfa, Open, AuthIInv, AuthShapes, OpenChallenge
<1>2. /\ users[u].st = "ACTIVE" /\ users[u].version = version /\ Accept(u, code)
      /\ challenges' = [challenges EXCEPT ![c] = FreeSlot] /\ CreateSession(k, u, version)
      /\ UNCHANGED <<users, pharmacies, invitations, reading, admitted>>
  BY DEF LoginMfa
<1> HIDE DEF u, version
<1>3. Founded
  BY <1>1, <1>2 DEF Founded
<1>4. /\ challenges' \in [Slots -> OpenChallenge]
      /\ \A d \in Slots : challenges'[d] = challenges[d] \/ challenges'[d].kind = "NONE"
      /\ lastStep' \in [People -> Nat]
  BY <1>1, <1>2, CompletedChallenge DEF AuthIInv
<1>5. users' \in [People -> ConsoleUser] /\ invitations' \in [Invites -> Invitation]
  BY <1>2 DEF AuthIInv, AuthShapes
<1> QED BY <1>1, <1>2, <1>3, <1>4, <1>5, NewSessionKeeps

\* An invitation makes an account where there was none.
LEMMA InviteCompleteKeeps ==
  ASSUME AuthIInv, NEW c \in Slots, NEW code \in 1 .. MaxCode, NEW k \in Browsers,
         InviteComplete(c, code, k)
  PROVE  AuthIInv'
<1> DEFINE u == challenges[c].person
           i == challenges[c].invite
<1>1. u \in People /\ i \in Invites
  BY DEF InviteComplete, Open, AuthIInv, AuthShapes
<1>2. /\ InvitationValid(i) /\ users[u].st = "NONE" /\ Accept(u, code)
      /\ NewUser(u, invitations[i].role, invitations[i].scope)
      /\ invitations' = [invitations EXCEPT ![i] = NoInvite]
      /\ challenges' = [challenges EXCEPT ![c] = FreeSlot] /\ CreateSession(k, u, 1)
      /\ UNCHANGED <<pharmacies, reading, admitted>>
  BY DEF InviteComplete, Spent
<1> HIDE DEF u, i
<1>3. Founded
  BY <1>1, <1>2 DEF Founded, InvitationValid, ActiveOwner, AuthIInv, AuthShapes
<1>4. /\ users' \in [People -> ConsoleUser]
      /\ users'[u].st = "ACTIVE" /\ users'[u].version = 1
      /\ \A v \in People \ {u} : users'[v] = users[v]
  <2>1. invitations[i].role \in NewRoles /\ invitations[i].scope \in SUBSET Pharmacies
    BY <1>1 DEF AuthIInv, AuthShapes, Invitation
  <2> QED BY <1>1, <1>2, <2>1, NewUserShape DEF AuthIInv
<1>5. /\ challenges' \in [Slots -> OpenChallenge]
      /\ \A d \in Slots : challenges'[d] = challenges[d] \/ challenges'[d].kind = "NONE"
      /\ lastStep' \in [People -> Nat]
  BY <1>1, <1>2, CompletedChallenge DEF AuthIInv
<1>6. /\ invitations' \in [Invites -> Invitation]
      /\ \A j \in Invites : invitations'[j] = invitations[j] \/ invitations'[j].st = "NONE"
  BY <1>1, <1>2, AuthRecords DEF AuthIInv, AuthShapes
<1> QED BY <1>1, <1>2, <1>3, <1>4, <1>5, <1>6, NewSessionKeeps

\* Pharmacies and invitations come and go; access of the accounts stays.
LEMMA OfficeKeeps ==
  ASSUME AuthIInv, UNCHANGED <<users, reading, lastStep>>,
         pharmacies' \in [Pharmacies -> {"NONE", "ACTIVE", "INACTIVE"}],
         admitted' \subseteq Browsers,
         live' \in [Browsers -> ConsoleSession],
         \A k \in Browsers : live'[k] = live[k] \/ live'[k] = LoggedOut,
         challenges' \in [Slots -> OpenChallenge],
         \A c \in Slots : challenges'[c] = challenges[c] \/ challenges'[c].kind = "NONE",
         invitations' \in [Invites -> Invitation],
         \A i \in Invites : \/ invitations'[i] = invitations[i] \/ invitations'[i].st = "NONE"
                            \/ /\ invitations'[i].by \in People /\ ActiveOwner(invitations'[i].by)
                               /\ invitations'[i].person \in People
  PROVE  AuthIInv'
<1>1. AuthShapes'
  BY DEF AuthIInv, AuthShapes
<1>2. Ranked(live)'
  <2>1. Ranked(live')
    BY FewerSessions DEF AuthIInv
  <2> QED BY <2>1 DEF Ranked
<1>3. OwnerRemains' /\ AccessIsCurrent' /\ InvitationsAreBacked'
  BY AuthRecords DEF AuthIInv, OwnerRemains, Founded, ActiveOwner, AccessIsCurrent, Holders,
     UserOf, InvitationsAreBacked
<1> QED BY <1>1, <1>2, <1>3 DEF AuthIInv

\* Whose sessions are ended.
LEMMA WithoutShape ==
  ASSUME AuthShapes, NEW us
  PROVE  /\ Without(us) \in [Browsers -> ConsoleSession]
         /\ \A k \in Browsers : \/ Without(us)[k] = LoggedOut
                                \/ Without(us)[k] = live[k] /\ live[k].user \notin us
BY AuthRecords DEF AuthShapes, Without, UserOf

\* A pharmacy that opens or closes takes sessions only.
LEMMA PharmaciesKeep ==
  ASSUME AuthIInv, NEW k \in Browsers, NEW p \in Pharmacies,
         \/ CreatePharmacy(k, p)
         \/ \E status \in {"ACTIVE", "INACTIVE"} : UpdatePharmacy(k, p, status)
  PROVE  AuthIInv'
<1>1. /\ \E status \in {"ACTIVE", "INACTIVE"} : pharmacies' = [pharmacies EXCEPT ![p] = status]
      /\ \/ live' = live \/ live' = Without({u \in People : p \in users[u].scope})
      /\ admitted' = admitted \ {k}
      /\ UNCHANGED <<users, challenges, invitations, reading, lastStep>>
  BY DEF CreatePharmacy, UpdatePharmacy
<1>2. pharmacies' \in [Pharmacies -> {"NONE", "ACTIVE", "INACTIVE"}]
  BY <1>1 DEF AuthIInv, AuthShapes
<1>3. /\ live' \in [Browsers -> ConsoleSession]
      /\ \A j \in Browsers : live'[j] = live[j] \/ live'[j] = LoggedOut
  BY <1>1, WithoutShape DEF AuthIInv, AuthShapes
<1>4. /\ challenges' \in [Slots -> OpenChallenge] /\ invitations' \in [Invites -> Invitation]
      /\ admitted' \subseteq Browsers
  BY <1>1 DEF AuthIInv, AuthShapes
<1> QED BY <1>1, <1>2, <1>3, <1>4, OfficeKeeps

\* An invitation that is revoked or over backs nothing.
LEMMA InvitationsKeep ==
  ASSUME AuthIInv, NEW i \in Invites,
         InvitationEnds(i) \/ \E k \in Browsers : RevokeInvitation(k, i)
  PROVE  AuthIInv'
<1>1. /\ invitations' = [invitations EXCEPT ![i] = NoInvite]
      /\ challenges' = challenges \/ challenges' = Freed({c \in Slots : challenges[c].invite = i})
      /\ admitted' \subseteq admitted
      /\ UNCHANGED <<users, pharmacies, live, reading, lastStep>>
  BY DEF InvitationEnds, RevokeInvitation, Spent
<1>2. /\ invitations' \in [Invites -> Invitation]
      /\ \A j \in Invites : invitations'[j] = invitations[j] \/ invitations'[j].st = "NONE"
  BY <1>1, AuthRecords DEF AuthIInv, AuthShapes
<1>3. /\ challenges' \in [Slots -> OpenChallenge]
      /\ \A c \in Slots : challenges'[c] = challenges[c] \/ challenges'[c].kind = "NONE"
  BY <1>1, FreedShapes DEF AuthIInv, AuthShapes
<1>4. /\ pharmacies' \in [Pharmacies -> {"NONE", "ACTIVE", "INACTIVE"}]
      /\ live' \in [Browsers -> ConsoleSession] /\ admitted' \subseteq Browsers
  BY <1>1 DEF AuthIInv, AuthShapes
<1> QED BY <1>1, <1>2, <1>3, <1>4, OfficeKeeps

\* Who acts is an active owner.
LEMMA ActingOwner ==
  ASSUME AuthIInv, NEW k \in Browsers, OwnerActs(k)
  PROVE  UserOf(k) \in People /\ ActiveOwner(UserOf(k)) /\ k \in Holders
BY DEF OwnerActs, Valid, Holders, UserOf, AuthIInv, AuthShapes, ConsoleSession

\* An invitation is made by an owner who is active as it is made.
LEMMA InviteKeeps ==
  ASSUME AuthIInv, NEW k \in Browsers, NEW i \in Invites, NEW u \in People,
         NEW role \in NewRoles, NEW ids \in SUBSET Pharmacies, Invite(k, i, u, role, ids)
  PROVE  AuthIInv'
<1> DEFINE new == [st |-> "PENDING", by |-> UserOf(k), person |-> u, role |-> role, scope |-> ids]
<1>1. UserOf(k) \in People /\ ActiveOwner(UserOf(k))
  BY ActingOwner DEF Invite
<1>2. new \in Invitation /\ new.by = UserOf(k) /\ new.person = u
  BY <1>1 DEF Invitation
<1>3. /\ invitations' = [j \in Invites |->
           IF j = i THEN new
           ELSE IF invitations[j].person = u /\ invitations[j].st = "PENDING"
           THEN NoInvite ELSE invitations[j]]
      /\ admitted' = admitted \ {k}
      /\ UNCHANGED <<users, pharmacies, live, challenges, reading, lastStep>>
  BY DEF Invite, Spent
<1> HIDE DEF new
<1>4. /\ invitations' \in [Invites -> Invitation]
      /\ \A j \in Invites : invitations'[j] = invitations[j] \/ invitations'[j].st = "NONE"
                            \/ invitations'[j] = new
  BY <1>2, <1>3, AuthRecords DEF AuthIInv, AuthShapes
<1>5. /\ pharmacies' \in [Pharmacies -> {"NONE", "ACTIVE", "INACTIVE"}]
      /\ live' \in [Browsers -> ConsoleSession] /\ admitted' \subseteq Browsers
      /\ challenges' \in [Slots -> OpenChallenge]
  BY <1>3 DEF AuthIInv, AuthShapes
<1> QED BY <1>1, <1>2, <1>3, <1>4, <1>5, OfficeKeeps

\* A change of access leaves an owner, and takes with it what rested on it.
LEMMA UpdateUserKeeps ==
  ASSUME AuthIInv, NEW k \in Browsers, NEW u \in People, NEW on \in BOOLEAN,
         NEW role \in NewRoles, NEW ids \in SUBSET Pharmacies, UpdateUser(k, u, on, role, ids)
  PROVE  AuthIInv'
<1> DEFINE row == [st |-> IF on THEN "ACTIVE" ELSE "INACTIVE", role |-> role,
                   scope |-> ids, version |-> users[u].version + 1]
<1>1. UserOf(k) \in People /\ ActiveOwner(UserOf(k))
  BY ActingOwner DEF UpdateUser
<1>2. row \in ConsoleUser /\ (row.st = "ACTIVE" <=> on) /\ row.role = role
  BY DEF ConsoleUser, AuthIInv, AuthShapes
<1>3. /\ users' = [users EXCEPT ![u] = row]
      /\ live' = Without({u})
      /\ challenges' = Freed({c \in Slots : challenges[c].kind = "LOGIN" /\ challenges[c].person = u})
      /\ invitations' = RevokedBy(u, on, role)
      /\ admitted' = admitted \ {k}
      /\ UNCHANGED <<pharmacies, reading, lastStep>>
  BY DEF UpdateUser
<1>4. ActiveOwner(u) /\ (~on \/ role # "OWNER") => ~LastOwner(u)
  BY DEF UpdateUser
<1> HIDE DEF row
<1>5. /\ users' \in [People -> ConsoleUser] /\ users'[u] = row
      /\ \A v \in People \ {u} : users'[v] = users[v]
  BY <1>2, <1>3 DEF AuthIInv, AuthShapes
<1>6. /\ live' \in [Browsers -> ConsoleSession]
      /\ \A j \in Browsers : live'[j] = LoggedOut \/ (live'[j] = live[j] /\ live[j].user # u)
  BY <1>3, WithoutShape DEF AuthIInv
<1>7. /\ challenges' \in [Slots -> OpenChallenge]
      /\ \A c \in Slots : challenges'[c] = challenges[c] \/ challenges'[c].kind = "NONE"
  BY <1>3, FreedShapes DEF AuthIInv
<1>8. /\ invitations' \in [Invites -> Invitation]
      /\ \A i \in Invites :
           \/ invitations'[i].st = "NONE"
           \/ /\ invitations'[i] = invitations[i]
              /\ invitations[i].st = "PENDING" /\ invitations[i].by = u => on /\ role = "OWNER"
  BY <1>3, AuthRecords DEF AuthIInv, AuthShapes, RevokedBy, Spent
<1>9. AuthShapes'
  <2>1. /\ invitations' \in [Invites -> Invitation] /\ admitted' \subseteq Browsers
        /\ \A i \in Invites : invitations'[i].st = "PENDING" => invitations'[i].by \in People
    BY <1>3, <1>8, AuthRecords DEF AuthIInv, AuthShapes, RevokedBy, Spent
  <2>2. /\ \A c \in Slots : challenges'[c].kind # "NONE" => challenges'[c].person \in People
        /\ \A c \in Slots : challenges'[c].kind = "INVITATION" => challenges'[c].invite \in Invites
    BY <1>7 DEF AuthIInv, AuthShapes
  <2>3. \A i \in Invites : invitations'[i].st = "PENDING" =>
           invitations'[i].by \in People /\ invitations'[i].person \in People
    BY <1>8 DEF AuthIInv, AuthShapes
  <2>4. /\ pharmacies' \in [Pharmacies -> {"NONE", "ACTIVE", "INACTIVE"}]
        /\ reading' \subseteq [user : People, version : Nat]
        /\ lastStep' \in [People -> Nat]
    BY <1>3 DEF AuthIInv, AuthShapes
  <2> QED BY <1>5, <1>6, <1>7, <2>1, <2>2, <2>3, <2>4 DEF AuthShapes
<1>10. Ranked(live)'
  <2>1. Ranked(live')
    BY <1>6, FewerSessions DEF AuthIInv
  <2> QED BY <2>1 DEF Ranked
<1>11. OwnerRemains'
  <2>1. CASE on /\ role = "OWNER"
    BY <1>2, <1>5, <2>1 DEF OwnerRemains, ActiveOwner
  <2>2. CASE ~(on /\ role = "OWNER")
    <3>1. \E v \in People \ {u} : ActiveOwner(v)
      BY <1>1, <1>4, <2>2 DEF LastOwner
    <3> QED BY <1>5, <3>1 DEF OwnerRemains, ActiveOwner
  <2> QED BY <2>1, <2>2
<1>12. AccessIsCurrent'
  <2>1. \A j \in Browsers : live'[j].user # Nobody => live'[j] = live[j] /\ live[j].user \in People \ {u}
    BY <1>6, AuthRecords DEF AuthIInv, AuthShapes, ConsoleSession
  <2> QED BY <1>5, <2>1 DEF AuthIInv, AccessIsCurrent, Holders, UserOf
<1>13. InvitationsAreBacked'
  <2>1. \A i \in Invites : invitations'[i].st = "PENDING" => invitations[i].by \in People
    BY <1>8 DEF AuthIInv, AuthShapes
  <2> QED BY <1>2, <1>5, <1>8, <2>1 DEF AuthIInv, InvitationsAreBacked, ActiveOwner
<1> QED BY <1>9, <1>10, <1>11, <1>12, <1>13 DEF AuthIInv

\* No request of anybody breaks it.
LEMMA AuthInductive == AuthIInv /\ [AuthNext]_authVars => AuthIInv'
<1> SUFFICES ASSUME AuthIInv, [AuthNext]_authVars PROVE AuthIInv'
  OBVIOUS
<1>1. CASE UNCHANGED authVars
  BY <1>1 DEF authVars, AuthIInv, AuthShapes, Ranked, OwnerRemains, Founded, ActiveOwner,
     AccessIsCurrent, Holders, UserOf, InvitationsAreBacked
<1>2. ASSUME NEW k \in Browsers, OwnerRequest(k) PROVE AuthIInv'
  BY <1>2, ReadsKeep, PharmaciesKeep, InvitationsKeep, InviteKeeps, UpdateUserKeeps, Zenon DEF OwnerRequest
<1>3. ASSUME NEW c \in Slots, ChallengeStep(c) PROVE AuthIInv'
  BY <1>3, WrongCodeKeeps, ChallengeEndsKeeps, SetupBeginKeeps, LoginChallengesKeeps,
     InviteBeginKeeps, SetupCompleteKeeps, LoginMfaKeeps, InviteCompleteKeeps, Zenon DEF ChallengeStep
<1>4. CASE AuthNext
  BY <1>2, <1>3, <1>4, SignOutKeeps, SessionOverKeeps, ReadsKeep, InvitationsKeep, Zenon DEF AuthNext
<1> QED BY <1>1, <1>4

\* Ranks below the limit, all different: that few sessions.
LEMMA RankedAreFew ==
  ASSUME AuthShapes, Ranked(live), NEW u \in People
  PROVE  Cardinality({k \in Browsers : UserOf(k) = u}) <= PerUser
<1> DEFINE S == {k \in Browsers : live[k].user = u}
           T == 0 .. PerUser - 1
           f == [k \in S |-> live[k].newer]
<1>1. PerUser \in Nat /\ PerUser > 0 /\ u # Nobody
  BY ControlAuthAssumption
<1>2. \A k \in S : live[k].newer \in Nat /\ live[k].newer < PerUser
  BY <1>1 DEF AuthShapes, ConsoleSession, Ranked
<1>3. f \in [S -> T]
  BY <1>1, <1>2
<1>4. \A j, k \in S : f[j] = f[k] => j = k
  BY <1>1 DEF Ranked
<1>5. f \in Injection(S, T)
  BY <1>3, <1>4 DEF Injection, IsInjective
<1>6. IsFiniteSet(T) /\ Cardinality(T) = PerUser
  BY <1>1, FS_Interval
<1>7. Cardinality(S) <= Cardinality(T)
  BY <1>5, <1>6, FS_Injection
<1> QED BY <1>6, <1>7 DEF UserOf

\* A founded organisation keeps an owner, and sessions and invitations
\* are backed by the accounts as they are, for any number of people and browsers.
THEOREM AccessIsBacked == AuthSpec => []AuthInv
<1>1. AuthIInv => AuthInv
  BY RankedAreFew DEF AuthIInv, AuthInv, SessionsAreFew
<1> QED BY AuthInitially, AuthInductive, <1>1, PTL DEF AuthSpec

\* Only a code that is accepted makes a session, and none is accepted twice.
THEOREM CodesOpenOneSession == AuthSpec => CodesOnlyOnce
<1> DEFINE Fresh == \A k \in Browsers : k \in Holders' \ Holders =>
                      lastStep'[UserOf(k)'] > lastStep[UserOf(k)']
<1>1. AuthIInv /\ [AuthNext]_authVars => [Fresh]_authVars
  <2> SUFFICES ASSUME AuthIInv, AuthNext, NEW k \in Browsers, k \in Holders' \ Holders
               PROVE  lastStep'[UserOf(k)'] > lastStep[UserOf(k)']
    OBVIOUS
  <2>1. PICK c \in Slots, code \in 1 .. MaxCode, j \in Browsers :
          SetupComplete(c, code, j) \/ LoginMfa(c, code, j) \/ InviteComplete(c, code, j)
    <3>1. live'[k].user # Nobody /\ live[k].user = Nobody
      BY DEF Holders
    <3>2. \A us : Without(us)[k] = LoggedOut \/ Without(us)[k] = live[k]
      BY DEF Without
    <3>3. live'[k] # live[k] /\ live'[k] # LoggedOut
      BY <3>1, AuthRecords
    <3>4. ASSUME NEW b \in Browsers, OwnerRequest(b) PROVE FALSE
      <4>1. live' = live \/ \E us : live' = Without(us)
        <5>1. CASE Admit(b) \/ Refuse(b)
          BY <5>1 DEF Admit, Refuse
        <5>2. CASE \E p \in Pharmacies : CreatePharmacy(b, p)
          BY <5>2 DEF CreatePharmacy
        <5>3. CASE \E p \in Pharmacies, status \in {"ACTIVE", "INACTIVE"} : UpdatePharmacy(b, p, status)
          BY <5>3, Zenon DEF UpdatePharmacy
        <5>4. CASE \E i \in Invites : RevokeInvitation(b, i)
          BY <5>4, Zenon DEF RevokeInvitation
        <5>5. ASSUME NEW v \in People, NEW role \in NewRoles, NEW ids \in SUBSET Pharmacies,
                     \/ \E i \in Invites : Invite(b, i, v, role, ids)
                     \/ \E on \in BOOLEAN : UpdateUser(b, v, on, role, ids)
              PROVE  live' = live \/ \E us : live' = Without(us)
          BY <5>5, Zenon DEF Invite, UpdateUser
        <5> QED BY <3>4, <5>1, <5>2, <5>3, <5>4, <5>5, Zenon DEF OwnerRequest
      <4> QED BY <3>2, <3>3, <4>1
    <3>5. ASSUME NEW b \in Browsers, SignOut(b) PROVE FALSE
      BY <3>1, <3>3, <3>5 DEF SignOut, Holders, UserOf
    <3>6. ASSUME NEW b \in Browsers, SessionOver(b) PROVE FALSE
      BY <3>3, <3>6 DEF SessionOver, AuthIInv, AuthShapes
    <3>7. ASSUME NEW u \in People, LoginReads(u) PROVE FALSE
      BY <3>3, <3>7 DEF LoginReads
    <3>8. ASSUME NEW i \in Invites, InvitationEnds(i) PROVE FALSE
      BY <3>3, <3>8 DEF InvitationEnds
    <3>9. PICK c \in Slots : ChallengeStep(c)
      BY <3>4, <3>5, <3>6, <3>7, <3>8 DEF AuthNext
    <3> QED BY <3>3, <3>9 DEF ChallengeStep, WrongCode, ChallengeEnds, SetupBegin, LoginChallenges, InviteBegin
  <2> DEFINE u == challenges[c].person
  <2>2. u \in People
    BY <2>1 DEF AuthIInv, AuthShapes, SetupComplete, LoginMfa, InviteComplete, Open
  <2>3. PICK version \in Nat : CreateSession(j, u, version)
    BY <2>1 DEF SetupComplete, LoginMfa, InviteComplete, AuthIInv, AuthShapes, OpenChallenge
  <2>4. Verifies(u, code) /\ Accept(u, code)
    BY <2>1 DEF SetupComplete, LoginMfa, InviteComplete
  <2> HIDE DEF u
  <2>5. UserOf(k)' = u
    <3>1. /\ live'[j].user = u
          /\ \A b \in Browsers \ {j} : live'[b] = LoggedOut \/ live'[b].user = live[b].user
      BY <2>2, <2>3, CreateSessionRanks DEF AuthIInv
    <3> QED BY <3>1, AuthRecords DEF Holders, UserOf
  <2> QED BY <2>2, <2>4, <2>5 DEF Verifies, Accept, AuthIInv, AuthShapes
<1> QED BY AuthInitially, AuthInductive, <1>1, PTL DEF AuthSpec, CodesOnlyOnce

-----------------------------------------------------------------------------
(***************************************************************************)
(* Passphrases and setup codes (Passphrases)                               *)
(*                                                                         *)
(* Of the window behind the clock the table knows every wrong try: a       *)
(* window that a new try falls into holds no more of them than the table   *)
(* does, and that was below the limits when the try was let through.       *)
(***************************************************************************)

-----------------------------------------------------------------------------
(* The inductive invariant *)

\* No try is later than the clock, and the table holds those of the last window.
Counted ==
  \A k \in LimiterKeys : \A at \in Stamps :
    /\ at > stamp => tries[k][at] = 0
    /\ at >= stamp - Window => loginAttempts[k][at] = tries[k][at]

PassTypes ==
  /\ stamp \in Stamps
  /\ loginAttempts \in [LimiterKeys -> [Stamps -> Nat]]
  /\ tries \in [LimiterKeys -> [Stamps -> Nat]]

PassIInv == PassTypes /\ Counted /\ TriesAreLimited

\* The times of a window.
Within(from) == {at \in Stamps : from <= at /\ at <= from + Window}

\* The clock's range and the windows are finite sets of numbers.
LEMMA StampsAreFinite ==
  /\ Stamps \subseteq Int /\ IsFiniteSet(Stamps) /\ Window \in Nat /\ MaxStamp \in Nat
  /\ \A from \in Stamps : Within(from) \in SUBSET Stamps /\ IsFiniteSet(Within(from))
<1>1. Window \in Nat /\ MaxStamp \in Nat
  BY PassphrasesAssumption
<1>2. IsFiniteSet(0 .. MaxStamp)
  BY <1>1, FS_Interval
<1>3. Stamps \subseteq Int /\ IsFiniteSet(Stamps)
  BY <1>1, <1>2 DEF Stamps
<1>4. ASSUME NEW from \in Stamps
      PROVE  Within(from) \in SUBSET Stamps /\ IsFiniteSet(Within(from))
  <2>1. Within(from) \subseteq Stamps
    BY DEF Within
  <2>. QED BY <1>3, <2>1, FS_Subset
<1>. QED BY <1>1, <1>3, <1>4

\* Counts over a set of times are numbers, and over fewer times no larger.
LEMMA CountsCount ==
  ASSUME NEW f \in [Stamps -> Nat], NEW R \in SUBSET Stamps
  PROVE  /\ SumFunctionOnSet(f, R) \in Nat /\ SumFunctionOnSet(f, Stamps) \in Nat
         /\ SumFunctionOnSet(f, R) <= SumFunctionOnSet(f, Stamps)
<1>1. IsFiniteSet(Stamps) /\ IsFiniteSet(R)
  BY StampsAreFinite, FS_Subset
<1>2. \A at \in Stamps : f[at] \in Nat
  OBVIOUS
<1>3. \A at \in R : f[at] \in Nat
  OBVIOUS
<1>. QED BY <1>1, <1>2, <1>3, SumTakesOut, SumOfFewer

\* What the table holds once the old rows are deleted.
LEMMA RecentTypes ==
  ASSUME PassTypes
  PROVE  /\ Recent \in [LimiterKeys -> [Stamps -> Nat]]
         /\ \A k \in LimiterKeys : \A at \in Stamps :
              Recent[k][at] = IF at < stamp - Window THEN 0 ELSE loginAttempts[k][at]
<1>1. \A k \in LimiterKeys : \A at \in Stamps : loginAttempts[k][at] \in Nat
  BY DEF PassTypes
<1>2. \A k \in LimiterKeys : \A at \in Stamps :
        (IF at < stamp - Window THEN 0 ELSE loginAttempts[k][at]) \in Nat
  BY <1>1
<1>. QED BY <1>2 DEF Recent

\* A window that reaches the clock holds no more wrong tries than are counted.
LEMMA WindowsAreCounted ==
  ASSUME PassTypes, Counted, NEW k \in LimiterKeys,
         NEW from \in Stamps, stamp \in Within(from)
  PROVE  /\ WrongWithin(k, from) \in Nat /\ Failures(k) \in Nat
         /\ WrongWithin(k, from) <= Failures(k)
<1>. DEFINE R == Within(from)
            f == tries[k]
            g == Recent[k]
<1>1. f \in [Stamps -> Nat] /\ g \in [Stamps -> Nat] /\ R \in SUBSET Stamps
  BY RecentTypes, StampsAreFinite DEF PassTypes
<1>2. \A at \in R : f[at] \in Nat /\ g[at] = f[at]
  <2>. SUFFICES ASSUME NEW at \in R PROVE g[at] = f[at]
    BY <1>1
  <2>1. /\ at \in Stamps /\ at \in Int /\ from \in Int /\ stamp \in Int /\ Window \in Nat
        /\ from <= at /\ stamp <= from + Window
    BY StampsAreFinite DEF Within, PassTypes
  <2>2. at >= stamp - Window /\ ~(at < stamp - Window)
    BY <2>1
  <2>3. g[at] = loginAttempts[k][at]
    BY <2>1, <2>2, RecentTypes
  <2>. QED BY <2>1, <2>2, <2>3 DEF Counted
<1>3. WrongWithin(k, from) = SumFunctionOnSet(f, R) /\ Failures(k) = SumFunctionOnSet(g, Stamps)
  BY DEF WrongWithin, Within, Failures
<1>4. IsFiniteSet(R)
  BY StampsAreFinite
<1>. HIDE DEF f, g, R
<1>5. SumFunctionOnSet(g, R) = SumFunctionOnSet(f, R)
  BY <1>2, <1>4, SumOfSame
<1>. QED BY <1>1, <1>3, <1>5, CountsCount

-----------------------------------------------------------------------------
(* Every step keeps the invariant *)

\* The invariant holds of the empty table.
LEMMA PassInitInv == PassInit => PassIInv
<1>. SUFFICES ASSUME PassInit PROVE PassIInv
  OBVIOUS
<1>1. NoFailures \in [Stamps -> Nat] /\ \A at \in Stamps : NoFailures[at] = 0
  BY DEF NoFailures
<1>2. 0 \in Stamps
  BY StampsAreFinite DEF Stamps
<1>3. PassTypes
  BY <1>1, <1>2 DEF PassInit, PassTypes
<1>4. Counted
  BY <1>1 DEF PassInit, Counted
<1>5. ASSUME NEW from \in Stamps, NEW k \in LimiterKeys
      PROVE  WrongWithin(k, from) = 0
  <2>1. WrongWithin(k, from) = SumFunctionOnSet(NoFailures, Within(from))
    BY DEF PassInit, WrongWithin, Within
  <2>2. Within(from) \in SUBSET Stamps /\ IsFiniteSet(Within(from))
    BY StampsAreFinite
  <2>3. \A at \in Within(from) : NoFailures[at] = 0
    BY <1>1, <2>2
  <2>. QED BY <2>1, <2>2, <2>3, SumOfNone
<1>6. \A k \in Emails : k \in LimiterKeys
  BY DEF LimiterKeys
<1>7. ASSUME NEW from \in Stamps
      PROVE  SumFunctionOnSet([e \in Emails |-> WrongWithin(e, from)], Emails) = 0
  <2>. DEFINE w == [e \in Emails |-> WrongWithin(e, from)]
  <2>1. \A e \in Emails : w[e] = 0
    BY <1>5, <1>6
  <2>. HIDE DEF w
  <2>2. SumFunctionOnSet(w, Emails) = 0
    BY <2>1, PassphrasesAssumption, SumOfNone
  <2>. QED BY <2>2 DEF w
<1>8. PerKey \in Nat /\ PerHost \in Nat
  BY PassphrasesAssumption
<1>9. TriesAreLimited
  BY <1>5, <1>7, <1>8 DEF TriesAreLimited
<1>. QED BY <1>3, <1>4, <1>9 DEF PassIInv

\* While no key has more wrong tries than before, the limits stay kept.
LEMMA FewerStayLimited ==
  ASSUME PassTypes, PassTypes', TriesAreLimited,
         \A k \in LimiterKeys : \A at \in Stamps : tries'[k][at] <= tries[k][at]
  PROVE  TriesAreLimited'
<1>1. ASSUME NEW from \in Stamps, NEW k \in LimiterKeys
      PROVE  /\ WrongWithin(k, from)' \in Nat /\ WrongWithin(k, from) \in Nat
             /\ WrongWithin(k, from)' <= WrongWithin(k, from)
  <2>. DEFINE R == Within(from)
              f == tries[k]
              g == tries'[k]
  <2>1. R \in SUBSET Stamps /\ IsFiniteSet(R) /\ f \in [Stamps -> Nat] /\ g \in [Stamps -> Nat]
    BY StampsAreFinite DEF PassTypes
  <2>2. \A at \in R : f[at] \in Nat /\ g[at] \in Nat /\ g[at] <= f[at]
    BY <2>1
  <2>3. WrongWithin(k, from) = SumFunctionOnSet(f, R)
        /\ WrongWithin(k, from)' = SumFunctionOnSet(g, R)
    BY DEF WrongWithin, Within
  <2>. HIDE DEF f, g, R
  <2>4. SumFunctionOnSet(g, R) <= SumFunctionOnSet(f, R)
    BY <2>1, <2>2, SumOfSmaller
  <2>. QED BY <2>1, <2>3, <2>4, CountsCount
<1>2. \A e \in Emails : e \in LimiterKeys
  BY DEF LimiterKeys
<1>3. PerKey \in Nat /\ PerHost \in Nat /\ IsFiniteSet(Emails)
  BY PassphrasesAssumption
<1>4. ASSUME NEW from \in Stamps
      PROVE  SumFunctionOnSet([e \in Emails |-> WrongWithin(e, from)'], Emails) <= PerHost
  <2>. DEFINE u == [e \in Emails |-> WrongWithin(e, from)]
              v == [e \in Emails |-> WrongWithin(e, from)']
  <2>1. \A e \in Emails : u[e] \in Nat /\ v[e] \in Nat /\ v[e] <= u[e]
    BY <1>1, <1>2
  <2>2. SumFunctionOnSet(u, Emails) <= PerHost
    BY DEF TriesAreLimited
  <2>. HIDE DEF u, v
  <2>3. SumFunctionOnSet(v, Emails) <= SumFunctionOnSet(u, Emails)
    BY <1>3, <2>1, SumOfSmaller
  <2>4. SumFunctionOnSet(u, Emails) \in Nat /\ SumFunctionOnSet(v, Emails) \in Nat
    BY <1>3, <2>1, SumTakesOut
  <2>5. SumFunctionOnSet(v, Emails) <= PerHost
    BY <1>3, <2>2, <2>3, <2>4
  <2>. QED BY <2>5 DEF v
<1>5. \A from \in Stamps : \A k \in LimiterKeys : WrongWithin(k, from)' <= PerKey
  <2>. SUFFICES ASSUME NEW from \in Stamps, NEW k \in LimiterKeys
                PROVE  WrongWithin(k, from)' <= PerKey
    OBVIOUS
  <2>1. WrongWithin(k, from) <= PerKey
    BY DEF TriesAreLimited
  <2>. QED BY <1>1, <1>3, <2>1
<1>. QED BY <1>4, <1>5 DEF TriesAreLimited

\* A wrong try that is let through keeps the limits.
LEMMA WrongTryIsLimited ==
  ASSUME PassIInv, PassTypes', NEW k \in LimiterKeys, WrongTry(k)
  PROVE  TriesAreLimited'
<1>1. PassTypes /\ Counted /\ TriesAreLimited
  BY DEF PassIInv
<1>2. stamp \in Stamps
  BY <1>1 DEF PassTypes
<1>3. /\ \A j \in LimiterKeys : \A at \in Stamps :
           tries'[j][at] = IF j = k /\ at = stamp THEN tries[j][at] + 1 ELSE tries[j][at]
      /\ \A j \in LimiterKeys : tries[j] \in [Stamps -> Nat] /\ tries'[j] \in [Stamps -> Nat]
  BY <1>1 DEF WrongTry, PassTypes
<1>4. PerKey \in Nat /\ PerHost \in Nat /\ IsFiniteSet(Emails)
  BY PassphrasesAssumption
<1>5. \A e \in Emails : e \in LimiterKeys
  BY DEF LimiterKeys
<1>6. ASSUME NEW j \in LimiterKeys, NEW from \in Stamps
      PROVE  /\ WrongWithin(j, from) \in Nat /\ WrongWithin(j, from)' \in Nat
             /\ WrongWithin(j, from)'
                  = IF j = k /\ stamp \in Within(from)
                    THEN WrongWithin(j, from) + 1 ELSE WrongWithin(j, from)
  <2>. DEFINE R == Within(from)
              f == tries[j]
              g == tries'[j]
  <2>1. R \in SUBSET Stamps /\ IsFiniteSet(R) /\ f \in [Stamps -> Nat] /\ g \in [Stamps -> Nat]
    BY <1>3, StampsAreFinite
  <2>2. \A at \in R : /\ f[at] \in Nat
                      /\ g[at] = IF j = k /\ at = stamp THEN f[at] + 1 ELSE f[at]
    BY <1>3, <2>1
  <2>3. WrongWithin(j, from) = SumFunctionOnSet(f, R)
        /\ WrongWithin(j, from)' = SumFunctionOnSet(g, R)
    BY DEF WrongWithin, Within
  <2>4. SumFunctionOnSet(f, R) \in Nat /\ SumFunctionOnSet(g, R) \in Nat
    BY <2>1, CountsCount
  <2>5. ASSUME j = k, stamp \in R
        PROVE  SumFunctionOnSet(g, R) = SumFunctionOnSet(f, R) + 1
    <3>1. /\ \A at \in R : f[at] \in Nat
          /\ \A at \in R : at # stamp => g[at] = f[at]
          /\ g[stamp] = f[stamp] + 1
      BY <2>2, <2>5
    <3>. HIDE DEF f, g, R
    <3>. QED BY <2>1, <2>5, <3>1, SumOfRaised
  <2>6. ASSUME ~(j = k /\ stamp \in R)
        PROVE  SumFunctionOnSet(g, R) = SumFunctionOnSet(f, R)
    <3>1. \A at \in R : f[at] \in Nat /\ g[at] = f[at]
      BY <2>2, <2>6
    <3>. HIDE DEF f, g, R
    <3>. QED BY <2>1, <3>1, SumOfSame
  <2>. QED BY <2>3, <2>4, <2>5, <2>6
<1>7. ASSUME NEW from \in Stamps, NEW j \in LimiterKeys
      PROVE  WrongWithin(j, from)' <= PerKey
  <2>1. CASE j = k /\ stamp \in Within(from)
    <3>1. WrongWithin(j, from) <= Failures(j) /\ Failures(j) \in Nat
      BY <1>1, <2>1, WindowsAreCounted
    <3>2. Failures(j) < PerKey
      BY <2>1 DEF WrongTry, BelowLimits
    <3>. QED BY <1>4, <1>6, <2>1, <3>1, <3>2
  <2>2. CASE ~(j = k /\ stamp \in Within(from))
    <3>1. WrongWithin(j, from) <= PerKey
      BY <1>1 DEF TriesAreLimited
    <3>. QED BY <1>6, <2>2, <3>1
  <2>. QED BY <2>1, <2>2
<1>8. ASSUME NEW from \in Stamps
      PROVE  SumFunctionOnSet([e \in Emails |-> WrongWithin(e, from)'], Emails) <= PerHost
  <2>. DEFINE u == [e \in Emails |-> WrongWithin(e, from)]
              v == [e \in Emails |-> WrongWithin(e, from)']
              w == [e \in Emails |-> Failures(e)]
  <2>1. \A e \in Emails :
          /\ u[e] \in Nat /\ v[e] \in Nat
          /\ v[e] = IF e = k /\ stamp \in Within(from) THEN u[e] + 1 ELSE u[e]
    BY <1>5, <1>6
  <2>2. SumFunctionOnSet(u, Emails) <= PerHost
    BY <1>1 DEF TriesAreLimited
  <2>3. stamp \in Within(from) => \A e \in Emails : w[e] \in Nat /\ u[e] <= w[e]
    BY <1>1, <1>5, WindowsAreCounted
  <2>4. k \in Emails => SumFunctionOnSet(w, Emails) < PerHost
    BY DEF WrongTry, BelowLimits, FromHost
  <2>. HIDE DEF u, v, w
  <2>5. SumFunctionOnSet(u, Emails) \in Nat /\ SumFunctionOnSet(v, Emails) \in Nat
    BY <1>4, <2>1, SumTakesOut
  <2>6. CASE k \in Emails /\ stamp \in Within(from)
    <3>1. SumFunctionOnSet(v, Emails) = SumFunctionOnSet(u, Emails) + 1
      BY <1>4, <2>1, <2>6, SumOfRaised
    <3>2. SumFunctionOnSet(u, Emails) <= SumFunctionOnSet(w, Emails)
      BY <1>4, <2>1, <2>3, <2>6, SumOfSmaller
    <3>3. SumFunctionOnSet(w, Emails) \in Nat
      BY <1>4, <2>3, <2>6, SumTakesOut
    <3>4. SumFunctionOnSet(v, Emails) <= PerHost
      BY <1>4, <2>4, <2>5, <2>6, <3>1, <3>2, <3>3
    <3>. QED BY <3>4 DEF v
  <2>7. CASE ~(k \in Emails /\ stamp \in Within(from))
    <3>1. \A e \in Emails : u[e] \in Nat /\ v[e] = u[e]
      BY <2>1, <2>7
    <3>2. SumFunctionOnSet(v, Emails) = SumFunctionOnSet(u, Emails)
      BY <1>4, <3>1, SumOfSame
    <3>3. SumFunctionOnSet(v, Emails) <= PerHost
      BY <2>2, <3>2
    <3>. QED BY <3>3 DEF v
  <2>. QED BY <2>6, <2>7
<1>. QED BY <1>7, <1>8 DEF TriesAreLimited

\* Every step keeps the types and the counts.
LEMMA CountedStep ==
  ASSUME PassTypes, Counted, [PassNext]_passVars
  PROVE  PassTypes' /\ Counted'
<1>1. /\ stamp \in Stamps /\ Stamps \subseteq Int /\ Window \in Nat /\ MaxStamp \in Nat
      /\ \A k \in LimiterKeys : \A at \in Stamps :
           loginAttempts[k][at] \in Nat /\ tries[k][at] \in Nat
  BY StampsAreFinite DEF PassTypes
<1>2. NoFailures \in [Stamps -> Nat] /\ \A at \in Stamps : NoFailures[at] = 0
  BY DEF NoFailures
<1>3. \A k \in LimiterKeys : \A at \in Stamps :
        at >= stamp - Window => Recent[k][at] = tries[k][at]
  BY <1>1, RecentTypes DEF Counted
<1>4. CASE PassTick
  <2>1. stamp' = stamp + 1 /\ stamp' \in Stamps /\ UNCHANGED <<loginAttempts, tries>>
    BY <1>1, <1>4 DEF PassTick, Stamps
  <2>2. PassTypes'
    BY <2>1 DEF PassTypes
  <2>3. \A at \in Stamps : (at > stamp' => at > stamp) /\ (at >= stamp' - Window => at >= stamp - Window)
    BY <1>1, <2>1
  <2>. QED BY <2>1, <2>2, <2>3 DEF Counted
<1>5. ASSUME NEW k \in LimiterKeys, WrongTry(k)
      PROVE  PassTypes' /\ Counted'
  <2>1. /\ stamp' = stamp
        /\ tries' = [tries EXCEPT ![k][stamp] = @ + 1]
        /\ loginAttempts' = [Recent EXCEPT ![k][stamp] = @ + 1]
    BY <1>5 DEF WrongTry, CountFailure
  <2>2. PassTypes'
    BY <1>1, <2>1, RecentTypes DEF PassTypes
  <2>3. \A j \in LimiterKeys : \A at \in Stamps :
          /\ tries'[j][at] = IF j = k /\ at = stamp THEN tries[j][at] + 1 ELSE tries[j][at]
          /\ loginAttempts'[j][at]
               = IF j = k /\ at = stamp THEN Recent[j][at] + 1 ELSE Recent[j][at]
    BY <1>1, <2>1, RecentTypes DEF PassTypes
  <2>. QED BY <1>1, <1>3, <2>1, <2>2, <2>3 DEF Counted
<1>6. ASSUME NEW e \in Emails, RightSignIn(e)
      PROVE  PassTypes' /\ Counted'
  <2>1. /\ stamp' = stamp
        /\ tries' = [tries EXCEPT ![e] = NoFailures]
        /\ loginAttempts' = [Recent EXCEPT ![e] = NoFailures]
    BY <1>6 DEF RightSignIn
  <2>2. PassTypes'
    BY <1>1, <1>2, <2>1, RecentTypes DEF PassTypes
  <2>3. \A j \in LimiterKeys : \A at \in Stamps :
          /\ tries'[j][at] = IF j = e THEN 0 ELSE tries[j][at]
          /\ loginAttempts'[j][at] = IF j = e THEN 0 ELSE Recent[j][at]
    BY <1>2, <2>1, RecentTypes DEF PassTypes
  <2>. QED BY <1>1, <1>3, <2>1, <2>2, <2>3 DEF Counted
<1>7. CASE UNCHANGED passVars
  BY <1>7 DEF passVars, PassTypes, Counted
<1>. QED BY <1>4, <1>5, <1>6, <1>7 DEF PassNext

\* Every step keeps the limits.
LEMMA PassStep ==
  ASSUME PassIInv, [PassNext]_passVars
  PROVE  PassIInv'
<1>1. PassTypes /\ Counted /\ TriesAreLimited
  BY DEF PassIInv
<1>2. PassTypes' /\ Counted'
  BY <1>1, CountedStep
<1>3. \A k \in LimiterKeys : \A at \in Stamps : tries[k][at] \in Nat
  BY <1>1 DEF PassTypes
<1>4. ASSUME UNCHANGED tries
      PROVE  TriesAreLimited'
  <2>1. \A k \in LimiterKeys : \A at \in Stamps : tries'[k][at] <= tries[k][at]
    BY <1>3, <1>4
  <2>. QED BY <1>1, <1>2, <2>1, FewerStayLimited
<1>5. ASSUME NEW e \in Emails, RightSignIn(e)
      PROVE  TriesAreLimited'
  <2>1. \A k \in LimiterKeys : \A at \in Stamps :
          tries'[k][at] = IF k = e THEN 0 ELSE tries[k][at]
    BY <1>1, <1>5 DEF RightSignIn, NoFailures, PassTypes
  <2>2. \A k \in LimiterKeys : \A at \in Stamps : tries'[k][at] <= tries[k][at]
    BY <1>3, <2>1
  <2>. QED BY <1>1, <1>2, <2>2, FewerStayLimited
<1>6. ASSUME NEW k \in LimiterKeys, WrongTry(k)
      PROVE  TriesAreLimited'
  BY <1>2, <1>6, WrongTryIsLimited
<1>7. TriesAreLimited'
  <2>1. CASE PassTick
    BY <1>4, <2>1 DEF PassTick
  <2>2. CASE UNCHANGED passVars
    BY <1>4, <2>2 DEF passVars
  <2>. QED BY <1>5, <1>6, <2>1, <2>2 DEF PassNext
<1>. QED BY <1>2, <1>7 DEF PassIInv

-----------------------------------------------------------------------------
(* The theorem *)

\* No more wrong tries of a key, or from a host, than the limits allow fall into
\* any window, for any number of addresses and any clock: what is counted is
\* committed before the refusal.
THEOREM WrongTriesAreLimited == PassSpec => []TriesAreLimited
<1>1. PassIInv => TriesAreLimited
  BY DEF PassIInv
<1>. QED BY PassInitInv, PassStep, <1>1, PTL DEF PassSpec
=============================================================================
