------------------------------ MODULE Accounts ------------------------------
(***************************************************************************)
(* Named accounts of a pilot laptop and who may manage which branch        *)
(* (src/services/api/pilot_identity.py, the local operator's commands, and *)
(* pilot_admin.py, the first owner's claim and the managers' browser       *)
(* pages), with the sessions that each change of access must end           *)
(* (store.py: resolve_session_user, allowed_sites; app.py: login,          *)
(* switch_site, logout).  Every operation is one BEGIN IMMEDIATE           *)
(* transaction, so it is one step; what a session's clock, the password    *)
(* limits and the late commit of a request add is in SignIn.               *)
(* Only initialise and claim_setup create an organisation, and only in an  *)
(* empty database: there is one, and the refusals of another organisation  *)
(* cannot occur.  Names, addresses and passphrases that validation refuses *)
(* change nothing and are left out, as is a request whose                  *)
(* expected_version is not the account's own (409).                        *)
(***************************************************************************)
EXTENDS Integers

CONSTANTS
  Users,              \* the addresses accounts are made for
  Sites,              \* the branches that may be made
  Tokens,             \* session tokens: a free one stands for a fresh random one
  NoUser,             \* the user of a free token
  MaxAccountChanges,  \* bound: access changes of one account
  MaxCodes            \* bound: setup codes issued

ASSUME AccountsAssumption ==
  /\ NoUser \notin Users
  /\ MaxAccountChanges \in Nat
  /\ MaxCodes \in Nat

VARIABLES
  branches,  \* entities of kind 'site'
  accounts,  \* users, account_security and memberships; `epoch' (history)
             \* counts the changes of grants, enablement and passphrase
  sessions,  \* sessions joined with session_scopes; `epoch' (history) is the
             \* account's at sign-in
  setup,     \* runtime_settings: the hash of the setup code that is accepted
  codefile,  \* <db>.setup-token: the code the operator may read
  issued,    \* history: codes made
  founded    \* history: how often a first owner was created

accountsVars == <<branches, accounts, sessions, setup, codefile, issued, founded>>
setupVars == <<setup, codefile, issued, founded>>

Roles == {"MANAGER", "REVIEWER"}
Grants == [Sites -> Roles \cup {"NONE"}]
Account == [st : {"NONE", "ENABLED", "DISABLED"}, home : Sites \cup {NoUser},
            grants : Grants, epoch : Nat]
Session == [user : Users \cup {NoUser}, site : Sites \cup {NoUser}, epoch : Nat]

NoGrants == [s \in Sites |-> "NONE"]
NoAccount == [st |-> "NONE", home |-> NoUser, grants |-> NoGrants, epoch |-> 0]
NoSession == [user |-> NoUser, site |-> NoUser, epoch |-> 0]

AccountsInit ==
  /\ branches = {}
  /\ accounts = [u \in Users |-> NoAccount]
  /\ sessions = [k \in Tokens |-> NoSession]
  /\ setup = 0 /\ codefile = 0 /\ issued = 0 /\ founded = 0

-----------------------------------------------------------------------------
(* Who may do what *)

Manages(a, s) == a.st = "ENABLED" /\ a.grants[s] = "MANAGER"

\* A successor who is disabled.
PreservedByAnyone(u, ss) ==
  \A s \in ss : Manages(accounts[u], s) =>
    \E v \in Users \ {u} : accounts[v].grants[s] = "MANAGER"

\* _preserve_manager over the branches ss of u: another enabled manager
\* stays wherever u is one.
Preserved(u, ss) ==
  \A s \in ss : Manages(accounts[u], s) =>
    \E v \in Users \ {u} : Manages(accounts[v], s)

\* allowed_sites
Allowed(a) == {s \in branches : a.grants[s] # "NONE"}

\* resolve_session_user: authority is looked up afresh on every request.
ResolvedSession(k) ==
  /\ sessions[k].user # NoUser
  /\ accounts[sessions[k].user].st = "ENABLED"
  /\ sessions[k].site \in Allowed(accounts[sessions[k].user])

\* manager(ctx): the session acts for a manager of its branch, and reaches
\* the branches that account manages.
Managed(k) == {s \in branches : accounts[sessions[k].user].grants[s] = "MANAGER"}
ManagerActs(k) == ResolvedSession(k) /\ sessions[k].site \in Managed(k)

\* target, and global_authority for an account-wide change
Reaches(k, u) ==
  accounts[u].st # "NONE" /\ Allowed(accounts[u]) \cap Managed(k) # {}
ReachesAll(k, u) == Reaches(k, u) /\ Allowed(accounts[u]) \subseteq Managed(k)

SetupAvailable == branches = {} /\ \A u \in Users : accounts[u].st = "NONE"

-----------------------------------------------------------------------------
(* What an operation writes *)

NewAccount(home, grants) ==
  [st |-> "ENABLED", home |-> home, grants |-> grants, epoch |-> 0]

\* Sessions that survive a change of access.
StillSignedIn(u) == sessions

\* An access change: the new account, and every session of it deleted.
SignedOut(u) ==
  [k \in Tokens |-> IF sessions[k].user = u THEN NoSession ELSE sessions[k]]

ChangeAccount(u, st, grants) ==
  /\ accounts[u].epoch < MaxAccountChanges
  /\ accounts' = [accounts EXCEPT ![u] =
       [st |-> st, home |-> accounts[u].home, grants |-> grants,
        epoch |-> accounts[u].epoch + 1]]
  /\ sessions' = SignedOut(u)

Regranted(u, s, role) == [accounts[u].grants EXCEPT ![s] = role]

-----------------------------------------------------------------------------
(* First owner *)

\* issue_setup_token: the file is replaced before the row is written in the
\* same transaction; the process may end in between.
IssueSetupToken ==
  /\ SetupAvailable /\ issued < MaxCodes
  /\ issued' = issued + 1
  /\ codefile' = issued + 1
  /\ setup' \in {issued + 1, setup}
  /\ UNCHANGED <<branches, accounts, sessions, founded>>

\* expires_at passes: the row stays, and is not accepted.
SetupExpires ==
  /\ setup > 0
  /\ setup' = 0
  /\ UNCHANGED <<branches, accounts, sessions, codefile, issued, founded>>

\* _new_site and _new_user in an empty database
SetUp(u, s) ==
  /\ SetupAvailable
  /\ branches' = {s}
  /\ accounts' = [accounts EXCEPT ![u] =
                    NewAccount(s, [NoGrants EXCEPT ![s] = "MANAGER"])]
  /\ founded' = founded + 1
  /\ UNCHANGED sessions

\* claim_setup: the file goes after the commit, if the process lives.
ClaimSetup(u, s, code) ==
  /\ code = setup /\ code > 0
  /\ SetUp(u, s)
  /\ setup' = 0
  /\ codefile' \in {0, codefile}
  /\ UNCHANGED issued

\* initialise: the same at the operator's console, without a code; a code
\* issued before stays in its row.
Initialise(u, s) ==
  /\ SetUp(u, s)
  /\ UNCHANGED <<setup, codefile, issued>>

-----------------------------------------------------------------------------
(* The local operator (pilot_identity.py) *)

\* add_site: a branch nobody manages yet.
AddSite(s) ==
  /\ branches # {} /\ s \notin branches
  /\ branches' = branches \cup {s}
  /\ UNCHANGED <<accounts, sessions, setupVars>>

\* add_user: one role for every branch named.
AddUser(u, ss, role) ==
  /\ accounts[u].st = "NONE" /\ ss # {} /\ ss \subseteq branches
  /\ \E home \in ss :
       accounts' = [accounts EXCEPT ![u] =
         NewAccount(home, [s \in Sites |-> IF s \in ss THEN role ELSE "NONE"])]
  /\ UNCHANGED <<branches, sessions, setupVars>>

GrantUser(u, s, role) ==
  /\ accounts[u].st # "NONE" /\ s \in branches
  /\ role # "MANAGER" => Preserved(u, {s})
  /\ ChangeAccount(u, accounts[u].st, Regranted(u, s, role))
  /\ UNCHANGED <<branches, setupVars>>

RevokeSiteAccess(u, s) ==
  /\ accounts[u].st # "NONE" /\ s \in branches
  /\ Preserved(u, {s})
  /\ ChangeAccount(u, accounts[u].st, Regranted(u, s, "NONE"))
  /\ UNCHANGED <<branches, setupVars>>

DisableUser(u) ==
  /\ accounts[u].st # "NONE"
  /\ Preserved(u, Sites)
  /\ ChangeAccount(u, "DISABLED", accounts[u].grants)
  /\ UNCHANGED <<branches, setupVars>>

EnableUser(u) ==
  /\ accounts[u].st # "NONE" /\ Allowed(accounts[u]) # {}
  /\ ChangeAccount(u, "ENABLED", accounts[u].grants)
  /\ UNCHANGED <<branches, setupVars>>

SetPassword(u) ==
  /\ accounts[u].st # "NONE"
  /\ ChangeAccount(u, accounts[u].st, accounts[u].grants)
  /\ UNCHANGED <<branches, setupVars>>

-----------------------------------------------------------------------------
(* A manager's browser (pilot_admin.py) *)

\* create_site: the creator manages the new branch, and stays signed in.
CreateSite(k, s) ==
  /\ ManagerActs(k) /\ s \notin branches
  /\ branches' = branches \cup {s}
  /\ LET u == sessions[k].user IN
     accounts' = [accounts EXCEPT ![u] =
       [st |-> accounts[u].st, home |-> accounts[u].home,
        grants |-> Regranted(u, s, "MANAGER"), epoch |-> accounts[u].epoch]]
  /\ UNCHANGED <<sessions, setupVars>>

\* create_user: a role for each branch named.
CreateUser(k, u, grants) ==
  /\ ManagerActs(k) /\ accounts[u].st = "NONE"
  /\ {s \in Sites : grants[s] # "NONE"} \subseteq Managed(k)
  /\ \E home \in Managed(k) :
       /\ grants[home] # "NONE"
       /\ accounts' = [accounts EXCEPT ![u] = NewAccount(home, grants)]
  /\ UNCHANGED <<branches, sessions, setupVars>>

ChangeAccess(k, u, s, role) ==
  /\ ManagerActs(k) /\ Reaches(k, u) /\ s \in Managed(k)
  /\ role = "NONE" => \E r, q \in Allowed(accounts[u]) : r # q
  /\ role # "MANAGER" => Preserved(u, {s})
  /\ ChangeAccount(u, accounts[u].st, Regranted(u, s, role))
  /\ UNCHANGED <<branches, setupVars>>

ChangeEnabled(k, u, enabled) ==
  /\ ManagerActs(k) /\ ReachesAll(k, u)
  /\ ~enabled => Preserved(u, Sites)
  /\ ChangeAccount(u, IF enabled THEN "ENABLED" ELSE "DISABLED", accounts[u].grants)
  /\ UNCHANGED <<branches, setupVars>>

ResetPassword(k, u) ==
  /\ ManagerActs(k) /\ ReachesAll(k, u)
  /\ ChangeAccount(u, accounts[u].st, accounts[u].grants)
  /\ UNCHANGED <<branches, setupVars>>

-----------------------------------------------------------------------------
(* Sessions *)

\* login with the right passphrase: the branch is the account's own if it is
\* still permitted, else the first permitted one; the browser's previous
\* session, whoever's it was, ends.
Login(u, k, old) ==
  /\ accounts[u].st = "ENABLED" /\ sessions[k].user = NoUser
  /\ \E s \in Allowed(accounts[u]) :
       /\ accounts[u].home \in Allowed(accounts[u]) => s = accounts[u].home
       /\ sessions' = [j \in Tokens |->
            IF j = k THEN [user |-> u, site |-> s, epoch |-> accounts[u].epoch]
            ELSE IF j = old THEN NoSession ELSE sessions[j]]
  /\ UNCHANGED <<branches, accounts, setupVars>>

\* switch_site: a new token for another permitted branch.
SwitchSite(k, new, s) ==
  /\ ResolvedSession(k) /\ sessions[new].user = NoUser
  /\ s \in Allowed(accounts[sessions[k].user]) /\ s # sessions[k].site
  /\ sessions' = [sessions EXCEPT
       ![k] = NoSession,
       ![new] = [user |-> sessions[k].user, site |-> s, epoch |-> sessions[k].epoch]]
  /\ UNCHANGED <<branches, accounts, setupVars>>

\* logout, and a session whose time ran out, deleted by whoever meets it.
EndSession(k) ==
  /\ sessions[k].user # NoUser
  /\ sessions' = [sessions EXCEPT ![k] = NoSession]
  /\ UNCHANGED <<branches, accounts, setupVars>>

-----------------------------------------------------------------------------

OperatorStep(u) ==
  \/ \E s \in Sites : Initialise(u, s)
  \/ \E ss \in SUBSET Sites, role \in Roles : AddUser(u, ss, role)
  \/ \E s \in Sites, role \in Roles : GrantUser(u, s, role)
  \/ \E s \in Sites : RevokeSiteAccess(u, s)
  \/ DisableUser(u)
  \/ EnableUser(u)
  \/ SetPassword(u)

BrowserStep(k) ==
  \/ \E s \in Sites : CreateSite(k, s)
  \/ \E u \in Users, grants \in Grants : CreateUser(k, u, grants)
  \/ \E u \in Users, s \in Sites, role \in Roles \cup {"NONE"} : ChangeAccess(k, u, s, role)
  \/ \E u \in Users, enabled \in BOOLEAN : ChangeEnabled(k, u, enabled)
  \/ \E u \in Users : ResetPassword(k, u)
  \/ \E u \in Users, old \in Tokens \cup {NoUser} : Login(u, k, old)
  \/ \E new \in Tokens, s \in Sites : SwitchSite(k, new, s)
  \/ EndSession(k)

AccountsNext ==
  \/ IssueSetupToken
  \/ SetupExpires
  \/ \E u \in Users, s \in Sites, code \in 1 .. MaxCodes : ClaimSetup(u, s, code)
  \/ \E s \in Sites : AddSite(s)
  \/ \E u \in Users : OperatorStep(u)
  \/ \E k \in Tokens : BrowserStep(k)

AccountsSpec == AccountsInit /\ [][AccountsNext]_accountsVars

-----------------------------------------------------------------------------
(* Properties *)

\* Every table keeps its shape, and a grant is for a branch that exists.
AccountsTypeOK ==
  /\ branches \subseteq Sites
  /\ accounts \in [Users -> Account]
  /\ sessions \in [Tokens -> Session]
  /\ setup \in Nat /\ codefile \in Nat /\ issued \in Nat /\ founded \in Nat

\* A branch that has an enabled manager keeps one, whatever managers and the
\* operator do to each other and to themselves (_preserve_manager).
HasManager(s) == \E u \in Users : Manages(accounts[u], s)
BranchKeepsManager == [][\A s \in Sites : HasManager(s) => HasManager(s)']_accounts

\* A session is never older than the last change of its account's grants,
\* enablement or passphrase: each change ends every session of the account.
SessionIsCurrent ==
  \A k \in Tokens : sessions[k].user # NoUser =>
    /\ accounts[sessions[k].user].st = "ENABLED"
    /\ sessions[k].epoch = accounts[sessions[k].user].epoch

\* A workspace is founded once: neither a code that outlived its claim, in the
\* file or in the row, nor the console's command founds it again.
FoundedOnce ==
  /\ founded <= 1
  /\ founded = 0 => branches = {} /\ \A u \in Users : accounts[u].st = "NONE"
  /\ founded = 1 => branches # {}

\* Accounts stay well-formed, a workspace is founded once, and every session
\* belongs to its account as it is.
AccountsInv == AccountsTypeOK /\ SessionIsCurrent /\ FoundedOnce
=============================================================================
