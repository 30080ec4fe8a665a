------------------------------- MODULE SignIn -------------------------------
(***************************************************************************)
(* One browser signed in to the laptop (src/services/api/app.py: context,  *)
(* runtime_health_site, login, switch_site, logout; store.py: transaction).*)
(* A request handled through `context' answers from inside its             *)
(* transaction: the framework runs the code after a dependency's `yield'   *)
(* once the response is sent, so the commit comes after the answer, and    *)
(* the process may end in between.  login opens its own transaction and    *)
(* returns after it closed; switch_site commits before it answers.  A      *)
(* heartbeat reads a committed snapshot and never waits for the writer.    *)
(***************************************************************************)
EXTENDS Integers

CONSTANTS
  Cookies,     \* session tokens
  NoCookie,    \* no cookie, no transaction
  MaxAge,      \* 8 * 3600: absolute life of a session
  Idle,        \* 15 * 60: life since the last request of a person
  MaxTime      \* bound: the clock

ASSUME SignInAssumption ==
  /\ NoCookie \notin Cookies
  /\ {MaxAge, Idle, MaxTime} \subseteq Nat

VARIABLES
  clock,
  table,     \* the committed rows of sessions
  writing,   \* the transaction of an answered request, not committed yet
  cookie,    \* what the browser holds
  born,      \* history: when the person behind a token signed in
  active,    \* history: the last request of a person with a token
  ended      \* history: tokens whose row was deleted and committed

signInVars == <<clock, table, writing, cookie, born, active, ended>>

Row == [live : BOOLEAN, created : Nat, seen : Nat]
NoRow == [live |-> FALSE, created |-> 0, seen |-> 0]

SignInInit ==
  /\ clock = 0
  /\ table = [k \in Cookies |-> NoRow]
  /\ writing = NoCookie
  /\ cookie = NoCookie
  /\ born = [k \in Cookies |-> 0] /\ active = [k \in Cookies |-> 0]
  /\ ended = {}

Tick ==
  /\ clock < MaxTime
  /\ clock' = clock + 1
  /\ UNCHANGED <<table, writing, cookie, born, active, ended>>

-----------------------------------------------------------------------------
(* Reading a session *)

\* The test that context and runtime_health_site share.
AcceptedCookie(k) ==
  /\ table[k].live
  /\ clock - table[k].created < MaxAge
  /\ clock - table[k].seen < Idle

-----------------------------------------------------------------------------
(* Requests through context: BEGIN IMMEDIATE waits for the writer. *)

Requests(k) == writing = NoCookie /\ cookie = k /\ AcceptedCookie(k)

\* A row that is deleted is committed at once, before the refusal.
ExpiredRequest(k) ==
  /\ writing = NoCookie /\ cookie = k /\ table[k].live /\ ~AcceptedCookie(k)
  /\ table' = [table EXCEPT ![k] = NoRow]
  /\ ended' = ended \cup {k}
  /\ UNCHANGED <<clock, writing, cookie, born, active>>

Touched(k) == [table EXCEPT ![k] = [live |-> TRUE, created |-> table[k].created,
                                    seen |-> clock]]

\* An answered request leaves its changes to the transaction.
Answer(k, rows, ends) ==
  /\ writing' = [rows |-> rows, ends |-> ends]
  /\ active' = [active EXCEPT ![k] = clock]
  /\ UNCHANGED <<clock, table, born, ended>>

\* Every request counts as a person's.
AfterAnyRequest(k) == Touched(k)

\* A GET (a picture, a background refresh) leaves last_seen alone.
AfterGet(k) == table

BackgroundGet(k) ==
  /\ Requests(k)
  /\ writing' = [rows |-> AfterGet(k), ends |-> {}]
  /\ UNCHANGED <<clock, table, cookie, born, active, ended>>

\* A write, or /api/session.
PersonActs(k) ==
  /\ Requests(k)
  /\ Answer(k, Touched(k), {})
  /\ UNCHANGED cookie

Logout(k) ==
  /\ Requests(k)
  /\ Answer(k, [table EXCEPT ![k] = NoRow], {k})
  /\ cookie' = NoCookie

\* switch_site: committed before the answer, which may be lost.
CommitsSwitch(k, new) ==
  /\ table' = [table EXCEPT
       ![k] = NoRow,
       ![new] = [live |-> TRUE, created |-> table[k].created, seen |-> clock]]
  /\ ended' = ended \cup {k}
  /\ UNCHANGED writing

ChangeBranch(k, new) ==
  /\ Requests(k) /\ ~table[new].live /\ new \notin ended
  /\ CommitsSwitch(k, new)
  /\ cookie' \in {new, cookie}
  /\ born' = [born EXCEPT ![new] = born[k]]
  /\ active' = [active EXCEPT ![new] = clock]
  /\ UNCHANGED clock

\* The code after the yield.
Commit ==
  /\ writing # NoCookie
  /\ table' = writing.rows
  /\ ended' = ended \cup writing.ends
  /\ writing' = NoCookie
  /\ UNCHANGED <<clock, cookie, born, active>>

\* The process ends first: the transaction is rolled back.
Crash ==
  /\ writing # NoCookie
  /\ writing' = NoCookie
  /\ UNCHANGED <<clock, table, cookie, born, active, ended>>

\* An access change of this account by the local operator.
Revoked(k) ==
  /\ writing = NoCookie /\ table[k].live
  /\ table' = [table EXCEPT ![k] = NoRow]
  /\ ended' = ended \cup {k}
  /\ UNCHANGED <<clock, writing, cookie, born, active>>

-----------------------------------------------------------------------------
(* Signing in *)

\* login with the right passphrase: the rows whose time is long over go, and
\* the browser's old one.
SignIntoBranch(k) ==
  /\ writing = NoCookie /\ ~table[k].live /\ k \notin ended
  /\ LET over == {j \in Cookies : /\ table[j].live
                                  /\ \/ table[j].created < clock - MaxAge
                                     \/ table[j].seen < clock - Idle
                                     \/ j = cookie} IN
     /\ table' = [j \in Cookies |->
          IF j = k THEN [live |-> TRUE, created |-> clock, seen |-> clock]
          ELSE IF j \in over THEN NoRow ELSE table[j]]
     /\ ended' = ended \cup over
  /\ cookie' \in {k, cookie}
  /\ born' = [born EXCEPT ![k] = clock] /\ active' = [active EXCEPT ![k] = clock]
  /\ UNCHANGED <<clock, writing>>

-----------------------------------------------------------------------------

SignInNext ==
  \/ Tick
  \/ Commit
  \/ Crash
  \/ \E k \in Cookies :
       \/ ExpiredRequest(k)
       \/ BackgroundGet(k)
       \/ PersonActs(k)
       \/ Logout(k)
       \/ \E new \in Cookies : ChangeBranch(k, new)
       \/ Revoked(k)
       \/ SignIntoBranch(k)

SignInSpec == SignInInit /\ [][SignInNext]_signInVars

-----------------------------------------------------------------------------
(* Properties *)

\* Whoever is let in signed in less than MaxAge ago and did something
\* themselves less than Idle ago: neither changing branch nor background
\* requests stretch a session.
NobodyOverstays ==
  \A k \in Cookies : AcceptedCookie(k) =>
    /\ clock - born[k] < MaxAge
    /\ clock - active[k] < Idle

\* The cookie a browser was given is one the next heartbeat finds in the
\* committed database, unless its session was ended since: an answer that
\* carries a cookie never runs ahead of its commit.
CookieIsKnown == cookie # NoCookie => table[cookie].live \/ cookie \in ended

\* A browser is let in exactly as long as it should be: not longer, and not less
\* because its cookie ran ahead of the commit.
SignInInv == NobodyOverstays /\ CookieIsKnown
=============================================================================
