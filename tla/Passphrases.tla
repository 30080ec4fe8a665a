---------------------------- MODULE Passphrases ----------------------------
(***************************************************************************)
(* How often a passphrase or a setup code may be tried (the table          *)
(* login_attempts; app.py: login, pilot_admin.py: reauthenticate and       *)
(* claim_setup, cloud_connection.py: reauth).  A refused try is an         *)
(* exception, which would roll back its own row: each of the four handlers *)
(* commits the row first.  A try reads the clock and counts in one step:   *)
(* login reads it before it has the database's lock, and the time it may   *)
(* wait for the lock, seconds against a window of fifteen minutes, is left *)
(* out.                                                                    *)
(***************************************************************************)
EXTENDS Integers, FiniteSets, FiniteSetsExt

CONSTANTS
  Emails,        \* addresses tried from one host
  Namespaces,    \* what the other handlers count under: each manager's
                 \* __admin_reauth__ and __cloud_reauth__, __first_owner_setup__
  Window,        \* 900 s: how long a failure counts
  PerKey,        \* 5 failures of an address or a namespace
  PerHost,       \* 20 failures from one host
  MaxStamp,      \* bound: the clock
  MaxWrongTries  \* bound: wrong tries of one key since its last right one

ASSUME PassphrasesAssumption ==
  /\ {Window, PerKey, PerHost, MaxStamp, MaxWrongTries} \subseteq Nat
  /\ PerKey > 0 /\ PerHost > 0
  \* models.py: an address has at most 254 characters
  /\ IsFiniteSet(Emails) /\ IsFiniteSet(Namespaces) /\ Emails \cap Namespaces = {}

VARIABLES
  stamp,          \* the clock
  loginAttempts,  \* login_attempts: how many failures of a key it holds, by time
  tries           \* history: the wrong tries since the last right one, by time

passVars == <<stamp, loginAttempts, tries>>

LimiterKeys == Emails \cup Namespaces

Stamps == 0 .. MaxStamp

NoFailures == [at \in Stamps |-> 0]

PassInit ==
  /\ stamp = 0
  /\ loginAttempts = [k \in LimiterKeys |-> NoFailures]
  /\ tries = [k \in LimiterKeys |-> NoFailures]

PassTick == stamp < MaxStamp /\ stamp' = stamp + 1 /\ UNCHANGED <<loginAttempts, tries>>

\* Each handler deletes what is older than the window, of every key, ...
Recent ==
  [k \in LimiterKeys |->
     [at \in Stamps |-> IF at < stamp - Window THEN 0 ELSE loginAttempts[k][at]]]

\* ... before it counts what is left.
Failures(k) == SumFunctionOnSet(Recent[k], Stamps)

FromHost == SumFunctionOnSet([e \in Emails |-> Failures(e)], Emails)

BelowLimits(k) ==
  /\ Failures(k) < PerKey
  /\ k \in Emails => FromHost < PerHost

\* A row that the refusal rolls back.
CountsNothing(k) == UNCHANGED loginAttempts

\* The row of a failure, committed before the refusal is raised
CountFailure(k) == loginAttempts' = [Recent EXCEPT ![k][stamp] = @ + 1]

WrongTry(k) ==
  /\ SumFunctionOnSet(tries[k], Stamps) < MaxWrongTries
  /\ BelowLimits(k)
  /\ CountFailure(k)
  /\ tries' = [tries EXCEPT ![k][stamp] = @ + 1]
  /\ UNCHANGED stamp

\* A right sign-in forgets the failures of its address; a right confirmation
\* or code leaves them.
RightSignIn(e) ==
  /\ BelowLimits(e)
  /\ loginAttempts' = [Recent EXCEPT ![e] = NoFailures]
  /\ tries' = [tries EXCEPT ![e] = NoFailures]
  /\ UNCHANGED stamp

PassNext ==
  \/ PassTick
  \/ \E k \in LimiterKeys : WrongTry(k)
  \/ \E e \in Emails : RightSignIn(e)

PassSpec == PassInit /\ [][PassNext]_passVars

-----------------------------------------------------------------------------
(* Properties *)

\* The wrong tries of a key in the window that begins at a time
WrongWithin(k, from) ==
  SumFunctionOnSet(tries[k], {at \in Stamps : from <= at /\ at <= from + Window})

\* Between two right sign-ins no more than PerKey wrong passphrases of a key,
\* and from one host no more than PerHost over all addresses, fall into any
\* window: a refusal that rolled its own row back would let them through.
TriesAreLimited ==
  \A from \in Stamps :
    /\ \A k \in LimiterKeys : WrongWithin(k, from) <= PerKey
    /\ SumFunctionOnSet([e \in Emails |-> WrongWithin(e, from)], Emails) <= PerHost
=============================================================================
