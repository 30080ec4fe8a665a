------------------------------ MODULE Casework ------------------------------
(***************************************************************************)
(* The review of observations and the cases of one branch                  *)
(* (src/services/api/app.py): the decision about an observation, a case    *)
(* with its money, follow-up tasks and report draft.  What creates         *)
(* something carries a retry key (idempotent).  One request is one         *)
(* transaction.  A request whose expected_version is not the record's own  *)
(* is refused and changes nothing; every other request comes from somebody *)
(* who has seen the record.                                                *)
(***************************************************************************)
EXTENDS Integers, Sequences, FiniteSetsExt

CONSTANTS
  Keys,        \* retry keys of one person
  Sources,     \* observations
  Nothing,     \* no observation, no draft
  Amounts,     \* money that may be recorded
  MaxCases,    \* bound: cases of the branch
  MaxChanges,  \* bound: changes of cases
  MaxTasks     \* 100 tasks of a case

ASSUME CaseworkAssumption ==
  /\ Nothing \notin Sources
  /\ Amounts \subseteq Nat
  /\ {MaxCases, MaxChanges, MaxTasks} \subseteq Nat

VARIABLES
  candidates,  \* status of each observation
  cases,       \* incidents in the order of their references AS-1, AS-2, ...
  answered     \* idempotency: route and key of the requests whose result is kept

caseVars == <<candidates, cases, answered>>

NoAmount == -1
Money == Amounts \cup {NoAmount}
\* The classifications check_financials tells apart; SUSPECTED_INCIDENT
\* stands for UNASSESSED and INSUFFICIENT_EVIDENCE too.
Classes == {"SUSPECTED_INCIDENT", "BENIGN", "STORE_CONFIRMED_LOSS"}
\* GOODS_RETURNED stands for GOODS_PAID_FOR too.
Outcomes == {"UNRESOLVED", "NO_LOSS_ESTABLISHED", "GOODS_RETURNED", "LOSS_RECORDED"}

\* idempotent: a key that was answered on its route only replays the stored
\* result, or conflicts if the input differs; else the action runs and its
\* result is kept in the same transaction.  The route is the request's path: it
\* names the record the request is about, so that one key sent to two cases
\* makes two requests.
Fresh(route, key) == \A a \in answered : ~(a.route = route /\ a.key = key)

\* A result that is not kept with what it did.
KeepNothing(route, key) == UNCHANGED answered

Keep(route, key) == answered' = answered \cup {[route |-> route, key |-> key]}
Idempotent(route, key, Act) ==
  \/ Fresh(route, key) /\ Act /\ Keep(route, key)
  \/ ~Fresh(route, key) /\ UNCHANGED caseVars

CaseworkInit ==
  /\ candidates = [s \in Sources |-> "NEW"]
  /\ cases = <<>> /\ answered = {}

-----------------------------------------------------------------------------
(* Observations under review *)

Acknowledge(s) ==
  /\ candidates[s] = "NEW"
  /\ candidates' = [candidates EXCEPT ![s] = "ACKNOWLEDGED"]
  /\ UNCHANGED <<cases, answered>>

-----------------------------------------------------------------------------
(* Cases *)

\* new_incident
NewCase(s, key) ==
  [candidate |-> s, from |-> key, st |-> "OPEN",
   class |-> "SUSPECTED_INCIDENT", outcome |-> "UNRESOLVED",
   loss |-> NoAmount, recovered |-> NoAmount, tasks |-> <<>>,
   draft |-> Nothing, version |-> 1]

Decide(s, key) ==
  /\ candidates[s] \in {"NEW", "ACKNOWLEDGED"}
  /\ \/ /\ candidates' = [candidates EXCEPT ![s] = "DISMISSED"]
        /\ UNCHANGED cases
     \/ /\ Len(cases) < MaxCases
        /\ candidates' = [candidates EXCEPT ![s] = "CONVERTED"]
        /\ cases' = Append(cases, NewCase(s, key))

Review(s, key) == Idempotent(<<"review", s>>, key, Decide(s, key))

CreateIncident(key) ==
  Idempotent(<<"incidents">>, key,
    /\ Len(cases) < MaxCases
    /\ cases' = Append(cases, NewCase(Nothing, key))
    /\ UNCHANGED candidates)

\* history: every change counts, and drops the draft unless it is the
\* draft's own.
Changes == MapThenSumSet(LAMBDA n : cases[n].version - 1, DOMAIN cases)

Replace(n, c) ==
  /\ Changes < MaxChanges
  /\ cases' = [cases EXCEPT ![n] = [c EXCEPT !.version = c.version + 1]]
  /\ UNCHANGED candidates

History(n, c) == Replace(n, [c EXCEPT !.draft = Nothing])

\* check_financials
FinancialsAgree(c) ==
  /\ c.loss > 0 => c.class = "STORE_CONFIRMED_LOSS" /\ c.outcome = "LOSS_RECORDED"
  /\ c.class = "BENIGN" \/ c.outcome = "NO_LOSS_ESTABLISHED" => c.loss <= 0 /\ c.recovered <= 0
  /\ c.recovered # NoAmount => c.loss # NoAmount /\ c.recovered <= c.loss
  /\ c.outcome = "LOSS_RECORDED" => c.class = "STORE_CONFIRMED_LOSS" /\ c.loss > 0

\* patch_incident: money and a confirmed loss are a manager's to set.
PatchIncident(n, manager, class, outcome, loss, recovered) ==
  LET c == cases[n]
      d == [c EXCEPT !.class = class, !.outcome = outcome,
                     !.loss = loss, !.recovered = recovered]
  IN
  /\ c.st = "OPEN"
  /\ ~manager => /\ loss = c.loss /\ recovered = c.recovered
                 /\ class = "STORE_CONFIRMED_LOSS" => c.class = class
  /\ FinancialsAgree(d)
  /\ History(n, d)
  /\ UNCHANGED answered

Close(n) ==
  /\ cases[n].st = "OPEN"
  /\ cases[n].outcome # "UNRESOLVED"
  /\ \A i \in DOMAIN cases[n].tasks : cases[n].tasks[i].done
  /\ FinancialsAgree(cases[n])
  /\ History(n, [cases[n] EXCEPT !.st = "CLOSED"])
  /\ UNCHANGED answered

\* reopen, a manager's
Reopen(n) ==
  /\ cases[n].st = "CLOSED"
  /\ History(n, [cases[n] EXCEPT !.st = "OPEN"])
  /\ UNCHANGED answered

CreateTask(n, key) ==
  Idempotent(<<"tasks", n>>, key,
    /\ cases[n].st = "OPEN" /\ Len(cases[n].tasks) < MaxTasks
    /\ History(n, [cases[n] EXCEPT !.tasks =
                     Append(cases[n].tasks, [from |-> key, done |-> FALSE])]))

CompleteTask(n, i) ==
  /\ cases[n].st = "OPEN"
  /\ ~cases[n].tasks[i].done
  /\ History(n, [cases[n] EXCEPT !.tasks[i].done = TRUE])
  /\ UNCHANGED answered

\* What a report states of its case, besides what never changes.
CaseFacts(c) ==
  [class |-> c.class, outcome |-> c.outcome, st |-> c.st, loss |-> c.loss,
   recovered |-> c.recovered, tasks |-> Len(c.tasks),
   done |-> Cardinality({i \in DOMAIN c.tasks : c.tasks[i].done})]

Draft(n) ==
  /\ Replace(n, [cases[n] EXCEPT !.draft =
                   [facts |-> CaseFacts(cases[n]), approved |-> FALSE]])
  /\ UNCHANGED answered

ApproveDraft(n) ==
  /\ cases[n].draft # Nothing /\ ~cases[n].draft.approved
  /\ Replace(n, [cases[n] EXCEPT !.draft.approved = TRUE])
  /\ UNCHANGED answered

-----------------------------------------------------------------------------

CaseStep(n) ==
  \/ \E manager \in BOOLEAN, class \in Classes, outcome \in Outcomes,
        loss \in Money, recovered \in Money :
        PatchIncident(n, manager, class, outcome, loss, recovered)
  \/ Close(n)
  \/ Reopen(n)
  \/ \E key \in Keys : CreateTask(n, key)
  \/ \E i \in DOMAIN cases[n].tasks : CompleteTask(n, i)
  \/ Draft(n)
  \/ ApproveDraft(n)

CaseworkNext ==
  \/ \E key \in Keys : CreateIncident(key)
  \/ \E s \in Sources : Acknowledge(s) \/ \E key \in Keys : Review(s, key)
  \/ \E n \in DOMAIN cases : CaseStep(n)

CaseworkSpec == CaseworkInit /\ [][CaseworkNext]_caseVars

-----------------------------------------------------------------------------
(* Properties *)

\* However often a request is retried after a lost answer, it took effect once:
\* a key made at most one case of each observation and one without, and at most
\* one task of each case.
OncePerKey ==
  /\ \A n, m \in DOMAIN cases :
       cases[n].from = cases[m].from /\ cases[n].candidate = cases[m].candidate => n = m
  /\ \A n \in DOMAIN cases : \A i, j \in DOMAIN cases[n].tasks :
       cases[n].tasks[i].from = cases[n].tasks[j].from => i = j

\* An observation is decided once: it has its one case exactly if the
\* decision was to open one, whoever decides at the same time.
DecidedOnce ==
  \A s \in Sources :
    Cardinality({n \in DOMAIN cases : cases[n].candidate = s})
      = IF candidates[s] = "CONVERTED" THEN 1 ELSE 0

\* A closed case is complete, whatever was done before it was closed and
\* whatever is tried since.
ClosedIsComplete ==
  \A n \in DOMAIN cases : cases[n].st = "CLOSED" =>
    /\ cases[n].outcome # "UNRESOLVED"
    /\ \A i \in DOMAIN cases[n].tasks : cases[n].tasks[i].done

\* Money on record always belongs to a confirmed loss, and no more came back
\* than was lost, after any sequence of partial updates.
MoneyIsConfirmed ==
  \A n \in DOMAIN cases :
    /\ cases[n].loss > 0 => cases[n].class = "STORE_CONFIRMED_LOSS"
                            /\ cases[n].outcome = "LOSS_RECORDED"
    /\ cases[n].recovered <= (IF cases[n].loss > 0 THEN cases[n].loss ELSE 0)

\* A report, approved or not, states the case as it is: any change of what it
\* states has dropped it.
DraftIsCurrent ==
  \A n \in DOMAIN cases :
    cases[n].draft # Nothing => cases[n].draft.facts = CaseFacts(cases[n])

\* Cases are opened once, and what a case says of money, tasks and its report
\* agrees, after any sequence of retries and partial updates.
CaseworkInv ==
  /\ OncePerKey /\ DecidedOnce
  /\ ClosedIsComplete /\ MoneyIsConfirmed /\ DraftIsCurrent
=============================================================================
