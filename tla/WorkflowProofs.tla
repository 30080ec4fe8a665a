--------------------------- MODULE WorkflowProofs ---------------------------
(***************************************************************************)
(* What the people of a branch rely on in the daily workflow, for every value *)
(* of the constants: cases (Casework), reports of browsers (Intake), external *)
(* reviews (Verifier), what may leave the laptop (Projection) and the alarms of *)
(* the custody engine (Custody).                                           *)
(***************************************************************************)
EXTENDS Casework, Intake, Verifier, Projection, Custody, FiniteSetTheorems, TLAPS

-----------------------------------------------------------------------------
(***************************************************************************)
(* Cases of one branch (Casework)                                          *)
(*                                                                         *)
(* A case and a task remember the key that made them, and that key's result *)
(* is kept under their route: a key that is fresh there has made none.  What a case says of *)
(* itself is about its own fields, and every change of those drops the draft. *)
(***************************************************************************)

-----------------------------------------------------------------------------
(* The inductive invariant *)

Task == [from : Keys, done : BOOLEAN]
Report == [facts : [class : Classes, outcome : Outcomes, st : {"OPEN", "CLOSED"}, loss : Money,
                    recovered : Money, tasks : Nat, done : Nat],
           approved : BOOLEAN]
Incident == [candidate : Sources \cup {Nothing}, from : Keys, st : {"OPEN", "CLOSED"},
             class : Classes, outcome : Outcomes, loss : Money, recovered : Money,
             tasks : Seq(Task), draft : Report \cup {Nothing}, version : Nat]

\* What ClosedIsComplete, MoneyIsConfirmed and DraftIsCurrent ask of one case
DoneWhenClosed(c) ==
  c.st = "CLOSED" => c.outcome # "UNRESOLVED" /\ \A i \in DOMAIN c.tasks : c.tasks[i].done
MoneyFits(c) ==
  /\ c.loss > 0 => c.class = "STORE_CONFIRMED_LOSS" /\ c.outcome = "LOSS_RECORDED"
  /\ c.recovered <= (IF c.loss > 0 THEN c.loss ELSE 0)
Reported(c) == c.draft # Nothing => c.draft.facts = CaseFacts(c)

\* The route and key that made a case
Maker(c) == [route |-> IF c.candidate = Nothing THEN <<"incidents">> ELSE <<"review", c.candidate>>,
             key |-> c.from]

\* The route and key that made a task of case n
TaskMaker(n, task) == [route |-> <<"tasks", n>>, key |-> task.from]

\* The tasks of a case were made by a key each.
TasksOnce(c) == \A i, j \in DOMAIN c.tasks : c.tasks[i].from = c.tasks[j].from => i = j

\* What made a case or a task was answered, and no two were made by the same.
CaseworkIInv ==
  /\ candidates \in [Sources -> {"NEW", "ACKNOWLEDGED", "DISMISSED", "CONVERTED"}]
  /\ cases \in Seq(Incident)
  /\ \A n \in DOMAIN cases :
       DoneWhenClosed(cases[n]) /\ MoneyFits(cases[n]) /\ Reported(cases[n])
  /\ \A n \in DOMAIN cases : Maker(cases[n]) \in answered
  /\ \A n, m \in DOMAIN cases : Maker(cases[n]) = Maker(cases[m]) => n = m
  /\ \A n \in DOMAIN cases : \A i \in DOMAIN cases[n].tasks :
       TaskMaker(n, cases[n].tasks[i]) \in answered
  /\ \A n \in DOMAIN cases : TasksOnce(cases[n])
  /\ \A n \in DOMAIN cases : cases[n].candidate # Nothing => candidates[cases[n].candidate] = "CONVERTED"
  /\ \A s \in Sources : candidates[s] = "CONVERTED" => \E n \in DOMAIN cases : cases[n].candidate = s
  /\ \A n, m \in DOMAIN cases :
       cases[n].candidate = cases[m].candidate /\ cases[n].candidate # Nothing => n = m

\* Money is a number.
LEMMA MoneyIsInt == Money \subseteq Int /\ NoAmount \in Money /\ NoAmount < 0
BY CaseworkAssumption DEF Money, NoAmount

\* What counts as financial agreement is what the property asks.
LEMMA AgreedMoneyFits ==
  ASSUME NEW c, c.loss \in Money, c.recovered \in Money, FinancialsAgree(c)
  PROVE  MoneyFits(c)
<1>1. c.loss \in Int /\ c.recovered \in Int /\ (c.recovered = NoAmount \/ c.recovered >= 0)
      /\ (c.loss = NoAmount \/ c.loss >= 0) /\ NoAmount = -1
  <2>1. NoAmount = -1
    BY DEF NoAmount
  <2>2. \A x \in Money : x \in Int /\ (x = NoAmount \/ x >= 0)
    BY <2>1, CaseworkAssumption DEF Money
  <2> QED BY <2>1, <2>2
<1>2. c.loss > 0 => c.class = "STORE_CONFIRMED_LOSS" /\ c.outcome = "LOSS_RECORDED"
  BY DEF FinancialsAgree
<1>3. c.recovered # NoAmount => c.loss # NoAmount /\ c.recovered <= c.loss
  BY DEF FinancialsAgree
<1>4. c.recovered <= (IF c.loss > 0 THEN c.loss ELSE 0)
  BY <1>1, <1>3
<1> QED BY <1>2, <1>4 DEF MoneyFits

-----------------------------------------------------------------------------
(* One case changes *)

\* A case that counts a change
LEMMA Recorded ==
  ASSUME NEW c \in Incident
  PROVE  LET d == [c EXCEPT !.version = c.version + 1]
         IN  /\ d \in Incident /\ d.candidate = c.candidate /\ d.from = c.from /\ d.st = c.st
             /\ d.class = c.class /\ d.outcome = c.outcome /\ d.loss = c.loss
             /\ d.recovered = c.recovered /\ d.tasks = c.tasks /\ d.draft = c.draft
BY DEF Incident

\* A case with another draft
LEMMA Redrafted ==
  ASSUME NEW c \in Incident, NEW r \in Report \cup {Nothing}
  PROVE  LET d == [c EXCEPT !.draft = r]
         IN  /\ d \in Incident /\ d.candidate = c.candidate /\ d.from = c.from /\ d.st = c.st
             /\ d.class = c.class /\ d.outcome = c.outcome /\ d.loss = c.loss
             /\ d.recovered = c.recovered /\ d.tasks = c.tasks /\ d.draft = r
BY DEF Incident

\* A case changes in what is not its key, nor its tasks'.
LEMMA CaseMoves ==
  ASSUME CaseworkIInv, NEW n \in DOMAIN cases, NEW d \in Incident,
         d.candidate = cases[n].candidate, d.from = cases[n].from,
         DOMAIN d.tasks = DOMAIN cases[n].tasks,
         \A i \in DOMAIN d.tasks : d.tasks[i].from = cases[n].tasks[i].from,
         DoneWhenClosed(d), MoneyFits(d), Reported(d),
         cases' = [cases EXCEPT ![n] = d], UNCHANGED <<candidates, answered>>
  PROVE  CaseworkIInv'
<1>1. /\ cases' \in Seq(Incident) /\ DOMAIN cases' = DOMAIN cases /\ cases'[n] = d
      /\ \A m \in DOMAIN cases \ {n} : cases'[m] = cases[m]
  BY DEF CaseworkIInv
<1>2. \A m \in DOMAIN cases :
        /\ cases'[m].candidate = cases[m].candidate /\ Maker(cases'[m]) = Maker(cases[m])
        /\ DOMAIN cases'[m].tasks = DOMAIN cases[m].tasks
        /\ \A i \in DOMAIN cases[m].tasks : cases'[m].tasks[i].from = cases[m].tasks[i].from
  BY <1>1 DEF Maker
<1>3. \A m \in DOMAIN cases' :
        DoneWhenClosed(cases'[m]) /\ MoneyFits(cases'[m]) /\ Reported(cases'[m])
  BY <1>1 DEF CaseworkIInv
<1>4. /\ (\A m \in DOMAIN cases :
            DoneWhenClosed(cases[m]) /\ MoneyFits(cases[m]) /\ Reported(cases[m]))'
      /\ (\A m \in DOMAIN cases : Maker(cases[m]) \in answered)'
      /\ (\A l, m \in DOMAIN cases : Maker(cases[l]) = Maker(cases[m]) => l = m)'
  BY <1>1, <1>2, <1>3 DEF CaseworkIInv
<1>5. (\A m \in DOMAIN cases : \A i \in DOMAIN cases[m].tasks :
         TaskMaker(m, cases[m].tasks[i]) \in answered)'
  BY <1>1, <1>2 DEF CaseworkIInv, TaskMaker
<1>6. (\A m \in DOMAIN cases : TasksOnce(cases[m]))'
  BY <1>1, <1>2 DEF CaseworkIInv, TasksOnce
<1>7. /\ (\A m \in DOMAIN cases : cases[m].candidate # Nothing => candidates[cases[m].candidate] = "CONVERTED")'
      /\ (\A s \in Sources : candidates[s] = "CONVERTED" => \E m \in DOMAIN cases : cases[m].candidate = s)'
      /\ (\A l, m \in DOMAIN cases :
            cases[l].candidate = cases[m].candidate /\ cases[l].candidate # Nothing => l = m)'
  BY <1>1, <1>2 DEF CaseworkIInv
<1> QED BY <1>1, <1>4, <1>5, <1>6, <1>7 DEF CaseworkIInv

\* A case as history leaves it
LEMMA HistoryShape ==
  ASSUME CaseworkIInv, NEW n \in DOMAIN cases, NEW c \in Incident, History(n, c)
  PROVE  \E d \in Incident :
           /\ cases' = [cases EXCEPT ![n] = d] /\ UNCHANGED candidates
           /\ d.candidate = c.candidate /\ d.from = c.from /\ d.tasks = c.tasks /\ d.draft = Nothing
           /\ DoneWhenClosed(c) => DoneWhenClosed(d)
           /\ MoneyFits(c) => MoneyFits(d)
           /\ Reported(d)
<1> DEFINE e == [c EXCEPT !.draft = Nothing]
           d == [e EXCEPT !.version = e.version + 1]
<1>1. /\ e \in Incident /\ e.candidate = c.candidate /\ e.from = c.from /\ e.st = c.st
      /\ e.class = c.class /\ e.outcome = c.outcome /\ e.loss = c.loss
      /\ e.recovered = c.recovered /\ e.tasks = c.tasks /\ e.draft = Nothing
  BY Redrafted
<1> HIDE DEF e
<1>2. /\ d \in Incident /\ d.candidate = c.candidate /\ d.from = c.from /\ d.st = c.st
      /\ d.class = c.class /\ d.outcome = c.outcome /\ d.loss = c.loss
      /\ d.recovered = c.recovered /\ d.tasks = c.tasks /\ d.draft = Nothing
  BY <1>1, Recorded
<1>3. cases' = [cases EXCEPT ![n] = d] /\ UNCHANGED candidates
  BY DEF History, Replace, e
<1> HIDE DEF d
<1> QED BY <1>2, <1>3 DEF DoneWhenClosed, MoneyFits, Reported

\* A change that history records
LEMMA HistoryKeeps ==
  ASSUME CaseworkIInv, NEW n \in DOMAIN cases, NEW c \in Incident, History(n, c), UNCHANGED answered,
         c.candidate = cases[n].candidate, c.from = cases[n].from,
         DOMAIN c.tasks = DOMAIN cases[n].tasks,
         \A i \in DOMAIN c.tasks : c.tasks[i].from = cases[n].tasks[i].from,
         DoneWhenClosed(c), MoneyFits(c)
  PROVE  CaseworkIInv'
<1>1. PICK d \in Incident :
        /\ cases' = [cases EXCEPT ![n] = d] /\ UNCHANGED candidates
        /\ d.candidate = c.candidate /\ d.from = c.from /\ d.tasks = c.tasks
        /\ DoneWhenClosed(d) /\ MoneyFits(d) /\ Reported(d)
  BY HistoryShape
<1> QED BY <1>1, CaseMoves

-----------------------------------------------------------------------------
(* What the requests about a case keep *)

\* The case a request names
LEMMA CaseAt ==
  ASSUME CaseworkIInv, NEW n \in DOMAIN cases
  PROVE  /\ cases[n] \in Incident /\ cases[n].tasks \in Seq(Task)
         /\ cases[n].loss \in Money /\ cases[n].recovered \in Money
         /\ DoneWhenClosed(cases[n]) /\ MoneyFits(cases[n]) /\ Reported(cases[n])
<1>1. cases[n] \in Incident
  BY DEF CaseworkIInv
<1> QED BY <1>1 DEF CaseworkIInv, Incident

\* A partial update leaves what the money agrees with.
LEMMA PatchKeeps ==
  ASSUME CaseworkIInv, NEW n \in DOMAIN cases, NEW manager \in BOOLEAN, NEW class \in Classes,
         NEW outcome \in Outcomes, NEW loss \in Money, NEW recovered \in Money,
         PatchIncident(n, manager, class, outcome, loss, recovered)
  PROVE  CaseworkIInv'
<1> DEFINE c == [cases[n] EXCEPT !.class = class, !.outcome = outcome,
                                 !.loss = loss, !.recovered = recovered]
<1>1. \A x \in Incident :
        LET d == [x EXCEPT !.class = class, !.outcome = outcome, !.loss = loss, !.recovered = recovered]
        IN  /\ d \in Incident /\ d.candidate = x.candidate /\ d.from = x.from /\ d.tasks = x.tasks
            /\ d.st = x.st /\ d.loss = loss /\ d.recovered = recovered
  BY DEF Incident
<1>2. /\ c \in Incident /\ c.candidate = cases[n].candidate /\ c.from = cases[n].from
      /\ c.tasks = cases[n].tasks /\ c.st = cases[n].st /\ c.loss = loss /\ c.recovered = recovered
  BY <1>1, CaseAt
<1>3. cases[n].st = "OPEN" /\ FinancialsAgree(c) /\ History(n, c) /\ UNCHANGED answered
  BY DEF PatchIncident
<1> HIDE DEF c
<1>4. MoneyFits(c) /\ DoneWhenClosed(c)
  BY <1>2, <1>3, AgreedMoneyFits DEF DoneWhenClosed
<1> QED BY <1>2, <1>3, <1>4, HistoryKeeps

\* A case closes when it is complete, and may open again.
LEMMA CloseKeeps ==
  ASSUME CaseworkIInv, NEW n \in DOMAIN cases, Close(n) \/ Reopen(n)
  PROVE  CaseworkIInv'
<1>1. \A x \in Incident, st \in {"OPEN", "CLOSED"} :
        LET d == [x EXCEPT !.st = st]
        IN  /\ d \in Incident /\ d.candidate = x.candidate /\ d.from = x.from /\ d.tasks = x.tasks
            /\ d.st = st /\ d.class = x.class /\ d.outcome = x.outcome
            /\ d.loss = x.loss /\ d.recovered = x.recovered
  BY DEF Incident
<1>2. PICK st \in {"OPEN", "CLOSED"} :
        /\ History(n, [cases[n] EXCEPT !.st = st]) /\ UNCHANGED answered
        /\ st = "CLOSED" => /\ cases[n].outcome # "UNRESOLVED"
                            /\ \A i \in DOMAIN cases[n].tasks : cases[n].tasks[i].done
  BY DEF Close, Reopen
<1> DEFINE c == [cases[n] EXCEPT !.st = st]
<1>3. /\ c \in Incident /\ c.candidate = cases[n].candidate /\ c.from = cases[n].from
      /\ c.tasks = cases[n].tasks /\ c.st = st /\ c.class = cases[n].class
      /\ c.outcome = cases[n].outcome /\ c.loss = cases[n].loss /\ c.recovered = cases[n].recovered
  BY <1>1, CaseAt
<1>4. History(n, c)
  BY <1>2
<1> HIDE DEF c
<1>5. DoneWhenClosed(c) /\ MoneyFits(c)
  BY <1>2, <1>3, CaseAt DEF DoneWhenClosed, MoneyFits
<1> QED BY <1>2, <1>3, <1>4, <1>5, HistoryKeeps

\* A task that is done is the same task.
LEMMA CompleteTaskKeeps ==
  ASSUME CaseworkIInv, NEW n \in DOMAIN cases, NEW i \in DOMAIN cases[n].tasks, CompleteTask(n, i)
  PROVE  CaseworkIInv'
<1> DEFINE tasks == [cases[n].tasks EXCEPT ![i] = [cases[n].tasks[i] EXCEPT !.done = TRUE]]
           c == [cases[n] EXCEPT !.tasks = tasks]
<1>1. \A t \in Task : [t EXCEPT !.done = TRUE] \in Task /\ [t EXCEPT !.done = TRUE].from = t.from
  BY DEF Task
<1>2. cases[n].tasks[i] \in Task
  BY CaseAt
<1>3. /\ tasks \in Seq(Task) /\ DOMAIN tasks = DOMAIN cases[n].tasks
      /\ \A j \in DOMAIN tasks : tasks[j].from = cases[n].tasks[j].from
  BY <1>1, <1>2, CaseAt
<1>4. cases[n].st = "OPEN" /\ History(n, c) /\ UNCHANGED answered
  BY CaseAt DEF CompleteTask
<1> HIDE DEF tasks
<1>5. \A x \in Incident :
        LET d == [x EXCEPT !.tasks = tasks]
        IN  /\ d \in Incident /\ d.candidate = x.candidate /\ d.from = x.from /\ d.tasks = tasks
            /\ d.st = x.st /\ d.class = x.class /\ d.outcome = x.outcome
            /\ d.loss = x.loss /\ d.recovered = x.recovered
  BY <1>3 DEF Incident
<1>6. /\ c \in Incident /\ c.candidate = cases[n].candidate /\ c.from = cases[n].from
      /\ c.tasks = tasks /\ c.st = cases[n].st /\ c.class = cases[n].class
      /\ c.outcome = cases[n].outcome /\ c.loss = cases[n].loss /\ c.recovered = cases[n].recovered
  BY <1>5, CaseAt
<1> HIDE DEF c
<1>7. DoneWhenClosed(c) /\ MoneyFits(c)
  BY <1>4, <1>6, CaseAt DEF DoneWhenClosed, MoneyFits
<1> QED BY <1>3, <1>4, <1>6, <1>7, HistoryKeeps

\* A report states the case as it is, and is approved as it is.
LEMMA DraftKeeps ==
  ASSUME CaseworkIInv, NEW n \in DOMAIN cases, Draft(n) \/ ApproveDraft(n)
  PROVE  CaseworkIInv'
<1>1. CaseFacts(cases[n]) \in [class : Classes, outcome : Outcomes, st : {"OPEN", "CLOSED"},
                               loss : Money, recovered : Money, tasks : Nat, done : Nat]
  <2> DEFINE ready == {i \in DOMAIN cases[n].tasks : cases[n].tasks[i].done}
  <2>1. DOMAIN cases[n].tasks = 1 .. Len(cases[n].tasks) /\ Len(cases[n].tasks) \in Nat
    BY CaseAt
  <2>2. IsFiniteSet(DOMAIN cases[n].tasks)
    <3>1. 1 \in Int /\ Len(cases[n].tasks) \in Int
      BY <2>1
    <3>2. IsFiniteSet(1 .. Len(cases[n].tasks))
      BY <3>1, FS_Interval
    <3>3. QED
      BY <2>1, <3>2, Zenon
  <2>3. Cardinality(ready) \in Nat
    BY <2>2, FS_Subset, FS_CardinalityType
  <2>4. cases[n].class \in Classes /\ cases[n].outcome \in Outcomes /\ cases[n].st \in {"OPEN", "CLOSED"}
    BY CaseAt DEF Incident
  <2> HIDE DEF ready
  <2> QED BY <2>1, <2>3, <2>4, CaseAt DEF CaseFacts, ready
<1>2. PICK r \in Report :
        /\ Replace(n, [cases[n] EXCEPT !.draft = r]) /\ UNCHANGED answered
        /\ r.facts = CaseFacts(cases[n])
  <2>1. CASE Draft(n)
    <3> DEFINE r == [facts |-> CaseFacts(cases[n]), approved |-> FALSE]
    <3>1. r \in Report /\ r.facts = CaseFacts(cases[n])
      BY <1>1 DEF Report
    <3>2. Replace(n, [cases[n] EXCEPT !.draft = r]) /\ UNCHANGED answered
      BY <2>1 DEF Draft
    <3> HIDE DEF r
    <3> QED BY <3>1, <3>2
  <2>2. CASE ApproveDraft(n)
    <3>1. cases[n].draft \in Report /\ cases[n].draft.facts = CaseFacts(cases[n])
      BY <2>2, CaseAt DEF ApproveDraft, Incident, Reported
    <3>2. \A x \in Report : /\ [x EXCEPT !.approved = TRUE] \in Report
                            /\ [x EXCEPT !.approved = TRUE].facts = x.facts
      BY DEF Report
    <3> DEFINE r == [cases[n].draft EXCEPT !.approved = TRUE]
    <3>3. r \in Report /\ r.facts = CaseFacts(cases[n])
      BY <3>1, <3>2
    <3>4. Replace(n, [cases[n] EXCEPT !.draft = r]) /\ UNCHANGED answered
      BY <2>2 DEF ApproveDraft
    <3> QED BY <3>3, <3>4
  <2> QED BY <2>1, <2>2
<1> DEFINE e == [cases[n] EXCEPT !.draft = r]
           d == [e EXCEPT !.version = e.version + 1]
<1>3. /\ e \in Incident /\ e.candidate = cases[n].candidate /\ e.from = cases[n].from
      /\ e.st = cases[n].st /\ e.class = cases[n].class /\ e.outcome = cases[n].outcome
      /\ e.loss = cases[n].loss /\ e.recovered = cases[n].recovered /\ e.tasks = cases[n].tasks
      /\ e.draft = r
  BY Redrafted, CaseAt
<1>4. cases' = [cases EXCEPT ![n] = d] /\ UNCHANGED candidates
  BY <1>2 DEF Replace
<1> HIDE DEF e
<1>5. /\ d \in Incident /\ d.candidate = cases[n].candidate /\ d.from = cases[n].from
      /\ d.st = cases[n].st /\ d.class = cases[n].class /\ d.outcome = cases[n].outcome
      /\ d.loss = cases[n].loss /\ d.recovered = cases[n].recovered /\ d.tasks = cases[n].tasks
      /\ d.draft = r
  BY <1>3, Recorded
<1> HIDE DEF d
<1>6. CaseFacts(d) = CaseFacts(cases[n])
  BY <1>5 DEF CaseFacts
<1>7. DoneWhenClosed(d) /\ MoneyFits(d) /\ Reported(d)
  BY <1>2, <1>5, <1>6, CaseAt DEF DoneWhenClosed, MoneyFits, Reported
<1> QED BY <1>2, <1>4, <1>5, <1>7, CaseMoves

-----------------------------------------------------------------------------
(* What a retry key makes *)

\* A fresh key has made nothing on its route.
LEMMA FreshIsNew ==
  ASSUME NEW route, NEW key, Fresh(route, key)
  PROVE  [route |-> route, key |-> key] \notin answered
BY DEF Fresh

\* A task is made by a key that made none.
LEMMA CreateTaskKeeps ==
  ASSUME CaseworkIInv, NEW n \in DOMAIN cases, NEW key \in Keys, CreateTask(n, key)
  PROVE  CaseworkIInv'
<1>1. CASE UNCHANGED caseVars
  BY <1>1 DEF caseVars, CaseworkIInv
<1>2. CASE ~UNCHANGED caseVars
  <2> DEFINE task == [from |-> key, done |-> FALSE]
             tasks == Append(cases[n].tasks, task)
             new == Len(cases[n].tasks) + 1
             c == [cases[n] EXCEPT !.tasks = tasks]
             own == [route |-> <<"tasks", n>>, key |-> key]
  <2>1. /\ own \notin answered /\ answered' = answered \cup {own}
        /\ cases[n].st = "OPEN" /\ History(n, c)
    BY <1>2, FreshIsNew DEF CreateTask, Idempotent, Keep
  <2>2. task \in Task /\ task.from = key
    BY DEF Task
  <2> HIDE DEF task
  <2>3. /\ tasks \in Seq(Task) /\ DOMAIN tasks = DOMAIN cases[n].tasks \cup {new}
        /\ new \notin DOMAIN cases[n].tasks /\ tasks[new].from = key
        /\ \A i \in DOMAIN cases[n].tasks : tasks[i].from = cases[n].tasks[i].from
    BY <2>2, CaseAt
  <2> HIDE DEF tasks, new
  <2>4. \A x \in Incident :
          LET d == [x EXCEPT !.tasks = tasks]
          IN  /\ d \in Incident /\ d.candidate = x.candidate /\ d.from = x.from /\ d.tasks = tasks
              /\ d.st = x.st /\ d.class = x.class /\ d.outcome = x.outcome
              /\ d.loss = x.loss /\ d.recovered = x.recovered
    BY <2>3 DEF Incident
  <2>5. /\ c \in Incident /\ c.candidate = cases[n].candidate /\ c.from = cases[n].from
        /\ c.tasks = tasks /\ c.st = cases[n].st /\ c.class = cases[n].class
        /\ c.outcome = cases[n].outcome /\ c.loss = cases[n].loss /\ c.recovered = cases[n].recovered
    BY <2>4, CaseAt
  <2> HIDE DEF c, own
  <2>6. DoneWhenClosed(c) /\ MoneyFits(c)
    BY <2>1, <2>5, CaseAt DEF DoneWhenClosed, MoneyFits
  <2>7. PICK d \in Incident :
          /\ cases' = [cases EXCEPT ![n] = d] /\ UNCHANGED candidates
          /\ d.candidate = c.candidate /\ d.from = c.from /\ d.tasks = c.tasks
          /\ DoneWhenClosed(d) /\ MoneyFits(d) /\ Reported(d)
    BY <2>1, <2>5, <2>6, HistoryShape
  <2>8. /\ cases' \in Seq(Incident) /\ DOMAIN cases' = DOMAIN cases /\ cases'[n] = d
        /\ \A m \in DOMAIN cases \ {n} : cases'[m] = cases[m]
    BY <2>7 DEF CaseworkIInv
  <2>9. \A m \in DOMAIN cases :
          cases'[m].candidate = cases[m].candidate /\ Maker(cases'[m]) = Maker(cases[m])
    BY <2>5, <2>7, <2>8 DEF Maker
  <2>10. \A m \in DOMAIN cases : \A i \in DOMAIN cases'[m].tasks :
           \/ i \in DOMAIN cases[m].tasks /\ cases'[m].tasks[i].from = cases[m].tasks[i].from
           \/ m = n /\ i = new /\ cases'[m].tasks[i].from = key
    BY <2>3, <2>5, <2>7, <2>8
  <2>11. \A i \in DOMAIN cases[n].tasks : cases[n].tasks[i].from # key
    <3> SUFFICES ASSUME NEW i \in DOMAIN cases[n].tasks, cases[n].tasks[i].from = key
                 PROVE  FALSE
      OBVIOUS
    <3>1. TaskMaker(n, cases[n].tasks[i]) \in answered
      BY DEF CaseworkIInv
    <3> QED BY <2>1, <3>1 DEF own, TaskMaker
  <2>12. /\ (\A m \in DOMAIN cases :
               DoneWhenClosed(cases[m]) /\ MoneyFits(cases[m]) /\ Reported(cases[m]))'
         /\ (\A m \in DOMAIN cases : Maker(cases[m]) \in answered)'
         /\ (\A l, m \in DOMAIN cases : Maker(cases[l]) = Maker(cases[m]) => l = m)'
    BY <2>1, <2>7, <2>8, <2>9 DEF CaseworkIInv
  <2>13. (\A m \in DOMAIN cases : \A i \in DOMAIN cases[m].tasks :
            TaskMaker(m, cases[m].tasks[i]) \in answered)'
    BY <2>1, <2>8, <2>10 DEF CaseworkIInv, own, TaskMaker
  <2>14. (\A m \in DOMAIN cases : TasksOnce(cases[m]))'
    BY <2>8, <2>10, <2>11 DEF CaseworkIInv, TasksOnce
  <2>15. /\ (\A m \in DOMAIN cases : cases[m].candidate # Nothing => candidates[cases[m].candidate] = "CONVERTED")'
         /\ (\A s \in Sources : candidates[s] = "CONVERTED" => \E m \in DOMAIN cases : cases[m].candidate = s)'
         /\ (\A l, m \in DOMAIN cases :
               cases[l].candidate = cases[m].candidate /\ cases[l].candidate # Nothing => l = m)'
    BY <2>7, <2>8, <2>9 DEF CaseworkIInv
  <2> QED BY <2>7, <2>8, <2>12, <2>13, <2>14, <2>15 DEF CaseworkIInv
<1> QED BY <1>1, <1>2

\* A new case has nothing that another has.
LEMMA NewCaseKeeps ==
  ASSUME CaseworkIInv, NEW s \in Sources \cup {Nothing}, NEW key \in Keys,
         Maker(NewCase(s, key)) \notin answered,
         answered' = answered \cup {Maker(NewCase(s, key))},
         cases' = Append(cases, NewCase(s, key)),
         s = Nothing => UNCHANGED candidates,
         s # Nothing => /\ candidates[s] # "CONVERTED"
                        /\ candidates' = [candidates EXCEPT ![s] = "CONVERTED"]
  PROVE  CaseworkIInv'
<1> DEFINE c == NewCase(s, key)
           new == Len(cases) + 1
<1>1. c = [candidate |-> s, from |-> key, st |-> "OPEN",
           class |-> "SUSPECTED_INCIDENT", outcome |-> "UNRESOLVED",
           loss |-> NoAmount, recovered |-> NoAmount, tasks |-> <<>>,
           draft |-> Nothing, version |-> 1]
  BY DEF NewCase
<1>2. /\ c \in Incident /\ c.candidate = s /\ c.from = key /\ c.st = "OPEN" /\ c.loss = NoAmount
      /\ c.recovered = NoAmount /\ c.draft = Nothing /\ c.tasks = <<>> /\ DOMAIN c.tasks = {}
  BY <1>1, MoneyIsInt DEF Incident, Classes, Outcomes
<1> HIDE DEF c
<1>3. DoneWhenClosed(c) /\ MoneyFits(c) /\ Reported(c)
  <2>1. NoAmount \in Int /\ ~(NoAmount > 0) /\ NoAmount <= 0
    BY MoneyIsInt
  <2>2. MoneyFits(c)
    BY <1>2, <2>1 DEF MoneyFits
  <2> QED BY <1>2, <2>2 DEF DoneWhenClosed, Reported
<1>4. /\ cases' \in Seq(Incident) /\ DOMAIN cases' = DOMAIN cases \cup {new} /\ cases'[new] = c
      /\ new \notin DOMAIN cases /\ \A m \in DOMAIN cases : cases'[m] = cases[m]
  BY <1>2 DEF CaseworkIInv, c
<1> HIDE DEF new
<1>5. candidates' \in [Sources -> {"NEW", "ACKNOWLEDGED", "DISMISSED", "CONVERTED"}]
  BY DEF CaseworkIInv
<1>6. /\ (\A m \in DOMAIN cases :
            DoneWhenClosed(cases[m]) /\ MoneyFits(cases[m]) /\ Reported(cases[m]))'
      /\ (\A m \in DOMAIN cases : Maker(cases[m]) \in answered)'
      /\ (\A l, m \in DOMAIN cases : Maker(cases[l]) = Maker(cases[m]) => l = m)'
  BY <1>3, <1>4 DEF CaseworkIInv, c
<1>7. /\ (\A m \in DOMAIN cases : \A i \in DOMAIN cases[m].tasks :
            TaskMaker(m, cases[m].tasks[i]) \in answered)'
      /\ (\A m \in DOMAIN cases : TasksOnce(cases[m]))'
  <2>1. \A m \in DOMAIN cases' : \A i \in DOMAIN cases'[m].tasks :
          m \in DOMAIN cases /\ cases'[m] = cases[m]
    BY <1>2, <1>4
  <2>2. \A m \in DOMAIN cases' : \A i \in DOMAIN cases'[m].tasks :
          TaskMaker(m, cases'[m].tasks[i]) \in answered'
    BY <2>1 DEF CaseworkIInv
  <2>3. \A m \in DOMAIN cases' : TasksOnce(cases'[m])
    BY <2>1 DEF CaseworkIInv, TasksOnce
  <2> QED BY <2>2, <2>3
<1>8. /\ s # Nothing => \A m \in DOMAIN cases : cases[m].candidate # s
      /\ \A t \in Sources : candidates'[t] = (IF t = s THEN "CONVERTED" ELSE candidates[t])
  BY CaseworkAssumption DEF CaseworkIInv
<1>9. \A m \in DOMAIN cases : cases[m].candidate \in Sources \cup {Nothing}
  BY CaseAt DEF Incident
<1>10. (\A m \in DOMAIN cases : cases[m].candidate # Nothing => candidates[cases[m].candidate] = "CONVERTED")'
  BY <1>2, <1>4, <1>8, <1>9 DEF CaseworkIInv
<1>11. (\A t \in Sources : candidates[t] = "CONVERTED" => \E m \in DOMAIN cases : cases[m].candidate = t)'
  BY <1>2, <1>4, <1>8 DEF CaseworkIInv
<1>12. (\A l, m \in DOMAIN cases :
         cases[l].candidate = cases[m].candidate /\ cases[l].candidate # Nothing => l = m)'
  BY <1>2, <1>4, <1>8 DEF CaseworkIInv
<1> QED BY <1>4, <1>5, <1>6, <1>7, <1>10, <1>11, <1>12 DEF CaseworkIInv

\* What the key's answer adds besides a case changes none.
LEMMA CandidatesKeep ==
  ASSUME CaseworkIInv, NEW s \in Sources, NEW st \in {"ACKNOWLEDGED", "DISMISSED"},
         candidates[s] # "CONVERTED", candidates' = [candidates EXCEPT ![s] = st],
         UNCHANGED cases, answered \subseteq answered'
  PROVE  CaseworkIInv'
<1>1. /\ candidates' \in [Sources -> {"NEW", "ACKNOWLEDGED", "DISMISSED", "CONVERTED"}]
      /\ \A t \in Sources : candidates'[t] = "CONVERTED" <=> candidates[t] = "CONVERTED"
  BY DEF CaseworkIInv
<1>2. \A m \in DOMAIN cases : cases[m].candidate \in Sources \cup {Nothing}
  BY CaseAt DEF Incident
<1>3. (\A m \in DOMAIN cases : cases[m].candidate # Nothing => candidates[cases[m].candidate] = "CONVERTED")'
  BY <1>1, <1>2 DEF CaseworkIInv
<1>4. (\A t \in Sources : candidates[t] = "CONVERTED" => \E m \in DOMAIN cases : cases[m].candidate = t)'
  BY <1>1 DEF CaseworkIInv
<1>5. /\ (\A m \in DOMAIN cases : Maker(cases[m]) \in answered)'
      /\ (\A m \in DOMAIN cases : \A i \in DOMAIN cases[m].tasks :
            TaskMaker(m, cases[m].tasks[i]) \in answered)'
  BY DEF CaseworkIInv
<1> QED BY <1>1, <1>3, <1>4, <1>5 DEF CaseworkIInv

\* A decision makes the one case of an observation that had none.
LEMMA ReviewKeeps ==
  ASSUME CaseworkIInv, NEW s \in Sources, NEW key \in Keys, Review(s, key)
  PROVE  CaseworkIInv'
<1>1. CASE UNCHANGED caseVars
  BY <1>1 DEF caseVars, CaseworkIInv
<1>2. CASE ~UNCHANGED caseVars
  <2>1. /\ [route |-> <<"review", s>>, key |-> key] \notin answered
        /\ answered' = answered \cup {[route |-> <<"review", s>>, key |-> key]}
        /\ candidates[s] # "CONVERTED"
        /\ \/ candidates' = [candidates EXCEPT ![s] = "DISMISSED"] /\ UNCHANGED cases
           \/ /\ candidates' = [candidates EXCEPT ![s] = "CONVERTED"]
              /\ cases' = Append(cases, NewCase(s, key))
    BY <1>2, FreshIsNew DEF Review, Idempotent, Keep, Decide
  <2>2. s # Nothing /\ Maker(NewCase(s, key)) = [route |-> <<"review", s>>, key |-> key]
    BY CaseworkAssumption DEF Maker, NewCase
  <2> QED BY <2>1, <2>2, CandidatesKeep, NewCaseKeeps
<1> QED BY <1>1, <1>2

\* A case without an observation
LEMMA CreateIncidentKeeps ==
  ASSUME CaseworkIInv, NEW key \in Keys, CreateIncident(key)
  PROVE  CaseworkIInv'
<1>1. CASE UNCHANGED caseVars
  BY <1>1 DEF caseVars, CaseworkIInv
<1>2. CASE ~UNCHANGED caseVars
  <2>1. /\ [route |-> <<"incidents">>, key |-> key] \notin answered
        /\ answered' = answered \cup {[route |-> <<"incidents">>, key |-> key]}
        /\ cases' = Append(cases, NewCase(Nothing, key)) /\ UNCHANGED candidates
    BY <1>2, FreshIsNew DEF CreateIncident, Idempotent, Keep
  <2>2. Maker(NewCase(Nothing, key)) = [route |-> <<"incidents">>, key |-> key]
    BY DEF Maker, NewCase
  <2> QED BY <2>1, <2>2, NewCaseKeeps
<1> QED BY <1>1, <1>2

-----------------------------------------------------------------------------
(* Result *)

\* There are no cases at first.
LEMMA CaseworkInitially == CaseworkInit => CaseworkIInv
BY DEF CaseworkInit, CaseworkIInv

\* Every request keeps the invariant.
LEMMA CaseworkInductive == CaseworkIInv /\ [CaseworkNext]_caseVars => CaseworkIInv'
<1> SUFFICES ASSUME CaseworkIInv, [CaseworkNext]_caseVars PROVE CaseworkIInv'
  OBVIOUS
<1>1. CASE UNCHANGED caseVars
  BY <1>1 DEF caseVars, CaseworkIInv
<1>2. ASSUME NEW s \in Sources, Acknowledge(s) PROVE CaseworkIInv'
  BY <1>2, CandidatesKeep DEF Acknowledge
<1>3. ASSUME NEW n \in DOMAIN cases, CaseStep(n) PROVE CaseworkIInv'
  BY <1>3, PatchKeeps, CloseKeeps, CreateTaskKeeps, CompleteTaskKeeps, DraftKeeps, Zenon DEF CaseStep
<1> QED BY <1>1, <1>2, <1>3, ReviewKeeps, CreateIncidentKeeps, Zenon DEF CaseworkNext

\* A key made at most one case of each observation, one without, and one task of
\* each case.
LEMMA KeysMakeOnce == CaseworkIInv => OncePerKey
<1> SUFFICES ASSUME CaseworkIInv, NEW n \in DOMAIN cases
             PROVE  /\ \A m \in DOMAIN cases :
                         cases[n].from = cases[m].from
                           /\ cases[n].candidate = cases[m].candidate => n = m
                    /\ \A i, j \in DOMAIN cases[n].tasks :
                         cases[n].tasks[i].from = cases[n].tasks[j].from => i = j
  BY DEF OncePerKey
<1>1. \A m \in DOMAIN cases :
        cases[n].from = cases[m].from /\ cases[n].candidate = cases[m].candidate
          => Maker(cases[n]) = Maker(cases[m])
  BY DEF Maker
<1>2. TasksOnce(cases[n])
  BY DEF CaseworkIInv
<1> QED BY <1>1, <1>2 DEF CaseworkIInv, TasksOnce

\* An observation has its case exactly if it was decided so.
LEMMA OneCaseEach == CaseworkIInv => DecidedOnce
<1> SUFFICES ASSUME CaseworkIInv, NEW s \in Sources
             PROVE  Cardinality({n \in DOMAIN cases : cases[n].candidate = s})
                      = IF candidates[s] = "CONVERTED" THEN 1 ELSE 0
  BY DEF DecidedOnce
<1> DEFINE S == {n \in DOMAIN cases : cases[n].candidate = s}
<1>1. s # Nothing
  BY CaseworkAssumption
<1>2. CASE candidates[s] = "CONVERTED"
  <2>1. PICK n \in DOMAIN cases : cases[n].candidate = s
    BY <1>2 DEF CaseworkIInv
  <2>2. S = {n}
    BY <1>1, <2>1 DEF CaseworkIInv
  <2> QED BY <1>2, <2>2, FS_Singleton
<1>3. CASE candidates[s] # "CONVERTED"
  <2>1. S = {}
    BY <1>1, <1>3 DEF CaseworkIInv
  <2> QED BY <1>3, <2>1, FS_EmptySet
<1> QED BY <1>2, <1>3

\* Cases are opened once, and what a case says of money, tasks and its report
\* agrees, for any number of cases, people, retries and partial updates.
THEOREM CasesAreOnceAndWhole == CaseworkSpec => []CaseworkInv
<1>1. CaseworkIInv => CaseworkInv
  <2>1. CaseworkIInv => ClosedIsComplete /\ MoneyIsConfirmed /\ DraftIsCurrent
    BY DEF CaseworkIInv, DoneWhenClosed, MoneyFits, Reported, ClosedIsComplete, MoneyIsConfirmed,
       DraftIsCurrent
  <2> QED BY <2>1, KeysMakeOnce, OneCaseEach DEF CaseworkInv
<1> QED BY CaseworkInitially, CaseworkInductive, <1>1, PTL DEF CaseworkSpec

-----------------------------------------------------------------------------
(***************************************************************************)
(* What browsers report (Intake)                                           *)
(*                                                                         *)
(* An identifier that made an observation is used and stays used, and a    *)
(* request for assistance has left its key's result.                       *)
(***************************************************************************)

-----------------------------------------------------------------------------
(* The inductive invariant *)

LoggedEvent == [says : Inputs \cup {NoReport}, acknowledged : BOOLEAN]
Request == [from : RetryKeys, st : {"REQUESTED", "ACKNOWLEDGED", "RESOLVED"}]

\* An identifier that made an observation is used, and a request for assistance
\* has left its key's result.
IntakeIInv ==
  /\ logged \in [Events -> LoggedEvent]
  /\ observed \in [SourceIds -> Used \cup {NoReport}]
  /\ made \in [SourceIds -> Nat]
  /\ assistance \in Seq(Request)
  /\ \A s \in SourceIds : made[s] <= (IF observed[s] = NoReport THEN 0 ELSE 1)
  /\ \A i \in DOMAIN assistance : [route |-> <<"assistance">>, key |-> assistance[i].from] \in results
  /\ MadeOnce

-----------------------------------------------------------------------------
(* What the requests keep *)

\* Whatever leaves the requests for assistance alone and forgets no result.
LEMMA ReportsKeep ==
  ASSUME IntakeIInv, logged' \in [Events -> LoggedEvent],
         observed' \in [SourceIds -> Used \cup {NoReport}], made' \in [SourceIds -> Nat],
         \A s \in SourceIds : made'[s] <= (IF observed'[s] = NoReport THEN 0 ELSE 1),
         results \subseteq results', UNCHANGED assistance
  PROVE  IntakeIInv'
<1>1. \A s \in SourceIds : made'[s] <= 1
  OBVIOUS
<1> QED BY <1>1 DEF IntakeIInv, MadeOnce

\* What an event says is logged, and kept when it is acknowledged.
LEMMA EventsKeep ==
  ASSUME IntakeIInv, NEW key \in RetryKeys, NEW e \in Events,
         (\E says \in Inputs : RecordEvent(key, e, says)) \/ AcknowledgeEvent(key, e)
  PROVE  /\ IntakeIInv'
         /\ \A d \in Events : logged[d] # NoEvent =>
              /\ logged'[d].says = logged[d].says
              /\ logged[d].acknowledged => logged'[d].acknowledged
<1>1. CASE UNCHANGED intakeVars
  BY <1>1 DEF intakeVars, IntakeIInv, MadeOnce
<1>2. CASE \E route \in {<<"live-events">>, <<"acknowledge", e>>} :
             /\ results' = results \cup {[route |-> route, key |-> key]}
             /\ \/ logged[e] = NoEvent /\ \E says \in Inputs :
                     logged' = [logged EXCEPT ![e] = [says |-> says, acknowledged |-> FALSE]]
                \/ UNCHANGED logged
                \/ logged' = [logged EXCEPT ![e] = [says |-> logged[e].says, acknowledged |-> TRUE]]
             /\ UNCHANGED <<shift, camera, observed, made, assistance>>
  <2>1. logged[e] \in LoggedEvent /\ logged[e].says \in Inputs \cup {NoReport}
    BY DEF IntakeIInv, LoggedEvent
  <2>2. PICK r \in LoggedEvent :
          /\ logged' = [logged EXCEPT ![e] = r]
          /\ logged[e] # NoEvent => /\ r.says = logged[e].says
                                    /\ logged[e].acknowledged => r.acknowledged
    <3>1. CASE UNCHANGED logged
      BY <2>1, <3>1 DEF IntakeIInv
    <3>2. ASSUME NEW says \in Inputs,
                 logged[e] = NoEvent, logged' = [logged EXCEPT ![e] = [says |-> says, acknowledged |-> FALSE]]
          PROVE  \E r \in LoggedEvent : logged' = [logged EXCEPT ![e] = r]
      BY <3>2 DEF LoggedEvent
    <3>3. CASE logged' = [logged EXCEPT ![e] = [says |-> logged[e].says, acknowledged |-> TRUE]]
      <4> DEFINE r == [says |-> logged[e].says, acknowledged |-> TRUE]
      <4>1. r \in LoggedEvent /\ r.says = logged[e].says /\ r.acknowledged
        BY <2>1 DEF LoggedEvent
      <4> HIDE DEF r
      <4> QED BY <3>3, <4>1 DEF r
    <3> QED BY <1>2, <3>1, <3>2, <3>3
  <2>3. /\ logged' \in [Events -> LoggedEvent] /\ logged'[e] = r
        /\ \A d \in Events \ {e} : logged'[d] = logged[d]
    BY <2>2 DEF IntakeIInv
  <2>4. IntakeIInv'
    BY <1>2, <2>3, ReportsKeep DEF IntakeIInv
  <2> QED BY <2>2, <2>3, <2>4
<1>3. ASSUME NEW says \in Inputs, RecordEvent(key, e, says), ~UNCHANGED intakeVars
      PROVE  /\ results' = results \cup {[route |-> <<"live-events">>, key |-> key]}
             /\ \/ logged[e] = NoEvent /\
                     logged' = [logged EXCEPT ![e] = [says |-> says, acknowledged |-> FALSE]]
                \/ UNCHANGED logged
             /\ UNCHANGED <<shift, camera, observed, made, assistance>>
  BY <1>3 DEF RecordEvent, Once, LogEvent
<1>4. ASSUME AcknowledgeEvent(key, e), ~UNCHANGED intakeVars
      PROVE  /\ results' = results \cup {[route |-> <<"acknowledge", e>>, key |-> key]}
             /\ logged' = [logged EXCEPT ![e] = [says |-> logged[e].says, acknowledged |-> TRUE]]
             /\ UNCHANGED <<shift, camera, observed, made, assistance>>
  BY <1>4 DEF AcknowledgeEvent, Once
<1> QED BY <1>1, <1>2, <1>3, <1>4

\* The simulator uses a source identifier for one thing.
LEMMA SimulatorKeeps ==
  ASSUME IntakeIInv, NEW key \in RetryKeys, NEW s \in SourceIds, Simulator(key, s)
  PROVE  IntakeIInv'
<1>1. CASE UNCHANGED intakeVars
  BY <1>1 DEF intakeVars, IntakeIInv, MadeOnce
<1>2. ASSUME NEW status \in {"OFFLINE", "DEMO_ONLINE"}, SetCamera(s, status),
             results \subseteq results'
      PROVE  IntakeIInv'
  <2>1. /\ observed' \in [SourceIds -> Used \cup {NoReport}] /\ made' = made
        /\ \A t \in SourceIds : observed'[t] = NoReport => observed[t] = NoReport
    BY <1>2, IntakeAssumption DEF SetCamera, IntakeIInv, Used
  <2>2. \A t \in SourceIds : made'[t] <= (IF observed'[t] = NoReport THEN 0 ELSE 1)
    BY <2>1 DEF IntakeIInv
  <2> QED BY <1>2, <2>1, <2>2, ReportsKeep DEF SetCamera, IntakeIInv
<1>3. ASSUME NEW historical \in BOOLEAN, ObserveSource(s, historical), results \subseteq results'
      PROVE  IntakeIInv'
  <2> DEFINE says == IF historical THEN "HISTORICAL_EVENT" ELSE "SHELF_EVENT"
  <2>1. says \in Used /\ says # NoReport
    BY IntakeAssumption DEF Used
  <2>2. CASE observed[s] = NoReport
    <3>1. made[s] = 0
      BY <2>2 DEF IntakeIInv
    <3>2. /\ observed' = [observed EXCEPT ![s] = says] /\ made' = [made EXCEPT ![s] = 1]
          /\ UNCHANGED <<logged, assistance>>
      BY <1>3, <2>2, <3>1 DEF ObserveSource
    <3> HIDE DEF says
    <3>3. /\ observed' \in [SourceIds -> Used \cup {NoReport}] /\ made' \in [SourceIds -> Nat]
          /\ \A t \in SourceIds : made'[t] <= (IF observed'[t] = NoReport THEN 0 ELSE 1)
      BY <2>1, <3>2 DEF IntakeIInv
    <3> QED BY <1>3, <3>2, <3>3, ReportsKeep DEF IntakeIInv
  <2>3. CASE observed[s] # NoReport
    BY <1>3, <2>3, ReportsKeep DEF ObserveSource, IntakeIInv
  <2> QED BY <2>2, <2>3
<1> QED BY <1>1, <1>2, <1>3 DEF Simulator, Once

\* A request for assistance is made where its key has no result.
LEMMA AssistanceKeeps ==
  ASSUME IntakeIInv, NEW key \in RetryKeys, Assistance(key)
  PROVE  IntakeIInv'
<1>1. CASE UNCHANGED intakeVars
  BY <1>1 DEF intakeVars, IntakeIInv, MadeOnce
<1> DEFINE asked == [from |-> key, st |-> "REQUESTED"]
<1>2. CASE /\ [route |-> <<"assistance">>, key |-> key] \notin results
           /\ assistance' = Append(assistance, asked)
           /\ results' = results \cup {[route |-> <<"assistance">>, key |-> key]}
           /\ UNCHANGED <<logged, observed, made>>
  <2>1. asked \in Request /\ asked.from = key
    BY DEF Request
  <2> HIDE DEF asked
  <2>2. /\ assistance' \in Seq(Request) /\ DOMAIN assistance' = DOMAIN assistance \cup {Len(assistance) + 1}
        /\ \A i \in DOMAIN assistance : assistance'[i] = assistance[i]
        /\ assistance'[Len(assistance) + 1] = asked
    BY <1>2, <2>1 DEF IntakeIInv
  <2>3. \A i \in DOMAIN assistance : assistance[i].from # key
    BY <1>2 DEF IntakeIInv
  <2>4. \A i, j \in DOMAIN assistance' : assistance'[i].from = assistance'[j].from => i = j
    BY <2>1, <2>2, <2>3 DEF IntakeIInv, MadeOnce
  <2>5. \A i \in DOMAIN assistance' : [route |-> <<"assistance">>, key |-> assistance'[i].from] \in results'
    BY <1>2, <2>1, <2>2 DEF IntakeIInv
  <2> QED BY <1>2, <2>2, <2>4, <2>5 DEF IntakeIInv, MadeOnce
<1> QED BY <1>1, <1>2 DEF Assistance, Once

\* A request that is answered keeps its key.
LEMMA TransitionKeeps ==
  ASSUME IntakeIInv, NEW i \in DOMAIN assistance, NEW status \in {"ACKNOWLEDGED", "RESOLVED"},
         TransitionAssistance(i, status)
  PROVE  IntakeIInv'
<1>1. \A r \in Request : [r EXCEPT !.st = status] \in Request /\ [r EXCEPT !.st = status].from = r.from
  BY DEF Request
<1>2. assistance[i] \in Request
  BY DEF IntakeIInv
<1>3. assistance' = [assistance EXCEPT ![i] = [assistance[i] EXCEPT !.st = status]]
  BY DEF TransitionAssistance
<1>4. /\ assistance' \in Seq(Request) /\ DOMAIN assistance' = DOMAIN assistance
      /\ \A j \in DOMAIN assistance : assistance'[j].from = assistance[j].from
  BY <1>1, <1>2, <1>3 DEF IntakeIInv
<1> QED BY <1>4 DEF TransitionAssistance, IntakeIInv, MadeOnce

-----------------------------------------------------------------------------
(* Results *)

\* Nothing is reported at first.
LEMMA IntakeInitially == IntakeInit => IntakeIInv
BY DEF IntakeInit, IntakeIInv, LoggedEvent, NoEvent, MadeOnce

\* Every request of a browser keeps the invariant, and what was logged.
LEMMA IntakeInductive ==
  IntakeIInv /\ [IntakeNext]_intakeVars =>
    /\ IntakeIInv'
    /\ \A e \in Events : logged[e] # NoEvent =>
         /\ logged'[e].says = logged[e].says
         /\ logged[e].acknowledged => logged'[e].acknowledged
<1> DEFINE Kept == \A e \in Events : logged[e] # NoEvent =>
                     /\ logged'[e].says = logged[e].says
                     /\ logged[e].acknowledged => logged'[e].acknowledged
<1> SUFFICES ASSUME IntakeIInv, [IntakeNext]_intakeVars PROVE IntakeIInv' /\ Kept
  OBVIOUS
<1>1. CASE UNCHANGED intakeVars
  BY <1>1 DEF intakeVars, IntakeIInv, MadeOnce
<1>2. CASE Shift
  BY <1>2, ReportsKeep DEF Shift, IntakeIInv
<1>3. ASSUME NEW key \in RetryKeys, NEW e \in Events,
             (\E says \in Inputs : RecordEvent(key, e, says)) \/ AcknowledgeEvent(key, e)
      PROVE  IntakeIInv' /\ Kept
  BY <1>3, EventsKeep
<1>4. ASSUME NEW key \in RetryKeys, (\E s \in SourceIds : Simulator(key, s)) \/ Assistance(key)
      PROVE  IntakeIInv' /\ Kept
  <2>1. UNCHANGED logged
    BY <1>4 DEF Simulator, Assistance, Once, SetCamera, ObserveSource, intakeVars
  <2> QED BY <1>4, <2>1, SimulatorKeeps, AssistanceKeeps
<1>5. ASSUME NEW i \in DOMAIN assistance, NEW status \in {"ACKNOWLEDGED", "RESOLVED"},
             TransitionAssistance(i, status)
      PROVE  IntakeIInv' /\ Kept
  BY <1>5, TransitionKeeps DEF TransitionAssistance
<1> QED BY <1>1, <1>2, <1>3, <1>4, <1>5 DEF IntakeNext

\* One identifier makes one observation and one key one request, however often
\* any number of browsers send again.
THEOREM LostAnswersMakeNothingTwice == IntakeSpec => []MadeOnce
<1>1. IntakeIInv => MadeOnce
  BY DEF IntakeIInv
<1> QED BY IntakeInitially, IntakeInductive, <1>1, PTL DEF IntakeSpec

\* What was logged stays as it was logged, and acknowledged once it was.
THEOREM EventsAreKept == IntakeSpec => LogIsKept
<1> DEFINE Kept == \A e \in Events : logged[e] # NoEvent =>
                     /\ logged'[e].says = logged[e].says
                     /\ logged[e].acknowledged => logged'[e].acknowledged
<1>1. IntakeIInv /\ [IntakeNext]_intakeVars => [Kept]_logged
  BY IntakeInductive
<1> QED BY IntakeInitially, IntakeInductive, <1>1, PTL DEF IntakeSpec, LogIsKept

-----------------------------------------------------------------------------
(***************************************************************************)
(* External reviews (Verifier)                                             *)
(*                                                                         *)
(* Every reservation counts once in the ledger, in a row and in a receipt, so *)
(* posts and receipts are counted by their sets.  What a request found lies *)
(* between the version its row names and the interaction's of now: if the two *)
(* agree when they are compared, nothing lay between.                      *)
(***************************************************************************)

-----------------------------------------------------------------------------
(* The inductive invariant *)

ReviewRow == [st : {"NONE", "REQUESTING", "COMPLETED", "FAILED", "UNKNOWN_BILLING", "EXPIRED"},
           trial : Trials \cup {NoReview.trial}, version : Nat,
           comparison : {"NONE", "SUPPORTS", "CONTRADICTS", "INCONCLUSIVE"}, cites : 0 .. 2]
Call == [at : {"NONE", "READING", "ALLOWED", "SENT", "ANSWERED", "CHECKED", "DONE"},
         answer : Answers, found : Nat]

\* A row, the request behind it and its posts, when the interactions are now's:
\* no row without a reservation is behind a request, a request that is not
\* sent has no post, and what was found lies between the row's version and
\* the interaction's, as long as there is one.
CallFits(q, c, posts, now) ==
  /\ q.st = "NONE" => c.at = "NONE" /\ posts = 0
  /\ q.st # "NONE" => q.trial \in Trials /\ q.version > 0
  /\ posts <= 1 /\ (c.at \in {"READING", "ALLOWED"} => posts = 0)
  /\ c.at \in {"READING", "ALLOWED", "SENT", "ANSWERED"} /\ now[q.trial] > 0 =>
       q.version <= now[q.trial]
  /\ c.at = "ANSWERED" /\ now[q.trial] > 0 => c.found \in q.version .. now[q.trial]
  /\ c.at \in {"ANSWERED", "CHECKED"} => Coherent(c.answer)
  /\ c.at \in {"CHECKED", "DONE"} => c.found = q.version
  /\ q.st = "COMPLETED" => c.at = "DONE"
  /\ q.st = "FAILED" => c.at = "NONE"
  /\ q.comparison = "SUPPORTS" => q.cites >= 2

Reserved(rows) == {v \in Reviews : rows[v].st # "NONE"}
KeptReceipts(rows) == {r \in RetryNames \X Trials : rows[r] > 0}

\* Every reservation made one row and kept one receipt.
VerifierIInv ==
  /\ usage \in 0 .. Cap
  /\ trials \in [Trials -> Nat]
  /\ reviews \in [Reviews -> ReviewRow]
  /\ receipts \in [RetryNames \X Trials -> Nat]
  /\ request \in [Reviews -> Call]
  /\ sent \in [Reviews -> Nat]
  /\ IsFiniteSet(Reserved(reviews)) /\ Cardinality(Reserved(reviews)) = usage
  /\ IsFiniteSet(KeptReceipts(receipts)) /\ Cardinality(KeptReceipts(receipts)) = usage
  /\ \A v \in Reviews : CallFits(reviews[v], request[v], sent[v], trials)

\* What AnswersStand says of a step.
Stand == \A v \in Reviews : reviews[v].st \in {"COMPLETED", "FAILED"} =>
           reviews'[v].st \in {reviews[v].st, "EXPIRED"}

-----------------------------------------------------------------------------
(* Rows and requests *)

\* A row whose status moves.
LEMMA RowMoved ==
  ASSUME NEW q \in ReviewRow, NEW st \in {"REQUESTING", "COMPLETED", "FAILED", "UNKNOWN_BILLING", "EXPIRED"}
  PROVE  /\ [q EXCEPT !.st = st] \in ReviewRow
         /\ [q EXCEPT !.st = st].st = st
         /\ [q EXCEPT !.st = st].trial = q.trial
         /\ [q EXCEPT !.st = st].version = q.version
         /\ [q EXCEPT !.st = st].comparison = q.comparison
         /\ [q EXCEPT !.st = st].cites = q.cites
BY DEF ReviewRow

\* A request that moves on.
LEMMA CallMoved ==
  ASSUME NEW c \in Call, NEW at \in {"READING", "ALLOWED", "SENT", "CHECKED", "DONE"}
  PROVE  /\ [c EXCEPT !.at = at] \in Call
         /\ [c EXCEPT !.at = at].at = at
         /\ [c EXCEPT !.at = at].answer = c.answer
         /\ [c EXCEPT !.at = at].found = c.found
BY DEF Call

\* The rows and requests there are at first.
LEMMA NothingYet ==
  /\ NoReview \in ReviewRow /\ NoReview.st = "NONE" /\ NoReview.comparison = "NONE"
  /\ Idle0 \in Call /\ Idle0.at = "NONE" /\ NoAnswer \in Answers
BY DEF NoReview, ReviewRow, Idle0, Call, NoAnswer, Answers, ProductTransitions

\* One row and its request move, and nothing was reserved.
LEMMA ReviewMoves ==
  ASSUME VerifierIInv, NEW v \in Reviews, NEW q \in ReviewRow, NEW c \in Call, NEW n \in Nat,
         reviews[v].st # "NONE", q.st # "NONE",
         reviews[v].st \in {"COMPLETED", "FAILED"} => q.st = reviews[v].st,
         CallFits(q, c, n, trials),
         reviews' = [reviews EXCEPT ![v] = q], request' = [request EXCEPT ![v] = c],
         sent' = [sent EXCEPT ![v] = n], UNCHANGED <<usage, trials, receipts>>
  PROVE  VerifierIInv' /\ Stand
<1>1. /\ reviews' \in [Reviews -> ReviewRow] /\ request' \in [Reviews -> Call] /\ sent' \in [Reviews -> Nat]
      /\ reviews'[v] = q /\ request'[v] = c /\ sent'[v] = n
      /\ \A w \in Reviews \ {v} : /\ reviews'[w] = reviews[w] /\ request'[w] = request[w]
                                  /\ sent'[w] = sent[w]
  BY DEF VerifierIInv
<1>2. \A w \in Reviews : CallFits(reviews'[w], request'[w], sent'[w], trials)
  BY <1>1 DEF VerifierIInv
<1>3. Reserved(reviews)' = Reserved(reviews) /\ KeptReceipts(receipts)' = KeptReceipts(receipts)
  BY <1>1 DEF Reserved, KeptReceipts
<1>4. Stand
  BY <1>1 DEF Stand
<1>5. (\A w \in Reviews : CallFits(reviews[w], request[w], sent[w], trials))'
  BY <1>2
<1> QED BY <1>1, <1>3, <1>4, <1>5 DEF VerifierIInv

\* A request that fails, whatever it had come to.
LEMMA FailsKeeps ==
  ASSUME VerifierIInv, NEW v \in Reviews,
         request[v].at \notin {"NONE", "DONE"}, Fails(v)
  PROVE  VerifierIInv' /\ Stand
<1> DEFINE q == [reviews[v] EXCEPT !.st = "FAILED"]
<1>1. reviews[v] \in ReviewRow /\ request[v] \in Call /\ sent[v] \in Nat
      /\ CallFits(reviews[v], request[v], sent[v], trials)
  BY DEF VerifierIInv
<1>2. q \in ReviewRow /\ q.st = "FAILED" /\ q.trial = reviews[v].trial /\ q.version = reviews[v].version
      /\ q.comparison = reviews[v].comparison /\ q.cites = reviews[v].cites
  BY <1>1, RowMoved
<1>3. /\ reviews' = [reviews EXCEPT ![v] = q] /\ request' = [request EXCEPT ![v] = Idle0]
      /\ sent' = [sent EXCEPT ![v] = sent[v]] /\ UNCHANGED <<usage, trials, receipts>>
  BY DEF Fails, VerifierIInv
<1> HIDE DEF q
<1>4. reviews[v].st \notin {"NONE", "COMPLETED", "FAILED"} /\ CallFits(q, Idle0, sent[v], trials)
  BY <1>1, <1>2, NothingYet DEF CallFits
<1> QED BY <1>1, <1>2, <1>3, <1>4, NothingYet, ReviewMoves

-----------------------------------------------------------------------------
(* What the steps of a request keep *)

\* A reservation counts once, in the ledger, in a row and in a receipt.
LEMMA ReserveKeeps ==
  ASSUME VerifierIInv, NEW v \in Reviews, NEW key \in RetryNames, NEW i \in Trials, Reserve(v, key, i)
  PROVE  VerifierIInv' /\ Stand
<1> DEFINE q == [NoReview EXCEPT !.st = "REQUESTING", !.trial = i, !.version = trials[i]]
           c == [request[v] EXCEPT !.at = "READING"]
           r == <<key, i>>
<1>1. request[v] \in Call /\ trials[i] \in Nat /\ trials[i] > 0 /\ request[v].at = "NONE"
  BY DEF VerifierIInv, Reserve
<1>2. q \in ReviewRow /\ q.st = "REQUESTING" /\ q.trial = i /\ q.version = trials[i]
      /\ q.comparison = "NONE"
  <2>1. \A p \in ReviewRow :
          LET p2 == [p EXCEPT !.st = "REQUESTING", !.trial = i, !.version = trials[i]]
          IN  p2 \in ReviewRow /\ p2.st = "REQUESTING" /\ p2.trial = i /\ p2.version = trials[i]
              /\ p2.comparison = p.comparison
    BY <1>1 DEF ReviewRow
  <2> QED BY <2>1, NothingYet
<1>3. c \in Call /\ c.at = "READING" /\ c.answer = request[v].answer
  BY <1>1, CallMoved
<1>4. /\ reviews' = [reviews EXCEPT ![v] = q] /\ request' = [request EXCEPT ![v] = c]
      /\ receipts' = [receipts EXCEPT ![r] = trials[i]] /\ r \in RetryNames \X Trials
      /\ receipts[r] = 0 /\ reviews[v].st = "NONE" /\ sent[v] = 0
      /\ usage' = usage + 1 /\ usage < Cap
      /\ UNCHANGED <<trials, sent>>
  BY DEF Reserve, Unanswered, VerifierIInv
<1> HIDE DEF q, c, r
<1>5. /\ reviews' \in [Reviews -> ReviewRow] /\ reviews'[v] = q
      /\ \A w \in Reviews \ {v} : reviews'[w] = reviews[w]
  BY <1>2, <1>4 DEF VerifierIInv
<1>6. /\ request' \in [Reviews -> Call] /\ request'[v] = c
      /\ \A w \in Reviews \ {v} : request'[w] = request[w]
  BY <1>3, <1>4 DEF VerifierIInv
<1>7. /\ receipts' \in [RetryNames \X Trials -> Nat] /\ receipts'[r] = trials[i]
      /\ \A s \in (RetryNames \X Trials) \ {r} : receipts'[s] = receipts[s]
  BY <1>1, <1>4 DEF VerifierIInv
<1>8. IsFiniteSet(Reserved(reviews')) /\ Cardinality(Reserved(reviews')) = usage'
  <2>1. v \notin Reserved(reviews) /\ Reserved(reviews') = Reserved(reviews) \cup {v}
    BY <1>2, <1>4, <1>5 DEF Reserved
  <2>2. IsFiniteSet(Reserved(reviews)) /\ Cardinality(Reserved(reviews)) = usage
    BY DEF VerifierIInv
  <2>3. /\ IsFiniteSet(Reserved(reviews) \cup {v})
        /\ Cardinality(Reserved(reviews) \cup {v}) = Cardinality(Reserved(reviews)) + 1
    BY <2>1, <2>2, FS_AddElement
  <2> QED BY <1>4, <2>1, <2>2, <2>3
<1>9. IsFiniteSet(KeptReceipts(receipts')) /\ Cardinality(KeptReceipts(receipts')) = usage'
  <2>1. r \notin KeptReceipts(receipts) /\ KeptReceipts(receipts') = KeptReceipts(receipts) \cup {r}
    BY <1>1, <1>4, <1>7 DEF KeptReceipts
  <2>2. IsFiniteSet(KeptReceipts(receipts)) /\ Cardinality(KeptReceipts(receipts)) = usage
    BY DEF VerifierIInv
  <2>3. /\ IsFiniteSet(KeptReceipts(receipts) \cup {r})
        /\ Cardinality(KeptReceipts(receipts) \cup {r}) = Cardinality(KeptReceipts(receipts)) + 1
    BY <2>1, <2>2, FS_AddElement
  <2> QED BY <1>4, <2>1, <2>2, <2>3
<1>10. \A w \in Reviews : CallFits(reviews'[w], request'[w], sent'[w], trials')
  <2>1. CallFits(q, c, 0, trials)
    BY <1>1, <1>2, <1>3 DEF CallFits
  <2> QED BY <1>4, <1>5, <1>6, <2>1 DEF VerifierIInv
<1>11. usage' \in 0 .. Cap
  BY <1>4, VerifierAssumption DEF VerifierIInv
<1>12. Stand
  BY <1>4, <1>5 DEF Stand
<1> QED BY <1>4, <1>5, <1>6, <1>7, <1>8, <1>9, <1>10, <1>11, <1>12
  DEF VerifierIInv, CallFits, Reserved, KeptReceipts

\* A request that ends in an error of its own leaves the row to the sweep.
LEMMA FrameRefusedKeeps ==
  ASSUME VerifierIInv, NEW v \in Reviews, FrameRefused(v)
  PROVE  VerifierIInv' /\ Stand
<1>1. reviews[v] \in ReviewRow /\ sent[v] \in Nat
      /\ CallFits(reviews[v], request[v], sent[v], trials) /\ request[v].at = "READING"
  BY DEF VerifierIInv, FrameRefused
<1>2. /\ reviews' = [reviews EXCEPT ![v] = reviews[v]] /\ request' = [request EXCEPT ![v] = Idle0]
      /\ sent' = [sent EXCEPT ![v] = sent[v]] /\ UNCHANGED <<usage, trials, receipts>>
  BY DEF FrameRefused, VerifierIInv
<1>3. reviews[v].st # "NONE" /\ CallFits(reviews[v], Idle0, sent[v], trials)
  BY <1>1, NothingYet DEF CallFits
<1> QED BY <1>1, <1>2, <1>3, NothingYet, ReviewMoves

\* The breaker lets a request through, or fails it.
LEMMA AllowKeeps ==
  ASSUME VerifierIInv, NEW v \in Reviews, Allow(v)
  PROVE  VerifierIInv' /\ Stand
<1>1. CASE Fails(v)
  BY <1>1, FailsKeeps DEF Allow
<1>2. CASE ~Fails(v)
  <2> DEFINE c == [request[v] EXCEPT !.at = "ALLOWED"]
  <2>1. reviews[v] \in ReviewRow /\ request[v] \in Call /\ sent[v] \in Nat
        /\ CallFits(reviews[v], request[v], sent[v], trials) /\ request[v].at = "READING"
    BY DEF VerifierIInv, Allow
  <2>2. c \in Call /\ c.at = "ALLOWED" /\ c.answer = request[v].answer
    BY <2>1, CallMoved
  <2>3. /\ reviews' = [reviews EXCEPT ![v] = reviews[v]] /\ request' = [request EXCEPT ![v] = c]
        /\ sent' = [sent EXCEPT ![v] = sent[v]] /\ UNCHANGED <<usage, trials, receipts>>
    BY <1>2 DEF Allow, VerifierIInv
  <2> HIDE DEF c
  <2>4. reviews[v].st # "NONE" /\ CallFits(reviews[v], c, sent[v], trials)
    BY <2>1, <2>2 DEF CallFits
  <2> QED BY <2>1, <2>2, <2>3, <2>4, ReviewMoves
<1> QED BY <1>1, <1>2

\* A post is the only one of its row.
LEMMA PostKeeps ==
  ASSUME VerifierIInv, NEW v \in Reviews, Post(v)
  PROVE  VerifierIInv' /\ Stand
<1> DEFINE c == [request[v] EXCEPT !.at = "SENT"]
<1>1. reviews[v] \in ReviewRow /\ request[v] \in Call
      /\ CallFits(reviews[v], request[v], sent[v], trials) /\ request[v].at = "ALLOWED"
  BY DEF VerifierIInv, Post
<1>2. c \in Call /\ c.at = "SENT" /\ c.answer = request[v].answer
  BY <1>1, CallMoved
<1>3. /\ sent[v] = 0 /\ reviews' = [reviews EXCEPT ![v] = reviews[v]]
      /\ request' = [request EXCEPT ![v] = c]
      /\ sent' = [sent EXCEPT ![v] = 1] /\ UNCHANGED <<usage, trials, receipts>>
  BY <1>1 DEF Post, VerifierIInv, CallFits
<1> HIDE DEF c
<1>4. reviews[v].st # "NONE" /\ CallFits(reviews[v], c, 1, trials)
  BY <1>1, <1>2 DEF CallFits
<1> QED BY <1>1, <1>2, <1>3, <1>4, 1 \in Nat, ReviewMoves

\* An answer finds the interaction as it is.
LEMMA AnswerKeeps ==
  ASSUME VerifierIInv, NEW v \in Reviews, NEW a \in TriedAnswers, ProviderAnswers(v, a)
  PROVE  VerifierIInv' /\ Stand
<1> DEFINE c == [at |-> "ANSWERED", answer |-> a, found |-> trials[reviews[v].trial]]
<1>1. reviews[v] \in ReviewRow /\ request[v] \in Call /\ sent[v] \in Nat
      /\ CallFits(reviews[v], request[v], sent[v], trials) /\ request[v].at = "SENT" /\ Coherent(a)
  BY DEF VerifierIInv, ProviderAnswers
<1>2. reviews[v].st # "NONE" /\ trials[reviews[v].trial] \in Nat /\ reviews[v].version \in Nat
  BY <1>1 DEF CallFits, VerifierIInv, ReviewRow
<1>3. c \in Call /\ c.at = "ANSWERED" /\ c.answer = a /\ c.found = trials[reviews[v].trial]
  BY <1>2, VerifierAssumption DEF Call
<1>4. /\ reviews' = [reviews EXCEPT ![v] = reviews[v]] /\ request' = [request EXCEPT ![v] = c]
      /\ sent' = [sent EXCEPT ![v] = sent[v]] /\ UNCHANGED <<usage, trials, receipts>>
  BY DEF ProviderAnswers, VerifierIInv
<1> HIDE DEF c
<1>5. CallFits(reviews[v], c, sent[v], trials)
  BY <1>1, <1>2, <1>3 DEF CallFits
<1> QED BY <1>1, <1>2, <1>3, <1>4, <1>5, ReviewMoves

\* What still has the row's version had it when the answer came.
LEMMA RecheckKeeps ==
  ASSUME VerifierIInv, NEW v \in Reviews, Recheck(v)
  PROVE  VerifierIInv' /\ Stand
<1>1. CASE Fails(v)
  BY <1>1, FailsKeeps DEF Recheck
<1>2. CASE ~Fails(v)
  <2> DEFINE c == [request[v] EXCEPT !.at = "CHECKED"]
  <2>1. reviews[v] \in ReviewRow /\ request[v] \in Call /\ sent[v] \in Nat
        /\ CallFits(reviews[v], request[v], sent[v], trials) /\ request[v].at = "ANSWERED"
    BY DEF VerifierIInv, Recheck
  <2>2. c \in Call /\ c.at = "CHECKED" /\ c.answer = request[v].answer /\ c.found = request[v].found
    BY <2>1, CallMoved
  <2>3. /\ trials[reviews[v].trial] = reviews[v].version
        /\ reviews' = [reviews EXCEPT ![v] = reviews[v]] /\ request' = [request EXCEPT ![v] = c]
        /\ sent' = [sent EXCEPT ![v] = sent[v]] /\ UNCHANGED <<usage, trials, receipts>>
    BY <1>2 DEF Recheck, SameSource, VerifierIInv
  <2> HIDE DEF c
  <2>4. reviews[v].st # "NONE" /\ reviews[v].version \in Nat /\ request[v].found \in Nat
    BY <2>1 DEF CallFits, ReviewRow, Call
  <2>5. request[v].found = reviews[v].version
    BY <2>1, <2>3, <2>4 DEF CallFits
  <2>6. CallFits(reviews[v], c, sent[v], trials)
    BY <2>1, <2>2, <2>4, <2>5 DEF CallFits
  <2> QED BY <2>1, <2>2, <2>3, <2>4, <2>6, ReviewMoves
<1> QED BY <1>1, <1>2

\* A coherent answer that supports the finding cites two frames.
LEMMA SupportCites ==
  ASSUME NEW a \in Answers, Coherent(a)
  PROVE  /\ Compare(LocalAction, a) \in {"SUPPORTS", "CONTRADICTS", "INCONCLUSIVE"}
         /\ Compare(LocalAction, a) = "SUPPORTS" => a.cites >= 2
BY DEF Compare, LocalAction, Coherent, ProductTransitions, Answers

\* A review completes with what was checked.
LEMMA CompleteKeeps ==
  ASSUME VerifierIInv, NEW v \in Reviews, CompleteReview(v)
  PROVE  VerifierIInv' /\ Stand
<1> DEFINE a == request[v].answer
           q == [reviews[v] EXCEPT !.st = "COMPLETED", !.comparison = Compare(LocalAction, a),
                                   !.cites = a.cites]
           c == [request[v] EXCEPT !.at = "DONE", !.answer = NoAnswer]
<1>1. reviews[v] \in ReviewRow /\ request[v] \in Call /\ sent[v] \in Nat
      /\ CallFits(reviews[v], request[v], sent[v], trials) /\ request[v].at = "CHECKED"
  BY DEF VerifierIInv, CompleteReview
<1>2. a \in Answers /\ Coherent(a) /\ a.cites \in 0 .. 2
  BY <1>1 DEF Call, CallFits, Answers
<1>3. q \in ReviewRow /\ q.st = "COMPLETED" /\ q.trial = reviews[v].trial
      /\ q.version = reviews[v].version /\ q.comparison = Compare(LocalAction, a) /\ q.cites = a.cites
  BY <1>1, <1>2, SupportCites DEF ReviewRow
<1>4. c \in Call /\ c.at = "DONE" /\ c.found = request[v].found
  BY <1>1, NothingYet DEF Call
<1>5. /\ reviews' = [reviews EXCEPT ![v] = q] /\ request' = [request EXCEPT ![v] = c]
      /\ sent' = [sent EXCEPT ![v] = sent[v]] /\ UNCHANGED <<usage, trials, receipts>>
  BY DEF CompleteReview, VerifierIInv
<1> HIDE DEF q, c, a
<1>6. reviews[v].st \notin {"NONE", "COMPLETED", "FAILED"}
  BY <1>1 DEF CallFits
<1>7. CallFits(q, c, sent[v], trials)
  BY <1>1, <1>2, <1>3, <1>4, <1>6, SupportCites DEF CallFits
<1> QED BY <1>1, <1>3, <1>4, <1>5, <1>6, <1>7, ReviewMoves

\* The sweep closes what waits for an answer, and leaves the request to it.
LEMMA RecoverStaleKeeps ==
  ASSUME VerifierIInv, NEW v \in Reviews, RecoverStale(v)
  PROVE  VerifierIInv' /\ Stand
<1> DEFINE q == [reviews[v] EXCEPT !.st = "UNKNOWN_BILLING"]
<1>1. reviews[v] \in ReviewRow /\ request[v] \in Call /\ sent[v] \in Nat
      /\ CallFits(reviews[v], request[v], sent[v], trials) /\ reviews[v].st = "REQUESTING"
  BY DEF VerifierIInv, RecoverStale, StaleRow
<1>2. q \in ReviewRow /\ q.st = "UNKNOWN_BILLING" /\ q.trial = reviews[v].trial
      /\ q.version = reviews[v].version /\ q.comparison = reviews[v].comparison
      /\ q.cites = reviews[v].cites
  BY <1>1, RowMoved
<1>3. /\ reviews' = [reviews EXCEPT ![v] = q] /\ request' = [request EXCEPT ![v] = request[v]]
      /\ sent' = [sent EXCEPT ![v] = sent[v]] /\ UNCHANGED <<usage, trials, receipts>>
  BY DEF RecoverStale, VerifierIInv
<1> HIDE DEF q
<1>4. CallFits(q, request[v], sent[v], trials)
  BY <1>1, <1>2 DEF CallFits
<1> QED BY <1>1, <1>2, <1>3, <1>4, ReviewMoves

-----------------------------------------------------------------------------
(* What the life of interactions and a stop keep *)

\* Interactions get newer or go.
LEMMA TrialsKeep ==
  ASSUME VerifierIInv, NEW i \in Trials, NEW n \in Nat,
         n = 0 \/ (n > trials[i] /\ trials[i] > 0), trials' = [trials EXCEPT ![i] = n],
         UNCHANGED <<usage, reviews, receipts, request, sent>>
  PROVE  VerifierIInv' /\ Stand
<1>1. trials' \in [Trials -> Nat] /\ trials \in [Trials -> Nat]
      /\ \A j \in Trials : trials'[j] = 0 \/ (trials'[j] >= trials[j] /\ trials[j] > 0)
                           \/ trials'[j] = trials[j]
  BY DEF VerifierIInv
<1>2. \A v \in Reviews : CallFits(reviews[v], request[v], sent[v], trials')
  <2> SUFFICES ASSUME NEW v \in Reviews PROVE CallFits(reviews[v], request[v], sent[v], trials')
    OBVIOUS
  <2>1. reviews[v].version \in Nat /\ request[v].found \in Nat
        /\ CallFits(reviews[v], request[v], sent[v], trials)
    BY DEF VerifierIInv, ReviewRow, Call
  <2>2. CASE reviews[v].st = "NONE"
    BY <2>1, <2>2 DEF CallFits
  <2>3. CASE reviews[v].st # "NONE"
    <3>1. reviews[v].trial \in Trials
      BY <2>1, <2>3 DEF CallFits
    <3> QED BY <1>1, <2>1, <2>3, <3>1 DEF CallFits
  <2> QED BY <2>2, <2>3
<1> QED BY <1>1, <1>2 DEF VerifierIInv, CallFits, Reserved, KeptReceipts, Stand

\* Reviews expire with their interaction's time.
LEMMA CleanupKeeps ==
  ASSUME VerifierIInv, Cleanup
  PROVE  VerifierIInv' /\ Stand
<1>1. /\ reviews' = [v \in Reviews |->
           IF reviews[v].trial \in expired /\ reviews[v].st # "NONE"
           THEN [reviews[v] EXCEPT !.st = "EXPIRED"] ELSE reviews[v]]
      /\ UNCHANGED <<usage, trials, receipts, request, sent>>
  BY DEF Cleanup, Due
<1>2. \A v \in Reviews :
        /\ reviews[v] \in ReviewRow
        /\ [reviews[v] EXCEPT !.st = "EXPIRED"] \in ReviewRow
        /\ [reviews[v] EXCEPT !.st = "EXPIRED"].st = "EXPIRED"
        /\ [reviews[v] EXCEPT !.st = "EXPIRED"].trial = reviews[v].trial
        /\ [reviews[v] EXCEPT !.st = "EXPIRED"].version = reviews[v].version
        /\ [reviews[v] EXCEPT !.st = "EXPIRED"].comparison = reviews[v].comparison
        /\ [reviews[v] EXCEPT !.st = "EXPIRED"].cites = reviews[v].cites
  BY RowMoved DEF VerifierIInv
<1>3. /\ reviews' \in [Reviews -> ReviewRow]
      /\ \A v \in Reviews :
           /\ reviews'[v].st = reviews[v].st \/ (reviews'[v].st = "EXPIRED" /\ reviews[v].st # "NONE")
           /\ reviews'[v].trial = reviews[v].trial /\ reviews'[v].version = reviews[v].version
           /\ reviews'[v].comparison = reviews[v].comparison /\ reviews'[v].cites = reviews[v].cites
  BY <1>1, <1>2
<1>4. \A v \in Reviews : CallFits(reviews'[v], request[v], sent[v], trials)
  <2> SUFFICES ASSUME NEW v \in Reviews PROVE CallFits(reviews'[v], request[v], sent[v], trials)
    OBVIOUS
  <2>1. CallFits(reviews[v], request[v], sent[v], trials)
    BY DEF VerifierIInv
  <2> QED BY <1>3, <2>1 DEF CallFits
<1>5. Reserved(reviews') = Reserved(reviews) /\ Stand
  BY <1>3 DEF Reserved, Stand
<1> QED BY <1>1, <1>3, <1>4, <1>5 DEF VerifierIInv, CallFits, Reserved, KeptReceipts

\* The process stops: requests are gone, and rows that waited for them wait.
LEMMA StopKeeps ==
  ASSUME VerifierIInv, Stop
  PROVE  VerifierIInv' /\ Stand
<1>1. /\ request' = [v \in Reviews |-> IF request[v].at = "DONE" THEN request[v] ELSE Idle0]
      /\ UNCHANGED <<usage, trials, reviews, receipts, sent>>
  BY DEF Stop
<1>2. request' \in [Reviews -> Call]
  BY <1>1, NothingYet DEF VerifierIInv
<1>3. \A v \in Reviews : CallFits(reviews[v], request'[v], sent[v], trials)
  <2> SUFFICES ASSUME NEW v \in Reviews PROVE CallFits(reviews[v], request'[v], sent[v], trials)
    OBVIOUS
  <2>1. CallFits(reviews[v], request[v], sent[v], trials)
    BY DEF VerifierIInv
  <2> QED BY <1>1, <2>1, NothingYet DEF CallFits
<1> QED BY <1>1, <1>2, <1>3 DEF VerifierIInv, CallFits, Reserved, KeptReceipts, Stand

-----------------------------------------------------------------------------
(* Results *)

\* Nothing is reserved at first.
LEMMA VerifierInitially == VerifierInit => VerifierIInv
<1> SUFFICES ASSUME VerifierInit PROVE VerifierIInv
  OBVIOUS
<1>1. /\ usage \in 0 .. Cap /\ trials \in [Trials -> Nat] /\ reviews \in [Reviews -> ReviewRow]
      /\ receipts \in [RetryNames \X Trials -> Nat] /\ request \in [Reviews -> Call]
      /\ sent \in [Reviews -> Nat]
  BY NothingYet, VerifierAssumption DEF VerifierInit
<1>2. Reserved(reviews) = {} /\ KeptReceipts(receipts) = {} /\ usage = 0
  BY NothingYet DEF VerifierInit, Reserved, KeptReceipts
<1>3. \A v \in Reviews : CallFits(reviews[v], request[v], sent[v], trials)
  BY NothingYet DEF VerifierInit, CallFits
<1> QED BY <1>1, <1>2, <1>3, FS_EmptySet DEF VerifierIInv

\* Every step keeps the invariant and what was answered.
LEMMA VerifierInductive == VerifierIInv /\ [VerifierNext]_verifierVars => VerifierIInv' /\ Stand
<1> SUFFICES ASSUME VerifierIInv, [VerifierNext]_verifierVars PROVE VerifierIInv' /\ Stand
  OBVIOUS
<1>1. CASE UNCHANGED <<usage, trials, reviews, receipts, request, sent>>
  BY <1>1 DEF VerifierIInv, CallFits, Reserved, KeptReceipts, Stand
<1>2. ASSUME NEW v \in Reviews, ReviewStep(v) PROVE VerifierIInv' /\ Stand
  <2>1. CASE EvidenceUnavailable(v) \/ ProviderFails(v)
    BY <2>1, FailsKeeps DEF EvidenceUnavailable, ProviderFails
  <2> QED BY <1>2, <2>1, ReserveKeeps, AllowKeeps, PostKeeps, AnswerKeeps, RecheckKeeps,
     CompleteKeeps, RecoverStaleKeeps, FrameRefusedKeeps DEF ReviewStep
<1>3. ASSUME NEW i \in Trials, TrialChanges(i) \/ TrialGone(i) PROVE VerifierIInv' /\ Stand
  <2>1. trials[i] \in Nat /\ trials[i] > 0
    BY <1>3, VerifierAssumption DEF TrialChanges, TrialGone, VerifierIInv
  <2>2. trials[i] + 1 \in Nat /\ 0 \in Nat /\ trials[i] + 1 > trials[i]
    BY <2>1
  <2> QED BY <1>3, <2>1, <2>2, TrialsKeep DEF TrialChanges, TrialGone
<1>4. CASE Configure \/ CoolDown
  BY <1>1, <1>4 DEF Configure, CoolDown
<1>5. ASSUME NEW i \in Trials, Expires(i) PROVE VerifierIInv' /\ Stand
  BY <1>1, <1>5 DEF Expires
<1> QED BY <1>1, <1>2, <1>3, <1>4, <1>5, CleanupKeeps, StopKeeps DEF VerifierNext, verifierVars

\* What is posted was paid for, once for a key, and what is answered is about
\* evidence that is there, for any number of reviews, keys and crashes.
THEOREM ReviewsArePaidAndCurrent == VerifierSpec => []VerifierInv
<1>1. VerifierIInv => VerifierInv
  <2> SUFFICES ASSUME VerifierIInv PROVE VerifierInv
    OBVIOUS
  <2>1. PostsArePaid
    <3> DEFINE P == {v \in Reviews : sent[v] > 0}
    <3>1. P \subseteq Reserved(reviews)
      BY DEF VerifierIInv, CallFits, Reserved
    <3>2. Cardinality(P) <= usage
      BY <3>1, FS_Subset DEF VerifierIInv
    <3>3. usage <= Cap /\ \A v \in Reviews : sent[v] <= 1
      BY VerifierAssumption DEF VerifierIInv, CallFits
    <3> QED BY <3>2, <3>3 DEF PostsArePaid
  <2>2. OneReviewPerKey
    <3>1. KeptReceipts(receipts) = {r \in RetryNames \X Trials : receipts[r] > 0}
      BY DEF KeptReceipts
    <3> QED BY <3>1 DEF OneReviewPerKey, VerifierIInv
  <2>3. ReviewMatchesSource /\ SupportIsVisible
    BY DEF ReviewMatchesSource, SupportIsVisible, VerifierIInv, CallFits
  <2> QED BY <2>1, <2>2, <2>3 DEF VerifierInv
<1> QED BY VerifierInitially, VerifierInductive, <1>1, PTL DEF VerifierSpec

\* A row is closed once: the sweep never undoes an answer.
THEOREM NoAnswerIsUndone == VerifierSpec => AnswersStand
<1>1. VerifierIInv /\ [VerifierNext]_verifierVars => [Stand]_verifierVars
  BY VerifierInductive
<1> QED BY VerifierInitially, VerifierInductive, <1>1, PTL DEF VerifierSpec, AnswersStand, Stand

-----------------------------------------------------------------------------
(***************************************************************************)
(* From a reply to the queue (Projection)                                  *)
(*                                                                         *)
(* A clip's admission is by a binding no later than the present one, and by an *)
(* earlier one once the binding changed while it waited: such a clip fails the *)
(* comparison with the present binding for good.  What the rules say of a  *)
(* reply is shown for every reply the schema lets through.                 *)
(***************************************************************************)

-----------------------------------------------------------------------------
(* What the rules make of a reply *)

Interpretations ==
  [decision : {"OBSERVING", "ABSTAIN", "NORMAL_RESOLVED", "REVIEW_REQUIRED"},
   custody : {"ON_SHELF", "UNACCOUNTED", "IN_HAND", "RETURNED", "IN_BASKET", "CONCEALED_OBSERVED"}]
Results ==
  [action : Transitions \cup {"NORMAL_SHOPPING", "UNCLEAR"}, attention : BOOLEAN,
   strength : {"STRONG", "PARTIAL", "INSUFFICIENT"}, window : Interpretations, alarm : BOOLEAN]

\* What AttentionIsExplained asks of one result
Explained(r) ==
  /\ r.attention => /\ r.action = "POSSIBLE_CONCEALMENT" /\ r.strength = "STRONG"
                    /\ r.window = [decision |-> "REVIEW_REQUIRED",
                                   custody |-> "CONCEALED_OBSERVED"]
  /\ r.window.decision \in {"REVIEW_REQUIRED", "NORMAL_RESOLVED"} =>
       r.strength = "STRONG" /\ r.action \in Transitions
  /\ r.action \in Transitions => r.strength = "STRONG"

\* All five are met where somebody is seen through the whole sequence.
LEMMA SupportedIsStrong ==
  ASSUME NEW o \in ReportedObservations, Supported(o)
  PROVE  Strength(o) = "STRONG"
<1> DEFINE five == <<o.visibility = "clear", o.person, o.product, o.sequence, Len(o.cites) >= 2>>
           met == {i \in 1..5 : five[i]}
<1>1. five[1] /\ five[2] /\ five[3] /\ five[4] /\ five[5]
  BY DEF Supported, SawTransition
<1> HIDE DEF five
<1>2. met = 1..5
  <2>1. \A i \in 1..5 : i = 1 \/ i = 2 \/ i = 3 \/ i = 4 \/ i = 5
    OBVIOUS
  <2> QED BY <1>1, <2>1
<1>3. Cardinality(met) = 5
  <2>1. Cardinality(1..5) = 5
    <3>1. Cardinality(1..5) = IF 1 > 5 THEN 0 ELSE 5 - 1 + 1
      BY 1 \in Int, 5 \in Int, FS_Interval, Zenon
    <3> QED BY <3>1
  <2> QED BY <1>2, <2>1, Zenon
<1> QED BY <1>3 DEF Strength, five

\* A transition that survives is supported.
LEMMA TransitionIsSupported ==
  ASSUME NEW o \in ReportedObservations, Normalised(o) \in Transitions
  PROVE  Supported(o) /\ Normalised(o) = o.action
BY DEF Normalised, Transitions, Supported, ReportedObservations

\* The interpretation of a normalised action
LEMMA InterpretationIs ==
  ASSUME NEW o \in ReportedObservations
  PROVE  LET i == Interpretation(Normalised(o), o)
         IN  /\ i \in Interpretations
             /\ i.decision \in {"REVIEW_REQUIRED", "NORMAL_RESOLVED"} =>
                  Supported(o) /\ Normalised(o) \in Transitions
             /\ Supported(o) /\ Normalised(o) = "POSSIBLE_CONCEALMENT" =>
                  i = [decision |-> "REVIEW_REQUIRED", custody |-> "CONCEALED_OBSERVED"]
<1> DEFINE a == Normalised(o)
           i == Interpretation(a, o)
           named == [TAKE_PRODUCT |-> "IN_HAND", RETURN_PRODUCT |-> "RETURNED",
                     PLACE_IN_BASKET |-> "IN_BASKET",
                     POSSIBLE_CONCEALMENT |-> "CONCEALED_OBSERVED"]
<1>1. /\ named["TAKE_PRODUCT"] = "IN_HAND" /\ named["RETURN_PRODUCT"] = "RETURNED"
      /\ named["PLACE_IN_BASKET"] = "IN_BASKET"
      /\ named["POSSIBLE_CONCEALMENT"] = "CONCEALED_OBSERVED"
  OBVIOUS
<1>2. i = IF a = "NORMAL_SHOPPING" /\ o.visibility = "clear" /\ o.person
          THEN [decision |-> "OBSERVING", custody |-> "ON_SHELF"]
          ELSE IF ~Supported(o) \/ a \notin Transitions
          THEN [decision |-> "ABSTAIN", custody |-> "UNACCOUNTED"]
          ELSE [decision |-> IF a = "RETURN_PRODUCT" THEN "NORMAL_RESOLVED"
                             ELSE IF a = "PLACE_IN_BASKET" THEN "OBSERVING" ELSE "REVIEW_REQUIRED",
                custody |-> named[a]]
  BY DEF Interpretation
<1> HIDE DEF a, i, named
<1>3. CASE a = "NORMAL_SHOPPING" /\ o.visibility = "clear" /\ o.person
  BY <1>2, <1>3 DEF Interpretations, a, i
<1>4. CASE /\ ~(a = "NORMAL_SHOPPING" /\ o.visibility = "clear" /\ o.person)
           /\ ~Supported(o) \/ a \notin Transitions
  BY <1>2, <1>4 DEF Interpretations, a, i, Transitions
<1>5. CASE Supported(o) /\ a \in Transitions
  <2>1. i = [decision |-> IF a = "RETURN_PRODUCT" THEN "NORMAL_RESOLVED"
                          ELSE IF a = "PLACE_IN_BASKET" THEN "OBSERVING" ELSE "REVIEW_REQUIRED",
             custody |-> named[a]]
    BY <1>2, <1>5 DEF Transitions
  <2>2. named[a] \in {"IN_HAND", "RETURNED", "IN_BASKET", "CONCEALED_OBSERVED"}
    BY <1>1, <1>5 DEF Transitions
  <2>3. i \in Interpretations
    BY <2>1, <2>2 DEF Interpretations
  <2>4. a = "POSSIBLE_CONCEALMENT" =>
          i = [decision |-> "REVIEW_REQUIRED", custody |-> "CONCEALED_OBSERVED"]
    BY <1>1, <2>1
  <2> QED BY <1>5, <2>3, <2>4 DEF a, i
<1> QED BY <1>3, <1>4, <1>5

\* A public observation hangs together, and alarms for a double only.
LEMMA PublicIsExplained ==
  ASSUME provider \in [disabled : BOOLEAN, corroborates : BOOLEAN], NEW o \in ReportedObservations
  PROVE  /\ PublicObservation(o) \in Results
         /\ Explained(PublicObservation(o))
         /\ PublicObservation(o).alarm => provider.corroborates
<1> DEFINE r == PublicObservation(o)
<1>1. /\ r = [action |-> Normalised(o), attention |-> Attention(o), strength |-> Strength(o),
              window |-> Interpretation(Normalised(o), o), alarm |-> Alarm(o)]
  BY DEF PublicObservation
<1>2. Normalised(o) \in Transitions \cup {"NORMAL_SHOPPING", "UNCLEAR"}
  BY DEF Normalised, ReportedObservations
<1>3. Strength(o) \in {"STRONG", "PARTIAL", "INSUFFICIENT"}
  BY DEF Strength
<1>4. Attention(o) \in BOOLEAN /\ Alarm(o) \in BOOLEAN
  BY DEF Attention, Alarm
<1>5. r \in Results
  BY <1>1, <1>2, <1>3, <1>4, InterpretationIs DEF Results
<1>6. Attention(o) => Supported(o) /\ Normalised(o) = "POSSIBLE_CONCEALMENT"
  BY DEF Attention, Supported, SawTransition, Normalised
<1>7. /\ r.attention = Attention(o) /\ r.action = Normalised(o) /\ r.strength = Strength(o)
      /\ r.window = Interpretation(Normalised(o), o) /\ r.alarm = Alarm(o)
  BY <1>1
<1> HIDE DEF r
<1>8. Explained(r)
  BY <1>6, <1>7, InterpretationIs, SupportedIsStrong, TransitionIsSupported DEF Explained
<1>9. r.alarm => provider.corroborates
  BY <1>7 DEF Alarm
<1> QED BY <1>5, <1>8, <1>9 DEF r

-----------------------------------------------------------------------------
(* The inductive invariant *)

Admissions == [id : Nat, generation : Nat, activated : Nat]
Item == [st : {"NONE", "pending", "running", "completed", "failed", "cancelled", "GONE"},
         sample : Samples \cup {<<>>}, source : {"CAMERA", "RECORDED_VIDEO"},
         calibrated : BOOLEAN, created : Nat, admission : Admissions \cup {Unasked},
         result : Results \cup {Unasked}]
QueueRow == [admitted : Nat, deadline : Nat]

\* An admission by a binding that is over, or by the present one before now
Over(a, l) == a.id < l.id \/ (a.id = l.id /\ a.generation < l.generation)
Past(a, l) == Over(a, l) \/ (a.id = l.id /\ a.generation = l.generation)

\* One clip and its queue row, under a provider p and a binding l.
ItemHolds(x, row, p, l) ==
  /\ x.st \in {"running", "completed"} =>
       /\ x.result \in Results /\ Explained(x.result) /\ ~p.disabled
       /\ x.result.alarm => p.corroborates
  /\ x.result # Unasked => x.st \in {"running", "completed"}
  /\ x.st = "completed" /\ x.result.alarm => x.calibrated
  /\ x.st \in {"NONE", "pending", "running"} \/ ~p.corroborates => row = Unasked
  /\ x.admission # Unasked => Past(x.admission, l)

\* A clip that was waiting when the binding changed stays what it was.
FencedHolds(x, row, l) ==
  x.st # "NONE" /\ row = Unasked /\ (x.admission # Unasked => Over(x.admission, l))

ProjectionIInv ==
  /\ provider \in [disabled : BOOLEAN, corroborates : BOOLEAN]
  /\ moment \in Nat
  /\ link \in [id : Nat, generation : Nat, active : BOOLEAN, activated : Nat]
  /\ clips \in [Clips -> Item]
  /\ outgoing \in [Clips -> QueueRow \cup {Unasked}]
  /\ fenced \subseteq Clips
  /\ \A c \in Clips : ItemHolds(clips[c], outgoing[c], provider, link)
  /\ \A c \in fenced : FencedHolds(clips[c], outgoing[c], link)

\* The clip there is at first, and what is left of one that is over.
LEMMA EmptyItem ==
  ASSUME NEW st \in {"NONE", "failed", "cancelled", "GONE"}
  PROVE  LET x == [NoClip EXCEPT !.st = st]
         IN  x \in Item /\ x.st = st /\ x.result = Unasked /\ x.admission = Unasked
<1>1. NoClip \in Item /\ NoClip.result = Unasked /\ NoClip.admission = Unasked
  BY DEF NoClip, Item
<1>2. \A p \in Item : /\ [p EXCEPT !.st = st] \in Item /\ [p EXCEPT !.st = st].st = st
                      /\ [p EXCEPT !.st = st].result = p.result
                      /\ [p EXCEPT !.st = st].admission = p.admission
  BY DEF Item
<1> QED BY <1>1, <1>2

-----------------------------------------------------------------------------
(* What the steps keep *)

\* One clip changes, with its queue row, and not into one that is unsent.
LEMMA ItemMoves ==
  ASSUME ProjectionIInv, NEW c \in Clips, NEW x \in Item, NEW row \in QueueRow \cup {Unasked},
         ItemHolds(x, row, provider, link), c \in fenced => FencedHolds(x, row, link),
         clips' = [clips EXCEPT ![c] = x], outgoing' = [outgoing EXCEPT ![c] = row],
         UNCHANGED <<provider, moment, link, fenced>>
  PROVE  ProjectionIInv'
<1>1. /\ clips' \in [Clips -> Item] /\ outgoing' \in [Clips -> QueueRow \cup {Unasked}]
      /\ clips'[c] = x /\ outgoing'[c] = row
      /\ \A d \in Clips \ {c} : clips'[d] = clips[d] /\ outgoing'[d] = outgoing[d]
  BY DEF ProjectionIInv
<1>2. (\A d \in Clips : ItemHolds(clips[d], outgoing[d], provider, link))'
  BY <1>1 DEF ProjectionIInv
<1>3. (\A d \in fenced : FencedHolds(clips[d], outgoing[d], link))'
  BY <1>1 DEF ProjectionIInv
<1> QED BY <1>1, <1>2, <1>3 DEF ProjectionIInv

\* A clip is submitted under the binding of now.
LEMMA SubmitKeeps ==
  ASSUME ProjectionIInv, NEW c \in Clips, NEW sample \in Samples, NEW calibrated \in BOOLEAN,
         NEW source \in {"CAMERA", "RECORDED_VIDEO"}, Submit(c, sample, source, calibrated)
  PROVE  ProjectionIInv'
<1> DEFINE x == [NoClip EXCEPT !.st = "pending", !.sample = sample, !.source = source,
                   !.calibrated = calibrated, !.created = moment, !.admission = Admission]
<1>1. /\ Admission \in Admissions \cup {Unasked} /\ moment \in Nat
      /\ Admission # Unasked => Past(Admission, link)
  BY DEF Admission, Admissions, Past, ProjectionIInv
<1>2. NoClip \in Item /\ NoClip.result = Unasked
  BY DEF NoClip, Item
<1>3. x \in Item /\ x.st = "pending" /\ x.result = Unasked /\ x.admission = Admission
  <2>1. PICK p \in Item : p = NoClip /\ p.result = Unasked
    BY <1>2
  <2>2. x = [p EXCEPT !.st = "pending", !.sample = sample, !.source = source,
                      !.calibrated = calibrated, !.created = moment, !.admission = Admission]
    BY <2>1
  <2> HIDE DEF x
  <2>3. x = [st |-> "pending", sample |-> sample, source |-> source, calibrated |-> calibrated,
             created |-> moment, admission |-> Admission, result |-> Unasked]
    BY <2>1, <2>2 DEF Item
  <2> QED BY <1>1, <2>3 DEF Item
<1> HIDE DEF x
<1>4. /\ clips' = [clips EXCEPT ![c] = x] /\ clips[c].st = "NONE"
      /\ UNCHANGED <<provider, moment, link, fenced, outgoing>>
  BY DEF Submit, x
<1>5. outgoing[c] = Unasked /\ c \notin fenced
  BY <1>4 DEF ProjectionIInv, ItemHolds, FencedHolds
<1>6. ItemHolds(x, Unasked, provider, link)
  BY <1>1, <1>3 DEF ItemHolds
<1>7. outgoing' = [outgoing EXCEPT ![c] = Unasked]
  BY <1>4, <1>5 DEF ProjectionIInv
<1> QED BY <1>3, <1>4, <1>5, <1>6, <1>7, ItemMoves

\* A clip that is over forgets its result and its admission.
LEMMA OverKeeps ==
  ASSUME ProjectionIInv, NEW c \in Clips, NEW st \in {"failed", "cancelled", "GONE"},
         clips' = [clips EXCEPT ![c] = [NoClip EXCEPT !.st = st]],
         UNCHANGED <<provider, moment, link, fenced, outgoing>>
  PROVE  ProjectionIInv'
<1> DEFINE x == [NoClip EXCEPT !.st = st]
<1>1. x \in Item /\ x.st = st /\ x.result = Unasked /\ x.admission = Unasked
  BY EmptyItem
<1> HIDE DEF x
<1>2. clips' = [clips EXCEPT ![c] = x] /\ outgoing' = [outgoing EXCEPT ![c] = outgoing[c]]
  BY DEF x, ProjectionIInv
<1>3. outgoing[c] \in QueueRow \cup {Unasked}
  BY DEF ProjectionIInv
<1>4. ItemHolds(x, outgoing[c], provider, link)
  BY <1>1 DEF ItemHolds, ProjectionIInv
<1>5. c \in fenced => FencedHolds(x, outgoing[c], link)
  BY <1>1 DEF FencedHolds, ProjectionIInv
<1> QED BY <1>1, <1>2, <1>3, <1>4, <1>5, ItemMoves

\* What the rules accept is the clip's result, where vision is on.
LEMMA AnalyseKeeps ==
  ASSUME ProjectionIInv, NEW c \in Clips, Analyse(c)
  PROVE  ProjectionIInv'
<1>1. PICK r \in Accepted(Len(clips[c].sample)) :
        clips' = [clips EXCEPT ![c].st = "running", ![c].sample = <<>>, ![c].result = r]
  BY DEF Analyse
<1>2. PICK o \in ReportedObservations : r = PublicObservation(o)
  BY <1>1 DEF Accepted
<1>3. r \in Results /\ Explained(r) /\ (r.alarm => provider.corroborates)
  BY <1>2, PublicIsExplained DEF ProjectionIInv
<1>4. /\ clips[c] \in Item /\ clips[c].st = "pending" /\ ~provider.disabled
      /\ ItemHolds(clips[c], outgoing[c], provider, link)
      /\ UNCHANGED <<provider, moment, link, fenced, outgoing>>
  BY DEF Analyse, Off, ProjectionIInv
<1> DEFINE x == [clips[c] EXCEPT !.st = "running", !.sample = <<>>, !.result = r]
<1>5. /\ x \in Item /\ x.st = "running" /\ x.result = r
      /\ x.admission = clips[c].admission
  BY <1>3, <1>4 DEF Item
<1>6. clips' = [clips EXCEPT ![c] = x]
  BY <1>1 DEF ProjectionIInv
<1> HIDE DEF x
<1>7. ItemHolds(x, Unasked, provider, link) /\ outgoing[c] = Unasked
  BY <1>3, <1>4, <1>5 DEF ItemHolds
<1>8. c \in fenced => FencedHolds(x, Unasked, link)
  BY <1>5 DEF FencedHolds, ProjectionIInv
<1>9. outgoing' = [outgoing EXCEPT ![c] = Unasked]
  BY <1>4, <1>7 DEF ProjectionIInv
<1> QED BY <1>4, <1>5, <1>6, <1>7, <1>8, <1>9, ItemMoves

\* What is queued is admitted by the binding of now and corroborated.
LEMMA PublishKeeps ==
  ASSUME ProjectionIInv, NEW c \in Clips, Publish(c)
  PROVE  ProjectionIInv'
<1> DEFINE x == Completed(clips[c])
<1>1. /\ clips[c] \in Item /\ clips[c].st = "running"
      /\ ItemHolds(clips[c], outgoing[c], provider, link)
      /\ UNCHANGED <<provider, moment, link, fenced>>
  BY DEF Publish, Complete, ProjectionIInv
<1>2. clips[c].result \in Results
  BY <1>1 DEF ItemHolds
<1> DEFINE r == [clips[c].result EXCEPT !.alarm = clips[c].result.alarm /\ clips[c].calibrated]
<1>3. /\ r \in Results /\ (r.alarm = (clips[c].result.alarm /\ clips[c].calibrated))
      /\ r.action = clips[c].result.action /\ r.attention = clips[c].result.attention
      /\ r.strength = clips[c].result.strength /\ r.window = clips[c].result.window
  <2>1. clips[c].calibrated \in BOOLEAN
    BY <1>1 DEF Item
  <2> QED BY <1>2, <2>1 DEF Results
<1>4. x = [clips[c] EXCEPT !.st = "completed", !.result = r]
  BY DEF Completed
<1> HIDE DEF r
<1>5. /\ x \in Item /\ x.st = "completed" /\ x.result = r /\ x.created = clips[c].created
      /\ x.admission = clips[c].admission /\ x.calibrated = clips[c].calibrated
  BY <1>1, <1>3, <1>4 DEF Item
<1>6. clips' = [clips EXCEPT ![c] = x] /\ clips'[c] = x
  BY DEF Publish, Complete, ProjectionIInv
<1> HIDE DEF x
<1>7. Explained(r) /\ (r.alarm => provider.corroborates) /\ ~provider.disabled
  BY <1>1, <1>3 DEF ItemHolds, Explained
<1>8. clips[c].created \in Nat /\ Deadline(c) \in Nat
  BY <1>1, ProjectionAssumption DEF Item, Deadline
<1>9. CASE UNCHANGED outgoing
  <2>1. outgoing[c] = Unasked /\ ItemHolds(x, Unasked, provider, link)
    BY <1>1, <1>3, <1>5, <1>7 DEF ItemHolds
  <2>2. c \in fenced => FencedHolds(x, Unasked, link)
    BY <1>5, <2>1 DEF FencedHolds, ProjectionIInv
  <2>3. outgoing' = [outgoing EXCEPT ![c] = Unasked]
    BY <1>9, <2>1 DEF ProjectionIInv
  <2> QED BY <1>1, <1>5, <1>6, <2>1, <2>2, <2>3, ItemMoves
<1>10. CASE ~UNCHANGED outgoing
  <2> DEFINE row == [admitted |-> clips[c].created, deadline |-> Deadline(c)]
  <2>1. Mapped(c, link.id, link.generation)' = "MAPPED" /\ outgoing' = [outgoing EXCEPT ![c] = row]
    BY <1>10 DEF Publish, Queue, Projected
  <2>2. row \in QueueRow
    BY <1>8 DEF QueueRow
  <2> HIDE DEF row
  <2>3. ~Barred(c, link.id, link.generation)'
    BY <2>1 DEF Mapped
  <2>4. /\ x.admission # Unasked /\ r.alarm
        /\ x.admission.id = link.id /\ x.admission.generation = link.generation
    BY <1>1, <1>5, <1>6, <2>3 DEF Barred
  <2>5. ItemHolds(x, row, provider, link)
    BY <1>1, <1>3, <1>5, <1>7, <2>4 DEF ItemHolds
  <2>6. c \notin fenced
    <3>1. link.id \in Nat /\ link.generation \in Nat
      BY DEF ProjectionIInv
    <3>2. ~Over(x.admission, link)
      BY <2>4, <3>1 DEF Over
    <3> QED BY <1>5, <2>4, <3>2 DEF ProjectionIInv, FencedHolds
  <2> QED BY <1>1, <1>5, <1>6, <2>1, <2>2, <2>5, <2>6, ItemMoves
<1> QED BY <1>9, <1>10

\* A binding that changes is later than every admission, and fences what waits.
LEMMA RelinkKeeps ==
  ASSUME ProjectionIInv, Relink
  PROVE  ProjectionIInv'
<1>1. /\ link' \in [id : Nat, generation : Nat, active : BOOLEAN, activated : Nat]
      /\ \/ link'.id = link.id /\ link'.generation = link.generation + 1
         \/ link.id = 1 /\ link'.id = 2
  <2>1. link \in [id : Nat, generation : Nat, active : BOOLEAN, activated : Nat] /\ moment \in Nat
    BY DEF ProjectionIInv
  <2>2. CASE link' = [link EXCEPT !.generation = @ + 1, !.active = ~@,
                                  !.activated = IF link.active THEN @ ELSE moment]
    <3> DEFINE when == IF link.active THEN link.activated ELSE moment
    <3>1. when \in Nat /\ (~link.active) \in BOOLEAN /\ link.generation + 1 \in Nat
      BY <2>1
    <3>2. link' = [link EXCEPT !.generation = link.generation + 1, !.active = ~link.active,
                               !.activated = when]
      BY <2>2
    <3> HIDE DEF when
    <3>3. \A l \in [id : Nat, generation : Nat, active : BOOLEAN, activated : Nat],
             g \in Nat, a \in BOOLEAN, t \in Nat :
            LET m == [l EXCEPT !.generation = g, !.active = a, !.activated = t]
            IN  /\ m \in [id : Nat, generation : Nat, active : BOOLEAN, activated : Nat]
                /\ m.id = l.id /\ m.generation = g
      OBVIOUS
    <3> QED BY <2>1, <3>1, <3>2, <3>3
  <2>3. CASE link.id = 1 /\ link' = [id |-> 2, generation |-> 2, active |-> TRUE, activated |-> moment]
    BY <2>1, <2>3
  <2> QED BY <2>2, <2>3 DEF Relink
<1>2. /\ fenced' = fenced \cup Waiting
      /\ UNCHANGED <<provider, moment, clips, outgoing>>
  BY DEF Relink
<1>3. \A a \in Admissions : Past(a, link) => Over(a, link')
  BY <1>1 DEF Admissions, Past, Over, ProjectionIInv
<1>4. \A c \in Clips : clips[c].admission # Unasked =>
        clips[c].admission \in Admissions /\ Over(clips[c].admission, link')
  BY <1>3 DEF ProjectionIInv, ItemHolds, Item
<1>5. \A c \in Clips : ItemHolds(clips[c], outgoing[c], provider, link')
  BY <1>4 DEF ProjectionIInv, ItemHolds, Past
<1>6. \A c \in fenced' : c \in Clips /\ FencedHolds(clips[c], outgoing[c], link')
  BY <1>2, <1>4 DEF ProjectionIInv, FencedHolds, ItemHolds, Waiting
<1>7. (\A c \in Clips : ItemHolds(clips[c], outgoing[c], provider, link))'
  BY <1>2, <1>5
<1>8. (\A c \in fenced : FencedHolds(clips[c], outgoing[c], link))'
  BY <1>2, <1>6
<1>9. fenced' \subseteq Clips
  BY <1>6
<1> QED BY <1>1, <1>2, <1>7, <1>8, <1>9 DEF ProjectionIInv

-----------------------------------------------------------------------------
(* Results *)

\* There are no clips at first.
LEMMA ProjectionInitially == ProjectionInit => ProjectionIInv
<1> SUFFICES ASSUME ProjectionInit PROVE ProjectionIInv
  OBVIOUS
<1>1. NoClip \in Item /\ NoClip.st = "NONE" /\ NoClip.result = Unasked /\ NoClip.admission = Unasked
  BY DEF NoClip, Item
<1>2. link \in [id : Nat, generation : Nat, active : BOOLEAN, activated : Nat]
  BY DEF ProjectionInit
<1> QED BY <1>1, <1>2 DEF ProjectionInit, ProjectionIInv, ItemHolds

\* Every step keeps the invariant.
LEMMA ProjectionInductive == ProjectionIInv /\ [ProjectionNext]_projectionVars => ProjectionIInv'
<1> SUFFICES ASSUME ProjectionIInv, [ProjectionNext]_projectionVars PROVE ProjectionIInv'
  OBVIOUS
<1>1. CASE UNCHANGED projectionVars
  BY <1>1 DEF projectionVars, ProjectionIInv
<1>2. ASSUME NEW c \in Clips, AnalysisFails(c) \/ Cancel(c) \/ Remove(c) PROVE ProjectionIInv'
  BY <1>2, OverKeeps DEF AnalysisFails, Failed, Cancel, Remove
<1>3. CASE SetEnvironment
  BY <1>3 DEF SetEnvironment, ProjectionIInv
<1>4. ASSUME NEW t \in 0..MaxMoment, SetClock(t) PROVE ProjectionIInv'
  <2>1. moment' \in Nat
    BY <1>4, ProjectionAssumption DEF SetClock
  <2> QED BY <1>4, <2>1 DEF SetClock, ProjectionIInv
<1> QED BY <1>1, <1>2, <1>3, <1>4, SubmitKeeps, AnalyseKeeps, PublishKeeps, RelinkKeeps
  DEF ProjectionNext

\* The rules agree about every reply there can be, and a launcher without
\* vision has none.
THEOREM AnalysesAreExplained == ProjectionSpec => []AnalysisInv
<1>1. ProjectionIInv => AnalysisInv
  BY DEF ProjectionIInv, ItemHolds, Explained, AnalysisInv, AttentionIsExplained, DisabledForLife, Analysed
<1> QED BY ProjectionInitially, ProjectionInductive, <1>1, PTL DEF ProjectionSpec

\* Only what is validated, of the present binding and still due is exported,
\* however the binding, the clock and the environment change in between.
THEOREM OnlyWhatIsDueLeaves == ProjectionSpec => []ProjectionInv
<1>1. ProjectionIInv => ProjectionInv
  <2> SUFFICES ASSUME ProjectionIInv PROVE ProjectionInv
    OBVIOUS
  <2>1. NothingLeavesUnvalidated
    BY DEF ProjectionIInv, ItemHolds, NothingLeavesUnvalidated
  <2>2. FencedStaysHome
    BY DEF ProjectionIInv, FencedHolds, FencedStaysHome
  <2>3. SendableIsDue
    <3> SUFFICES ASSUME NEW c \in Clips, SourceState(c) = "AVAILABLE"
                 PROVE  /\ clips[c].calibrated /\ clips[c].source # "RECORDED_VIDEO"
                        /\ clips[c].admission.id = link.id
                        /\ clips[c].created <= moment + Early /\ moment < clips[c].created + KeepFor
      BY DEF SendableIsDue
    <3>1. Projected(c, TRUE) = "MAPPED"
      BY DEF SourceState
    <3>2. PICK g : Mapped(c, link.id, g) = "MAPPED"
      BY <3>1 DEF Projected
    <3>3. ~Barred(c, link.id, g) /\ ~(moment >= Deadline(c))
      BY <3>2 DEF Mapped
    <3>4. clips[c].created \in Nat /\ moment \in Nat /\ ItemHolds(clips[c], outgoing[c], provider, link)
      BY DEF ProjectionIInv, Item
    <3>5. /\ clips[c].source # "RECORDED_VIDEO" /\ clips[c].admission.id = link.id
          /\ clips[c].st = "completed" /\ clips[c].result.alarm
          /\ clips[c].created <= moment + Early
      BY <3>3, <3>4, ProjectionAssumption DEF Barred
    <3>6. moment < clips[c].created + KeepFor
      BY <3>3, <3>4, ProjectionAssumption DEF Deadline
    <3> QED BY <3>4, <3>5, <3>6 DEF ItemHolds
  <2> QED BY <2>1, <2>2, <2>3 DEF ProjectionInv
<1> QED BY ProjectionInitially, ProjectionInductive, <1>1, PTL DEF ProjectionSpec

-----------------------------------------------------------------------------
(***************************************************************************)
(* Custody of one product (Custody)                                        *)
(*                                                                         *)
(* A time is set by its fact only and no fact leads back, so the state and the *)
(* times of a record agree.  The record that an alarm is about is the one last *)
(* observed: whatever changes it answers anew.                             *)
(***************************************************************************)

-----------------------------------------------------------------------------
(* The inductive invariant *)

ConcealedAt(r) == r.times["CONCEALMENT_TRANSITION"]
CheckedOutAt(r) == r.times["CHECKOUT_COMPLETED"]
ReturnedAt(r) == r.times["RETURN_TO_SHELF"]

\* What the times and the coverage of any record are.
Timed(r) ==
  /\ r.times \in [Facts -> Int] /\ r.last \in Int /\ r.last >= -1
  /\ r.coverage \in [Coverage -> SUBSET (Nat \X Nat)]
  /\ \A f \in Facts : r.times[f] <= r.last

\* The times of a record belong to its state: nothing that fits leads back to
\* where a product was before it was concealed, paid for or returned.
Agrees(r) ==
  /\ ConcealedAt(r) >= 0 => r.state \in {"CONCEALED_OBSERVED", "PURCHASED"}
  /\ CheckedOutAt(r) >= 0 => r.state = "PURCHASED"
  /\ ReturnedAt(r) >= 0 => r.state = "RETURNED"
  /\ r.state = "PURCHASED" => CheckedOutAt(r) >= 0 /\ CheckedOutAt(r) > Shelf(r)

Sound(r) == Timed(r) /\ (r.compromised \/ Agrees(r))

\* An alarm is about the record as it is: whatever changes it answers anew.
CustodyIInv ==
  /\ \A e \in DOMAIN records : Sound(records[e])
  /\ degraded \in BOOLEAN
  /\ forgotten => degraded
  /\ degraded => answer.decision = "ABSTAIN" /\ ~answer.alarm
  /\ answer.alarm => /\ answer.episode \in DOMAIN records
                     /\ HighAttention(records[answer.episode], FALSE)

-----------------------------------------------------------------------------
(* What an observation does to a record *)

\* A fact's name is one of those that have a time.
LEMMA FactNames ==
  /\ {"SHELF_DEPARTURE", "CONCEALMENT_TRANSITION", "EXIT_CROSSED", "RETURN_TO_SHELF",
      "CHECKOUT_COMPLETED", "NO_MATCHED_CHECKOUT_EVENT"} \subseteq Facts
  /\ Chain[2] = "SHELF_DEPARTURE" /\ Chain[4] = "CONCEALMENT_TRANSITION"
BY DEF Facts, CoreChain, Chain

\* A record that was told nothing.
LEMMA FreshSound == Sound(FreshRecord)
<1> DEFINE none == [f \in Facts |-> -1]
<1>1. /\ none \in [Facts -> Int] /\ \A f \in Facts : none[f] = -1
  OBVIOUS
<1>2. [f \in Coverage |-> {}] \in [Coverage -> SUBSET (Nat \X Nat)]
  OBVIOUS
<1>3. /\ FreshRecord.times = none /\ FreshRecord.last = -1 /\ FreshRecord.state = "ON_SHELF"
      /\ FreshRecord.coverage = [f \in Coverage |-> {}]
  BY DEF FreshRecord
<1> HIDE DEF none
<1> QED BY <1>1, <1>2, <1>3, FactNames DEF Sound, Timed, Agrees, ConcealedAt, CheckedOutAt,
   ReturnedAt, Shelf

\* Every report has its time and an interval.
LEMMA ReportedAt ==
  ASSUME NEW at \in Nat, NEW o \in Observations(at)
  PROVE  o.at = at /\ o.window \in Nat \X Nat
<1> DEFINE Seen(windows) == \E F, E, W, H : o \in
             [fact : F, camera : E, at : {at}, sound : BOOLEAN, window : windows,
              watermark : W, healthy : H]
<1>1. Seen({<<0, 0>>}) \/ \E w \in Windows : Seen({w[2]})
  BY DEF Observations
<1>2. \A w \in Windows : w[2] \in Nat \X Nat
  BY CustodyAssumption
<1>3. ASSUME NEW windows, Seen(windows) PROVE o.at = at /\ o.window \in windows
  BY <1>3
<1> HIDE DEF Seen
<1>4. CASE Seen({<<0, 0>>})
  BY <1>3, <1>4
<1>5. ASSUME NEW w \in Windows, Seen({w[2]}) PROVE o.at = at /\ o.window \in Nat \X Nat
  <2>1. o.at = at /\ o.window \in {w[2]}
    BY <1>3, <1>5
  <2> QED BY <1>2, <2>1
<1> QED BY <1>1, <1>4, <1>5

\* A fact that fits moves the record to the state its time belongs to.
LEMMA AfterSound ==
  ASSUME NEW r, Sound(r), NEW at \in Nat, at > r.last, NEW o \in Observations(at)
  PROVE  Sound(After(r, o))
<1> DEFINE q == After(r, o)
<1>1. o.at = at /\ o.window \in Nat \X Nat
  BY ReportedAt
<1>2. /\ q.times = [r.times EXCEPT ![o.fact] = at] /\ q.last = at
      /\ q.state = Moved(r.state, o.fact) /\ q.compromised = (r.compromised \/ ~Fits(r, o))
      /\ q.coverage = [f \in Coverage |->
           IF f = o.fact /\ o.window[1] <= o.window[2] THEN r.coverage[f] \cup {o.window}
           ELSE r.coverage[f]]
  BY <1>1 DEF After
<1> HIDE DEF q
<1>3. /\ q.times \in [Facts -> Int] /\ q.last \in Int /\ q.last >= -1
      /\ \A f \in Facts : q.times[f] = (IF f = o.fact THEN at ELSE r.times[f])
  <2>1. r.times \in [Facts -> Int] /\ at \in Int
    BY DEF Sound, Timed
  <2>2. \A f \in Facts : q.times[f] = (IF f = o.fact THEN at ELSE r.times[f])
    BY <1>2, <2>1
  <2>3. q.times \in [Facts -> Int]
    BY <1>2, <2>1
  <2> QED BY <1>2, <2>2, <2>3
<1>4. \A f \in Facts : q.times[f] <= q.last
  BY <1>2, <1>3 DEF Sound, Timed
<1>5. q.coverage \in [Coverage -> SUBSET (Nat \X Nat)]
  <2>1. \A f \in Coverage : r.coverage[f] \in SUBSET (Nat \X Nat)
    BY DEF Sound, Timed
  <2>2. \A f \in Coverage :
          (IF f = o.fact /\ o.window[1] <= o.window[2] THEN r.coverage[f] \cup {o.window}
           ELSE r.coverage[f]) \in SUBSET (Nat \X Nat)
    BY <1>1, <2>1
  <2> QED BY <1>2, <2>2
<1>6. ASSUME ~q.compromised PROVE Agrees(q)
  <2>1. Agrees(r) /\ r.state \in Expected(o.fact)
    BY <1>2, <1>6 DEF Sound, Fits
  <2>2. /\ ConcealedAt(q) = (IF o.fact = "CONCEALMENT_TRANSITION" THEN at ELSE ConcealedAt(r))
        /\ CheckedOutAt(q) = (IF o.fact = "CHECKOUT_COMPLETED" THEN at ELSE CheckedOutAt(r))
        /\ ReturnedAt(q) = (IF o.fact = "RETURN_TO_SHELF" THEN at ELSE ReturnedAt(r))
        /\ Shelf(q) = (IF o.fact = "SHELF_DEPARTURE" THEN at ELSE Shelf(r))
    BY <1>3, FactNames DEF ConcealedAt, CheckedOutAt, ReturnedAt, Shelf
  <2>3. {ConcealedAt(r), CheckedOutAt(r), ReturnedAt(r), Shelf(r)} \subseteq Int /\ Shelf(r) < at
    BY FactNames DEF Sound, Timed, ConcealedAt, CheckedOutAt, ReturnedAt, Shelf
  <2> DEFINE Moving == {"SHELF_DEPARTURE", "HAND_CUSTODY", "RETURN_TO_SHELF", "PLACE_IN_BASKET",
                        "CONCEALMENT_TRANSITION", "CHECKOUT_COMPLETED"}
  <2>4. CASE o.fact \notin Moving
    BY <1>2, <2>1, <2>2, <2>4 DEF Agrees, Moved
  <2>5. CASE o.fact \in {"SHELF_DEPARTURE", "HAND_CUSTODY", "PLACE_IN_BASKET"}
    BY <1>2, <2>1, <2>2, <2>5 DEF Agrees, Moved, Expected
  <2>6. CASE o.fact \in {"RETURN_TO_SHELF", "CONCEALMENT_TRANSITION"}
    BY <1>2, <2>1, <2>2, <2>6 DEF Agrees, Moved, Expected
  <2>7. CASE o.fact = "CHECKOUT_COMPLETED"
    BY <1>2, <2>1, <2>2, <2>3, <2>7 DEF Agrees, Moved, Expected
  <2> QED BY <2>4, <2>5, <2>6, <2>7
<1>7. Sound(q)
  BY <1>3, <1>4, <1>5, <1>6 DEF Sound, Timed
<1> QED BY <1>7 DEF q

-----------------------------------------------------------------------------
(* What the operations keep *)

\* Whatever is decided of an engine that dropped something is that it abstains,
\* and an alarm is about the record it was decided on.
LEMMA Assessed ==
  ASSUME NEW e, NEW r, NEW lost \in BOOLEAN, Assess(e, r, lost)
  PROVE  /\ answer'.episode = e
         /\ answer'.alarm => ~lost /\ HighAttention(r, FALSE)
         /\ lost => answer'.decision = "ABSTAIN" /\ ~answer'.alarm
<1>1. answer' = [episode |-> e, decision |-> Decision(r, lost),
                 alarm |-> Decision(r, lost) = "HIGH_ATTENTION" /\ ~lost]
  BY DEF Assess
<1>2. lost => Decision(r, lost) = "ABSTAIN"
  BY DEF Decision, HighAttention
<1>3. ~lost /\ Decision(r, lost) = "HIGH_ATTENTION" => HighAttention(r, FALSE)
  BY DEF Decision, HighAttention
<1> QED BY <1>1, <1>2, <1>3

\* A record that is kept and assessed, whichever others are.
LEMMA AnsweredFor ==
  ASSUME CustodyIInv, NEW e, NEW r, Sound(r), degraded' \in BOOLEAN, NEW kept,
         kept \subseteq DOMAIN records,
         records' = [d \in kept \cup {e} |-> IF d = e THEN r ELSE records[d]],
         Assess(e, r, degraded'), forgotten' => degraded'
  PROVE  CustodyIInv'
<1>1. /\ DOMAIN records' = kept \cup {e} /\ records'[e] = r
      /\ \A d \in kept \ {e} : records'[d] = records[d]
  OBVIOUS
<1>2. /\ answer'.episode = e
      /\ answer'.alarm => ~degraded' /\ HighAttention(r, FALSE)
      /\ degraded' => answer'.decision = "ABSTAIN" /\ ~answer'.alarm
  BY Assessed
<1>3. \A d \in DOMAIN records' : Sound(records'[d])
  BY <1>1 DEF CustodyIInv
<1>4. answer'.alarm => /\ answer'.episode \in DOMAIN records'
                       /\ HighAttention(records'[answer'.episode], FALSE)
  BY <1>1, <1>2
<1> QED BY <1>2, <1>3, <1>4 DEF CustodyIInv, HighAttention, WholeChain, OrderedChain,
   CoverageComplete, Covers, TillFinalized, Resolved, Shelf, Exit

\* What is known of an episode is sound.
LEMMA RecordOfSound == ASSUME CustodyIInv, NEW e PROVE Sound(RecordOf(e))
BY FreshSound DEF RecordOf, CustodyIInv

\* An observation, whichever record makes room for it.
LEMMA ObserveKeeps ==
  ASSUME CustodyIInv, NEW e, NEW at \in Nat, NEW o \in Observations(at), Observe(e, o)
  PROVE  CustodyIInv'
<1> DEFINE r == After(RecordOf(e), o)
<1>1. o.at = at /\ at > RecordOf(e).last
  BY ReportedAt DEF Observe
<1>2. Sound(r)
  BY <1>1, RecordOfSound, AfterSound
<1>3. PICK gone \in MakesRoom(e) :
        /\ records' = [d \in (DOMAIN records \ gone) \cup {e} |-> IF d = e THEN r ELSE records[d]]
        /\ forgotten' = (forgotten \/ gone # {} \/ RecordOf(e).events = MaxEvents)
        /\ degraded' = (degraded \/ gone # {} \/ RecordOf(e).events = MaxEvents)
  BY DEF Observe
<1>4. Assess(e, r, degraded')
  BY DEF Observe
<1>5. degraded' \in BOOLEAN /\ (forgotten' => degraded')
  BY <1>3 DEF CustodyIInv
<1> HIDE DEF r
<1> QED BY <1>2, <1>3, <1>4, <1>5, DOMAIN records \ gone \subseteq DOMAIN records, AnsweredFor

\* An event that was seen before, and one that contradicts what was.
LEMMA SeenBeforeKeeps ==
  ASSUME CustodyIInv, NEW e, Repeated(e) \/ Conflict(e)
  PROVE  CustodyIInv'
<1>1. /\ e \in DOMAIN records /\ Sound(records[e]) /\ degraded' \in BOOLEAN
      /\ forgotten' => degraded'
  BY DEF Repeated, Conflict, CustodyIInv
<1>2. CASE Repeated(e)
  <2>1. records' = records /\ degraded' = degraded /\ Assess(e, records[e], degraded)
    BY <1>2 DEF Repeated
  <2>2. /\ answer'.episode = e
        /\ answer'.alarm => HighAttention(records[e], FALSE)
        /\ degraded => answer'.decision = "ABSTAIN" /\ ~answer'.alarm
    BY <2>1, Assessed DEF CustodyIInv
  <2> QED BY <1>1, <2>1, <2>2 DEF CustodyIInv, HighAttention, WholeChain, OrderedChain,
     CoverageComplete, Covers, TillFinalized, Resolved, Shelf, Exit
<1>3. CASE Conflict(e)
  <2> DEFINE r == [records[e] EXCEPT !.compromised = TRUE]
  <2>1. Sound(r)
    BY <1>1 DEF Sound, Timed
  <2>2. records' = [d \in DOMAIN records \cup {e} |-> IF d = e THEN r ELSE records[d]]
    BY <1>1, <1>3 DEF Conflict
  <2>3. Assess(e, r, degraded')
    BY <1>1, <1>3, <2>2 DEF Conflict, Assess
  <2> QED BY <1>1, <2>1, <2>2, <2>3, AnsweredFor
<1> QED BY <1>2, <1>3

\* The engine starts without records.
LEMMA CustodyInitially == CustodyInit => CustodyIInv
<1> SUFFICES ASSUME CustodyInit PROVE CustodyIInv
  OBVIOUS
<1>1. DOMAIN records = {} /\ degraded = FALSE /\ forgotten = FALSE
  BY DEF CustodyInit
<1>2. answer.alarm = FALSE
  BY DEF CustodyInit, NoAnswerYet
<1> QED BY <1>1, <1>2 DEF CustodyIInv

\* Every observation and a reset keep the invariant.
LEMMA CustodyInductive == CustodyIInv /\ [CustodyNext]_custodyVars => CustodyIInv'
<1> SUFFICES ASSUME CustodyIInv, [CustodyNext]_custodyVars PROVE CustodyIInv'
  OBVIOUS
<1>1. CASE UNCHANGED custodyVars
  BY <1>1 DEF custodyVars, CustodyIInv, HighAttention, WholeChain, OrderedChain, CoverageComplete,
     Covers, TillFinalized, Resolved, Shelf, Exit
<1>2. ASSUME NEW e \in Episodes, NEW at \in {RecordOf(e).last + 1} \cap 0 .. MaxAt,
             NEW o \in Observations(at), Observe(e, o)
      PROVE  CustodyIInv'
  BY <1>2, ObserveKeeps, CustodyAssumption
<1>3. CASE Reset
  BY <1>3 DEF Reset, CustodyIInv, NoAnswerYet
<1> QED BY <1>1, <1>2, <1>3, SeenBeforeKeeps DEF CustodyNext

-----------------------------------------------------------------------------
(* Result *)

\* What the engine alarms about is unresolved, covered from the shelf to the
\* exit and known in full, for any number of episodes, facts and repetitions.
THEOREM AlarmsAreKnownInFull == CustodySpec => []CustodyInv
<1>1. CustodyIInv => CustodyInv
  <2>0. CustodyIInv => NothingForgotten
    BY DEF CustodyIInv, NothingForgotten
  <2> SUFFICES ASSUME CustodyIInv, answer.alarm
               PROVE  AlarmIsUnresolved /\ AlarmIsCovered
    BY <2>0 DEF CustodyInv, AlarmIsUnresolved, AlarmIsCovered
  <2> DEFINE r == RecordOf(answer.episode)
  <2>1. Timed(r) /\ Agrees(r) /\ HighAttention(r, FALSE)
    BY DEF CustodyIInv, RecordOf, Sound, HighAttention
  <2> HIDE DEF r
  <2>2. /\ ConcealedAt(r) >= 0 /\ CheckedOutAt(r) < Shelf(r)
    BY <2>1 DEF HighAttention, WholeChain, Resolved, CoreChain, Chain, ConcealedAt, CheckedOutAt
  <2>3. {ConcealedAt(r), CheckedOutAt(r), ReturnedAt(r), Shelf(r), Exit(r), r.last,
         r.times["NO_MATCHED_CHECKOUT_EVENT"]} \subseteq Int
    BY <2>1, FactNames DEF Timed, ConcealedAt, CheckedOutAt, ReturnedAt, Shelf, Exit
  <2>4. r.state = "CONCEALED_OBSERVED" /\ CheckedOutAt(r) < 0 /\ ReturnedAt(r) < 0
    BY <2>1, <2>2, <2>3 DEF Agrees
  <2>5. AlarmIsUnresolved
    BY <2>4 DEF AlarmIsUnresolved, r, CheckedOutAt, ReturnedAt
  <2>6. r.last >= Exit(r) + Grace /\ r.watermark >= Exit(r)
    BY <2>1, <2>3, FactNames, CustodyAssumption DEF HighAttention, WholeChain, TillFinalized, Timed
  <2>7. \A f \in Coverage, t \in Shelf(r) .. Exit(r) - 1 :
          \E w \in r.coverage[f] : w[1] <= t /\ t < w[2]
    <3> SUFFICES ASSUME NEW f \in Coverage, NEW t \in Shelf(r) .. Exit(r) - 1
                 PROVE  \E w \in r.coverage[f] : w[1] <= t /\ t < w[2]
      OBVIOUS
    <3>1. PICK w \in r.coverage[f] : w[1] <= t /\ t + 1 <= w[2]
      BY <2>1 DEF HighAttention, WholeChain, CoverageComplete, Covers
    <3>2. w[2] \in Nat /\ t \in Int
      BY <2>1, <2>3, <3>1 DEF Timed
    <3> QED BY <3>1, <3>2
  <2>8. AlarmIsCovered
    BY <2>6, <2>7 DEF AlarmIsCovered, r
  <2> QED BY <2>5, <2>8
<1> QED BY CustodyInitially, CustodyInductive, <1>1, PTL DEF CustodySpec
=============================================================================
