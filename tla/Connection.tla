----------------------------- MODULE Connection -----------------------------
(***************************************************************************)
(* Pairing a laptop with the cloud (src/services/api/cloud_connection.py,  *)
(* with what cloud_transport.py can answer).  A manager's request closes   *)
(* its transaction, talks to the cloud, and authenticates again before it  *)
(* writes; prepare, confirm and resume exclude each other by io_lock,      *)
(* pause and disconnect do not.  Account, branch, connection, private file *)
(* and cloud may change in between, an answer may be lost, and the process *)
(* may stop.  A preparation, its binding and its private file share one    *)
(* identifier here.                                                        *)
(***************************************************************************)
EXTENDS Integers, FiniteSets

CONSTANTS
  Preparations,   \* preparation_id, binding id and credential handle
  Codes,          \* one-use codes; a code's device has its name
  Actors,         \* what actor() returns: account, branch, session, passphrase
  Absent,         \* no code, no actor, no preparation
  BranchOf,       \* the branch of an actor
  MaxGeneration,  \* 2147483647
  MaxAttempts     \* MAX_ATTEMPTS, 32

ASSUME ConnectionAssumption ==
  /\ Absent \notin Preparations \cup Codes \cup Actors
  /\ MaxGeneration \in Nat \ {0} /\ MaxAttempts \in Nat
  /\ DOMAIN BranchOf = Actors

VARIABLES
  managers,   \* the actors whose session is still a manager's
  attempts,   \* ATTEMPTS_KEY
  bindings,   \* cloud_sync_bindings
  vault,      \* the private files
  remote,     \* the devices in the cloud console
  calls,      \* requests between two transactions, by operation
  offered     \* history: how often a code was sent to the cloud

connectionVars == <<managers, attempts, bindings, vault, remote, calls, offered>>

Operations == {"PREPARE", "CONFIRM", "RESUME", "DISCONNECT"}
IdleCall == [at |-> "IDLE", id |-> Absent, actor |-> Absent, generation |-> 0,
             face |-> 0, stopped |-> FALSE]   \* stopped: history, see Pause
NoAttempt == [st |-> "NONE", code |-> Absent, actor |-> Absent, over |-> FALSE,
              print |-> {}, face |-> 0]
NoBinding == [st |-> "NONE", generation |-> 0, branch |-> Absent]

ConnectionInit ==
  /\ managers = Actors
  /\ attempts = [p \in Preparations |-> NoAttempt]
  /\ bindings = [p \in Preparations |-> NoBinding]
  /\ vault = [p \in Preparations |-> "NONE"]
  /\ remote = [c \in Codes |-> [st |-> "NONE", face |-> 1]]
  /\ calls = [o \in Operations |-> IdleCall]
  /\ offered = [c \in Codes |-> 0]

-----------------------------------------------------------------------------
(* What the handlers ask *)

Fingerprint == {<<p, bindings[p].generation, bindings[p].st>> :
                 p \in {q \in Preparations : bindings[q].st # "NONE"}}
Live(p) == bindings[p].st \in {"ACTIVE", "PAUSED"}
IoFree == \A o \in Operations \ {"DISCONNECT"} : calls[o].at = "IDLE"
Free(o) == IF o = "DISCONNECT" THEN calls[o].at = "IDLE" ELSE IoFree

\* fresh
FreshActor(a) == a \in managers

\* preparation
Available(p, a) ==
  /\ attempts[p].actor = a /\ attempts[p].st = "PREPARED" /\ ~attempts[p].over
  /\ attempts[p].print = Fingerprint

\* binding
ExpectedBinding(p, a, generation) ==
  /\ bindings[p].st # "NONE" /\ bindings[p].branch = BranchOf[a]
  /\ bindings[p].generation = generation

Returns(o) == calls' = [calls EXCEPT ![o] = IdleCall]

-----------------------------------------------------------------------------
(* prepare *)

Unused(c) == \A p \in Preparations : attempts[p].code # c

Prepare(p, a, c) ==
  /\ Free("PREPARE") /\ a \in managers
  /\ attempts[p].st = "NONE" /\ \A q \in Preparations : ~Live(q)
  /\ Unused(c)
  /\ \A q \in Preparations :
       attempts[q].st \in {"PREPARING", "PREPARED"} => attempts[q].over
  /\ Cardinality({q \in Preparations : attempts[q].st # "NONE"}) < MaxAttempts
  /\ attempts' = [attempts EXCEPT ![p] =
       [NoAttempt EXCEPT !.st = "PREPARING", !.code = c, !.actor = a,
                         !.print = Fingerprint]]
  /\ calls' = [calls EXCEPT !["PREPARE"] =
       [IdleCall EXCEPT !.at = "ASKING", !.id = p, !.actor = a]]
  /\ UNCHANGED <<managers, bindings, vault, remote, offered>>

\* The code is sent, once.  The cloud may take it and the answer be lost.
Enrol ==
  LET k == calls["PREPARE"]
      c == attempts[k.id].code IN
  /\ k.at = "ASKING"
  /\ offered' = [offered EXCEPT ![c] = offered[c] + 1]
  /\ \/ /\ remote' = [remote EXCEPT ![c].st = "ENROLLED"]
        /\ calls' = [calls EXCEPT !["PREPARE"].at = "ENROLLED"]
     \/ /\ remote' \in {remote, [remote EXCEPT ![c].st = "ENROLLED"]}
        /\ calls' = [calls EXCEPT !["PREPARE"].at = "FAILING"]
  /\ UNCHANGED <<managers, attempts, bindings, vault>>

\* The private file is written and the identity asked for.
Learn ==
  LET k == calls["PREPARE"]
      c == attempts[k.id].code IN
  /\ k.at = "ENROLLED"
  /\ \/ /\ remote[c].st = "ENROLLED"
        /\ vault' = [vault EXCEPT ![k.id] = "OK"]
        /\ calls' = [calls EXCEPT !["PREPARE"].at = "KNOWN",
                                  !["PREPARE"].face = remote[c].face]
     \/ /\ vault' \in {vault, [vault EXCEPT ![k.id] = "OK"]}
        /\ calls' = [calls EXCEPT !["PREPARE"].at = "FAILING"]
  /\ UNCHANGED <<managers, attempts, bindings, remote, offered>>

Prepared ==
  LET k == calls["PREPARE"] IN
  /\ k.at = "KNOWN"
  /\ IF /\ FreshActor(k.actor) /\ ~attempts[k.id].over
        /\ attempts[k.id].print = Fingerprint
     THEN /\ attempts' = [attempts EXCEPT ![k.id].st = "PREPARED", ![k.id].face = k.face]
          /\ Returns("PREPARE")
     ELSE /\ calls' = [calls EXCEPT !["PREPARE"].at = "FAILING"]
          /\ UNCHANGED attempts
  /\ UNCHANGED <<managers, bindings, vault, remote, offered>>

\* A failed attempt that is forgotten.
ForgetsAttempt ==
  LET k == calls["PREPARE"] IN
  /\ k.at = "FAILING"
  /\ attempts' = [attempts EXCEPT ![k.id] = NoAttempt]
  /\ Returns("PREPARE")
  /\ UNCHANGED <<managers, bindings, vault, remote, offered>>

\* uncertain: needs no session any more
Uncertain ==
  LET k == calls["PREPARE"] IN
  /\ k.at = "FAILING"
  /\ attempts' = [attempts EXCEPT
       ![k.id].st = IF attempts[k.id].st = "PREPARING" THEN "UNCERTAIN" ELSE attempts[k.id].st]
  /\ Returns("PREPARE")
  /\ UNCHANGED <<managers, bindings, vault, remote, offered>>

-----------------------------------------------------------------------------
(* confirm *)

Confirm(p, a) ==
  /\ Free("CONFIRM") /\ a \in managers
  /\ Available(p, a) /\ vault[p] = "OK"
  /\ calls' = [calls EXCEPT !["CONFIRM"] =
       [IdleCall EXCEPT !.at = "ASKING", !.id = p, !.actor = a]]
  /\ UNCHANGED <<managers, attempts, bindings, vault, remote, offered>>

\* What the cloud says of a device: itself, or a refusal or no answer
RemoteAnswers(o, same) ==
  /\ calls[o].at = "ASKING"
  /\ \/ same /\ calls' = [calls EXCEPT ![o].at = "CHECKED"]
     \/ Returns(o)
  /\ UNCHANGED <<managers, attempts, bindings, vault, remote, offered>>

ConfirmAnswered ==
  LET r == attempts[calls["CONFIRM"].id] IN
  RemoteAnswers("CONFIRM", remote[r.code] = [st |-> "ENROLLED", face |-> r.face])

Refused(o) == Returns(o) /\ UNCHANGED <<attempts, bindings>>

Confirmed ==
  LET k == calls["CONFIRM"] IN
  /\ k.at = "CHECKED"
  /\ IF /\ FreshActor(k.actor) /\ Available(k.id, k.actor)
        /\ vault[k.id] = "OK"
        /\ \A q \in Preparations : ~Live(q)    \* cloud_sync_one_binding
     THEN /\ bindings' = [bindings EXCEPT ![k.id] =
               [st |-> "PAUSED", generation |-> 1, branch |-> BranchOf[k.actor]]]
          /\ attempts' = [attempts EXCEPT ![k.id].st = "CONFIRMED"]
          /\ Returns("CONFIRM")
     ELSE Refused("CONFIRM")
  /\ UNCHANGED <<managers, vault, remote, offered>>

-----------------------------------------------------------------------------
(* pause, resume, disconnect *)

\* A pause that starts no new generation.
SameGeneration(n) == n

Above(n) == IF n >= MaxGeneration THEN n ELSE n + 1

\* _pause_row: a stop needs no key and fences what is in flight.
PauseRow(p) ==
  /\ bindings' = [bindings EXCEPT ![p].st = "PAUSED",
                                  ![p].generation = Above(bindings[p].generation)]
  /\ calls' = [calls EXCEPT !["RESUME"].stopped =
       calls["RESUME"].stopped \/ calls["RESUME"].id = p]

Pause(p, a) ==
  /\ a \in managers /\ Live(p) /\ bindings[p].branch = BranchOf[a]
  /\ PauseRow(p)
  /\ UNCHANGED <<managers, attempts, vault, remote, offered>>

\* pause_error, by the delivery worker
PauseError(p) ==
  /\ bindings[p].st = "ACTIVE"
  /\ PauseRow(p)
  /\ UNCHANGED <<managers, attempts, vault, remote, offered>>

\* change, up to the end of its first transaction
Change(o, p, a) ==
  /\ o \in {"RESUME", "DISCONNECT"} /\ Free(o)
  /\ a \in managers /\ Live(p) /\ bindings[p].branch = BranchOf[a] /\ vault[p] = "OK"
  /\ calls' = [calls EXCEPT ![o] =
       [IdleCall EXCEPT !.at = IF o = "RESUME" THEN "ASKING" ELSE "CHECKED",
                        !.id = p, !.actor = a, !.generation = bindings[p].generation]]
  /\ UNCHANGED <<managers, attempts, bindings, vault, remote, offered>>

\* Only the identifiers count here, not the names.
ResumeAnswered ==
  LET r == attempts[calls["RESUME"].id] IN
  RemoteAnswers("RESUME", remote[r.code].st = "ENROLLED")

StillAllowed(k) ==
  /\ FreshActor(k.actor) /\ ExpectedBinding(k.id, k.actor, k.generation)
  /\ vault[k.id] = "OK" /\ Live(k.id)

Resumed ==
  LET k == calls["RESUME"] IN
  /\ k.at = "CHECKED"
  /\ IF StillAllowed(k) /\ (bindings[k.id].st = "ACTIVE" \/ k.generation < MaxGeneration)
     THEN /\ bindings' = IF bindings[k.id].st = "ACTIVE" THEN bindings
                         ELSE [bindings EXCEPT ![k.id].st = "ACTIVE",
                                               ![k.id].generation = k.generation + 1]
          /\ Returns("RESUME") /\ UNCHANGED attempts
     ELSE Refused("RESUME")
  /\ UNCHANGED <<managers, vault, remote, offered>>

Disconnected ==
  LET k == calls["DISCONNECT"] IN
  /\ k.at = "CHECKED"
  /\ IF StillAllowed(k) /\ k.generation < MaxGeneration
     THEN /\ bindings' = [bindings EXCEPT ![k.id].st = "DISCONNECTED",
                                          ![k.id].generation = k.generation + 1]
          /\ Returns("DISCONNECT") /\ UNCHANGED attempts
     ELSE Refused("DISCONNECT")
  /\ UNCHANGED <<managers, vault, remote, offered>>

-----------------------------------------------------------------------------
(* Everything else that moves, while it matters to an attempt or a connection *)

InUse(p) == attempts[p].st \in {"PREPARING", "PREPARED"} \/ Live(p)

\* Signed out, another branch, another passphrase, no manager any more
ActorEnds(a) ==
  /\ a \in managers
  /\ managers' = managers \ {a}
  /\ UNCHANGED <<attempts, bindings, vault, remote, calls, offered>>

\* Five minutes
Over(p) ==
  /\ attempts[p].st \in {"PREPARING", "PREPARED"} /\ ~attempts[p].over
  /\ attempts' = [attempts EXCEPT ![p].over = TRUE]
  /\ UNCHANGED <<managers, bindings, vault, remote, calls, offered>>

FileLost(p) ==
  /\ vault[p] = "OK" /\ InUse(p)
  /\ vault' = [vault EXCEPT ![p] = "LOST"]
  /\ UNCHANGED <<managers, attempts, bindings, remote, calls, offered>>

ConsoleRenames(c) ==
  /\ remote[c] = [st |-> "ENROLLED", face |-> 1]
  /\ \E p \in Preparations : InUse(p) /\ attempts[p].code = c
  /\ remote' = [remote EXCEPT ![c].face = 2]
  /\ UNCHANGED <<managers, attempts, bindings, vault, calls, offered>>

ConsoleRevokes(c) ==
  /\ remote[c].st = "ENROLLED" /\ \E p \in Preparations : InUse(p) /\ attempts[p].code = c
  /\ remote' = [remote EXCEPT ![c].st = "REVOKED"]
  /\ UNCHANGED <<managers, attempts, bindings, vault, calls, offered>>

LaptopStops ==
  /\ \E o \in Operations : calls[o].at # "IDLE"
  /\ calls' = [o \in Operations |-> IdleCall]
  /\ UNCHANGED <<managers, attempts, bindings, vault, remote, offered>>

-----------------------------------------------------------------------------

ConnectionNext ==
  \/ \E p \in Preparations, a \in Actors :
       \/ \E c \in Codes : Prepare(p, a, c)
       \/ Confirm(p, a)
       \/ Pause(p, a)
       \/ \E o \in Operations : Change(o, p, a)
  \/ Enrol \/ Learn \/ Prepared \/ Uncertain
  \/ ConfirmAnswered \/ Confirmed
  \/ ResumeAnswered \/ Resumed
  \/ Disconnected
  \/ \E a \in Actors : ActorEnds(a)
  \/ \E p \in Preparations : PauseError(p) \/ Over(p) \/ FileLost(p)
  \/ \E c \in Codes : ConsoleRenames(c) \/ ConsoleRevokes(c)
  \/ LaptopStops

ConnectionSpec == ConnectionInit /\ [][ConnectionNext]_connectionVars

-----------------------------------------------------------------------------
(* Properties *)

\* A one-use code leaves the laptop once, whatever became of the answer.
CodeSpentOnce == \A c \in Codes : offered[c] <= 1

\* A device the cloud registered is never unknown here: the attempt that
\* carried its code survives the crash and the lost answer.
EnrolmentIsRecorded ==
  \A c \in Codes : remote[c].st # "NONE" =>
    \E p \in Preparations : attempts[p].code = c /\ attempts[p].st # "NONE"

Becomes(p, states) == bindings[p].st \notin states /\ bindings'[p].st \in states

\* Whoever stops sharing stays obeyed: no resume that was under way when a
\* manager or the worker paused the connection opens it again.
StopHolds(p) == Becomes(p, {"ACTIVE"}) => ~calls["RESUME"].stopped

\* A connection is made, opened or closed by somebody who is a manager of its
\* branch at that moment, not when the request began.
ActorIsCurrent(p) ==
  /\ Becomes(p, {"ACTIVE"}) => /\ calls["RESUME"].actor \in managers
                               /\ BranchOf[calls["RESUME"].actor] = bindings[p].branch
  /\ bindings[p].st = "NONE" /\ bindings'[p].st # "NONE" => calls["CONFIRM"].actor \in managers
  /\ Becomes(p, {"DISCONNECTED"}) => calls["DISCONNECT"].actor \in managers

\* One connection at a time, and each was confirmed by hand: nothing that
\* was only prepared, or is uncertain, has a binding.
OneConnection ==
  /\ Cardinality({p \in Preparations : Live(p)}) <= 1
  /\ \A p \in Preparations : bindings[p].st # "NONE" => attempts[p].st = "CONFIRMED"

\* A code is spent once, what it bought is recorded, and one connection is live.
ConnectionInv == CodeSpentOnce /\ EnrolmentIsRecorded /\ OneConnection

\* Between the two transactions of a request others may stop the connection or
\* lose their role: neither is overruled by what the first transaction saw.
RequestsAreCurrent ==
  [][\A p \in Preparations : StopHolds(p) /\ ActorIsCurrent(p)]_connectionVars
=============================================================================
