------------------------- MODULE InstallationProofs -------------------------
(***************************************************************************)
(* What outlives a process of the pharmacy laptop, for every value of the  *)
(* constants: the pairing with the cloud (Connection), the database file   *)
(* (Database), and a backup and its restore (Recovery).  The three parts   *)
(* share no variable; each has its inductive invariant and its theorems.   *)
(***************************************************************************)
EXTENDS Connection, Database, Recovery, FiniteSetTheorems, TLAPS

-----------------------------------------------------------------------------
(***************************************************************************)
(* Pairing with the cloud (Connection)                                     *)
(*                                                                         *)
(* Pairing, for any number of preparations, codes and actors, and any      *)
(* interleaving of the requests, lost answers and stops.  Codes and        *)
(* enrolments rest on the attempt that is committed before the code is     *)
(* sent; one connection rests on an attempt being confirmed in the         *)
(* transaction that makes its binding; and a stop rests on the generation, *)
(* which a resume under way has either lost or can no longer raise.        *)
(***************************************************************************)

-----------------------------------------------------------------------------
(* The inductive invariant *)

Prints == SUBSET (Preparations \X Nat \X {"NONE", "ACTIVE", "PAUSED", "DISCONNECTED"})
Branches == {BranchOf[a] : a \in Actors} \cup {Absent}

Attempt ==
  [st : {"NONE", "PREPARING", "PREPARED", "UNCERTAIN", "CONFIRMED"}, code : Codes \cup {Absent},
   actor : Actors \cup {Absent}, over : BOOLEAN, print : Prints, face : {0, 1, 2}]
Binding ==
  [st : {"NONE", "ACTIVE", "PAUSED", "DISCONNECTED"}, generation : Nat, branch : Branches]
Device == [st : {"NONE", "ENROLLED", "REVOKED"}, face : {1, 2}]
Call ==
  {IdleCall} \cup
  [at : {"ASKING", "ENROLLED", "KNOWN", "FAILING", "CHECKED"}, id : Preparations,
   actor : Actors, generation : Nat, face : {0, 1, 2}, stopped : BOOLEAN]

Types ==
  /\ attempts \in [Preparations -> Attempt]
  /\ bindings \in [Preparations -> Binding]
  /\ remote \in [Codes -> Device]
  /\ calls \in [Operations -> Call]
  /\ offered \in [Codes -> {0, 1}]

\* A code the cloud may know is in an attempt.
CodesRecorded ==
  /\ \A p \in Preparations : attempts[p].st # "NONE" <=> attempts[p].code \in Codes
  /\ \A c \in Codes : offered[c] = 1 => \E p \in Preparations : attempts[p].code = c
  /\ \A c \in Codes : remote[c].st # "NONE" => offered[c] = 1

\* The attempt that a preparation is about, whose code it has not sent yet.
PrepareKnows ==
  calls["PREPARE"].at # "IDLE" =>
    /\ calls["PREPARE"].id \in Preparations
    /\ attempts[calls["PREPARE"].id].st = "PREPARING"
    /\ calls["PREPARE"].at = "ASKING" => offered[attempts[calls["PREPARE"].id].code] = 0

\* What is connected was confirmed, and is the only one.
Connected ==
  /\ \A p \in Preparations : bindings[p].st # "NONE" => attempts[p].st = "CONFIRMED"
  /\ \A p, q \in Preparations : Live(p) /\ Live(q) => p = q

\* A resume that was overtaken by a stop is a generation behind it, or at the
\* last one, where it opens nothing.
ResumeKnows ==
  LET k == calls["RESUME"] IN
  /\ k.at = "IDLE" => k.id = Absent /\ ~k.stopped
  /\ k.at # "IDLE" =>
       /\ k.id \in Preparations /\ bindings[k.id].st # "NONE"
       /\ k.generation <= bindings[k.id].generation
       /\ k.stopped => \/ k.generation < bindings[k.id].generation
                       \/ bindings[k.id].generation >= MaxGeneration

ConnectionIInv == Types /\ CodesRecorded /\ PrepareKnows /\ Connected /\ ResumeKnows

-----------------------------------------------------------------------------
(* Records *)

\* What is not there yet has the shape of what will be.
LEMMA Nothing == NoAttempt \in Attempt /\ NoBinding \in Binding /\ IdleCall \in Call
BY DEF NoAttempt, Attempt, NoBinding, Binding, IdleCall, Call, Prints, Branches

\* The state of the connections, as a preparation remembers it.
LEMMA FingerprintType == Types => Fingerprint \in Prints
<1> SUFFICES ASSUME Types, NEW p \in Preparations, bindings[p].st # "NONE"
             PROVE  <<p, bindings[p].generation, bindings[p].st>>
                      \in Preparations \X Nat \X {"NONE", "ACTIVE", "PAUSED", "DISCONNECTED"}
  BY DEF Fingerprint, Prints
<1>1. bindings[p] \in Binding
  BY DEF Types
<1>2. bindings[p].generation \in Nat /\ bindings[p].st \in {"NONE", "ACTIVE", "PAUSED", "DISCONNECTED"}
  BY <1>1 DEF Binding
<1> QED BY <1>2

\* An operation that returns, or has its record changed, leaves the others'.
LEMMA Return ==
  ASSUME Types, NEW o \in Operations, Returns(o)
  PROVE  /\ calls' \in [Operations -> Call] /\ calls'[o] = IdleCall
         /\ \A q \in Operations \ {o} : calls'[q] = calls[q]
BY Nothing DEF Types, Returns

\* A call that is rewritten has the shape it was given, and the others stay.
LEMMA Rewritten ==
  ASSUME Types, NEW o \in Operations, NEW k \in Call, calls' = [calls EXCEPT ![o] = k]
  PROVE  /\ calls' \in [Operations -> Call] /\ calls'[o] = k
         /\ \A q \in Operations \ {o} : calls'[q] = calls[q]
BY DEF Types

\* A call that moves on keeps its shape and everything but its place.
LEMMA Goes ==
  ASSUME Types, NEW o \in Operations, calls[o].at # "IDLE",
         NEW at \in {"ASKING", "ENROLLED", "KNOWN", "FAILING", "CHECKED"},
         calls' = [calls EXCEPT ![o].at = at]
  PROVE  /\ calls' \in [Operations -> Call]
         /\ calls'[o].at = at /\ calls'[o].id = calls[o].id
         /\ calls'[o].generation = calls[o].generation /\ calls'[o].stopped = calls[o].stopped
         /\ \A q \in Operations \ {o} : calls'[q] = calls[q]
<1>1. calls[o] \in Call /\ calls[o] # IdleCall
  BY DEF Types, IdleCall
<1> HIDE DEF IdleCall
<1> QED BY <1>1 DEF Types, Call

\* The operations' names.
LEMMA Names == {"PREPARE", "CONFIRM", "RESUME", "DISCONNECT"} = Operations
BY DEF Operations

-----------------------------------------------------------------------------
(* Steps that leave attempts, bindings and codes alone *)

\* Only what a call remembers changes.
LEMMA CallsOnly ==
  ASSUME ConnectionIInv, UNCHANGED <<attempts, bindings, remote, offered>>,
         calls' \in [Operations -> Call],
         calls'["PREPARE"] = calls["PREPARE"] \/ calls'["PREPARE"].at = "IDLE",
         \/ calls'["RESUME"] = calls["RESUME"]
         \/ calls'["RESUME"] = IdleCall
         \/ /\ calls["RESUME"].at # "IDLE" /\ calls'["RESUME"].at # "IDLE"
            /\ calls'["RESUME"].id = calls["RESUME"].id
            /\ calls'["RESUME"].generation = calls["RESUME"].generation
            /\ calls'["RESUME"].stopped = calls["RESUME"].stopped
  PROVE  ConnectionIInv'
<1>1. Types'
  BY DEF ConnectionIInv, Types
<1>2. CodesRecorded'
  BY DEF ConnectionIInv, CodesRecorded
<1>3. PrepareKnows'
  BY DEF ConnectionIInv, PrepareKnows
<1>4. Connected'
  BY DEF ConnectionIInv, Connected, Live
<1>5. ResumeKnows'
  BY DEF ConnectionIInv, ResumeKnows, IdleCall
<1> QED BY <1>1, <1>2, <1>3, <1>4, <1>5 DEF ConnectionIInv

\* A request that ends without writing anything keeps the invariant.
LEMMA ReturnsKeeps ==
  ASSUME ConnectionIInv, NEW o \in Operations, Returns(o), UNCHANGED <<attempts, bindings, remote, offered>>
  PROVE  ConnectionIInv'
<1>1. /\ calls' \in [Operations -> Call] /\ calls'[o] = IdleCall
      /\ \A q \in Operations \ {o} : calls'[q] = calls[q]
  BY Return DEF ConnectionIInv
<1>2. IdleCall.at = "IDLE"
  BY DEF IdleCall
<1> QED BY <1>1, <1>2, Names, CallsOnly

\* Its id and generation stay.
LEMMA GoesKeeps ==
  ASSUME ConnectionIInv, NEW o \in Operations \ {"PREPARE"},
         NEW at \in {"ASKING", "ENROLLED", "KNOWN", "FAILING", "CHECKED"},
         calls[o].at # "IDLE",
         calls' = [calls EXCEPT ![o].at = at], UNCHANGED <<attempts, bindings, remote, offered>>
  PROVE  ConnectionIInv'
<1>1. /\ calls' \in [Operations -> Call]
      /\ calls'[o].at = at /\ calls'[o].id = calls[o].id
      /\ calls'[o].generation = calls[o].generation /\ calls'[o].stopped = calls[o].stopped
      /\ \A q \in Operations \ {o} : calls'[q] = calls[q]
  BY Goes DEF ConnectionIInv
<1> QED BY <1>1, Names, CallsOnly

\* The answers of the cloud, refusals, and what else moves.
LEMMA AnswersKeep ==
  ASSUME ConnectionIInv, ConfirmAnswered \/ ResumeAnswered
  PROVE  ConnectionIInv'
<1>1. ASSUME NEW o \in {"CONFIRM", "RESUME"}, NEW same, RemoteAnswers(o, same) PROVE ConnectionIInv'
  <2>1. CASE Returns(o)
    BY <1>1, <2>1, Names, ReturnsKeeps DEF RemoteAnswers
  <2>2. CASE calls' = [calls EXCEPT ![o].at = "CHECKED"]
    BY <1>1, <2>2, Names, GoesKeeps DEF RemoteAnswers
  <2> QED BY <1>1, <2>1, <2>2 DEF RemoteAnswers
<1> QED BY <1>1 DEF ConfirmAnswered, ResumeAnswered

\* So do a stop of the laptop, a lost role and a lost file.
LEMMA OthersKeep ==
  ASSUME ConnectionIInv, LaptopStops \/ \E a \in Actors : ActorEnds(a) \/ \E p \in Preparations : FileLost(p)
  PROVE  ConnectionIInv'
<1>1. CASE LaptopStops
  <2>1. calls' = [o \in Operations |-> IdleCall] /\ UNCHANGED <<attempts, bindings, remote, offered>>
    BY <1>1 DEF LaptopStops
  <2>2. calls' \in [Operations -> Call] /\ calls'["PREPARE"] = IdleCall /\ calls'["RESUME"] = IdleCall
    BY <2>1, Nothing, Names
  <2>3. IdleCall.at = "IDLE"
    BY DEF IdleCall
  <2> QED BY <2>1, <2>2, <2>3, CallsOnly
<1>2. CASE \E a \in Actors : ActorEnds(a) \/ \E p \in Preparations : FileLost(p)
  <2>1. UNCHANGED <<attempts, bindings, remote, offered, calls>>
    BY <1>2 DEF ActorEnds, FileLost
  <2> QED BY <2>1, CallsOnly DEF ConnectionIInv, Types
<1> QED BY <1>1, <1>2

\* What the console does to a device, and the end of an attempt.
LEMMA ConsoleKeeps ==
  ASSUME ConnectionIInv, NEW c \in Codes, ConsoleRenames(c) \/ ConsoleRevokes(c)
  PROVE  ConnectionIInv'
<1>1. /\ remote' \in [Codes -> Device]
      /\ \A d \in Codes : remote'[d].st # "NONE" => remote[d].st # "NONE"
  <2>1. remote \in [Codes -> Device] /\ remote[c].st # "NONE"
    BY DEF ConnectionIInv, Types, ConsoleRenames, ConsoleRevokes
  <2>2. CASE remote' = [remote EXCEPT ![c].face = 2]
    BY <2>1, <2>2 DEF Device
  <2>3. CASE remote' = [remote EXCEPT ![c].st = "REVOKED"]
    BY <2>1, <2>3 DEF Device
  <2> QED BY <2>2, <2>3 DEF ConsoleRenames, ConsoleRevokes
<1>2. UNCHANGED <<attempts, bindings, calls, offered>>
  BY DEF ConsoleRenames, ConsoleRevokes
<1>3. Types'
  BY <1>1, <1>2 DEF ConnectionIInv, Types
<1>4. CodesRecorded'
  BY <1>1, <1>2 DEF ConnectionIInv, CodesRecorded
<1>5. PrepareKnows' /\ Connected' /\ ResumeKnows'
  BY <1>2 DEF ConnectionIInv, PrepareKnows, Connected, ResumeKnows, Live
<1> QED BY <1>3, <1>4, <1>5 DEF ConnectionIInv

-----------------------------------------------------------------------------
(* Steps that change an attempt *)

\* An attempt that changes but for its code, which stays under preparation
\* while one is running.
LEMMA AttemptKeeps ==
  ASSUME ConnectionIInv, NEW p \in Preparations,
         attempts' \in [Preparations -> Attempt],
         \A q \in Preparations \ {p} : attempts'[q] = attempts[q],
         attempts'[p].code = attempts[p].code,
         attempts[p].st # "NONE" <=> attempts'[p].st # "NONE",
         attempts[p].st = "CONFIRMED" => attempts'[p].st = "CONFIRMED",
         calls["PREPARE"].at # "IDLE" /\ calls["PREPARE"].id = p =>
           attempts'[p].st = attempts[p].st \/ calls'["PREPARE"].at = "IDLE",
         UNCHANGED <<bindings, remote, offered>>,
         \/ calls' = calls
         \/ Returns("PREPARE")
  PROVE  ConnectionIInv'
<1>1. /\ calls' \in [Operations -> Call]
      /\ calls'["PREPARE"] = calls["PREPARE"] \/ calls'["PREPARE"].at = "IDLE"
      /\ calls'["RESUME"] = calls["RESUME"]
  BY Return, Names DEF ConnectionIInv, Types, IdleCall
<1>2. Types'
  BY <1>1 DEF ConnectionIInv, Types
<1>3. \A q \in Preparations : /\ attempts'[q].code = attempts[q].code
                              /\ attempts[q].st # "NONE" <=> attempts'[q].st # "NONE"
                              /\ attempts[q].st = "CONFIRMED" => attempts'[q].st = "CONFIRMED"
  OBVIOUS
<1>4. CodesRecorded'
  BY <1>3 DEF ConnectionIInv, CodesRecorded
<1>5. PrepareKnows'
  BY <1>1, <1>3 DEF ConnectionIInv, PrepareKnows
<1>6. Connected'
  BY <1>3 DEF ConnectionIInv, Connected, Live
<1>7. ResumeKnows'
  BY <1>1 DEF ConnectionIInv, ResumeKnows
<1> QED BY <1>2, <1>4, <1>5, <1>6, <1>7 DEF ConnectionIInv

\* So does the end of an attempt.
LEMMA OverKeeps == ASSUME ConnectionIInv, NEW p \in Preparations, Over(p) PROVE ConnectionIInv'
<1>1. attempts \in [Preparations -> Attempt]
  BY DEF ConnectionIInv, Types
<1>2. attempts' = [attempts EXCEPT ![p].over = TRUE] /\ UNCHANGED <<bindings, remote, offered, calls>>
  BY DEF Over
<1>3. /\ attempts' \in [Preparations -> Attempt]
      /\ \A q \in Preparations \ {p} : attempts'[q] = attempts[q]
      /\ attempts'[p].code = attempts[p].code /\ attempts'[p].st = attempts[p].st
  BY <1>1, <1>2 DEF Attempt
<1> QED BY <1>2, <1>3, AttemptKeeps

\* The end of a preparation, known or uncertain.
LEMMA PreparedKeeps == ASSUME ConnectionIInv, Prepared PROVE ConnectionIInv'
<1> DEFINE k == calls["PREPARE"]
<1>1. /\ k.at = "KNOWN" /\ k.id \in Preparations /\ attempts[k.id].st = "PREPARING"
      /\ k.face \in {0, 1, 2}
  BY Names DEF Prepared, ConnectionIInv, PrepareKnows, Types, Call, IdleCall
<1>2. attempts \in [Preparations -> Attempt]
  BY DEF ConnectionIInv, Types
<1>3. CASE /\ attempts' = [attempts EXCEPT ![k.id].st = "PREPARED", ![k.id].face = k.face]
           /\ Returns("PREPARE")
  <2>1. /\ attempts' \in [Preparations -> Attempt]
        /\ \A q \in Preparations \ {k.id} : attempts'[q] = attempts[q]
        /\ attempts'[k.id].code = attempts[k.id].code /\ attempts'[k.id].st = "PREPARED"
    BY <1>1, <1>2, <1>3 DEF Attempt
  <2>2. calls'["PREPARE"].at = "IDLE"
    BY <1>3, Return, Names DEF ConnectionIInv, IdleCall
  <2>3. UNCHANGED <<bindings, remote, offered>>
    BY DEF Prepared
  <2> QED BY <1>1, <1>3, <2>1, <2>2, <2>3, AttemptKeeps
<1>4. CASE calls' = [calls EXCEPT !["PREPARE"].at = "FAILING"] /\ UNCHANGED attempts
  <2>1. /\ calls' \in [Operations -> Call] /\ calls'["PREPARE"].id = k.id
        /\ calls'["PREPARE"].at = "FAILING" /\ calls'["RESUME"] = calls["RESUME"]
    BY <1>1, <1>4, Goes, Names DEF ConnectionIInv
  <2>2. UNCHANGED <<bindings, remote, offered, attempts>>
    BY <1>4 DEF Prepared
  <2>3. Types' /\ CodesRecorded' /\ Connected' /\ ResumeKnows'
    BY <2>1, <2>2 DEF ConnectionIInv, Types, CodesRecorded, Connected, ResumeKnows, Live
  <2>4. PrepareKnows'
    BY <1>1, <2>1, <2>2 DEF PrepareKnows
  <2> QED BY <2>3, <2>4 DEF ConnectionIInv
<1> QED BY <1>3, <1>4 DEF Prepared

\* So does an enrolment whose answer never came.
LEMMA UncertainKeeps == ASSUME ConnectionIInv, Uncertain PROVE ConnectionIInv'
<1> DEFINE k == calls["PREPARE"]
           st == IF attempts[k.id].st = "PREPARING" THEN "UNCERTAIN" ELSE attempts[k.id].st
<1>1. k.id \in Preparations /\ attempts[k.id].st = "PREPARING"
  BY Names DEF Uncertain, ConnectionIInv, PrepareKnows
<1>2. attempts \in [Preparations -> Attempt] /\ st = "UNCERTAIN"
  BY <1>1 DEF ConnectionIInv, Types
<1>3. attempts' = [attempts EXCEPT ![k.id].st = st] /\ Returns("PREPARE")
      /\ UNCHANGED <<bindings, remote, offered>>
  BY DEF Uncertain
<1> HIDE DEF st
<1>4. /\ attempts' \in [Preparations -> Attempt]
      /\ \A q \in Preparations \ {k.id} : attempts'[q] = attempts[q]
      /\ attempts'[k.id].code = attempts[k.id].code /\ attempts'[k.id].st = "UNCERTAIN"
  BY <1>1, <1>2, <1>3 DEF Attempt
<1>5. calls'["PREPARE"].at = "IDLE"
  BY <1>3, Return, Names DEF ConnectionIInv, IdleCall
<1> QED BY <1>1, <1>3, <1>4, <1>5, AttemptKeeps

\* A code is put into an attempt before it is sent.
LEMMA PrepareKeeps ==
  ASSUME ConnectionIInv, NEW p \in Preparations, NEW a \in Actors, NEW c \in Codes, Prepare(p, a, c)
  PROVE  ConnectionIInv'
<1> DEFINE r == [NoAttempt EXCEPT !.st = "PREPARING", !.code = c, !.actor = a,
                                  !.print = Fingerprint]
           k == [IdleCall EXCEPT !.at = "ASKING", !.id = p, !.actor = a]
<1>0. attempts \in [Preparations -> Attempt] /\ offered \in [Codes -> {0, 1}]
  BY DEF ConnectionIInv, Types
<1>1. /\ attempts[p].st = "NONE" /\ \A q \in Preparations : attempts[q].code # c
      /\ attempts' = [attempts EXCEPT ![p] = r] /\ calls' = [calls EXCEPT !["PREPARE"] = k]
      /\ UNCHANGED <<bindings, remote, offered>>
  BY DEF Prepare, Unused
<1>2. r \in Attempt /\ r.st = "PREPARING" /\ r.code = c
  <2>1. Fingerprint \in Prints /\ NoAttempt \in Attempt
    BY FingerprintType, Nothing DEF ConnectionIInv
  <2> QED BY <2>1 DEF Attempt
<1>3. k \in Call /\ k.at = "ASKING" /\ k.id = p
  BY DEF Call, IdleCall
<1> HIDE DEF r, k
<1>4. /\ attempts' \in [Preparations -> Attempt] /\ attempts'[p] = r
      /\ \A q \in Preparations \ {p} : attempts'[q] = attempts[q]
  BY <1>0, <1>1, <1>2
<1>5. /\ calls' \in [Operations -> Call] /\ calls'["PREPARE"] = k
      /\ calls'["RESUME"] = calls["RESUME"]
  BY <1>1, <1>3, Rewritten, Names DEF ConnectionIInv
<1>6. Types'
  BY <1>1, <1>4, <1>5 DEF ConnectionIInv, Types
<1>7. attempts[p].code \notin Codes
  BY <1>1 DEF ConnectionIInv, CodesRecorded
<1>8. CodesRecorded'
  <2>1. \A q \in Preparations : attempts'[q].st # "NONE" <=> attempts'[q].code \in Codes
    BY <1>2, <1>4 DEF ConnectionIInv, CodesRecorded
  <2>2. \A d \in Codes : offered'[d] = 1 => \E q \in Preparations : attempts'[q].code = d
    BY <1>1, <1>4, <1>7 DEF ConnectionIInv, CodesRecorded
  <2>3. \A d \in Codes : remote'[d].st # "NONE" => offered'[d] = 1
    BY <1>1 DEF ConnectionIInv, CodesRecorded
  <2> QED BY <2>1, <2>2, <2>3 DEF CodesRecorded
<1>9. PrepareKnows'
  <2>1. offered'[c] = 0
    BY <1>0, <1>1 DEF ConnectionIInv, CodesRecorded
  <2> QED BY <1>2, <1>3, <1>4, <1>5, <2>1 DEF PrepareKnows
<1>10. Connected'
  BY <1>1, <1>4 DEF ConnectionIInv, Connected, Live
<1>11. ResumeKnows'
  BY <1>1, <1>5 DEF ConnectionIInv, ResumeKnows
<1> QED BY <1>6, <1>8, <1>9, <1>10, <1>11 DEF ConnectionIInv

\* The code is sent once, and the device it may have made is recorded.
LEMMA EnrolKeeps == ASSUME ConnectionIInv, Enrol PROVE ConnectionIInv'
<1> DEFINE k == calls["PREPARE"]
           c == attempts[k.id].code
<1>1. /\ k.at = "ASKING" /\ k.id \in Preparations /\ attempts[k.id].st = "PREPARING"
      /\ offered[c] = 0
  BY Names DEF Enrol, ConnectionIInv, PrepareKnows
<1>2. c \in Codes
  BY <1>1 DEF ConnectionIInv, CodesRecorded
<1>3. attempts \in [Preparations -> Attempt] /\ offered \in [Codes -> {0, 1}]
      /\ remote \in [Codes -> Device]
  BY DEF ConnectionIInv, Types
<1>4. /\ offered' = [offered EXCEPT ![c] = offered[c] + 1]
      /\ remote' = remote \/ remote' = [remote EXCEPT ![c].st = "ENROLLED"]
      /\ \/ calls' = [calls EXCEPT !["PREPARE"].at = "ENROLLED"]
         \/ calls' = [calls EXCEPT !["PREPARE"].at = "FAILING"]
      /\ UNCHANGED <<attempts, bindings>>
  BY DEF Enrol
<1> HIDE DEF c
<1>5. offered' \in [Codes -> {0, 1}] /\ offered'[c] = 1
      /\ \A d \in Codes \ {c} : offered'[d] = offered[d]
  BY <1>1, <1>2, <1>3, <1>4
<1>6. remote' \in [Codes -> Device] /\ \A d \in Codes \ {c} : remote'[d] = remote[d]
  <2>1. CASE remote' = [remote EXCEPT ![c].st = "ENROLLED"]
    BY <1>2, <1>3, <2>1 DEF Device
  <2> QED BY <1>3, <1>4, <2>1
<1>7. /\ calls' \in [Operations -> Call] /\ calls'["PREPARE"].at \in {"ENROLLED", "FAILING"}
      /\ calls'["PREPARE"].id = k.id /\ calls'["RESUME"] = calls["RESUME"]
  <2>1. CASE calls' = [calls EXCEPT !["PREPARE"].at = "ENROLLED"]
    BY <1>1, <2>1, Goes, Names DEF ConnectionIInv
  <2>2. CASE calls' = [calls EXCEPT !["PREPARE"].at = "FAILING"]
    BY <1>1, <2>2, Goes, Names DEF ConnectionIInv
  <2> QED BY <1>4, <2>1, <2>2
<1>8. Types'
  BY <1>4, <1>5, <1>6, <1>7 DEF ConnectionIInv, Types
<1>9. CodesRecorded'
  BY <1>1, <1>3, <1>4, <1>5, <1>6 DEF ConnectionIInv, CodesRecorded, c
<1>10. PrepareKnows'
  BY <1>1, <1>4, <1>7 DEF PrepareKnows
<1>11. Connected' /\ ResumeKnows'
  BY <1>4, <1>7 DEF ConnectionIInv, Connected, ResumeKnows, Live
<1> QED BY <1>8, <1>9, <1>10, <1>11 DEF ConnectionIInv

\* So does the answer of an enrolment.
LEMMA LearnKeeps == ASSUME ConnectionIInv, Learn PROVE ConnectionIInv'
<1> DEFINE k == calls["PREPARE"]
<1>1. k.at = "ENROLLED" /\ k.id \in Preparations /\ attempts[k.id].st = "PREPARING"
  BY Names DEF Learn, ConnectionIInv, PrepareKnows
<1>2. attempts[k.id].code \in Codes
  BY <1>1 DEF ConnectionIInv, CodesRecorded
<1>3. /\ calls' \in [Operations -> Call] /\ calls'["PREPARE"].at \in {"KNOWN", "FAILING"}
      /\ calls'["PREPARE"].id = k.id /\ calls'["RESUME"] = calls["RESUME"]
  <2> DEFINE face == remote[attempts[k.id].code].face
  <2>1. CASE calls' = [calls EXCEPT !["PREPARE"].at = "KNOWN", !["PREPARE"].face = face]
    <3>1. face \in {0, 1, 2} /\ calls \in [Operations -> Call]
      BY <1>2 DEF ConnectionIInv, Types, Device
    <3> HIDE DEF face
    <3>2. k \in Call /\ k # IdleCall
      BY <1>1, <3>1, Names DEF IdleCall
    <3> QED BY <2>1, <3>1, <3>2, Names DEF Call
  <2>2. CASE calls' = [calls EXCEPT !["PREPARE"].at = "FAILING"]
    BY <1>1, <2>2, Goes, Names DEF ConnectionIInv
  <2> QED BY <2>1, <2>2 DEF Learn
<1>4. UNCHANGED <<attempts, bindings, remote, offered>>
  BY DEF Learn
<1>5. Types' /\ CodesRecorded' /\ Connected' /\ ResumeKnows'
  BY <1>3, <1>4 DEF ConnectionIInv, Types, CodesRecorded, Connected, ResumeKnows, Live
<1>6. PrepareKnows'
  BY <1>1, <1>3, <1>4 DEF PrepareKnows
<1> QED BY <1>5, <1>6 DEF ConnectionIInv

\* So does the beginning of a confirmation.
LEMMA ConfirmKeeps ==
  ASSUME ConnectionIInv, NEW p \in Preparations, NEW a \in Actors, Confirm(p, a) PROVE ConnectionIInv'
<1> DEFINE k == [IdleCall EXCEPT !.at = "ASKING", !.id = p, !.actor = a]
<1>1. calls' = [calls EXCEPT !["CONFIRM"] = k] /\ UNCHANGED <<attempts, bindings, remote, offered>>
  BY DEF Confirm
<1>2. k \in Call
  BY DEF Call, IdleCall
<1> HIDE DEF k
<1>3. /\ calls' \in [Operations -> Call]
      /\ calls'["PREPARE"] = calls["PREPARE"] /\ calls'["RESUME"] = calls["RESUME"]
  BY <1>1, <1>2, Rewritten, Names DEF ConnectionIInv
<1> QED BY <1>1, <1>3, CallsOnly

-----------------------------------------------------------------------------
(* Steps that change a connection *)

\* The attempt and its binding in one transaction.
LEMMA ConfirmedKeeps == ASSUME ConnectionIInv, Confirmed PROVE ConnectionIInv'
<1> DEFINE k == calls["CONFIRM"]
           b == [st |-> "PAUSED", generation |-> 1, branch |-> BranchOf[k.actor]]
<1>1. CASE Refused("CONFIRM")
  BY <1>1, Names, ReturnsKeeps DEF Refused, Confirmed
<1>2. CASE /\ FreshActor(k.actor) /\ Available(k.id, k.actor)
           /\ \A q \in Preparations : ~Live(q)
           /\ bindings' = [bindings EXCEPT ![k.id] = b]
           /\ attempts' = [attempts EXCEPT ![k.id].st = "CONFIRMED"]
           /\ Returns("CONFIRM")
  <2>1. k.id \in Preparations /\ k.actor \in Actors
    BY Names DEF ConnectionIInv, Types, Call, IdleCall, Confirmed
  <2>2. attempts[k.id].st = "PREPARED" /\ bindings[k.id].st = "NONE"
    BY <1>2, <2>1 DEF Available, ConnectionIInv, Connected
  <2>3. attempts \in [Preparations -> Attempt] /\ bindings \in [Preparations -> Binding]
    BY DEF ConnectionIInv, Types
  <2>4. b \in Binding /\ b.st = "PAUSED"
    BY <2>1 DEF Binding, Branches
  <2> HIDE DEF b
  <2>5. /\ bindings' \in [Preparations -> Binding] /\ bindings'[k.id].st = "PAUSED"
        /\ \A q \in Preparations \ {k.id} : bindings'[q] = bindings[q]
    BY <1>2, <2>1, <2>3, <2>4
  <2>6. /\ attempts' \in [Preparations -> Attempt]
        /\ attempts'[k.id].st = "CONFIRMED" /\ attempts'[k.id].code = attempts[k.id].code
        /\ \A q \in Preparations \ {k.id} : attempts'[q] = attempts[q]
    BY <1>2, <2>1, <2>3 DEF Attempt
  <2>7. /\ calls' \in [Operations -> Call]
        /\ calls'["PREPARE"] = calls["PREPARE"] /\ calls'["RESUME"] = calls["RESUME"]
    BY <1>2, Return, Names DEF ConnectionIInv
  <2>8. UNCHANGED <<remote, offered>>
    BY DEF Confirmed
  <2>9. Types'
    BY <2>5, <2>6, <2>7, <2>8 DEF ConnectionIInv, Types
  <2>10. CodesRecorded'
    <3>1. \A q \in Preparations : /\ attempts'[q].code = attempts[q].code
                                  /\ attempts'[q].st # "NONE" <=> attempts[q].st # "NONE"
      BY <2>2, <2>6
    <3> QED BY <2>8, <3>1 DEF ConnectionIInv, CodesRecorded
  <2>11. PrepareKnows'
    BY <2>2, <2>6, <2>7, <2>8 DEF ConnectionIInv, PrepareKnows
  <2>12. Connected'
    BY <1>2, <2>5, <2>6 DEF ConnectionIInv, Connected, Live
  <2>13. ResumeKnows'
    BY <2>2, <2>5, <2>7 DEF ConnectionIInv, ResumeKnows
  <2> QED BY <2>9, <2>10, <2>11, <2>12, <2>13 DEF ConnectionIInv
<1> QED BY <1>1, <1>2 DEF Confirmed

\* A stop leaves any resume that is under way behind.
LEMMA PauseRowKeeps ==
  ASSUME ConnectionIInv, NEW p \in Preparations, Live(p), PauseRow(p), UNCHANGED <<attempts, remote, offered>>
  PROVE  ConnectionIInv'
<1> DEFINE k == calls["RESUME"]
           n == Above(bindings[p].generation)
           t == k.stopped \/ k.id = p
<1>1. /\ bindings' = [bindings EXCEPT ![p].st = "PAUSED", ![p].generation = n]
      /\ calls' = [calls EXCEPT !["RESUME"].stopped = t]
  BY DEF PauseRow
<1>2. /\ bindings \in [Preparations -> Binding] /\ calls \in [Operations -> Call]
      /\ k \in Call /\ bindings[p].generation \in Nat /\ MaxGeneration \in Nat
  BY Names, ConnectionAssumption DEF ConnectionIInv, Types, Binding
<1>3. /\ n \in Nat /\ n >= bindings[p].generation
      /\ n > bindings[p].generation \/ bindings[p].generation >= MaxGeneration
  BY <1>2 DEF Above
<1>4. t \in BOOLEAN /\ (k = IdleCall => t = FALSE)
  BY <1>2, ConnectionAssumption DEF Call, IdleCall
<1> HIDE DEF n, t
<1>5. /\ bindings' \in [Preparations -> Binding] /\ bindings'[p].st = "PAUSED"
      /\ bindings'[p].generation = n
      /\ \A q \in Preparations \ {p} : bindings'[q] = bindings[q]
  BY <1>1, <1>2, <1>3 DEF Binding
<1>6. /\ calls' \in [Operations -> Call]
      /\ calls'["RESUME"].stopped = t /\ calls'["RESUME"].at = k.at
      /\ calls'["RESUME"].id = k.id /\ calls'["RESUME"].generation = k.generation
      /\ \A o \in Operations \ {"RESUME"} : calls'[o] = calls[o]
  <2>1. [k EXCEPT !.stopped = t] \in Call
    <3>1. CASE k = IdleCall
      <4>0. t = FALSE
        BY <1>4, <3>1
      <4> HIDE DEF k
      <4>1. [k EXCEPT !.stopped = t] = [IdleCall EXCEPT !.stopped = FALSE]
        BY <4>0, <3>1, Zenon
      <4>2. [IdleCall EXCEPT !.stopped = FALSE] = IdleCall
        <5> DEFINE Alone == [at : {"IDLE"}, id : {Absent}, actor : {Absent}, generation : {0},
                             face : {0}, stopped : {FALSE}]
        <5>1. IdleCall \in Alone
          BY DEF IdleCall
        <5>2. \A r \in Alone : [r EXCEPT !.stopped = FALSE] = r
          OBVIOUS
        <5> QED BY <5>1, <5>2, Zenon
      <4> QED BY <4>1, <4>2 DEF Call
    <3>2. CASE k # IdleCall
      BY <1>2, <1>4, <3>2 DEF Call
    <3> QED BY <3>1, <3>2
  <2>2. /\ [k EXCEPT !.stopped = t].stopped = t /\ [k EXCEPT !.stopped = t].at = k.at
        /\ [k EXCEPT !.stopped = t].id = k.id
        /\ [k EXCEPT !.stopped = t].generation = k.generation
    BY <1>2 DEF Call, IdleCall
  <2>3. calls' = [calls EXCEPT !["RESUME"] = [k EXCEPT !.stopped = t]]
    BY <1>1, Zenon
  <2> QED BY <1>2, <2>1, <2>2, <2>3, Names
<1>7. Types'
  BY <1>5, <1>6 DEF ConnectionIInv, Types
<1>8. CodesRecorded'
  BY DEF ConnectionIInv, CodesRecorded
<1>9. PrepareKnows'
  BY <1>6, Names DEF ConnectionIInv, PrepareKnows
<1>10. Connected'
  BY <1>5 DEF ConnectionIInv, Connected, Live
<1>11. ResumeKnows'
  <2>1. CASE k.at = "IDLE"
    BY <1>6, <2>1, ConnectionAssumption DEF ConnectionIInv, ResumeKnows, t
  <2>2. CASE k.at # "IDLE" /\ k.id = p
    BY <1>2, <1>3, <1>5, <1>6, <2>2 DEF ConnectionIInv, ResumeKnows, t, Call, IdleCall
  <2>3. CASE k.at # "IDLE" /\ k.id # p
    BY <1>5, <1>6, <2>3 DEF ConnectionIInv, ResumeKnows, t
  <2> QED BY <2>1, <2>2, <2>3
<1> QED BY <1>7, <1>8, <1>9, <1>10, <1>11 DEF ConnectionIInv

\* A change remembers the generation it saw.
LEMMA ChangeKeeps ==
  ASSUME ConnectionIInv, NEW o \in Operations, NEW p \in Preparations, NEW a \in Actors, Change(o, p, a)
  PROVE  ConnectionIInv'
<1> DEFINE at == IF o = "RESUME" THEN "ASKING" ELSE "CHECKED"
           k == [IdleCall EXCEPT !.at = at, !.id = p, !.actor = a,
                                 !.generation = bindings[p].generation]
<1>1. /\ o \in {"RESUME", "DISCONNECT"} /\ Live(p) /\ calls' = [calls EXCEPT ![o] = k]
      /\ UNCHANGED <<attempts, bindings, remote, offered>>
  BY DEF Change
<1>2. bindings[p].generation \in Nat
  BY DEF ConnectionIInv, Types, Binding
<1>3. k \in Call /\ k.at # "IDLE" /\ k.id = p /\ ~k.stopped
      /\ k.generation = bindings[p].generation
  <2>1. at \in {"ASKING", "CHECKED"}
    OBVIOUS
  <2> HIDE DEF at
  <2> QED BY <1>2, <2>1 DEF Call, IdleCall
<1> HIDE DEF k
<1>4. /\ calls' \in [Operations -> Call] /\ calls'[o] = k
      /\ \A q \in Operations \ {o} : calls'[q] = calls[q]
  BY <1>1, <1>3, Rewritten DEF ConnectionIInv
<1>5. CASE o = "DISCONNECT"
  BY <1>1, <1>4, <1>5, Names, CallsOnly
<1>6. CASE o = "RESUME"
  <2>1. calls'["PREPARE"] = calls["PREPARE"] /\ calls'["RESUME"] = k
    BY <1>4, <1>6, Names
  <2>2. Types' /\ CodesRecorded' /\ Connected' /\ PrepareKnows'
    BY <1>1, <1>4, <2>1 DEF ConnectionIInv, Types, CodesRecorded, Connected, PrepareKnows, Live
  <2>3. bindings'[p].st # "NONE" /\ bindings'[p].generation >= k.generation
    BY <1>1, <1>2, <1>3 DEF Live
  <2>4. ResumeKnows'
    BY <1>3, <2>1, <2>3 DEF ResumeKnows
  <2> QED BY <2>2, <2>4 DEF ConnectionIInv
<1> QED BY <1>1, <1>5, <1>6

\* A connection that is opened or closed at the generation that was seen.
LEMMA ChangedKeeps ==
  ASSUME ConnectionIInv, NEW o \in {"RESUME", "DISCONNECT"}, NEW st \in {"ACTIVE", "DISCONNECTED"},
         calls[o].at = "CHECKED", StillAllowed(calls[o]), Returns(o),
         bindings' = [bindings EXCEPT ![calls[o].id].st = st,
                                      ![calls[o].id].generation = calls[o].generation + 1],
         UNCHANGED <<attempts, remote, offered>>
  PROVE  ConnectionIInv'
<1> DEFINE k == calls[o]
<1>1. k.id \in Preparations /\ k.generation \in Nat
  BY Names DEF ConnectionIInv, Types, Call, IdleCall
<1>2. bindings[k.id].generation = k.generation /\ Live(k.id) /\ bindings[k.id].st # "NONE"
  BY DEF StillAllowed, ExpectedBinding, Live
<1>3. bindings \in [Preparations -> Binding]
  BY DEF ConnectionIInv, Types
<1>4. /\ bindings' \in [Preparations -> Binding] /\ bindings'[k.id].st = st
      /\ bindings'[k.id].generation = k.generation + 1
      /\ \A q \in Preparations \ {k.id} : bindings'[q] = bindings[q]
  BY <1>1, <1>3 DEF Binding
<1>5. /\ calls' \in [Operations -> Call] /\ calls'["PREPARE"] = calls["PREPARE"]
      /\ \/ calls'["RESUME"] = calls["RESUME"]
         \/ calls'["RESUME"] = IdleCall
  BY Return, Names DEF ConnectionIInv
<1>6. Types'
  BY <1>4, <1>5 DEF ConnectionIInv, Types
<1>7. CodesRecorded' /\ PrepareKnows'
  BY <1>5 DEF ConnectionIInv, CodesRecorded, PrepareKnows
<1>8. Connected'
  BY <1>1, <1>2, <1>4 DEF ConnectionIInv, Connected, Live
<1>9. ResumeKnows'
  <2>1. CASE calls'["RESUME"] = IdleCall
    BY <2>1 DEF ResumeKnows, IdleCall
  <2>2. CASE calls'["RESUME"] = calls["RESUME"]
    <3>1. \A q \in Preparations : /\ bindings[q].st # "NONE" => bindings'[q].st # "NONE"
                                  /\ bindings[q].generation \in Nat
                                  /\ bindings'[q].generation \in Nat
                                  /\ bindings[q].generation <= bindings'[q].generation
      BY <1>1, <1>2, <1>3, <1>4 DEF Binding
    <3>2. calls["RESUME"].generation \in Nat
      BY Names DEF ConnectionIInv, Types, Call, IdleCall
    <3> DEFINE r == calls["RESUME"]
    <3>3. CASE r.at = "IDLE"
      BY <2>2, <3>3 DEF ConnectionIInv, ResumeKnows
    <3>4. CASE r.at # "IDLE"
      <4>1. /\ r.id \in Preparations /\ bindings[r.id].st # "NONE"
            /\ r.generation <= bindings[r.id].generation
            /\ r.stopped => \/ r.generation < bindings[r.id].generation
                            \/ bindings[r.id].generation >= MaxGeneration
        BY <3>4 DEF ConnectionIInv, ResumeKnows
      <4>2. /\ bindings'[r.id].st # "NONE" /\ bindings[r.id].generation \in Nat
            /\ bindings'[r.id].generation \in Nat
            /\ bindings[r.id].generation <= bindings'[r.id].generation
        BY <3>1, <4>1
      <4>3. MaxGeneration \in Nat
        BY ConnectionAssumption
      <4>4. /\ r.generation <= bindings'[r.id].generation
            /\ r.stopped => \/ r.generation < bindings'[r.id].generation
                            \/ bindings'[r.id].generation >= MaxGeneration
        BY <3>2, <4>1, <4>2, <4>3
      <4> QED BY <2>2, <3>4, <4>1, <4>2, <4>4 DEF ResumeKnows
    <3> QED BY <3>3, <3>4
  <2> QED BY <1>5, <2>1, <2>2
<1> QED BY <1>6, <1>7, <1>8, <1>9 DEF ConnectionIInv

\* So does a resume, refused or not.
LEMMA ResumedKeeps == ASSUME ConnectionIInv, Resumed PROVE ConnectionIInv'
<1> DEFINE k == calls["RESUME"]
<1>1. CASE Returns("RESUME") /\ UNCHANGED <<attempts, bindings>>
  BY <1>1, Names, ReturnsKeeps DEF Resumed
<1>2. CASE /\ StillAllowed(k) /\ Returns("RESUME") /\ UNCHANGED attempts
           /\ bindings' = [bindings EXCEPT ![k.id].st = "ACTIVE",
                                           ![k.id].generation = k.generation + 1]
  BY <1>2, ChangedKeeps DEF Resumed
<1> QED BY <1>1, <1>2 DEF Resumed, Refused

\* So does a disconnection, refused or not.
LEMMA DisconnectedKeeps == ASSUME ConnectionIInv, Disconnected PROVE ConnectionIInv'
<1> DEFINE k == calls["DISCONNECT"]
<1>1. CASE Returns("DISCONNECT") /\ UNCHANGED <<attempts, bindings>>
  BY <1>1, Names, ReturnsKeeps DEF Disconnected
<1>2. CASE /\ StillAllowed(k) /\ Returns("DISCONNECT") /\ UNCHANGED attempts
           /\ bindings' = [bindings EXCEPT ![k.id].st = "DISCONNECTED",
                                           ![k.id].generation = k.generation + 1]
  BY <1>2, ChangedKeeps DEF Disconnected
<1> QED BY <1>1, <1>2 DEF Disconnected, Refused

-----------------------------------------------------------------------------
(* Theorems *)

\* The invariant holds at the beginning.
LEMMA ConnectionInitially == ConnectionInit => ConnectionIInv
<1> SUFFICES ASSUME ConnectionInit PROVE ConnectionIInv
  OBVIOUS
<1>1. Types
  BY Nothing DEF ConnectionInit, Types, Device
<1>2. \A p \in Preparations : attempts[p] = NoAttempt /\ bindings[p] = NoBinding
  BY DEF ConnectionInit
<1>3. \A o \in Operations : calls[o] = IdleCall
  BY DEF ConnectionInit
<1>4. CodesRecorded
  BY <1>2, ConnectionAssumption DEF ConnectionInit, CodesRecorded, NoAttempt
<1>5. Connected
  BY <1>2 DEF Connected, Live, NoBinding
<1>6. PrepareKnows /\ ResumeKnows
  BY <1>3, Names DEF PrepareKnows, ResumeKnows, IdleCall
<1> QED BY <1>1, <1>4, <1>5, <1>6 DEF ConnectionIInv

\* Every step keeps it.
LEMMA ConnectionInductive == ConnectionIInv /\ [ConnectionNext]_connectionVars => ConnectionIInv'
<1> SUFFICES ASSUME ConnectionIInv, [ConnectionNext]_connectionVars PROVE ConnectionIInv'
  OBVIOUS
<1>1. CASE UNCHANGED connectionVars
  <2>1. UNCHANGED <<attempts, bindings, remote, offered, calls>>
    BY <1>1 DEF connectionVars
  <2> QED BY <2>1, CallsOnly DEF ConnectionIInv, Types
<1>2. CASE \E p \in Preparations, a \in Actors :
             \/ \E c \in Codes : Prepare(p, a, c)
             \/ Confirm(p, a)
             \/ \E o \in Operations : Change(o, p, a)
  BY <1>2, PrepareKeeps, ConfirmKeeps, ChangeKeeps
<1>3. CASE \E p \in Preparations : PauseError(p) \/ \E a \in Actors : Pause(p, a)
  BY <1>3, PauseRowKeeps DEF Pause, PauseError, Live
<1>4. CASE Enrol \/ Learn \/ Prepared \/ Uncertain
  BY <1>4, EnrolKeeps, LearnKeeps, PreparedKeeps, UncertainKeeps
<1>5. CASE ConfirmAnswered \/ ResumeAnswered \/ Confirmed \/ Resumed \/ Disconnected
  BY <1>5, AnswersKeep, ConfirmedKeeps, ResumedKeeps, DisconnectedKeeps
<1>6. CASE LaptopStops \/ (\E a \in Actors : ActorEnds(a)) \/ \E p \in Preparations : Over(p) \/ FileLost(p)
  <2>1. CASE \E p \in Preparations : Over(p)
    BY <2>1, OverKeeps
  <2>2. CASE \E p \in Preparations : FileLost(p)
    <3>1. UNCHANGED <<attempts, bindings, remote, offered, calls>>
      BY <2>2 DEF FileLost
    <3> QED BY <3>1, CallsOnly DEF ConnectionIInv, Types
  <2>3. CASE LaptopStops \/ \E a \in Actors : ActorEnds(a)
    BY <2>3, OthersKeep
  <2> QED BY <1>6, <2>1, <2>2, <2>3
<1>7. CASE \E c \in Codes : ConsoleRenames(c) \/ ConsoleRevokes(c)
  BY <1>7, ConsoleKeeps
<1> QED BY <1>1, <1>2, <1>3, <1>4, <1>5, <1>6, <1>7 DEF ConnectionNext

\* A one-use code is sent once (CodeSpentOnce).
THEOREM CodesAreSpentOnce == ConnectionSpec => []CodeSpentOnce
<1>1. ConnectionIInv => CodeSpentOnce
  BY DEF ConnectionIInv, Types, CodeSpentOnce
<1> QED BY ConnectionInitially, ConnectionInductive, <1>1, PTL DEF ConnectionSpec

\* What the cloud registered is known here (EnrolmentIsRecorded).
THEOREM EnrolmentsAreRecorded == ConnectionSpec => []EnrolmentIsRecorded
<1>1. ConnectionIInv => EnrolmentIsRecorded
  BY DEF ConnectionIInv, CodesRecorded, EnrolmentIsRecorded
<1> QED BY ConnectionInitially, ConnectionInductive, <1>1, PTL DEF ConnectionSpec

\* One connection, confirmed by hand (OneConnection).
THEOREM ConnectionsAreSingle == ConnectionSpec => []OneConnection
<1>1. ConnectionIInv => OneConnection
  <2> SUFFICES ASSUME ConnectionIInv PROVE OneConnection
    OBVIOUS
  <2> DEFINE live == {p \in Preparations : Live(p)}
  <2>1. Cardinality(live) <= 1
    <3>1. CASE live = {}
      BY <3>1, FS_EmptySet
    <3>2. CASE live # {}
      <4>1. PICK p \in live : TRUE
        BY <3>2
      <4>2. live = {p}
        BY <4>1 DEF ConnectionIInv, Connected
      <4>3. Cardinality({p}) = 1
        BY FS_Singleton
      <4> HIDE DEF live
      <4> QED BY <4>2, <4>3
    <3> QED BY <3>1, <3>2
  <2> QED BY <2>1 DEF ConnectionIInv, Connected, OneConnection
<1> QED BY ConnectionInitially, ConnectionInductive, <1>1, PTL DEF ConnectionSpec

\* Which steps open, make and close a connection.
LEMMA WhoChanges ==
  ASSUME ConnectionIInv, [ConnectionNext]_connectionVars, NEW p \in Preparations
  PROVE  /\ Becomes(p, {"ACTIVE"}) =>
              /\ Resumed /\ p = calls["RESUME"].id /\ StillAllowed(calls["RESUME"])
              /\ calls["RESUME"].generation < MaxGeneration
         /\ bindings[p].st = "NONE" /\ bindings'[p].st # "NONE" =>
              Confirmed /\ FreshActor(calls["CONFIRM"].actor)
         /\ Becomes(p, {"DISCONNECTED"}) =>
              Disconnected /\ StillAllowed(calls["DISCONNECT"])
<1>0. bindings \in [Preparations -> Binding]
  BY DEF ConnectionIInv, Types
<1>1. CASE UNCHANGED bindings
  BY <1>1 DEF Becomes
<1>2. CASE \E q \in Preparations : PauseError(q) \/ \E a \in Actors : Pause(q, a)
  <2> PICK q \in Preparations : PauseError(q) \/ \E a \in Actors : Pause(q, a)
    BY <1>2
  <2> DEFINE n == Above(bindings[q].generation)
  <2>1. Live(q) /\ bindings' = [bindings EXCEPT ![q].st = "PAUSED", ![q].generation = n]
    BY DEF Pause, PauseError, PauseRow, Live
  <2> HIDE DEF n
  <2>2. bindings'[q].st = "PAUSED" /\ \A r \in Preparations \ {q} : bindings'[r] = bindings[r]
    BY <1>0, <2>1 DEF Binding
  <2> QED BY <2>1, <2>2 DEF Becomes, Live
<1>3. CASE Confirmed /\ bindings' # bindings
  <2> DEFINE k == calls["CONFIRM"]
             b == [st |-> "PAUSED", generation |-> 1, branch |-> BranchOf[k.actor]]
  <2>1. FreshActor(k.actor) /\ bindings' = [bindings EXCEPT ![k.id] = b]
    BY <1>3 DEF Confirmed, Refused
  <2>2. b.st = "PAUSED"
    OBVIOUS
  <2> HIDE DEF b
  <2>3. bindings'[p] = b \/ bindings'[p] = bindings[p]
    BY <1>0, <2>1
  <2> QED BY <1>3, <2>1, <2>2, <2>3 DEF Becomes
<1>4. CASE Resumed /\ bindings' # bindings
  <2> DEFINE k == calls["RESUME"]
  <2>1. /\ StillAllowed(k) /\ bindings[k.id].st # "ACTIVE" /\ k.generation < MaxGeneration
        /\ bindings' = [bindings EXCEPT ![k.id].st = "ACTIVE", ![k.id].generation = k.generation + 1]
    BY <1>4 DEF Resumed, Refused, StillAllowed
  <2>2. bindings[k.id].st # "NONE"
    BY <2>1 DEF StillAllowed, ExpectedBinding
  <2>3. k.id \in Preparations
    BY <1>4, Names DEF Resumed, ConnectionIInv, Types, Call, IdleCall
  <2>4. bindings'[k.id].st = "ACTIVE" /\ \A r \in Preparations \ {k.id} : bindings'[r] = bindings[r]
    BY <1>0, <2>1, <2>3 DEF Binding
  <2> QED BY <1>4, <2>1, <2>2, <2>4 DEF Becomes
<1>5. CASE Disconnected /\ bindings' # bindings
  <2> DEFINE k == calls["DISCONNECT"]
  <2>1. /\ StillAllowed(k)
        /\ bindings' = [bindings EXCEPT ![k.id].st = "DISCONNECTED",
                                        ![k.id].generation = k.generation + 1]
    BY <1>5 DEF Disconnected, Refused
  <2>2. bindings[k.id].st # "NONE"
    BY <2>1 DEF StillAllowed, ExpectedBinding
  <2>3. k.id \in Preparations
    BY <1>5, Names DEF Disconnected, ConnectionIInv, Types, Call, IdleCall
  <2>4. bindings'[k.id].st = "DISCONNECTED"
        /\ \A r \in Preparations \ {k.id} : bindings'[r] = bindings[r]
    BY <1>0, <2>1, <2>3 DEF Binding
  <2> QED BY <1>5, <2>1, <2>2, <2>4 DEF Becomes
<1>6. \/ UNCHANGED bindings
      \/ \E q \in Preparations : PauseError(q) \/ \E a \in Actors : Pause(q, a)
      \/ Confirmed \/ Resumed \/ Disconnected
  BY DEF ConnectionNext, connectionVars, Prepare, Confirm, Change, Enrol, Learn, Prepared,
         Uncertain, ConfirmAnswered, ResumeAnswered, RemoteAnswers, ActorEnds, Over, FileLost,
         ConsoleRenames, ConsoleRevokes, LaptopStops
<1> QED BY <1>1, <1>2, <1>3, <1>4, <1>5, <1>6

\* A resume that was overtaken opens nothing, and whoever changes a binding is a
\* manager at that moment.
LEMMA StepsAreCurrent ==
  ASSUME ConnectionIInv, [ConnectionNext]_connectionVars, NEW p \in Preparations
  PROVE  StopHolds(p) /\ ActorIsCurrent(p)
<1> DEFINE k == calls["RESUME"]
<1>1. StopHolds(p)
  <2> SUFFICES ASSUME Becomes(p, {"ACTIVE"}), k.stopped PROVE FALSE
    BY DEF StopHolds
  <2>1. /\ k.at # "IDLE" /\ bindings[k.id].generation = k.generation
        /\ k.generation < MaxGeneration
    BY WhoChanges DEF Resumed, StillAllowed, ExpectedBinding
  <2>2. k.generation \in Nat /\ MaxGeneration \in Nat
    BY Names, ConnectionAssumption DEF ConnectionIInv, Types, Call, IdleCall
  <2> QED BY <2>1, <2>2 DEF ConnectionIInv, ResumeKnows
<1>2. ActorIsCurrent(p)
  BY WhoChanges DEF ActorIsCurrent, StillAllowed, ExpectedBinding, FreshActor
<1> QED BY <1>1, <1>2

\* The three invariants together, as the run checks them.
THEOREM ConnectionsAreSound == ConnectionSpec => []ConnectionInv
BY CodesAreSpentOnce, EnrolmentsAreRecorded, ConnectionsAreSingle, PTL DEF ConnectionInv

\* A pause is not undone by a resume that was under way, and whoever changes a
\* connection is a manager at that moment.
THEOREM NothingIsOverruled == ConnectionSpec => RequestsAreCurrent
<1>1. ConnectionIInv /\ [ConnectionNext]_connectionVars =>
        [\A p \in Preparations : StopHolds(p) /\ ActorIsCurrent(p)]_connectionVars
  BY StepsAreCurrent
<1> QED BY ConnectionInitially, ConnectionInductive, <1>1, PTL DEF ConnectionSpec, RequestsAreCurrent

-----------------------------------------------------------------------------
(***************************************************************************)
(* The database file (Database)                                            *)
(*                                                                         *)
(* Nobody's database is converted, for any number of processes that open   *)
(* one path in either mode, and any stops between their steps.  What a     *)
(* process found out before it wrote is worth nothing; the argument rests  *)
(* on the provenance checked under the writer's lock, and on a pilot's     *)
(* file being private from before that check to the end of its opening.    *)
(***************************************************************************)

-----------------------------------------------------------------------------
(* The inductive invariant *)

Modes == {"pilot", "synthetic"}
Ids == Identities \cup {Unset, "DAMAGED"}

\* DatabaseFile, in those sets.
File ==
  [version : Nat, tables : {"NONE", "OURS", "OTHER"}, mode : Modes \cup {Unset},
   people : BOOLEAN, identity : Ids, cloud : {"NONE", "EXPECTED", "OTHER"}, bound : Ids,
   private : BOOLEAN]

\* Where a process may be, and in which mode.
Opener ==
  [mode : Modes,
   at : {"IDLE", "READY", "MISSING", "CHECKED", "MIGRATING", "WORKING", "OPEN"}]

\* Another program's database has no version of ours.
Plausible(f) ==
  /\ f \in File
  /\ f.tables = "OTHER" => f.version = 0

\* What a process may rely on where it is.
Relies(o) ==
  /\ openers[o].at \in {"MIGRATING", "WORKING"} =>
       file # Unset /\ writer = o /\ Provenance(file, openers[o].mode)
  /\ openers[o].at = "CHECKED" => file # Unset
  /\ openers[o].mode = "pilot" /\ openers[o].at \in {"READY", "MIGRATING"} =>
       file # Unset /\ file.private
  /\ exchanged = 0 /\ openers[o].at \in {"OPEN", "WORKING"} =>
       /\ file # Unset /\ file.mode = openers[o].mode
       /\ file.version = Schema /\ file.identity \in Identities
       /\ openers[o].mode = "pilot" => file.private

DatabaseIInv ==
  /\ file # Unset => Plausible(file)
  /\ openers \in [Openers -> Opener]
  /\ writer # Unset => writer \in Openers /\ openers[writer].at \in {"MIGRATING", "WORKING"}
  /\ exchanged \in Nat
  /\ \A o \in Openers : Relies(o)

-----------------------------------------------------------------------------
(* Files *)

\* The sets are the module's.
LEMMA Files == DatabaseFile = File
<1>1. Modes \cup {Unset} = {"pilot", "synthetic", Unset}
  BY DEF Modes
<1> QED BY <1>1 DEF DatabaseFile, File, Ids

\* What may be found at the path.
LEMMA FoundPlausible == \A f \in Found : Plausible(f)
<1> DEFINE first == CHOOSE i \in Identities : TRUE
           new == [version |-> 0, tables |-> "NONE", mode |-> Unset, people |-> FALSE,
                   identity |-> Unset, cloud |-> "NONE", bound |-> Unset, private |-> FALSE]
           known(m, private) ==
             [version |-> 3, tables |-> "OURS", mode |-> m, people |-> TRUE, identity |-> first,
              cloud |-> "EXPECTED", bound |-> Unset, private |-> private]
           pilot == known("pilot", TRUE)
           demo == known("synthetic", FALSE)
<1>0. first \in Ids /\ Unset \in Ids /\ "DAMAGED" \in Ids /\ Unset # "pilot"
  BY DatabaseAssumption DEF Ids
<1>1. Found =
        {new, demo, pilot, [pilot EXCEPT !.private = FALSE],
         [new EXCEPT !.version = 1, !.tables = "OURS", !.people = TRUE],
         [new EXCEPT !.tables = "OTHER", !.people = TRUE],
         [pilot EXCEPT !.version = 2, !.identity = Unset, !.cloud = "NONE"],
         [pilot EXCEPT !.bound = first],
         [demo EXCEPT !.bound = first],
         [pilot EXCEPT !.bound = first, !.identity = Unset],
         [pilot EXCEPT !.identity = "DAMAGED"], [pilot EXCEPT !.mode = Unset],
         [pilot EXCEPT !.cloud = "OTHER"], [pilot EXCEPT !.version = 4]}
  <2>1. ("pilot" = "pilot") = TRUE /\ ("synthetic" = "pilot") = FALSE
    OBVIOUS
  <2>2. 3 + 1 = 4
    OBVIOUS
  <2>3. pilot.identity = first
    OBVIOUS
  <2> QED BY <2>1, <2>2, <2>3 DEF Found, NewFile, Schema
<1> HIDE DEF first
<1>2. Plausible(new)
  BY <1>0 DEF Plausible, File, Modes
<1>3. Plausible(pilot) /\ Plausible(demo)
  BY <1>0 DEF Plausible, File, Modes
<1>4. Plausible([new EXCEPT !.version = 1, !.tables = "OURS", !.people = TRUE])
  BY <1>0 DEF Plausible, File, Modes
<1>5. Plausible([new EXCEPT !.tables = "OTHER", !.people = TRUE])
  BY <1>0 DEF Plausible, File, Modes
<1>6. Plausible([pilot EXCEPT !.version = 2, !.identity = Unset, !.cloud = "NONE"])
  BY <1>0 DEF Plausible, File, Modes
<1>7. Plausible([pilot EXCEPT !.bound = first]) /\ Plausible([demo EXCEPT !.bound = first])
  BY <1>0 DEF Plausible, File, Modes
<1>8. Plausible([pilot EXCEPT !.bound = first, !.identity = Unset])
  BY <1>0 DEF Plausible, File, Modes
<1>9. Plausible([pilot EXCEPT !.identity = "DAMAGED"]) /\ Plausible([pilot EXCEPT !.mode = Unset])
  BY <1>0 DEF Plausible, File, Modes
<1>10. Plausible([pilot EXCEPT !.cloud = "OTHER"]) /\ Plausible([pilot EXCEPT !.version = 4])
  BY <1>0 DEF Plausible, File, Modes
<1>11. Plausible([pilot EXCEPT !.private = FALSE])
  BY <1>0 DEF Plausible, File, Modes
<1> HIDE DEF new, pilot, demo, known
<1> QED BY <1>1, <1>2, <1>3, <1>4, <1>5, <1>6, <1>7, <1>8, <1>9, <1>10, <1>11

\* A new file.
LEMMA NewPlausible ==
  ASSUME NEW private \in BOOLEAN
  PROVE  Plausible(NewFile(private)) /\ NewFile(private).private = private
BY DatabaseAssumption DEF NewFile, Plausible, File, Ids, Modes

\* A migration is of this version, and takes neither mode nor identity away.
LEMMA MigratedMode ==
  ASSUME NEW f \in File, NEW mode \in Modes
  PROVE  /\ Migrated(f, mode) \in File /\ Migrated(f, mode).version = Schema
         /\ Migrated(f, mode).tables = "OURS" /\ Migrated(f, mode).private = f.private
         /\ Migrated(f, mode).mode = (IF f.mode = Unset THEN mode ELSE f.mode)
<1> DEFINE m == IF f.mode = Unset THEN mode ELSE f.mode
           p == f.people \/ mode = "synthetic"
<1>1. m \in Modes \cup {Unset} /\ p \in BOOLEAN
  BY DEF File
<1>2. Migrated(f, mode) = [f EXCEPT !.version = 3, !.tables = "OURS", !.cloud = "EXPECTED",
                                    !.mode = m, !.people = p]
  BY DEF Migrated, Schema
<1> HIDE DEF m, p
<1> DEFINE g == [f EXCEPT !.version = 3, !.tables = "OURS", !.cloud = "EXPECTED",
                          !.mode = m, !.people = p]
<1>3. g \in File
  BY <1>1 DEF File
<1>4. g.version = 3 /\ g.tables = "OURS" /\ g.private = f.private /\ g.mode = m
  BY DEF File
<1> QED BY <1>2, <1>3, <1>4 DEF m, Schema

\* A file as Migrate leaves it.
Opened(f, mode, i) ==
  [Migrated(f, mode) EXCEPT !.identity = IF f.identity = Unset THEN i ELSE f.identity]

\* The identity is given once.
LEMMA OpenedFile ==
  ASSUME NEW f \in File, NEW mode \in Modes, NEW i \in Identities, NEW g,
         g = Opened(f, mode, i)
  PROVE  /\ g \in File /\ g.version = Schema /\ g.tables = "OURS" /\ g.private = f.private
         /\ g.mode = (IF f.mode = Unset THEN mode ELSE f.mode)
         /\ g.identity = (IF f.identity = Unset THEN i ELSE f.identity)
<1> DEFINE id == IF f.identity = Unset THEN i ELSE f.identity
           h == Migrated(f, mode)
<1>1. id \in Ids
  BY DEF File, Ids
<1>2. h \in File /\ h.version = Schema /\ h.tables = "OURS" /\ h.private = f.private
      /\ h.mode = (IF f.mode = Unset THEN mode ELSE f.mode)
  BY MigratedMode
<1>3. g = [h EXCEPT !.identity = id]
  BY DEF Opened
<1> HIDE DEF id, h
<1>4. g \in File /\ g.version = h.version /\ g.tables = h.tables /\ g.private = h.private
      /\ g.mode = h.mode /\ g.identity = id
  BY <1>1, <1>2, <1>3 DEF File
<1> QED BY <1>2, <1>4 DEF id

\* A file whose people or binding change, or whose permissions are hardened.
LEMMA FieldChanged ==
  ASSUME NEW f \in File, NEW g,
         \/ g = [f EXCEPT !.people = TRUE]
         \/ g = [f EXCEPT !.bound = f.identity]
         \/ g = [f EXCEPT !.private = TRUE]
  PROVE  /\ g \in File /\ g.version = f.version /\ g.tables = f.tables /\ g.mode = f.mode
         /\ g.identity = f.identity /\ (f.private => g.private)
<1>1. CASE g = [f EXCEPT !.people = TRUE]
  BY <1>1 DEF File
<1>2. CASE g = [f EXCEPT !.bound = f.identity]
  BY <1>2 DEF File
<1>3. CASE g = [f EXCEPT !.private = TRUE]
  BY <1>3 DEF File
<1> QED BY <1>1, <1>2, <1>3

\* Permissions are no matter of provenance.
LEMMA HardenedSame ==
  ASSUME NEW f \in File, NEW g, g = [f EXCEPT !.private = TRUE]
  PROVE  /\ g.private
         /\ \A mode : Provenance(f, mode) => Provenance(g, mode)
         /\ [g EXCEPT !.private = FALSE] = [f EXCEPT !.private = FALSE]
<1>1. /\ g.version = f.version /\ g.tables = f.tables /\ g.mode = f.mode /\ g.people = f.people
      /\ g.identity = f.identity /\ g.cloud = f.cloud /\ g.bound = f.bound /\ g.private
  BY DEF File
<1>2. Recorded(g) = Recorded(f)
  BY <1>1 DEF Recorded
<1>3. [g EXCEPT !.private = FALSE] = [f EXCEPT !.private = FALSE]
  BY DEF File
<1> QED BY <1>1, <1>2, <1>3 DEF Provenance

\* What passes for a mode is no other program's, is marked so or not at all,
\* and not marked if it has people, unless it is a demo's.
LEMMA ProvenanceMeans ==
  ASSUME NEW f, Plausible(f), NEW mode \in Modes, Provenance(f, mode)
  PROVE  /\ f.tables # "OTHER" /\ f.mode \in {Unset, mode}
         /\ f.mode = Unset /\ f.people => mode = "synthetic"
         /\ f.identity \in Identities \cup {Unset}
BY DatabaseAssumption DEF Provenance, Plausible, Recorded, Modes, File

\* Where a process goes.
LEMMA Moves ==
  ASSUME DatabaseIInv, NEW o \in Openers, NEW at \in {"IDLE", "READY", "MISSING", "CHECKED", "MIGRATING",
                                              "WORKING", "OPEN"}, At(o, at)
  PROVE  /\ openers' \in [Openers -> Opener]
         /\ openers'[o].at = at /\ openers'[o].mode = openers[o].mode
         /\ \A p \in Openers \ {o} : openers'[p] = openers[p]
BY DEF At, DatabaseIInv, Opener

-----------------------------------------------------------------------------
(* Steps *)

\* What a step leaves of a file that others rely on.
Kept(p) ==
  /\ file # Unset =>
       /\ file' # Unset /\ (file.private => file'.private)
       /\ file.mode # Unset => file'.mode = file.mode
       /\ file.version = Schema => file'.version = Schema
       /\ file.identity \in Identities => file'.identity = file.identity
  /\ writer = p =>
       writer' = p /\ (Provenance(file, openers[p].mode) => Provenance(file', openers[p].mode))

\* A process that did not move goes on relying on the file.
LEMMA OthersRely ==
  ASSUME DatabaseIInv, NEW p \in Openers, openers'[p] = openers[p], exchanged' = exchanged, Kept(p)
  PROVE  Relies(p)'
<1>1. Relies(p) /\ openers[p] \in Opener
  BY DEF DatabaseIInv
<1>2. openers[p].mode # Unset
  BY <1>1, DatabaseAssumption DEF Opener, Modes
<1>3. openers'[p].at \in {"MIGRATING", "WORKING"} =>
        file' # Unset /\ writer' = p /\ Provenance(file', openers'[p].mode)
  BY <1>1 DEF Relies, Kept
<1>4. openers'[p].mode = "pilot" /\ openers'[p].at \in {"READY", "MIGRATING"} =>
        file' # Unset /\ file'.private
  BY <1>1 DEF Relies, Kept
<1>5. exchanged' = 0 /\ openers'[p].at \in {"OPEN", "WORKING"} =>
        /\ file' # Unset /\ file'.mode = openers'[p].mode
        /\ file'.version = Schema /\ file'.identity \in Identities
        /\ openers'[p].mode = "pilot" => file'.private
  BY <1>1, <1>2 DEF Relies, Kept
<1>6. openers'[p].at = "CHECKED" => file' # Unset
  BY <1>1 DEF Relies, Kept
<1> QED BY <1>3, <1>4, <1>5, <1>6, Zenon DEF Relies, Provenance, Recorded

\* A step of o that keeps what the others rely on.
LEMMA Together ==
  ASSUME DatabaseIInv, NEW o \in Openers,
         file' # Unset => Plausible(file'),
         openers' \in [Openers -> Opener],
         \A p \in Openers \ {o} : openers'[p] = openers[p] /\ Kept(p),
         exchanged' = exchanged,
         writer' # Unset => writer' \in Openers /\ openers'[writer'].at \in {"MIGRATING", "WORKING"},
         Relies(o)'
  PROVE  DatabaseIInv'
<1>1. \A p \in Openers : Relies(p)'
  <2> TAKE p \in Openers
  <2>1. CASE p = o
    BY <2>1
  <2>2. CASE p # o
    BY <2>2, OthersRely
  <2> QED BY <2>1, <2>2
<1>2. (file # Unset => Plausible(file))'
  BY DEF Plausible
<1>3. (writer # Unset => writer \in Openers /\ openers[writer].at \in {"MIGRATING", "WORKING"})'
  OBVIOUS
<1>4. (exchanged \in Nat)'
  BY DEF DatabaseIInv
<1>5. (openers \in [Openers -> Opener])'
  OBVIOUS
<1> QED BY <1>1, <1>2, <1>3, <1>4, <1>5 DEF DatabaseIInv

\* A process that only moves, over the same file.
LEMMA OnlyMoves ==
  ASSUME DatabaseIInv, NEW o \in Openers, NEW at \in {"IDLE", "READY", "MISSING", "CHECKED"}, At(o, at),
         openers[o].mode = "pilot" /\ at = "READY" => file # Unset /\ file.private,
         at = "CHECKED" => file # Unset,
         UNCHANGED <<file, exchanged>>,
         \/ writer' = writer /\ openers[o].at \notin {"MIGRATING", "WORKING"}
         \/ writer' = IF writer = o THEN Unset ELSE writer
  PROVE  DatabaseIInv'
<1>1. /\ openers' \in [Openers -> Opener]
      /\ openers'[o].at = at /\ openers'[o].mode = openers[o].mode
      /\ \A p \in Openers \ {o} : openers'[p] = openers[p]
  BY Moves
<1>2. Unset \notin Openers
  BY DatabaseAssumption
<1>3. \A p \in Openers \ {o} : Kept(p)
  BY <1>2 DEF Kept
<1>4. writer' # Unset => writer' \in Openers /\ openers'[writer'].at \in {"MIGRATING", "WORKING"}
  BY <1>1 DEF DatabaseIInv
<1>5. Relies(o)'
  BY <1>1 DEF Relies
<1>6. file' # Unset => Plausible(file')
  BY DEF DatabaseIInv
<1> QED BY <1>1, <1>3, <1>4, <1>5, <1>6, Together

\* A look at the path keeps the invariant.
LEMMA LookKeeps == ASSUME DatabaseIInv, NEW o \in Openers, Look(o) PROVE DatabaseIInv'
<1>1. CASE openers[o].mode = "synthetic" /\ At(o, "READY")
  BY <1>1, OnlyMoves DEF Look
<1>2. CASE openers[o].mode = "pilot" /\ At(o, "MISSING")
  BY <1>2, OnlyMoves DEF Look
<1>3. CASE openers[o].mode = "pilot" /\ At(o, "CHECKED")
  BY <1>3, OnlyMoves DEF Look
<1> QED BY <1>1, <1>2, <1>3 DEF Look

\* So does an opener that stops, wherever it is.
LEMMA StopsKeeps == ASSUME DatabaseIInv, NEW o \in Openers, Stops(o) PROVE DatabaseIInv'
BY OnlyMoves DEF Stops

\* Only a missing file is created, on which nobody relies.
LEMMA CreateKeeps == ASSUME DatabaseIInv, NEW o \in Openers, Create(o) PROVE DatabaseIInv'
<1>1. CASE file # Unset /\ RefuseFile(o)
  BY <1>1, OnlyMoves DEF Create, RefuseFile
<1>2. CASE file = Unset /\ file' = NewFile(TRUE) /\ At(o, "READY") /\ UNCHANGED <<writer, exchanged>>
  <2>1. /\ openers' \in [Openers -> Opener]
        /\ openers'[o].at = "READY" /\ openers'[o].mode = openers[o].mode
        /\ \A p \in Openers \ {o} : openers'[p] = openers[p]
    BY <1>2, Moves
  <2>2. Plausible(file') /\ file'.private /\ file' # Unset
    <3>1. Plausible(NewFile(TRUE)) /\ NewFile(TRUE).private
      BY NewPlausible
    <3> QED BY <1>2, <3>1, Files, DatabaseAssumption DEF Plausible
  <2>3. writer = Unset
    BY <1>2 DEF DatabaseIInv, Relies
  <2>4. \A p \in Openers \ {o} : Kept(p)
    BY <1>2, <2>3, DatabaseAssumption DEF Kept
  <2>5. Relies(o)'
    BY <1>2, <2>1, <2>2 DEF Relies
  <2> QED BY <1>2, <2>1, <2>2, <2>3, <2>4, <2>5, Together
<1> QED BY <1>1, <1>2 DEF Create

\* Whoever migrates or works at the time has the same provenance after it.
LEMMA HardenKeeps == ASSUME DatabaseIInv, NEW o \in Openers, Harden(o) PROVE DatabaseIInv'
<1>1. /\ openers' \in [Openers -> Opener]
      /\ openers'[o].at = "READY" /\ openers'[o].mode = openers[o].mode
      /\ \A p \in Openers \ {o} : openers'[p] = openers[p]
  BY Moves DEF Harden
<1>2. file' = [file EXCEPT !.private = TRUE] /\ UNCHANGED <<writer, exchanged>>
  BY DEF Harden
<1>3. file # Unset /\ file \in File
  BY DEF Harden, DatabaseIInv, Relies, Plausible
<1>4. /\ file' \in File /\ file'.version = file.version /\ file'.tables = file.tables
      /\ file'.mode = file.mode /\ file'.identity = file.identity
  BY <1>2, <1>3, FieldChanged
<1>5. /\ file'.private
      /\ \A mode : Provenance(file, mode) => Provenance(file', mode)
  BY <1>2, <1>3, HardenedSame
<1>6. file' # Unset
  BY <1>4, Files, DatabaseAssumption
<1>7. Plausible(file')
  BY <1>3, <1>4, <1>5 DEF DatabaseIInv, Plausible
<1>8. \A p \in Openers \ {o} : Kept(p)
  BY <1>2, <1>4, <1>5, <1>6 DEF Kept
<1>9. writer' # Unset => writer' \in Openers /\ openers'[writer'].at \in {"MIGRATING", "WORKING"}
  BY <1>1, <1>2 DEF DatabaseIInv, Harden
<1>10. Relies(o)'
  BY <1>1, <1>5, <1>6 DEF Relies
<1> QED BY <1>1, <1>2, <1>7, <1>8, <1>9, <1>10, Together

\* Whoever begins has the lock for itself, and checks again under it.
LEMMA BeginKeeps == ASSUME DatabaseIInv, NEW o \in Openers, Begin(o) PROVE DatabaseIInv'
<1> DEFINE f == IF file = Unset THEN NewFile(FALSE) ELSE file
<1>1. /\ file' = f /\ writer = Unset /\ openers[o].at \in {"READY", "OPEN"}
      /\ exchanged' = exchanged
      /\ \/ /\ Provenance(f, openers[o].mode) /\ writer' = o
            /\ At(o, IF openers[o].at = "READY" THEN "MIGRATING" ELSE "WORKING")
         \/ /\ writer' = writer
            /\ At(o, IF openers[o].at = "READY" THEN "IDLE" ELSE "OPEN")
  BY DEF Begin
<1>2. Plausible(f) /\ (file # Unset => f = file)
  BY NewPlausible DEF DatabaseIInv
<1> HIDE DEF f
<1>3. f # Unset
  BY <1>2, Files, DatabaseAssumption DEF Plausible
<1>4. /\ openers' \in [Openers -> Opener] /\ openers'[o].mode = openers[o].mode
      /\ \/ /\ Provenance(f, openers[o].mode) /\ writer' = o
            /\ openers'[o].at = IF openers[o].at = "READY" THEN "MIGRATING" ELSE "WORKING"
         \/ /\ writer' = writer
            /\ openers'[o].at = IF openers[o].at = "READY" THEN "IDLE" ELSE "OPEN"
      /\ \A p \in Openers \ {o} : openers'[p] = openers[p]
  BY <1>1, Moves
<1>5. \A p \in Openers \ {o} : Kept(p)
  BY <1>1, <1>2, <1>3, DatabaseAssumption DEF Kept
<1>6. writer' # Unset => writer' \in Openers /\ openers'[writer'].at \in {"MIGRATING", "WORKING"}
  BY <1>1, <1>4
<1>7. Relies(o)'
  <2>1. openers[o].mode = "pilot" /\ openers[o].at = "READY" => file # Unset /\ file.private
    BY DEF DatabaseIInv, Relies
  <2>2. exchanged = 0 /\ openers[o].at = "OPEN" =>
          /\ file # Unset /\ file.mode = openers[o].mode
          /\ file.version = Schema /\ file.identity \in Identities
          /\ openers[o].mode = "pilot" => file.private
    BY DEF DatabaseIInv, Relies
  <2>3. openers'[o].at \in {"MIGRATING", "WORKING"} =>
          file' # Unset /\ writer' = o /\ Provenance(file', openers'[o].mode)
    BY <1>1, <1>3, <1>4
  <2>4. openers'[o].mode = "pilot" /\ openers'[o].at \in {"READY", "MIGRATING"} =>
          file' # Unset /\ file'.private
    BY <1>1, <1>2, <1>3, <1>4, <2>1
  <2>5. exchanged' = 0 /\ openers'[o].at \in {"OPEN", "WORKING"} =>
          /\ file' # Unset /\ file'.mode = openers'[o].mode
          /\ file'.version = Schema /\ file'.identity \in Identities
          /\ openers'[o].mode = "pilot" => file'.private
    BY <1>1, <1>2, <1>4, <2>2
  <2>6. openers'[o].at # "CHECKED"
    BY <1>1, <1>4
  <2> QED BY <2>3, <2>4, <2>5, <2>6, Zenon DEF Relies, Provenance, Recorded
<1> QED BY <1>1, <1>2, <1>4, <1>5, <1>6, <1>7, Together

\* The one commit of an opening.
LEMMA MigrateKeeps == ASSUME DatabaseIInv, NEW o \in Openers, Migrate(o) PROVE DatabaseIInv'
<1>1. PICK i \in Identities : file' = Opened(file, openers[o].mode, i)
  BY Zenon DEF Migrate, Opened
<1>2. /\ openers[o].at = "MIGRATING" /\ At(o, "OPEN") /\ writer' = Unset
      /\ exchanged' = exchanged
  BY DEF Migrate
<1>3. /\ file # Unset /\ Plausible(file) /\ writer = o /\ Provenance(file, openers[o].mode)
      /\ openers[o].mode \in Modes /\ (openers[o].mode = "pilot" => file.private)
  BY <1>2 DEF DatabaseIInv, Relies, Opener
<1>4. /\ file.mode \in {Unset, openers[o].mode} /\ file.identity \in Identities \cup {Unset}
  BY <1>3, ProvenanceMeans
<1>5. /\ file' \in File /\ file'.version = Schema /\ file'.tables = "OURS"
      /\ file'.private = file.private
      /\ file'.mode = (IF file.mode = Unset THEN openers[o].mode ELSE file.mode)
      /\ file'.identity = (IF file.identity = Unset THEN i ELSE file.identity)
  BY <1>1, <1>3, OpenedFile DEF Plausible
<1>6. file' # Unset
  BY <1>5, Files, DatabaseAssumption
<1>7. file'.mode = openers[o].mode /\ file'.identity \in Identities
  BY <1>4, <1>5
<1>8. Plausible(file')
  BY <1>3, <1>5, <1>7 DEF Plausible
<1>9. /\ openers' \in [Openers -> Opener]
      /\ openers'[o].at = "OPEN" /\ openers'[o].mode = openers[o].mode
      /\ \A p \in Openers \ {o} : openers'[p] = openers[p]
  BY <1>2, Moves
<1>10. \A p \in Openers \ {o} : Kept(p)
  BY <1>2, <1>3, <1>5, <1>6, DatabaseAssumption DEF Kept
<1>11. Relies(o)'
  BY <1>2, <1>3, <1>5, <1>6, <1>7, <1>9 DEF Relies
<1> QED BY <1>2, <1>8, <1>9, <1>10, <1>11, Together

\* What a request commits.
LEMMA WorkKeeps == ASSUME DatabaseIInv, NEW o \in Openers, Work(o) PROVE DatabaseIInv'
<1>1. /\ openers[o].at = "WORKING" /\ At(o, "OPEN") /\ writer' = Unset
      /\ exchanged' = exchanged
      /\ \/ file' = [file EXCEPT !.people = TRUE]
         \/ file' = [file EXCEPT !.bound = file.identity]
  BY DEF Work
<1>2. /\ file # Unset /\ Plausible(file) /\ writer = o /\ openers[o].mode \in Modes
      /\ (exchanged = 0 => /\ file.mode = openers[o].mode
                           /\ file.version = Schema /\ file.identity \in Identities
                           /\ openers[o].mode = "pilot" => file.private)
  BY <1>1 DEF DatabaseIInv, Relies, Opener
<1>3. /\ file' \in File /\ file'.version = file.version /\ file'.tables = file.tables
      /\ file'.mode = file.mode /\ file'.identity = file.identity
      /\ (file.private => file'.private)
  BY <1>1, <1>2, FieldChanged DEF Plausible
<1>4. file' # Unset
  BY <1>3, Files, DatabaseAssumption
<1>5. Plausible(file')
  BY <1>2, <1>3 DEF Plausible
<1>6. /\ openers' \in [Openers -> Opener]
      /\ openers'[o].at = "OPEN" /\ openers'[o].mode = openers[o].mode
      /\ \A p \in Openers \ {o} : openers'[p] = openers[p]
  BY <1>1, Moves
<1>7. \A p \in Openers \ {o} : Kept(p)
  BY <1>1, <1>2, <1>3, <1>4 DEF Kept
<1>8. Relies(o)'
  BY <1>1, <1>2, <1>3, <1>4, <1>6 DEF Relies
<1> QED BY <1>1, <1>5, <1>6, <1>7, <1>8, Together

\* Another file, while nobody is opening or writing.
LEMMA ExchangeKeeps == ASSUME DatabaseIInv, NEW f \in Found, Exchange(f) PROVE DatabaseIInv'
<1>1. /\ file' = f /\ exchanged' = exchanged + 1 /\ UNCHANGED <<openers, writer>>
      /\ \A o \in Openers : openers[o].at \in {"IDLE", "OPEN"}
  BY DEF Exchange
<1>2. Plausible(f)
  BY FoundPlausible
<1>3. exchanged' \in Nat /\ exchanged' # 0
  BY <1>1 DEF DatabaseIInv
<1>4. \A o \in Openers : Relies(o)'
  BY <1>1, <1>3 DEF Relies
<1>5. (file # Unset => Plausible(file))'
  BY <1>1, <1>2
<1>6. (openers \in [Openers -> Opener])'
  BY <1>1 DEF DatabaseIInv
<1>7. (writer # Unset => writer \in Openers /\ openers[writer].at \in {"MIGRATING", "WORKING"})'
  BY <1>1 DEF DatabaseIInv
<1> QED BY <1>3, <1>4, <1>5, <1>6, <1>7 DEF DatabaseIInv

-----------------------------------------------------------------------------
(* Theorems *)

\* The invariant holds at the beginning.
LEMMA DatabaseInitially == DatabaseInit => DatabaseIInv
<1> SUFFICES ASSUME DatabaseInit PROVE DatabaseIInv
  OBVIOUS
<1>1. file # Unset => Plausible(file)
  BY FoundPlausible DEF DatabaseInit
<1>2. openers \in [Openers -> Opener] /\ \A o \in Openers : openers[o].at = "IDLE"
  BY DEF DatabaseInit, Opener, Modes
<1>3. \A o \in Openers : Relies(o)
  BY <1>2 DEF Relies
<1> QED BY <1>1, <1>2, <1>3 DEF DatabaseIInv, DatabaseInit

\* Every step keeps it.
LEMMA DatabaseInductive == DatabaseIInv /\ [DatabaseNext]_databaseVars => DatabaseIInv'
<1> SUFFICES ASSUME DatabaseIInv, [DatabaseNext]_databaseVars PROVE DatabaseIInv'
  OBVIOUS
<1>1. CASE UNCHANGED databaseVars
  BY <1>1 DEF DatabaseIInv, databaseVars, Relies, Plausible, Provenance, Recorded
<1>2. CASE DatabaseNext
  <2>1. CASE \E f \in Found : Exchange(f)
    BY <2>1, ExchangeKeeps
  <2>2. CASE \E o \in Openers : Look(o) \/ Stops(o)
    BY <2>2, LookKeeps, StopsKeeps
  <2>3. CASE \E o \in Openers : Create(o) \/ Harden(o)
    BY <2>3, CreateKeeps, HardenKeeps
  <2>4. CASE \E o \in Openers : Begin(o) \/ Migrate(o) \/ Work(o)
    BY <2>4, BeginKeeps, MigrateKeeps, WorkKeeps
  <2> QED BY <1>2, <2>1, <2>2, <2>3, <2>4 DEF DatabaseNext
<1> QED BY <1>1, <1>2

\* A pilot opens and works on a file nobody else can read (PilotIsPrivate):
\* prepare_pilot_database comes before every opening, and no step takes it back.
THEOREM PilotsArePrivate == DatabaseSpec => []PilotIsPrivate
<1>1. DatabaseIInv => PilotIsPrivate
  BY DEF DatabaseIInv, Relies, PilotIsPrivate
<1> QED BY DatabaseInitially, DatabaseInductive, <1>1, PTL DEF DatabaseSpec

\* An open process and its file agree (OpenIsOurs).
THEOREM OpenersAgree == DatabaseSpec => []OpenIsOurs
<1>1. DatabaseIInv => OpenIsOurs
  BY DEF DatabaseIInv, Relies, Provenance, OpenIsOurs
<1> QED BY DatabaseInitially, DatabaseInductive, <1>1, PTL DEF DatabaseSpec

\* The step of NeverConverted.
Unconverted ==
  file # Unset /\ exchanged' = exchanged =>
    /\ file.mode # Unset => file'.mode = file.mode
    /\ file.mode = Unset /\ file.people => file'.mode # "pilot"
    /\ file.identity # Unset => file'.identity = file.identity
    /\ file.tables = "OTHER" => [file' EXCEPT !.private = FALSE] = [file EXCEPT !.private = FALSE]

\* Every step is one that converts nothing.
LEMMA NothingConverts == DatabaseIInv /\ [DatabaseNext]_databaseVars => [Unconverted]_file
<1> SUFFICES ASSUME DatabaseIInv, DatabaseNext, file # Unset, exchanged' = exchanged, file' # file
             PROVE  Unconverted
  BY DEF databaseVars, Unconverted
<1>0. Plausible(file) /\ file \in File
  BY DEF DatabaseIInv, Plausible
<1>1. CASE \E f \in Found : Exchange(f)
  BY <1>1 DEF Exchange, DatabaseIInv
<1>2. CASE \E o \in Openers : Look(o) \/ Stops(o) \/ Create(o) \/ Begin(o)
  BY <1>2 DEF Look, Stops, Create, RefuseFile, Begin
<1>3. CASE \E o \in Openers : Harden(o)
  <2>1. file' = [file EXCEPT !.private = TRUE]
    BY <1>3 DEF Harden
  <2>2. file'.mode = file.mode /\ file'.identity = file.identity
    BY <1>0, <2>1, FieldChanged
  <2>3. [file' EXCEPT !.private = FALSE] = [file EXCEPT !.private = FALSE]
    BY <1>0, <2>1, HardenedSame
  <2>4. file.mode = Unset => file'.mode # "pilot"
    BY <2>2, DatabaseAssumption
  <2> QED BY <2>2, <2>3, <2>4 DEF Unconverted
<1>4. CASE \E o \in Openers : Migrate(o) \/ Work(o)
  <2> PICK o \in Openers : Migrate(o) \/ Work(o)
    BY <1>4
  <2>1. openers[o].mode \in Modes /\ Provenance(file, openers[o].mode)
    BY DEF DatabaseIInv, Relies, Opener, Migrate, Work
  <2>2. /\ file.tables # "OTHER" /\ file.mode \in {Unset, openers[o].mode}
        /\ file.mode = Unset /\ file.people => openers[o].mode = "synthetic"
    BY <1>0, <2>1, ProvenanceMeans
  <2>3. CASE Migrate(o)
    <3> PICK i \in Identities : file' = Opened(file, openers[o].mode, i)
      BY <2>3, Zenon DEF Migrate, Opened
    <3>1. /\ file'.mode = (IF file.mode = Unset THEN openers[o].mode ELSE file.mode)
          /\ file'.identity = (IF file.identity = Unset THEN i ELSE file.identity)
      BY <1>0, <2>1, OpenedFile
    <3> QED BY <2>2, <3>1 DEF Unconverted
  <2>4. CASE Work(o)
    <3>1. file'.mode = file.mode /\ file'.identity = file.identity
      BY <1>0, <2>4, FieldChanged DEF Work
    <3> QED BY <2>2, <3>1, DatabaseAssumption DEF Unconverted
  <2> QED BY <2>3, <2>4
<1> QED BY <1>1, <1>2, <1>3, <1>4 DEF DatabaseNext

\* No process converts a database (NeverConverted), whatever ran with it.
THEOREM NobodyConverts == DatabaseSpec => NeverConverted
<1>1. [Unconverted]_file =>
        [file # Unset /\ exchanged' = exchanged =>
           /\ file.mode # Unset => file'.mode = file.mode
           /\ file.mode = Unset /\ file.people => file'.mode # "pilot"
           /\ file.identity # Unset => file'.identity = file.identity
           /\ file.tables = "OTHER" => [file' EXCEPT !.private = FALSE] = [file EXCEPT !.private = FALSE]]_file
  BY Zenon DEF Unconverted
<1> QED BY DatabaseInitially, DatabaseInductive, NothingConverts, <1>1, PTL DEF DatabaseSpec, NeverConverted

\* The two invariants together, as the run checks them.
THEOREM DatabasesAreSound == DatabaseSpec => []DatabaseInv
BY PilotsArePrivate, OpenersAgree, PTL DEF DatabaseInv

-----------------------------------------------------------------------------
(***************************************************************************)
(* Backup and restore (Recovery)                                           *)
(*                                                                         *)
(* What a restored laptop may do and what it owes, for any jobs and any    *)
(* life of the old laptop before and after the backup.  A fence of the     *)
(* archive is all a restore ever publishes; that it accounts for the cloud *)
(* rests on how the old laptop's rows and the archive's stay related while *)
(* the laptop goes on.                                                     *)
(***************************************************************************)

-----------------------------------------------------------------------------
(* The inductive invariant *)

RowStates == {"NONE", "pending", "completed", "failed", "cancelled"}
ItemStates == {"NONE", "PENDING", "LEASED", "RECEIVED", "OWED", "WITHDRAWN", "CANCELLED", "BLOCKED"}

\* A laptop, or an archive of one.
Machine ==
  [rows : [Jobs -> RowStates], frames : SUBSET Jobs, items : [Jobs -> ItemStates],
   attempted : SUBSET Jobs, binding : {"ACTIVE", "RESTORED"}, account : BOOLEAN,
   session : BOOLEAN]

\* An observation is made by the job that completes, and on its way once it
\* was claimed.
RowsAndItems(w) ==
  \A j \in Jobs :
    /\ w.rows[j] = "pending" => w.items[j] = "NONE"
    /\ w.items[j] = "NONE" => j \notin w.attempted
    /\ w.items[j] \in {"LEASED", "RECEIVED"} => j \in w.attempted

\* What the cloud holds was claimed, and its withdrawal is not acknowledged.
CloudFromClaims == \A j \in inCloud : j \in laptop.attempted /\ laptop.items[j] # "WITHDRAWN"

\* The archive owes what the laptop has claimed and not withdrawn, except for
\* what was first claimed since, and what it had withdrawn stays withdrawn.
ArchiveOwes ==
  archive # NoArchive =>
    /\ archive \in Machine /\ RowsAndItems(archive)
    /\ \A j \in Jobs : archive.items[j] = "WITHDRAWN" => laptop.items[j] = "WITHDRAWN"
    /\ \A j \in laptop.attempted \ since : laptop.items[j] # "WITHDRAWN" =>
         j \in archive.attempted /\ archive.items[j] \notin {"NONE", "WITHDRAWN"}

\* A copy that was fenced, whatever was overdue when it was.
FenceOf(w, a) ==
  /\ w.items = [j \in Jobs |-> RestoredItem(a, j)]
  /\ w.binding = "RESTORED" /\ ~w.account /\ ~w.session
  /\ \A j \in Jobs : w.rows[j] = "NONE" \/ (w.rows[j] # "pending" /\ w.rows[j] \in {a.rows[j], "cancelled"})
  /\ w.frames = {j \in a.frames : w.rows[j] = "completed"}

\* Only a fence of an archive with all its frames is moved into place.
RestoreSound ==
  /\ restore.at = "IDLE" => restore.moved = {}
  /\ restore.at # "IDLE" => archive # NoArchive /\ archive.frames = Framed(archive)
  /\ restore.at = "STAGED" => restore.stage = archive /\ restore.moved = {}
  /\ restore.at \notin {"IDLE", "STAGED"} => FenceOf(restore.stage, archive)
  /\ restore.at \in {"IDLE", "STAGED", "MOVING", "DONE", "KILLED"}
  /\ restore = [at |-> restore.at, stage |-> restore.stage, moved |-> restore.moved]

RecoveryIInv ==
  /\ laptop \in Machine /\ RowsAndItems(laptop)
  /\ inCloud \subseteq Jobs
  /\ CloudFromClaims /\ ArchiveOwes /\ RestoreSound

-----------------------------------------------------------------------------
(* Records *)

\* A machine is its tables and its access, so an update of one leaves the rest.
LEMMA MachineFields ==
  ASSUME NEW w \in Machine
  PROVE  /\ w.rows \in [Jobs -> RowStates] /\ w.frames \in SUBSET Jobs
         /\ w.items \in [Jobs -> ItemStates] /\ w.attempted \in SUBSET Jobs
         /\ w.account \in BOOLEAN /\ w.session \in BOOLEAN /\ w.binding \in {"ACTIVE", "RESTORED"}
BY DEF Machine

-----------------------------------------------------------------------------
(* Steps of the laptop *)

\* One job's row and item in the place of the others.
LEMMA JobTables ==
  ASSUME laptop \in Machine, NEW j \in Jobs, NEW r \in RowStates, NEW i \in ItemStates
  PROVE  /\ JobRow(j, r) \in [Jobs -> RowStates] /\ JobItem(j, i) \in [Jobs -> ItemStates]
         /\ JobRow(j, r)[j] = r /\ \A q \in Jobs \ {j} : JobRow(j, r)[q] = laptop.rows[q]
         /\ JobItem(j, i)[j] = i /\ \A q \in Jobs \ {j} : JobItem(j, i)[q] = laptop.items[q]
BY MachineFields DEF JobRow, JobItem

\* A step of the laptop that leaves the archive and the restore alone, moves
\* one item the way the outbox does, and claims at most that job.
LEMMA LaptopKeeps ==
  ASSUME RecoveryIInv, NEW j \in Jobs, laptop' \in Machine, UNCHANGED <<archive, restore>>,
         \A q \in Jobs : laptop'.rows[q] = "pending" => laptop'.items[q] = "NONE",
         laptop'.items[j] = "NONE" => j \notin laptop'.attempted,
         laptop'.items[j] \in {"LEASED", "RECEIVED"} => j \in laptop'.attempted,
         \A q \in Jobs \ {j} : laptop'.items[q] = laptop.items[q]
                               /\ (q \in laptop'.attempted <=> q \in laptop.attempted),
         laptop.items[j] = "WITHDRAWN" => laptop'.items[j] = "WITHDRAWN",
         inCloud' \subseteq Jobs,
         \A q \in Jobs \ {j} : q \in inCloud' => q \in inCloud,
         j \in inCloud' => j \in laptop'.attempted /\ laptop'.items[j] # "WITHDRAWN",
         since \subseteq since',
         \/ j \in laptop'.attempted => j \in laptop.attempted
         \/ laptop.items[j] # "WITHDRAWN"
            /\ (archive = NoArchive \/ j \in archive.attempted \/ j \in since')
  PROVE  RecoveryIInv'
<1>1. RowsAndItems(laptop)'
  BY DEF RecoveryIInv, RowsAndItems
<1>2. CloudFromClaims'
  BY DEF RecoveryIInv, CloudFromClaims
<1>3. ArchiveOwes'
  <2> SUFFICES ASSUME archive # NoArchive
               PROVE  /\ \A q \in Jobs : archive.items[q] = "WITHDRAWN" => laptop'.items[q] = "WITHDRAWN"
                      /\ \A q \in laptop'.attempted \ since' : laptop'.items[q] # "WITHDRAWN" =>
                           q \in archive.attempted /\ archive.items[q] \notin {"NONE", "WITHDRAWN"}
    BY DEF RecoveryIInv, ArchiveOwes, RowsAndItems, Machine
  <2>0. /\ RowsAndItems(archive)
        /\ \A q \in Jobs : archive.items[q] = "WITHDRAWN" => laptop.items[q] = "WITHDRAWN"
        /\ \A q \in laptop.attempted \ since : laptop.items[q] # "WITHDRAWN" =>
             q \in archive.attempted /\ archive.items[q] \notin {"NONE", "WITHDRAWN"}
    BY DEF RecoveryIInv, ArchiveOwes
  <2>1. \A q \in Jobs : archive.items[q] = "WITHDRAWN" => laptop'.items[q] = "WITHDRAWN"
    BY <2>0
  <2>2. ASSUME NEW q \in laptop'.attempted \ since', laptop'.items[q] # "WITHDRAWN"
        PROVE  q \in archive.attempted /\ archive.items[q] \notin {"NONE", "WITHDRAWN"}
    <3>1. q \in Jobs /\ q \notin since
      BY <2>2, MachineFields
    <3>2. CASE q \in laptop.attempted
      BY <2>0, <2>2, <3>1, <3>2
    <3>3. CASE q \notin laptop.attempted
      <4>1. q = j /\ laptop.items[q] # "WITHDRAWN" /\ q \in archive.attempted
        BY <2>2, <3>1, <3>3
      <4> QED BY <2>0, <3>1, <4>1 DEF RowsAndItems
    <3> QED BY <3>2, <3>3
  <2> QED BY <2>1, <2>2
<1>4. RestoreSound'
  BY DEF RecoveryIInv, RestoreSound, FenceOf, RestoredItem, Framed
<1> QED BY <1>1, <1>2, <1>3, <1>4 DEF RecoveryIInv

\* A step that leaves items, claims, archive, restore and cloud alone, and
\* makes no job pending that has an observation.
LEMMA RowsKeep ==
  ASSUME RecoveryIInv, laptop' \in Machine, UNCHANGED <<archive, restore, inCloud, since>>,
         laptop'.items = laptop.items, laptop'.attempted = laptop.attempted,
         \A q \in Jobs : laptop'.rows[q] = "pending" => laptop.items[q] = "NONE"
  PROVE  RecoveryIInv'
<1>1. RowsAndItems(laptop)'
  BY DEF RecoveryIInv, RowsAndItems
<1>2. CloudFromClaims' /\ ArchiveOwes'
  BY DEF RecoveryIInv, CloudFromClaims, ArchiveOwes, RowsAndItems, Machine
<1>3. RestoreSound'
  BY DEF RecoveryIInv, RestoreSound, FenceOf, RestoredItem, Framed
<1> QED BY <1>1, <1>2, <1>3 DEF RecoveryIInv

\* What is known of one job of the laptop.
LEMMA OneJob ==
  ASSUME RecoveryIInv, NEW j \in Jobs
  PROVE  /\ laptop \in Machine
         /\ laptop.rows \in [Jobs -> RowStates] /\ laptop.items \in [Jobs -> ItemStates]
         /\ laptop.frames \in SUBSET Jobs /\ laptop.attempted \in SUBSET Jobs
         /\ \A q \in Jobs : laptop.rows[q] = "pending" => laptop.items[q] = "NONE"
         /\ laptop.items[j] = "NONE" => j \notin laptop.attempted
         /\ laptop.items[j] \in {"LEASED", "RECEIVED"} => j \in laptop.attempted
         /\ j \in inCloud => j \in laptop.attempted /\ laptop.items[j] # "WITHDRAWN"
         /\ inCloud \subseteq Jobs
BY MachineFields DEF RecoveryIInv, RowsAndItems, CloudFromClaims

-----------------------------------------------------------------------------
(* Every step keeps the invariant *)

\* An active laptop with nothing on it.
LEMMA RecoveryInitially == RecoveryInit => RecoveryIInv
<1> SUFFICES ASSUME RecoveryInit PROVE RecoveryIInv
  OBVIOUS
<1>1. laptop \in Machine
  BY DEF RecoveryInit, Machine, RowStates, ItemStates
<1>2. RowsAndItems(laptop)
  BY DEF RecoveryInit, RowsAndItems
<1>3. inCloud \subseteq Jobs /\ CloudFromClaims /\ ArchiveOwes /\ RestoreSound
  BY DEF RecoveryInit, CloudFromClaims, ArchiveOwes, RestoreSound
<1> QED BY <1>1, <1>2, <1>3 DEF RecoveryIInv

\* Starting, stopping and the staff touch no item.
LEMMA ServingKeeps == ASSUME RecoveryIInv, StartServing \/ StopServing \/ Staff PROVE RecoveryIInv'
<1>0. laptop \in Machine
      /\ \A q \in Jobs : laptop.rows[q] = "pending" => laptop.items[q] = "NONE"
  BY DEF RecoveryIInv, RowsAndItems
<1>1. CASE StartServing
  <2> DEFINE rows == [j \in Jobs |-> IF laptop.rows[j] = "pending" THEN "failed" ELSE laptop.rows[j]]
  <2>1. rows \in [Jobs -> RowStates] /\ \A q \in Jobs : rows[q] # "pending"
    BY <1>0, MachineFields DEF RowStates
  <2>2. laptop' = [laptop EXCEPT !.rows = rows] /\ UNCHANGED <<archive, restore, inCloud, since>>
    BY <1>1 DEF StartServing, Laptop
  <2> HIDE DEF rows
  <2>3. laptop' \in Machine /\ laptop'.rows = rows /\ laptop'.items = laptop.items
        /\ laptop'.attempted = laptop.attempted
    BY <1>0, <2>1, <2>2, MachineFields DEF Machine
  <2> QED BY <2>1, <2>2, <2>3, RowsKeep
<1>2. CASE StopServing
  BY <1>0, <1>2, RowsKeep DEF StopServing, Laptop
<1>3. CASE Staff
  <2>1. UNCHANGED <<archive, restore, inCloud, since>>
    BY <1>3 DEF Staff, Laptop
  <2>2. laptop' \in Machine /\ laptop'.rows = laptop.rows /\ laptop'.items = laptop.items
        /\ laptop'.attempted = laptop.attempted
    <3>1. CASE laptop' = [laptop EXCEPT !.session = ~laptop.session]
      BY <1>0, <3>1, MachineFields DEF Machine
    <3>2. CASE laptop' = [laptop EXCEPT !.account = FALSE, !.session = FALSE]
      BY <1>0, <3>2 DEF Machine
    <3> QED BY <1>3, <3>1, <3>2 DEF Staff, Laptop
  <2> QED BY <1>0, <2>1, <2>2, RowsKeep
<1> QED BY <1>1, <1>2, <1>3

\* A job is submitted, completed or dropped, or ends half done.
LEMMA JobKeeps ==
  ASSUME RecoveryIInv, NEW j \in Jobs, SubmitJob(j) \/ CompleteJob(j) \/ DropJob(j)
  PROVE  RecoveryIInv'
<1> DEFINE w == laptop
           more == laptop.frames \cup {j}
           less == laptop.frames \ {j}
<1>0. more \in SUBSET Jobs /\ less \in SUBSET Jobs
  BY OneJob
<1>1. ASSUME NEW frames \in SUBSET Jobs, laptop' = [laptop EXCEPT !.frames = frames],
             UNCHANGED <<archive, restore, inCloud, since>>
      PROVE  RecoveryIInv'
  <2>1. laptop' \in Machine /\ laptop'.rows = laptop.rows /\ laptop'.items = laptop.items
        /\ laptop'.attempted = laptop.attempted
    BY <1>1, OneJob DEF Machine
  <2> QED BY <1>1, <2>1, OneJob, RowsKeep
<1>2. CASE SubmitJob(j)
  <2>1. UNCHANGED <<archive, restore, inCloud, since>> /\ laptop.items[j] = "NONE"
    BY <1>2 DEF SubmitJob, Laptop
  <2>2. CASE laptop' = [laptop EXCEPT !.rows = JobRow(j, "pending"), !.frames = more]
    <3>1. "pending" \in RowStates
      BY DEF RowStates
    <3>2. JobRow(j, "pending") \in [Jobs -> RowStates]
          /\ \A q \in Jobs \ {j} : JobRow(j, "pending")[q] = laptop.rows[q]
      BY <3>1, OneJob, JobTables DEF ItemStates
    <3>3. laptop' \in Machine /\ laptop'.rows = JobRow(j, "pending")
          /\ laptop'.items = laptop.items /\ laptop'.attempted = laptop.attempted
      BY <1>0, <2>2, <3>2, OneJob DEF Machine
    <3> QED BY <2>1, <3>2, <3>3, OneJob, RowsKeep
  <2>3. CASE laptop' = [laptop EXCEPT !.frames = more]
    BY <1>0, <1>1, <2>1, <2>3
  <2> QED BY <1>2, <2>2, <2>3 DEF SubmitJob, Laptop
<1>3. CASE CompleteJob(j)
  <2> DEFINE i == IF laptop.binding = "ACTIVE" THEN "PENDING" ELSE "NONE"
  <2>1. UNCHANGED <<archive, restore, inCloud, since>> /\ laptop.rows[j] = "pending"
        /\ laptop' = [laptop EXCEPT !.rows = JobRow(j, "completed"), !.items = JobItem(j, i)]
    BY <1>3 DEF CompleteJob, Laptop
  <2>2. i \in ItemStates /\ i \in {"PENDING", "NONE"} /\ "completed" \in RowStates
    BY DEF ItemStates, RowStates
  <2> HIDE DEF i
  <2>3. /\ JobRow(j, "completed") \in [Jobs -> RowStates] /\ JobItem(j, i) \in [Jobs -> ItemStates]
        /\ JobRow(j, "completed")[j] = "completed"
        /\ \A q \in Jobs \ {j} : JobRow(j, "completed")[q] = laptop.rows[q]
        /\ JobItem(j, i)[j] = i /\ \A q \in Jobs \ {j} : JobItem(j, i)[q] = laptop.items[q]
    BY <2>2, OneJob, JobTables
  <2>4. laptop' \in Machine /\ laptop'.rows = JobRow(j, "completed")
        /\ laptop'.items = JobItem(j, i) /\ laptop'.attempted = laptop.attempted
    BY <2>1, <2>3, OneJob DEF Machine
  <2>5. j \notin laptop.attempted /\ j \notin inCloud /\ laptop.items[j] = "NONE"
    BY <2>1, OneJob
  <2>6. \A q \in Jobs : laptop'.rows[q] = "pending" => laptop'.items[q] = "NONE"
    BY <2>3, <2>4, OneJob
  <2> QED BY <2>1, <2>2, <2>3, <2>4, <2>5, <2>6, OneJob, LaptopKeeps
<1>4. CASE DropJob(j)
  <2>1. UNCHANGED <<archive, restore, inCloud, since>>
    BY <1>4 DEF DropJob, Laptop
  <2>2. CASE laptop' = [laptop EXCEPT !.rows = JobRow(j, "NONE"), !.frames = less,
                                      !.items = JobItem(j, DroppedItem(j))]
    <3> DEFINE i == DroppedItem(j)
    <3>1. /\ i \in ItemStates /\ "NONE" \in RowStates /\ i \notin {"LEASED", "RECEIVED"}
          /\ (i = "NONE" <=> laptop.items[j] = "NONE")
          /\ (i = "WITHDRAWN" <=> laptop.items[j] = "WITHDRAWN")
      BY OneJob DEF DroppedItem, ItemStates, RowStates
    <3> HIDE DEF i
    <3>2. /\ JobRow(j, "NONE") \in [Jobs -> RowStates] /\ JobItem(j, i) \in [Jobs -> ItemStates]
          /\ JobRow(j, "NONE")[j] = "NONE"
          /\ \A q \in Jobs \ {j} : JobRow(j, "NONE")[q] = laptop.rows[q]
          /\ JobItem(j, i)[j] = i /\ \A q \in Jobs \ {j} : JobItem(j, i)[q] = laptop.items[q]
      BY <3>1, OneJob, JobTables
    <3>3. laptop' \in Machine /\ laptop'.rows = JobRow(j, "NONE")
          /\ laptop'.items = JobItem(j, i) /\ laptop'.attempted = laptop.attempted
      BY <1>0, <2>2, <3>2, OneJob DEF Machine, i
    <3>4. \A q \in Jobs : laptop'.rows[q] = "pending" => laptop'.items[q] = "NONE"
      BY <3>2, <3>3, OneJob
    <3> QED BY <2>1, <3>1, <3>2, <3>3, <3>4, OneJob, LaptopKeeps
  <2>3. CASE laptop' = [laptop EXCEPT !.frames = less]
    BY <1>0, <1>1, <2>1, <2>3
  <2> QED BY <1>4, <2>2, <2>3 DEF DropJob, Laptop
<1> QED BY <1>2, <1>3, <1>4

\* An item is claimed, sent, withdrawn, or its claim runs out.
LEMMA ItemKeeps ==
  ASSUME RecoveryIInv, NEW j \in Jobs, Claim(j) \/ Send(j) \/ SendWithdrawal(j)
  PROVE  RecoveryIInv'
<1>1. ASSUME NEW i \in ItemStates \ {"NONE"}, laptop.items[j] # "NONE",
             laptop' = [laptop EXCEPT !.items = JobItem(j, i)]
      PROVE  /\ laptop' \in Machine
             /\ laptop'.items[j] = i /\ laptop'.attempted = laptop.attempted
             /\ \A q \in Jobs : laptop'.rows[q] = "pending" => laptop'.items[q] = "NONE"
             /\ \A q \in Jobs \ {j} : laptop'.items[q] = laptop.items[q]
  <2>1. /\ JobItem(j, i) \in [Jobs -> ItemStates]
        /\ JobItem(j, i)[j] = i /\ \A q \in Jobs \ {j} : JobItem(j, i)[q] = laptop.items[q]
    BY OneJob, JobTables DEF RowStates
  <2>2. laptop' \in Machine /\ laptop'.rows = laptop.rows
        /\ laptop'.items = JobItem(j, i) /\ laptop'.attempted = laptop.attempted
    BY <1>1, <2>1, OneJob DEF Machine
  <2> QED BY <1>1, <2>1, <2>2, OneJob
<1>2. {"LEASED", "RECEIVED", "PENDING", "WITHDRAWN"} \subseteq ItemStates \ {"NONE"}
  BY DEF ItemStates
<1>3. CASE Claim(j)
  <2> DEFINE attempted == laptop.attempted \cup {j}
  <2>1. /\ UNCHANGED <<archive, restore, inCloud>> /\ laptop.items[j] = "PENDING"
        /\ laptop' = [laptop EXCEPT !.items = JobItem(j, "LEASED"), !.attempted = attempted]
        /\ since' = IF archive # NoArchive /\ j \notin archive.attempted THEN since \cup {j} ELSE since
    BY <1>3 DEF Claim, Laptop
  <2>2. attempted \in SUBSET Jobs /\ j \in attempted
        /\ \A q \in Jobs \ {j} : q \in attempted <=> q \in laptop.attempted
    BY OneJob
  <2> HIDE DEF attempted
  <2>3. /\ laptop' \in Machine
        /\ laptop'.items[j] = "LEASED" /\ laptop'.attempted = attempted
        /\ \A q \in Jobs : laptop'.rows[q] = "pending" => laptop'.items[q] = "NONE"
        /\ \A q \in Jobs \ {j} : laptop'.items[q] = laptop.items[q]
    <3>1. /\ JobItem(j, "LEASED") \in [Jobs -> ItemStates]
          /\ JobItem(j, "LEASED")[j] = "LEASED"
          /\ \A q \in Jobs \ {j} : JobItem(j, "LEASED")[q] = laptop.items[q]
      BY <1>2, OneJob, JobTables DEF RowStates
    <3>2. laptop' \in Machine /\ laptop'.rows = laptop.rows
          /\ laptop'.items = JobItem(j, "LEASED") /\ laptop'.attempted = attempted
      BY <2>1, <2>2, <3>1, OneJob DEF Machine
    <3> QED BY <2>1, <3>1, <3>2, OneJob
  <2>4. since \subseteq since' /\ (archive = NoArchive \/ j \in archive.attempted \/ j \in since')
    BY <2>1
  <2> QED BY <2>1, <2>2, <2>3, <2>4, OneJob, LaptopKeeps
<1>4. ASSUME laptop.items[j] = "LEASED" \/ laptop.items[j] = "OWED",
             UNCHANGED <<archive, restore, since>>, laptop' = laptop,
             \/ inCloud' = inCloud \cup {j} /\ laptop.items[j] = "LEASED"
             \/ inCloud' = inCloud \ {j}
      PROVE  RecoveryIInv'
  BY <1>4, OneJob, LaptopKeeps
<1>5. CASE Send(j)
  <2>1. laptop.items[j] = "LEASED" /\ UNCHANGED <<archive, restore, since>>
    BY <1>5 DEF Send, Laptop
  <2>2. j \in laptop.attempted /\ laptop.attempted \in SUBSET Jobs
    BY <2>1, OneJob
  <2>3. CASE inCloud' = inCloud \cup {j} /\ laptop' = [laptop EXCEPT !.items = JobItem(j, "RECEIVED")]
    <3>1. /\ laptop' \in Machine
          /\ laptop'.items[j] = "RECEIVED" /\ laptop'.attempted = laptop.attempted
          /\ \A q \in Jobs : laptop'.rows[q] = "pending" => laptop'.items[q] = "NONE"
          /\ \A q \in Jobs \ {j} : laptop'.items[q] = laptop.items[q]
      BY <1>1, <1>2, <2>1, <2>2, <2>3
    <3> QED BY <2>1, <2>2, <2>3, <3>1, OneJob, LaptopKeeps
  <2>4. CASE inCloud' = inCloud \cup {j} /\ laptop' = laptop
    BY <1>4, <2>1, <2>4
  <2>5. CASE inCloud' = inCloud /\ laptop' = [laptop EXCEPT !.items = JobItem(j, "PENDING")]
    <3>1. /\ laptop' \in Machine
          /\ laptop'.items[j] = "PENDING" /\ laptop'.attempted = laptop.attempted
          /\ \A q \in Jobs : laptop'.rows[q] = "pending" => laptop'.items[q] = "NONE"
          /\ \A q \in Jobs \ {j} : laptop'.items[q] = laptop.items[q]
      BY <1>1, <1>2, <2>1, <2>2, <2>5
    <3> QED BY <2>1, <2>2, <2>5, <3>1, OneJob, LaptopKeeps
  <2> QED BY <1>5, <2>3, <2>4, <2>5 DEF Send, Laptop
<1>6. CASE SendWithdrawal(j)
  <2>1. laptop.items[j] = "OWED" /\ inCloud' = inCloud \ {j} /\ UNCHANGED <<archive, restore, since>>
    BY <1>6 DEF SendWithdrawal, Laptop
  <2>2. laptop.attempted \in SUBSET Jobs
    BY OneJob
  <2>3. CASE laptop' = [laptop EXCEPT !.items = JobItem(j, "WITHDRAWN")]
    <3>1. /\ laptop' \in Machine
          /\ laptop'.items[j] = "WITHDRAWN" /\ laptop'.attempted = laptop.attempted
          /\ \A q \in Jobs : laptop'.rows[q] = "pending" => laptop'.items[q] = "NONE"
          /\ \A q \in Jobs \ {j} : laptop'.items[q] = laptop.items[q]
      BY <1>1, <1>2, <2>1, <2>2, <2>3
    <3> QED BY <2>1, <2>3, <3>1, OneJob, LaptopKeeps
  <2>4. CASE laptop' = laptop
    BY <1>4, <2>1, <2>4
  <2> QED BY <1>6, <2>3, <2>4 DEF SendWithdrawal, Laptop
<1> QED BY <1>3, <1>5, <1>6

\* A backup is the laptop at that moment.
LEMMA BackupKeeps == ASSUME RecoveryIInv, CreateBackup PROVE RecoveryIInv'
<1>1. archive' = [laptop EXCEPT !.frames = Framed(laptop)] /\ archive = NoArchive
      /\ UNCHANGED <<laptop, inCloud, since, restore>>
  BY DEF CreateBackup
<1>2. Framed(laptop) \in SUBSET Jobs /\ laptop \in Machine
  BY DEF Framed, RecoveryIInv
<1>3. archive' \in Machine /\ archive'.items = laptop.items /\ archive'.rows = laptop.rows
      /\ archive'.attempted = laptop.attempted
  BY <1>1, <1>2, MachineFields DEF Machine
<1>4. RowsAndItems(archive')
  BY <1>3 DEF RecoveryIInv, RowsAndItems
<1>5. \A q \in Jobs : q \in laptop.attempted => laptop.items[q] # "NONE"
  BY DEF RecoveryIInv, RowsAndItems
<1>6. ArchiveOwes'
  <2>1. laptop.attempted \subseteq Jobs
    BY <1>2, MachineFields
  <2> QED BY <1>1, <1>3, <1>4, <1>5, <2>1 DEF ArchiveOwes, RowsAndItems, Machine
<1>7. restore.at = "IDLE" /\ restore' = restore
  BY <1>1 DEF RecoveryIInv, RestoreSound
<1>8. RestoreSound'
  BY <1>7 DEF RecoveryIInv, RestoreSound
<1> QED BY <1>1, <1>6, <1>8 DEF RecoveryIInv, CloudFromClaims, RowsAndItems, Machine

\* The fence leaves no access, no work and no sending, and only the frames
\* of completed jobs.
LEMMA FencedIsFence ==
  ASSUME NEW a \in Machine
  PROVE  FenceOf(Fenced(a), a)
<1> DEFINE rows == [j \in Jobs |-> FencedRow(a, j)]
           frames == {j \in a.frames : rows[j] = "completed"}
           items == [j \in Jobs |-> RestoredItem(a, j)]
<1>1. \A j \in Jobs : rows[j] = "NONE" \/ (rows[j] # "pending" /\ rows[j] \in {a.rows[j], "cancelled"})
  BY DEF FencedRow
<1>2. Fenced(a) = [a EXCEPT !.rows = rows, !.frames = frames, !.items = items,
                            !.binding = "RESTORED", !.account = FALSE, !.session = FALSE]
  BY DEF Fenced
<1> HIDE DEF rows, items, frames
<1>3. /\ Fenced(a).rows = rows /\ Fenced(a).frames = frames /\ Fenced(a).items = items
      /\ Fenced(a).binding = "RESTORED" /\ ~Fenced(a).account /\ ~Fenced(a).session
  BY <1>2 DEF Machine
<1> QED BY <1>1, <1>3 DEF FenceOf, frames, items

\* The restore unpacks, fences, moves, fails or is killed.
LEMMA RestoreKeeps ==
  ASSUME RecoveryIInv, Unpack \/ Fence \/ RestoreFails \/ RestoreKilled \/ \E part \in Parts : Move(part)
  PROVE  RecoveryIInv'
<1>1. UNCHANGED <<laptop, inCloud, archive, since>>
  BY DEF Unpack, Fence, RestoreFails, RestoreKilled, Move, Restoring
<1>2. RestoreSound' => RecoveryIInv'
  BY <1>1 DEF RecoveryIInv, CloudFromClaims, ArchiveOwes, RowsAndItems, Machine
<1>3. RestoreSound
  BY DEF RecoveryIInv
<1>4. CASE Unpack
  <2>1. /\ restore' = [at |-> "STAGED", stage |-> archive, moved |-> {}]
        /\ archive # NoArchive /\ archive.frames = Framed(archive)
    BY <1>4 DEF Unpack, Restoring
  <2>2. archive'.frames = Framed(archive')
    BY <1>1, <2>1
  <2>3. RestoreSound'
    BY <1>1, <2>1, <2>2 DEF RestoreSound
  <2> QED BY <1>2, <2>3
<1>5. CASE Fence
  <2>1. restore.at = "STAGED" /\ restore.stage = archive /\ archive \in Machine /\ archive # NoArchive
        /\ archive.frames = Framed(archive)
    BY <1>3, <1>5 DEF Fence, RestoreSound, RecoveryIInv, ArchiveOwes
  <2>2. FenceOf(Fenced(archive), archive)
    BY <2>1, FencedIsFence
  <2>3. restore' = [restore EXCEPT !.at = "MOVING", !.stage = Fenced(archive)]
    BY <1>5, <2>1 DEF Fence, Restoring
  <2> DEFINE f == Fenced(archive)
  <2> HIDE DEF f
  <2>4. restore'.at = "MOVING" /\ restore'.stage = f
        /\ restore' = [at |-> restore'.at, stage |-> restore'.stage, moved |-> restore'.moved]
    BY <1>3, <2>3 DEF RestoreSound, f
  <2>5. FenceOf(restore'.stage, archive)
    BY <2>2, <2>4 DEF f
  <2>6. RestoreSound'
    BY <1>1, <2>1, <2>4, <2>5 DEF RestoreSound, FenceOf, RestoredItem, Framed
  <2> QED BY <1>2, <2>6
<1>6. CASE RestoreFails \/ (RestoreKilled /\ restore.at = "STAGED")
  <2>1. restore' = [at |-> "IDLE", stage |-> NoArchive, moved |-> {}]
    BY <1>6 DEF RestoreFails, RestoreKilled, Restoring
  <2> QED BY <1>2, <2>1 DEF RestoreSound
<1>7. ASSUME restore.at = "MOVING", restore'.at \in {"MOVING", "DONE", "KILLED"},
             restore'.stage = restore.stage,
             restore' = [at |-> restore'.at, stage |-> restore'.stage, moved |-> restore'.moved]
      PROVE  RestoreSound'
  BY <1>1, <1>3, <1>7 DEF RestoreSound, FenceOf, RestoredItem, Framed
<1>8. CASE RestoreKilled /\ restore.at # "STAGED"
  <2>1. restore.at = "MOVING" /\ restore' = [restore EXCEPT !.at = "KILLED"]
    BY <1>8 DEF RestoreKilled, Restoring
  <2>2. restore' = [at |-> "KILLED", stage |-> restore.stage, moved |-> restore.moved]
    BY <1>3, <2>1 DEF RestoreSound
  <2> QED BY <1>2, <1>7, <2>1, <2>2
<1>9. ASSUME NEW part \in Parts, Move(part) PROVE RecoveryIInv'
  <2> DEFINE moved == restore.moved \cup {part}
             at == IF moved = Parts THEN "DONE" ELSE "MOVING"
  <2>1. restore.at = "MOVING" /\ restore' = [restore EXCEPT !.moved = moved, !.at = at]
    BY <1>9 DEF Move, Restoring
  <2>2. at \in {"DONE", "MOVING"}
    OBVIOUS
  <2> HIDE DEF moved, at
  <2>3. restore' = [at |-> at, stage |-> restore.stage, moved |-> moved]
    BY <1>3, <2>1 DEF RestoreSound
  <2> QED BY <1>2, <1>7, <2>1, <2>2, <2>3
<1> QED BY <1>2, <1>4, <1>5, <1>6, <1>8, <1>9

\* Every step of the laptop, the backup and the restore.
LEMMA RecoveryInductive == RecoveryIInv /\ [RecoveryNext]_recoveryVars => RecoveryIInv'
<1> SUFFICES ASSUME RecoveryIInv, [RecoveryNext]_recoveryVars
             PROVE  RecoveryIInv'
  OBVIOUS
<1>1. ASSUME UNCHANGED <<laptop, inCloud, archive, since, restore>> PROVE RecoveryIInv'
  BY <1>1 DEF RecoveryIInv, CloudFromClaims, ArchiveOwes, RowsAndItems, Machine, RestoreSound, FenceOf,
              RestoredItem, Framed
<1>2. ASSUME NEW j \in Jobs, Overdue(j) PROVE RecoveryIInv'
  BY <1>1, <1>2 DEF Overdue
<1>3. CASE UNCHANGED recoveryVars
  BY <1>1, <1>3 DEF recoveryVars
<1> QED BY <1>2, <1>3, ServingKeeps, JobKeeps, ItemKeeps, BackupKeeps, RestoreKeeps DEF RecoveryNext

-----------------------------------------------------------------------------
(* The theorems *)

\* What was moved into place was fenced.
LEMMA PublishedIsFence ==
  ASSUME RecoveryIInv, Published
  PROVE  FenceOf(restore.stage, archive) /\ archive # NoArchive /\ archive.frames = Framed(archive)
BY DEF RecoveryIInv, RestoreSound, Published

\* A restored database resumes nothing and lets nobody in.
THEOREM RestoreIsPowerless == RecoverySpec => []RestoredIsPowerless
<1>1. RecoveryIInv => RestoredIsPowerless
  <2> SUFFICES ASSUME RecoveryIInv, Published PROVE RestoredIsPowerless
    BY DEF RestoredIsPowerless
  <2>1. FenceOf(restore.stage, archive)
    BY PublishedIsFence
  <2>2. \A j \in Jobs : restore.stage.items[j] \notin {"PENDING", "LEASED", "RECEIVED", "OWED"}
    BY <2>1 DEF FenceOf, RestoredItem
  <2> QED BY <2>1, <2>2 DEF RestoredIsPowerless, FenceOf
<1> QED BY RecoveryInitially, RecoveryInductive, <1>1, PTL DEF RecoverySpec

\* What the cloud may hold of before the backup is blocked in the copy.
THEOREM RestoreOwesTheCloud == RecoverySpec => []CloudIsAccountedFor
<1>1. RecoveryIInv => CloudIsAccountedFor
  <2> SUFFICES ASSUME RecoveryIInv, Published, NEW j \in inCloud \ since
               PROVE  restore.stage.items[j] = "BLOCKED"
    BY DEF CloudIsAccountedFor
  <2>1. restore.stage.items = [q \in Jobs |-> RestoredItem(archive, q)] /\ archive # NoArchive
    BY PublishedIsFence DEF FenceOf
  <2>2. j \in Jobs /\ j \in laptop.attempted /\ laptop.items[j] # "WITHDRAWN"
    BY DEF RecoveryIInv, CloudFromClaims
  <2>3. j \in archive.attempted /\ archive.items[j] \notin {"NONE", "WITHDRAWN"}
    BY <2>1, <2>2 DEF RecoveryIInv, ArchiveOwes
  <2> QED BY <2>1, <2>2, <2>3 DEF RestoredItem
<1> QED BY RecoveryInitially, RecoveryInductive, <1>1, PTL DEF RecoverySpec

\* A restored directory has the frames its rows name, and no others.
THEOREM RestoredFramesMatch == RecoverySpec => []EvidenceMatchesRows
<1>1. RecoveryIInv => EvidenceMatchesRows
  <2> SUFFICES ASSUME RecoveryIInv, restore.at = "DONE"
               PROVE  restore.stage.frames = Framed(restore.stage)
    BY DEF EvidenceMatchesRows
  <2>1. FenceOf(restore.stage, archive) /\ archive.frames = Framed(archive)
    BY DEF RecoveryIInv, RestoreSound
  <2> DEFINE w == restore.stage
  <2>2. w.frames = {j \in Framed(archive) : w.rows[j] = "completed"}
    BY <2>1 DEF FenceOf
  <2>3. \A j \in Jobs : w.rows[j] = "completed" => archive.rows[j] = "completed"
    BY <2>1 DEF FenceOf
  <2>4. \A j \in Jobs : w.rows[j] # "pending"
    BY <2>1 DEF FenceOf
  <2> QED BY <2>2, <2>3, <2>4 DEF Framed
<1> QED BY RecoveryInitially, RecoveryInductive, <1>1, PTL DEF RecoverySpec

\* The three invariants together, as the run checks them.
THEOREM RestoreIsSound == RecoverySpec => []RecoveryInv
BY RestoreIsPowerless, RestoreOwesTheCloud, RestoredFramesMatch, PTL DEF RecoveryInv
=============================================================================
