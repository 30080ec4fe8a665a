------------------------------ MODULE Database ------------------------------
(***************************************************************************)
(* Opening the laptop's database (src/services/api/store.py): a pilot or a *)
(* synthetic process checks whose database a file is, a pilot hardens its  *)
(* permissions, one transaction migrates the schema and records mode and   *)
(* installation, and every later transaction checks again.  Two processes  *)
(* of different modes may open one path, a process may stop anywhere, and  *)
(* the file may be exchanged for another while processes are running.      *)
(***************************************************************************)
EXTENDS Integers

CONSTANTS
  Openers,      \* processes
  Unset,        \* no file, no mode, no identity
  Identities,   \* installation_id
  MaxExchanges  \* bound: files put in the place of the file

\* A file: whose tables and cloud tables it has, and what its rows say.
DatabaseFile ==
  [version : Nat, tables : {"NONE", "OURS", "OTHER"}, mode : {"pilot", "synthetic", Unset},
   people : BOOLEAN, identity : Identities \cup {Unset, "DAMAGED"},
   cloud : {"NONE", "EXPECTED", "OTHER"}, bound : Identities \cup {Unset, "DAMAGED"},
   private : BOOLEAN]

ASSUME DatabaseAssumption ==
  /\ Identities # {} /\ Unset \notin DatabaseFile
  /\ Unset \notin Identities \cup Openers \cup {"pilot", "synthetic"}
  /\ MaxExchanges \in Nat

VARIABLES
  file,      \* what lies at the path
  openers,   \* [mode, at] of each process
  writer,    \* the process in BEGIN IMMEDIATE
  exchanged  \* how often the file was exchanged

databaseVars == <<file, openers, writer, exchanged>>

Schema == 3  \* LOCAL_SCHEMA_VERSION
NewFile(private) ==
  [version |-> 0, tables |-> "NONE", mode |-> Unset, people |-> FALSE, identity |-> Unset,
   cloud |-> "NONE", bound |-> Unset, private |-> private]

\* What earlier builds, other programs, people and damage leave: legacy demo
\* data, an unrelated database, a v2 database before identities, current ones,
\* a pilot's that everybody may read, one whose identity or mode is lost, one
\* with another schema, a newer one.
Found ==
  LET current(m) == [version |-> Schema, tables |-> "OURS", mode |-> m, people |-> TRUE,
                     identity |-> CHOOSE i \in Identities : TRUE, cloud |-> "EXPECTED",
                     bound |-> Unset, private |-> m = "pilot"]
      pilot == current("pilot") IN
  {NewFile(FALSE), current("synthetic"), pilot, [pilot EXCEPT !.private = FALSE],
   [NewFile(FALSE) EXCEPT !.version = 1, !.tables = "OURS", !.people = TRUE],
   [NewFile(FALSE) EXCEPT !.tables = "OTHER", !.people = TRUE],
   [pilot EXCEPT !.version = 2, !.identity = Unset, !.cloud = "NONE"],
   [pilot EXCEPT !.bound = pilot.identity],
   [current("synthetic") EXCEPT !.bound = pilot.identity],
   [pilot EXCEPT !.bound = pilot.identity, !.identity = Unset],
   [pilot EXCEPT !.identity = "DAMAGED"], [pilot EXCEPT !.mode = Unset],
   [pilot EXCEPT !.cloud = "OTHER"], [pilot EXCEPT !.version = Schema + 1]}

DatabaseInit ==
  /\ file \in {Unset} \cup Found
  /\ openers \in [Openers -> [mode : {"pilot", "synthetic"}, at : {"IDLE"}]]
  /\ writer = Unset /\ exchanged = 0

-----------------------------------------------------------------------------

\* Unmarked data that are nobody's.
RecordedMode(f) == f.mode

\* validate_provenance: the recorded mode, which unmarked data make synthetic
Recorded(f) == IF f.mode = Unset /\ f.people THEN "synthetic" ELSE f.mode

Provenance(f, mode) ==
  /\ f.version \in 0..Schema
  /\ f.version \in {0, 1} => f.tables # "OTHER"
  /\ Recorded(f) \in {Unset, mode}
  /\ f.version >= 2 => f.mode # Unset
  /\ f.identity \in Identities \cup {Unset}
  /\ (f.cloud # "NONE" \/ f.version = Schema) =>
       /\ f.cloud = "EXPECTED"
       /\ f.version = Schema => f.identity # Unset
       /\ f.bound \in {Unset, f.identity}
       /\ mode = "synthetic" => f.bound = Unset

At(o, at) == openers' = [openers EXCEPT ![o].at = at]
RefuseFile(o) == At(o, "IDLE") /\ UNCHANGED <<file, writer, exchanged>>

\* prepare_pilot_database looks before it changes anything: a missing file is
\* created private, a pilot's is hardened, another's is refused as it is.
Look(o) ==
  /\ openers[o].at = "IDLE"
  /\ \/ openers[o].mode = "synthetic" /\ At(o, "READY")
     \/ openers[o].mode = "pilot" /\ file = Unset /\ At(o, "MISSING")
     \/ openers[o].mode = "pilot" /\ file # Unset /\ Provenance(file, "pilot") /\ At(o, "CHECKED")
  /\ UNCHANGED <<file, writer, exchanged>>

\* O_EXCL: whoever created the path in between makes this one fail.
Create(o) ==
  /\ openers[o].at = "MISSING"
  /\ \/ file = Unset /\ file' = NewFile(TRUE) /\ At(o, "READY") /\ UNCHANGED <<writer, exchanged>>
     \/ file # Unset /\ RefuseFile(o)

\* Permissions that are left as they were found.
HardenNothing(o) ==
  /\ openers[o].at = "CHECKED"
  /\ At(o, "READY") /\ UNCHANGED <<file, writer, exchanged>>

Harden(o) ==
  /\ openers[o].at = "CHECKED"
  /\ file' = [file EXCEPT !.private = TRUE] /\ At(o, "READY") /\ UNCHANGED <<writer, exchanged>>

\* transaction: provenance once before any write and once with the writer's
\* lock; connecting creates a missing file.
Begin(o) ==
  LET f == IF file = Unset THEN NewFile(FALSE) ELSE file IN
  /\ openers[o].at \in {"READY", "OPEN"} /\ writer = Unset
  /\ file' = f
  /\ IF Provenance(f, openers[o].mode)
     THEN /\ writer' = o
          /\ At(o, IF openers[o].at = "READY" THEN "MIGRATING" ELSE "WORKING")
     ELSE /\ At(o, IF openers[o].at = "READY" THEN "IDLE" ELSE "OPEN")
          /\ UNCHANGED writer
  /\ UNCHANGED exchanged

Migrated(f, mode) ==
  [f EXCEPT !.version = Schema, !.tables = "OURS", !.cloud = "EXPECTED",
            !.mode = IF f.mode = Unset THEN mode ELSE f.mode,
            !.people = f.people \/ mode = "synthetic"]

\* __init__: schema, version, mode, identity and demo data in one commit.
Migrate(o) ==
  /\ openers[o].at = "MIGRATING"
  /\ \E i \in Identities :
       file' = [Migrated(file, openers[o].mode) EXCEPT
                  !.identity = IF file.identity = Unset THEN i ELSE file.identity]
  /\ At(o, "OPEN") /\ writer' = Unset /\ UNCHANGED exchanged

\* What a request may commit: accounts, and in a pilot a cloud binding.
Work(o) ==
  /\ openers[o].at = "WORKING"
  /\ \/ file' = [file EXCEPT !.people = TRUE]
     \/ openers[o].mode = "pilot" /\ file' = [file EXCEPT !.bound = file.identity]
  /\ At(o, "OPEN") /\ writer' = Unset /\ UNCHANGED exchanged

\* The process ends; what it had not committed is rolled back.
Stops(o) ==
  /\ openers[o].at # "IDLE" /\ At(o, "IDLE")
  /\ writer' = IF writer = o THEN Unset ELSE writer
  /\ UNCHANGED <<file, exchanged>>

\* Another file is put in its place, not while one is being opened.
Exchange(f) ==
  /\ exchanged < MaxExchanges /\ \A o \in Openers : openers[o].at \in {"IDLE", "OPEN"}
  /\ file' = f /\ exchanged' = exchanged + 1
  /\ UNCHANGED <<openers, writer>>

DatabaseNext ==
  \/ \E o \in Openers :
       Look(o) \/ Create(o) \/ Harden(o) \/ Begin(o) \/ Migrate(o) \/ Work(o) \/ Stops(o)
  \/ \E f \in Found : Exchange(f)

DatabaseSpec == DatabaseInit /\ [][DatabaseNext]_databaseVars

-----------------------------------------------------------------------------
(* Properties *)

\* No process turns a database into another mode's or gives it another
\* identity, and none writes into unmarked data as a pilot or into another
\* program's: whatever ran at the same time, only an exchange of the file
\* changes whose it is.
NeverConverted ==
  [][file # Unset /\ exchanged' = exchanged =>
       /\ file.mode # Unset => file'.mode = file.mode
       /\ file.mode = Unset /\ file.people => file'.mode # "pilot"
       /\ file.identity # Unset => file'.identity = file.identity
       /\ file.tables = "OTHER" => [file' EXCEPT !.private = FALSE] = [file EXCEPT !.private = FALSE]]_file

\* A pilot only opens, and works on, a file nobody else can read, even when it
\* found one that everybody may read, or a demo created the file while the pilot
\* was looking for it; only an exchange of the file under an open pilot ends that.
PilotIsPrivate ==
  \A o \in Openers : openers[o].mode = "pilot" =>
    /\ openers[o].at \in {"READY", "MIGRATING"} => file # Unset /\ file.private
    /\ openers[o].at \in {"OPEN", "WORKING"} /\ exchanged = 0 => file.private

\* An open process and the file it last committed to agree on the mode unless
\* the file was exchanged, and a bound installation is a pilot's.
OpenIsOurs ==
  /\ exchanged = 0 => \A o \in Openers : openers[o].at \in {"OPEN", "WORKING"} =>
       file.mode = openers[o].mode /\ file.version = Schema /\ file.identity \in Identities
  /\ writer # Unset => Recorded(file) \in {Unset, openers[writer].mode}

\* A pilot's file is private and an open file is its opener's, whoever else is
\* opening it.
DatabaseInv == PilotIsPrivate /\ OpenIsOurs
=============================================================================
