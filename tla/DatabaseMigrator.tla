-------------------------- MODULE DatabaseMigrator ---------------------------
(***************************************************************************)
(* What a server does to its databases before it serves: on a database      *)
(* without tables the init scripts, then the migrations that are not in     *)
(* firelands_auth.schema_migrations, statement by statement, each committed  *)
(* on its own.  The auth and the world server do so independently, whenever *)
(* they are started, and either may stop at any point.                      *)
(*                                                                          *)
(* The three databases exist (docker/mysql-init creates them).  A file may  *)
(* be executed again, after a stop or by the other server.  Of statements   *)
(* already in effect then, the migrator forgives those whose table, column  *)
(* or key exists (errors 1050, 1060, 1061) and others change nothing; a     *)
(* plain INSERT, say, or a DROP COLUMN is rejected and counts as a failure, *)
(* unless the file began by dropping the table, as migration 71 does.  Of a *)
(* file with a failure the rest is executed, and the file is not recorded.  *)
(***************************************************************************)
EXTENDS Naturals, Sequences

CONSTANTS
  Server,
  Targets,       \* TargetDatabasesForRole of each server's role
  Database, Auth,
  File,
  InitScripts,   \* the files of sql/init; the others are migrations
  TargetOf,      \* DetectMigrationTargetDatabase, or the list of an init script
  Number,        \* numeric prefix; the place in the list for an init script
  NameRank,      \* place of the file name in lexicographic order
  Statements,    \* statements of a file
  Broken,        \* files whose last statement the database rejects
  OnceOnly,      \* statements of each file that are rejected while in effect
  Rebuilding,    \* files whose first statement undoes the others
  NoFile,
  MaxFaults      \* bound: calls of the database that may fail

Migrates(s, d) == \E i \in DOMAIN Targets[s] : Targets[s][i] = d

\* A file that rebuilds its table is for a database that one server migrates.
ASSUME MigratorAssumption ==
  /\ Targets \in [Server -> Seq(Database)]
  /\ Auth \in Database
  /\ InitScripts \subseteq File
  /\ TargetOf \in [File -> Database]
  /\ Number \in [File -> Nat]
  /\ NameRank \in [File -> Nat]
  /\ \A f, g \in File :
       f # g /\ TargetOf[f] = TargetOf[g]
         => Number[f] # Number[g] \/ NameRank[f] # NameRank[g]
  /\ Statements \in Nat \ {0}
  /\ OnceOnly \in [File -> SUBSET (1 .. Statements)]
  /\ \A f \in Rebuilding : 1 \notin OnceOnly[f]
  /\ \A f \in Rebuilding : \A s, t \in Server :
       Migrates(s, TargetOf[f]) /\ Migrates(t, TargetOf[f]) => s = t
  /\ NoFile \notin File
  /\ MaxFaults \in Nat

VARIABLES
  recorded,   \* rows of schema_migrations
  applied,    \* statements of each file that have taken effect
  tables,     \* databases with a base table
  pc,         \* where each server is
  todo,       \* databases it has not come to
  files,      \* files of the current database it has not come to
  file,       \* the file it is executing,
  at,         \* how many of its statements it has executed,
  failed,     \* and whether one of them failed
  faults      \* calls of the database that have failed

db == <<recorded, applied, tables>>
pass == <<todo, files>>
work == <<file, at, failed>>
vars == <<db, pc, pass, work, faults>>

TypeOK ==
  /\ recorded \subseteq File
  /\ applied \in [File -> SUBSET (1 .. Statements)]
  /\ tables \subseteq Database
  /\ pc \in [Server -> {"down", "start", "database", "file", "statement", "finished"}]
  /\ todo \in [Server -> Seq(Database)]
  /\ files \in [Server -> SUBSET File]
  /\ file \in [Server -> File \cup {NoFile}]
  /\ at \in [Server -> 0 .. Statements]
  /\ failed \in [Server -> BOOLEAN]
  /\ faults \in 0 .. MaxFaults

Init ==
  /\ recorded = {}
  /\ applied = [f \in File |-> {}]
  /\ tables = {}
  /\ pc = [s \in Server |-> "down"]
  /\ todo = [s \in Server |-> <<>>]
  /\ files = [s \in Server |-> {}]
  /\ file = [s \in Server |-> NoFile]
  /\ at = [s \in Server |-> 0]
  /\ failed = [s \in Server |-> FALSE]
  /\ faults = 0

GoTo(s, label) == pc' = [pc EXCEPT ![s] = label]
Fault == faults < MaxFaults /\ faults' = faults + 1

---------------------------------------------------------------------------
\* Order of execution in one database: MigrationNumericSortKey, init first.
\* MUTANT: files are sorted by name.
Before_ByName(f, g) ==
  \/ f \in InitScripts /\ g \notin InitScripts
  \/ (f \in InitScripts <=> g \in InitScripts) /\ NameRank[f] < NameRank[g]

\* MUTANT: one list sorted by number, init scripts among the migrations.
Before_OneList(f, g) ==
  \/ Number[f] < Number[g]
  \/ Number[f] = Number[g] /\ NameRank[f] < NameRank[g]

Before(f, g) ==
  \/ f \in InitScripts /\ g \notin InitScripts
  \/ /\ f \in InitScripts <=> g \in InitScripts
     /\ \/ Number[f] < Number[g]
        \/ Number[f] = Number[g] /\ NameRank[f] < NameRank[g]

FirstOf(S) == {f \in S : \A g \in S \ {f} : Before(f, g)}

\* A failed query answers "not applied" and "not fresh".
Answers(truth, answer) ==
  \/ answer = truth /\ UNCHANGED faults
  \/ answer = FALSE /\ Fault
IsMigrationApplied(f, answer) == Answers(f \in recorded, answer)
IsDatabaseFresh(d, answer) == Answers(d \notin tables, answer)

FilesOf(d, fresh) == {f \in File : TargetOf[f] = d /\ (f \in InitScripts => fresh)}

---------------------------------------------------------------------------
StartServer(s) ==
  /\ pc[s] = "down"
  /\ GoTo(s, "start")
  /\ UNCHANGED <<db, pass, work, faults>>

EnsureSchemaMigrationsTable(s) ==
  /\ pc[s] = "start"
  /\ tables' = tables \cup {Auth}
  /\ todo' = [todo EXCEPT ![s] = Targets[s]]
  /\ GoTo(s, "database")
  /\ UNCHANGED <<recorded, applied, files, work, faults>>

\* No connection, or no bookkeeping table: the migrations are given up.
BookkeepingFails(s) ==
  /\ pc[s] = "start" /\ Fault
  /\ GoTo(s, "finished")
  /\ UNCHANGED <<db, pass, work>>

\* MUTANT: the migrations of a fresh database are left for the next start.
InspectDatabase_InitOnly(s) ==
  /\ pc[s] = "database" /\ todo[s] # <<>>
  /\ \E fresh \in BOOLEAN :
       /\ IsDatabaseFresh(Head(todo[s]), fresh)
       /\ files' = [files EXCEPT ![s] =
                   {f \in FilesOf(Head(todo[s]), fresh) : fresh => f \in InitScripts}]
  /\ todo' = [todo EXCEPT ![s] = Tail(@)]
  /\ GoTo(s, "file")
  /\ UNCHANGED <<db, work>>

InspectDatabase(s) ==
  /\ pc[s] = "database" /\ todo[s] # <<>>
  /\ \E fresh \in BOOLEAN :
       /\ IsDatabaseFresh(Head(todo[s]), fresh)
       /\ files' = [files EXCEPT ![s] = FilesOf(Head(todo[s]), fresh)]
  /\ todo' = [todo EXCEPT ![s] = Tail(@)]
  /\ GoTo(s, "file")
  /\ UNCHANGED <<db, work>>

FinishDatabase(s) ==
  /\ pc[s] = "file" /\ files[s] = {}
  /\ GoTo(s, "database")
  /\ UNCHANGED <<db, pass, work, faults>>

FinishMigrations(s) ==
  /\ pc[s] = "database" /\ todo[s] = <<>>
  /\ GoTo(s, "finished")
  /\ UNCHANGED <<db, pass, work, faults>>

SkipOrOpenFile(s) ==
  /\ pc[s] = "file"
  /\ \E f \in FirstOf(files[s]) :
       /\ files' = [files EXCEPT ![s] = @ \ {f}]
       /\ \/ IsMigrationApplied(f, TRUE) /\ UNCHANGED <<pc, work>>
          \/ /\ IsMigrationApplied(f, FALSE)
             /\ file' = [file EXCEPT ![s] = f]
             /\ at' = [at EXCEPT ![s] = 0]
             /\ failed' = [failed EXCEPT ![s] = FALSE]
             /\ GoTo(s, "statement")
  /\ UNCHANGED <<db, todo>>

\* What a statement the database accepts leaves in effect.
Effect(f, i) == IF f \in Rebuilding /\ i = 1 THEN {1} ELSE applied[f] \cup {i}

Rejected(f, i) ==
  \/ f \in Broken /\ i = Statements
  \/ i \in OnceOnly[f] /\ i \in applied[f]

ExecuteStatement(s) ==
  /\ pc[s] = "statement" /\ at[s] < Statements
  /\ at' = [at EXCEPT ![s] = @ + 1]
  /\ \/ /\ ~Rejected(file[s], at[s] + 1)
        /\ applied' = [applied EXCEPT ![file[s]] = Effect(file[s], at[s] + 1)]
        /\ tables' = tables \cup {TargetOf[file[s]]}
        /\ UNCHANGED <<failed, faults>>
     \/ /\ \/ Rejected(file[s], at[s] + 1) /\ UNCHANGED faults
           \/ Fault
        /\ failed' = [failed EXCEPT ![s] = TRUE]
        /\ UNCHANGED <<applied, tables>>
  /\ UNCHANGED <<recorded, pc, pass, file>>

LeaveFile(s) ==
  /\ file' = [file EXCEPT ![s] = NoFile]
  /\ GoTo(s, "file")

\* No connection for the file, or an error outside its statements.
AbandonFile(s) ==
  /\ pc[s] = "statement" /\ Fault
  /\ LeaveFile(s)
  /\ UNCHANGED <<db, pass, at, failed>>

\* MUTANT: the file is recorded whatever became of its statements.
FinishFile_Regardless(s) ==
  /\ pc[s] = "statement" /\ at[s] = Statements
  /\ recorded' = recorded \cup {file[s]}
  /\ LeaveFile(s)
  /\ UNCHANGED <<applied, tables, pass, at, failed, faults>>

\* MUTANT: a failed file is tried again until it works.
FinishFile_Retry(s) ==
  /\ pc[s] = "statement" /\ at[s] = Statements
  /\ IF failed[s]
     THEN /\ at' = [at EXCEPT ![s] = 0]
          /\ failed' = [failed EXCEPT ![s] = FALSE]
          /\ UNCHANGED <<recorded, file, pc>>
     ELSE /\ recorded' = recorded \cup {file[s]}
          /\ LeaveFile(s)
          /\ UNCHANGED <<at, failed>>
  /\ UNCHANGED <<applied, tables, pass, faults>>

\* RecordMigrationApplied swallows the error of its INSERT.
FinishFile(s) ==
  /\ pc[s] = "statement" /\ at[s] = Statements
  /\ \/ ~failed[s] /\ recorded' = recorded \cup {file[s]} /\ UNCHANGED faults
     \/ failed[s] /\ UNCHANGED <<recorded, faults>>
     \/ ~failed[s] /\ UNCHANGED recorded /\ Fault
  /\ LeaveFile(s)
  /\ UNCHANGED <<applied, tables, pass, at, failed>>

\* The process ends, in order or not, at any point of the migration or later.
Exit(s) ==
  /\ pc[s] # "down"
  /\ GoTo(s, "down")
  /\ todo' = [todo EXCEPT ![s] = <<>>]
  /\ files' = [files EXCEPT ![s] = {}]
  /\ file' = [file EXCEPT ![s] = NoFile]
  /\ at' = [at EXCEPT ![s] = 0]
  /\ failed' = [failed EXCEPT ![s] = FALSE]
  /\ UNCHANGED <<db, faults>>

---------------------------------------------------------------------------
MigrateForRole(s) ==
  \/ EnsureSchemaMigrationsTable(s) \/ BookkeepingFails(s)
  \/ InspectDatabase(s) \/ FinishDatabase(s) \/ FinishMigrations(s)
  \/ SkipOrOpenFile(s) \/ ExecuteStatement(s) \/ AbandonFile(s) \/ FinishFile(s)

Next == \E s \in Server : MigrateForRole(s) \/ StartServer(s) \/ Exit(s)

Spec == Init /\ [][Next]_vars
\* A started server runs; nothing says that one is started or stopped.
FairSpec == Spec /\ \A s \in Server : WF_vars(MigrateForRole(s))

---------------------------------------------------------------------------
Executes(s, f) == pc[s] = "statement" /\ file[s] = f /\ at'[s] = at[s] + 1

\* A file is marked as applied only when all its statements took effect,
\* whoever executed it, whatever failed, and wherever a server stopped
\* (ApplySqlFile).  A lookup that fails makes a server execute a recorded file
\* again, which one that starts with a DROP does not survive until it is through.
RecordedIsApplied ==
  \A f \in recorded :
    (f \in Rebuilding => faults = 0) => applied[f] = 1 .. Statements

\* What a migration that nothing rejects from the outset comes to: all of it is in
\* effect.  It is recorded besides, unless a stop or a race made a server meet
\* statements of it that cannot be repeated; then it is never recorded, and run
\* in vain at every start (Migrate: the codes it forgives).
Sound == File \ (InitScripts \cup Broken)
Repeatable(f) == OnceOnly[f] = {} \/ f \in Rebuilding
Settled(f) ==
  applied[f] = 1 .. Statements /\ (Repeatable(f) => f \in recorded)

\* While no call of the database has failed, the migrations of a database take
\* hold in the order of their numbers, wherever servers stop and however they
\* race: none has begun before every sound one with a smaller number is in effect
\* in full (CollectMigrationSqlPaths).
MigrationsInOrder ==
  faults = 0 =>
    \A f \in Sound, g \in File \ InitScripts :
      TargetOf[f] = TargetOf[g] /\ Number[f] < Number[g] /\ applied[g] # {}
        => Settled(f)

\* Then a server that gets through leaves every sound migration of its databases
\* in effect, even if an earlier start or another server did part of the work.
CompleteAtFinish ==
  faults = 0 =>
    \A s \in Server : pc[s] = "finished" =>
      \A i \in DOMAIN Targets[s] : \A f \in Sound :
        TargetOf[f] = Targets[s][i] => Settled(f)

\* Init scripts never run over a database that has migrations
\* (DatabaseMigrator.h: an existing database gets pending migrations only).
InitPrecedesMigrations ==
  [][\A s \in Server : \A f \in InitScripts :
       Executes(s, f) =>
         \A g \in recorded \ InitScripts : TargetOf[g] # TargetOf[f]]_vars

\* A server with files left has exactly one that comes next: it neither stops in
\* front of its list nor depends on the order a directory is read in
\* (CollectMigrationSqlPaths).
NextFileIsDecided ==
  \A s \in Server : files[s] # {} => \E f \in files[s] : FirstOf(files[s]) = {f}

\* Neither a broken file nor a failing database keeps a server from serving.
StartupEnds == \A s \in Server : pc[s] = "start" ~> pc[s] \in {"finished", "down"}
=============================================================================
