---------------------------- MODULE ServerProofs ----------------------------
(***************************************************************************)
(* What is proved about processes that start, stop and crash side by side:  *)
(* servers that migrate the same databases (DatabaseMigrator), and worlds   *)
(* that claim a realm of the login server (RealmLink).                      *)
(*                                                                          *)
(* Migrations, for any number of servers, databases and files.  That a      *)
(* recorded file took effect in full is not inductive: it needs what a      *)
(* server knows while it is inside a file (InsideFile).  Others cannot      *)
(* disturb that, because only a file that rebuilds its table undoes any     *)
(* statement, and that one has no second server (OwnFiles).  That migrations *)
(* take hold in order and completely needs what each server has left behind *)
(* it in its pass (Behind), which others only add to (SettledStays).  That  *)
(* one file comes next needs that the files ahead are of one database       *)
(* (OneDatabase).                                                           *)
(*                                                                          *)
(* The link, for any number of realms, worlds and connection slots.         *)
(* LinkTypeOK and ClaimHeldOnce are inductive together: a session is        *)
(* registered only by the step that marks its realm, and every step that    *)
(* unregisters one unmarks it.  LinkIsExclusive needs to know besides which *)
(* connections a world's thread can hold and what their other end can be in *)
(* while an ack is on the wire or has been read (LinkShape); that an awaited *)
(* ack comes, that the side that owes it can still move (Answering).        *)
(***************************************************************************)
EXTENDS DatabaseMigrator, RealmLink, WellFoundedInduction, TLAPS

---------------------------------------------------------------------------
\* Migrations.
\* What a server has ahead of it and in hand is of its own databases
\* (TargetsForRole).
OwnFiles ==
  \A s \in Server :
    /\ \A i \in 1 .. Len(todo[s]) : Migrates(s, todo[s][i])
    /\ \A f \in files[s] : Migrates(s, TargetOf[f])
    /\ pc[s] = "statement" => file[s] \in File /\ Migrates(s, TargetOf[file[s]])

\* A server inside a file has made its statements up to its place take effect, if
\* none has failed; and in any case while no call has failed, unless the file is
\* broken: what was rejected was in effect already.  Then a file that is rebuilt holds
\* nothing but that, so that nothing of it is rejected (DatabaseMigrator::Migrate).
Made(s) == \A i \in 1 .. at[s] : i \in applied[file[s]]

Undisturbed(s) ==
  /\ file[s] \in Rebuilding => file[s] \notin recorded
  /\ file[s] \notin Broken =>
       /\ Made(s)
       /\ Repeatable(file[s]) => ~failed[s]
       /\ file[s] \in Rebuilding /\ at[s] > 0 => applied[file[s]] \subseteq 1 .. at[s]

InsideFile ==
  \A s \in Server : pc[s] = "statement" =>
    /\ ~failed[s] => Made(s)
    /\ faults = 0 => Undisturbed(s)

IInv == TypeOK /\ OwnFiles /\ InsideFile /\ RecordedIsApplied

LEMMA Constants ==
  /\ Targets \in [Server -> Seq(Database)]
  /\ Auth \in Database
  /\ TargetOf \in [File -> Database]
  /\ Statements \in Nat /\ Statements > 0
  /\ MaxFaults \in Nat
BY MigratorAssumption

LEMMA TypeInit == Init => TypeOK
<1> SUFFICES ASSUME Init PROVE TypeOK
  OBVIOUS
<1>3. faults \in 0 .. MaxFaults
  BY Constants DEF Init
<1>1. todo \in [Server -> Seq(Database)]
  BY DEF Init
<1>2. at \in [Server -> 0 .. Statements]
  BY Constants DEF Init
<1> QED BY <1>1, <1>2, <1>3 DEF Init, TypeOK

\* Each action of a server keeps the types, given that it has a file in hand
\* while it executes one.
LEMMA TypeStep ==
  ASSUME TypeOK, OwnFiles, [Next]_vars
  PROVE  TypeOK'
<1> USE Constants
<1>0. faults' \in 0 .. MaxFaults
  <2>0. faults \in 0 .. MaxFaults
    BY DEF TypeOK
  <2>1. CASE UNCHANGED faults
    BY <2>0, <2>1
  <2>2. CASE Fault
    BY <2>0, <2>2 DEF Fault
  <2>3. UNCHANGED faults \/ Fault
    BY DEF Next, MigrateForRole, StartServer, EnsureSchemaMigrationsTable, BookkeepingFails,
           InspectDatabase, FinishDatabase, FinishMigrations, SkipOrOpenFile, IsDatabaseFresh,
           IsMigrationApplied, Answers, ExecuteStatement, AbandonFile, FinishFile, Exit, vars
  <2> QED BY <2>1, <2>2, <2>3
<1>1. ASSUME NEW s \in Server, EnsureSchemaMigrationsTable(s) PROVE TypeOK'
  BY <1>0, <1>1 DEF EnsureSchemaMigrationsTable, GoTo, work, TypeOK
<1>2. ASSUME NEW s \in Server,
             StartServer(s) \/ BookkeepingFails(s) \/ FinishDatabase(s) \/ FinishMigrations(s)
      PROVE TypeOK'
  BY <1>0, <1>2 DEF StartServer, BookkeepingFails, FinishDatabase, FinishMigrations, GoTo,
              db, pass, work, TypeOK
<1>3. ASSUME NEW s \in Server, InspectDatabase(s) PROVE TypeOK'
  <2>1. files' \in [Server -> SUBSET File]
    BY <1>3 DEF InspectDatabase, FilesOf, TypeOK
  <2>2. todo' \in [Server -> Seq(Database)]
    BY <1>3 DEF InspectDatabase, TypeOK
  <2> QED BY <1>0, <1>3, <2>1, <2>2 DEF InspectDatabase, GoTo, db, work, TypeOK
<1>4. ASSUME NEW s \in Server, SkipOrOpenFile(s) PROVE TypeOK'
  <2>1. PICK f \in FirstOf(files[s]) :
          /\ files' = [files EXCEPT ![s] = @ \ {f}]
          /\ \/ UNCHANGED <<pc, work>>
             \/ /\ file' = [file EXCEPT ![s] = f]
                /\ at' = [at EXCEPT ![s] = 0]
                /\ failed' = [failed EXCEPT ![s] = FALSE]
                /\ GoTo(s, "statement")
    BY <1>4 DEF SkipOrOpenFile
  <2>2. f \in File
    BY DEF FirstOf, TypeOK
  <2>3. at' = at \/ at' = [at EXCEPT ![s] = 0]
    BY <2>1 DEF work
  <2>0. at \in [Server -> 0 .. Statements] /\ 0 \in 0 .. Statements
    BY DEF TypeOK
  <2>4. at' \in [Server -> 0 .. Statements]
    BY <2>0, <2>3
  <2>5. /\ file' \in [Server -> File \cup {NoFile}] /\ failed' \in [Server -> BOOLEAN]
        /\ pc' \in [Server -> {"down", "start", "database", "file", "statement", "finished"}]
    <3>1. /\ file' = file \/ file' = [file EXCEPT ![s] = f]
          /\ failed' = failed \/ failed' = [failed EXCEPT ![s] = FALSE]
          /\ pc' = pc \/ pc' = [pc EXCEPT ![s] = "statement"]
      BY <2>1 DEF GoTo, work
    <3>2. file' \in [Server -> File \cup {NoFile}]
      BY <2>2, <3>1 DEF TypeOK
    <3>3. failed' \in [Server -> BOOLEAN]
      BY <3>1 DEF TypeOK
    <3> QED BY <3>1, <3>2, <3>3 DEF TypeOK
  <2>6. files' \in [Server -> SUBSET File]
    BY <2>1 DEF TypeOK
  <2> QED BY <1>0, <1>4, <2>4, <2>5, <2>6 DEF SkipOrOpenFile, db, TypeOK
<1>5. ASSUME NEW s \in Server, ExecuteStatement(s) PROVE TypeOK'
  <2>1. file[s] \in File /\ at[s] \in 0 .. Statements /\ at[s] < Statements
    BY <1>5 DEF ExecuteStatement, OwnFiles, TypeOK
  <2>2. at[s] + 1 \in 1 .. Statements /\ at' = [at EXCEPT ![s] = at[s] + 1]
    BY <1>5, <2>1 DEF ExecuteStatement
  <2>3. at' \in [Server -> 0 .. Statements]
    BY <2>2 DEF TypeOK
  <2>4. \/ applied' = applied
        \/ applied' = [applied EXCEPT ![file[s]] = Effect(file[s], at[s] + 1)]
    BY <1>5 DEF ExecuteStatement
  <2>5. applied' \in [File -> SUBSET (1 .. Statements)]
    <3>1. applied \in [File -> SUBSET (1 .. Statements)]
      BY DEF TypeOK
    <3>2. Effect(file[s], at[s] + 1) \subseteq 1 .. Statements
      BY <2>1, <2>2, <3>1 DEF Effect
    <3> QED BY <2>1, <2>4, <3>1, <3>2
  <2>6. tables' \subseteq Database /\ failed' \in [Server -> BOOLEAN]
    <3>1. /\ tables' = tables \/ tables' = tables \cup {TargetOf[file[s]]}
          /\ failed' = failed \/ failed' = [failed EXCEPT ![s] = TRUE]
      BY <1>5 DEF ExecuteStatement
    <3>2. TargetOf[file[s]] \in Database
      BY <2>1
    <3> QED BY <3>1, <3>2 DEF TypeOK
  <2> QED BY <1>0, <1>5, <2>3, <2>5, <2>6 DEF ExecuteStatement, pass, TypeOK
<1>6. ASSUME NEW s \in Server, AbandonFile(s) \/ FinishFile(s) PROVE TypeOK'
  <2>1. recorded' \subseteq File
    BY <1>6 DEF AbandonFile, FinishFile, OwnFiles, db, TypeOK
  <2> QED BY <1>0, <1>6, <2>1 DEF AbandonFile, FinishFile, LeaveFile, GoTo, db, pass, TypeOK
<1>7. ASSUME NEW s \in Server, Exit(s) PROVE TypeOK'
  <2>1. at' \in [Server -> 0 .. Statements] /\ todo' \in [Server -> Seq(Database)]
    BY <1>7 DEF Exit, TypeOK
  <2> QED BY <1>0, <1>7, <2>1 DEF Exit, GoTo, db, TypeOK
<1>8. CASE UNCHANGED vars
  BY <1>0, <1>8 DEF vars, db, pass, work, TypeOK
<1> QED BY <1>1, <1>2, <1>3, <1>4, <1>5, <1>6, <1>7, <1>8 DEF Next, MigrateForRole

\* A failed call shows in the counter.
LEMMA FaultsStay ==
  ASSUME TypeOK, [Next]_vars, faults' = 0
  PROVE  faults = 0 /\ ~Fault
<1>1. faults \in Nat BY Constants DEF TypeOK
<1>2. ~Fault BY <1>1 DEF Fault
<1>3. faults' = faults \/ Fault
  BY DEF Next, MigrateForRole, StartServer, EnsureSchemaMigrationsTable, BookkeepingFails,
         InspectDatabase, FinishDatabase, FinishMigrations, SkipOrOpenFile, IsDatabaseFresh,
         IsMigrationApplied, Answers, ExecuteStatement, AbandonFile, FinishFile, Exit, vars
<1> QED BY <1>2, <1>3

\* A file that rebuilds its table is in the hand of one server.
LEMMA OneRebuilder ==
  ASSUME OwnFiles, NEW s \in Server, NEW t \in Server, pc[s] = "statement",
         pc[t] = "statement", file[s] = file[t], file[s] \in Rebuilding
  PROVE  s = t
BY MigratorAssumption DEF OwnFiles

\* A server's lists come from its role, and its file from its lists.
LEMMA OwnFilesStep == TypeOK /\ OwnFiles /\ [Next]_vars => OwnFiles'
<1> SUFFICES ASSUME TypeOK, OwnFiles, [Next]_vars PROVE OwnFiles'
  OBVIOUS
<1> USE Constants
<1>0. /\ todo \in [Server -> Seq(Database)] /\ files \in [Server -> SUBSET File]
      /\ file \in [Server -> File \cup {NoFile}]
      /\ pc \in [Server -> {"down", "start", "database", "file", "statement", "finished"}]
  BY DEF TypeOK
<1>1. ASSUME NEW s \in Server,
             StartServer(s) \/ BookkeepingFails(s) \/ FinishDatabase(s) \/ FinishMigrations(s)
      PROVE  OwnFiles'
  <2>1. /\ todo' = todo /\ files' = files /\ file' = file
        /\ \A t \in Server : pc'[t] = "statement" => pc[t] = "statement"
    BY <1>0, <1>1 DEF StartServer, BookkeepingFails, FinishDatabase, FinishMigrations, GoTo,
                      pass, work
  <2> QED BY <2>1 DEF OwnFiles, Migrates
<1>2. ASSUME NEW s \in Server, EnsureSchemaMigrationsTable(s) PROVE OwnFiles'
  <2>1. /\ todo' = [todo EXCEPT ![s] = Targets[s]] /\ files' = files /\ file' = file
        /\ \A t \in Server : pc'[t] = "statement" => pc[t] = "statement"
    BY <1>0, <1>2 DEF EnsureSchemaMigrationsTable, GoTo, work
  <2>2. \A i \in 1 .. Len(Targets[s]) : Migrates(s, Targets[s][i])
    BY DEF Migrates
  <2>3. \A t \in Server : \A i \in 1 .. Len(todo'[t]) : Migrates(t, todo'[t][i])
    BY <1>0, <2>1, <2>2 DEF OwnFiles
  <2> QED BY <2>1, <2>3 DEF OwnFiles, Migrates
<1>3. ASSUME NEW s \in Server, InspectDatabase(s) PROVE OwnFiles'
  <2>1. PICK fresh \in BOOLEAN :
          /\ files' = [files EXCEPT ![s] = FilesOf(Head(todo[s]), fresh)]
          /\ todo' = [todo EXCEPT ![s] = Tail(@)]
    BY <1>3 DEF InspectDatabase
  <2>2. /\ file' = file /\ todo[s] # <<>> /\ todo[s] \in Seq(Database)
        /\ \A t \in Server : pc'[t] = "statement" => pc[t] = "statement"
    BY <1>0, <1>3 DEF InspectDatabase, GoTo, work
  <2>3. /\ Head(todo[s]) = todo[s][1] /\ Len(todo[s]) > 0
        /\ \A i \in 1 .. Len(Tail(todo[s])) :
             Tail(todo[s])[i] = todo[s][i + 1] /\ i + 1 \in 1 .. Len(todo[s])
    BY <2>2
  <2>4. Migrates(s, Head(todo[s])) BY <2>3 DEF OwnFiles
  <2>5. \A i \in 1 .. Len(Tail(todo[s])) : Migrates(s, Tail(todo[s])[i])
    BY <2>3 DEF OwnFiles
  <2>6. \A f \in FilesOf(Head(todo[s]), fresh) : Migrates(s, TargetOf[f])
    BY <2>4 DEF FilesOf
  <2>7. ASSUME NEW t \in Server
        PROVE  /\ \A i \in 1 .. Len(todo'[t]) : Migrates(t, todo'[t][i])
               /\ \A f \in files'[t] : Migrates(t, TargetOf[f])
    <3>1. CASE t = s BY <1>0, <2>1, <2>5, <2>6, <3>1
    <3>2. CASE t # s
      <4>1. todo'[t] = todo[t] /\ files'[t] = files[t] BY <1>0, <2>1, <3>2
      <4> QED BY <4>1 DEF OwnFiles
    <3> QED BY <3>1, <3>2
  <2> QED BY <2>2, <2>7 DEF OwnFiles, Migrates
<1>4. ASSUME NEW s \in Server, SkipOrOpenFile(s) PROVE OwnFiles'
  <2>1. PICK f \in FirstOf(files[s]) :
          /\ files' = [files EXCEPT ![s] = @ \ {f}]
          /\ \/ UNCHANGED <<pc, work>>
             \/ file' = [file EXCEPT ![s] = f] /\ GoTo(s, "statement")
    BY <1>4 DEF SkipOrOpenFile
  <2>2. todo' = todo /\ f \in files[s] /\ f \in File /\ Migrates(s, TargetOf[f])
    BY <1>0, <1>4 DEF SkipOrOpenFile, FirstOf, OwnFiles
  <2>3. ASSUME NEW t \in Server, pc'[t] = "statement"
        PROVE  file'[t] \in File /\ Migrates(t, TargetOf[file'[t]])
    <3>1. \/ pc[t] = "statement" /\ file'[t] = file[t]
          \/ t = s /\ file'[t] = f
      BY <1>0, <2>1, <2>3 DEF GoTo, work
    <3> QED BY <2>2, <3>1 DEF OwnFiles
  <2>4. \A t \in Server : files'[t] \subseteq files[t] BY <1>0, <2>1
  <2> QED BY <2>2, <2>3, <2>4 DEF OwnFiles, Migrates
<1>5. ASSUME NEW s \in Server, ExecuteStatement(s) PROVE OwnFiles'
  <2>1. todo' = todo /\ files' = files /\ file' = file /\ pc' = pc
    BY <1>5 DEF ExecuteStatement, pass
  <2> QED BY <2>1 DEF OwnFiles, Migrates
<1>6. ASSUME NEW s \in Server, AbandonFile(s) \/ FinishFile(s) \/ Exit(s) PROVE OwnFiles'
  <2>1. /\ todo' = todo \/ todo' = [todo EXCEPT ![s] = <<>>]
        /\ files' = files \/ files' = [files EXCEPT ![s] = {}]
        /\ file' = [file EXCEPT ![s] = NoFile]
        /\ pc' = [pc EXCEPT ![s] = "file"] \/ pc' = [pc EXCEPT ![s] = "down"]
    BY <1>6 DEF AbandonFile, FinishFile, Exit, LeaveFile, GoTo, pass
  <2>2. \A t \in Server : \A i \in 1 .. Len(todo'[t]) : todo'[t] = todo[t]
    <3>1. \A t \in Server : todo'[t] = todo[t] \/ todo'[t] = <<>> BY <1>0, <2>1
    <3> QED BY <3>1
  <2>3. \A t \in Server : files'[t] \subseteq files[t] BY <1>0, <2>1
  <2>4. \A t \in Server : pc'[t] = "statement" => pc[t] = "statement" /\ file'[t] = file[t]
    BY <1>0, <2>1
  <2>5. \A t \in Server : \A i \in 1 .. Len(todo'[t]) : Migrates(t, todo'[t][i])
    BY <2>2 DEF OwnFiles
  <2> QED BY <2>3, <2>4, <2>5 DEF OwnFiles, Migrates
<1>7. CASE UNCHANGED vars
  BY <1>7 DEF vars, pass, work, OwnFiles, Migrates
<1> QED BY <1>1, <1>2, <1>3, <1>4, <1>5, <1>6, <1>7 DEF Next, MigrateForRole

\* What an action does to the rows, the statements and the place of a server.
Quiet(s) ==
  /\ UNCHANGED <<recorded, applied>>
  /\ \A t \in Server : pc'[t] = "statement" =>
       \/ /\ at'[t] = 0 /\ ~failed'[t]
          /\ faults' = 0 => file'[t] \notin recorded
       \/ /\ pc[t] = "statement"
          /\ file'[t] = file[t] /\ at'[t] = at[t] /\ failed'[t] = failed[t]

\* Every action but the two inside a file leaves the rows and the statements
\* alone, and brings a server into a file only at its beginning.
LEMMA QuietSteps ==
  ASSUME TypeOK, [Next]_vars, NEW s \in Server,
         \/ StartServer(s) \/ EnsureSchemaMigrationsTable(s) \/ BookkeepingFails(s)
         \/ InspectDatabase(s) \/ FinishDatabase(s) \/ FinishMigrations(s)
         \/ SkipOrOpenFile(s) \/ AbandonFile(s) \/ Exit(s)
  PROVE  Quiet(s)
<1>1. CASE SkipOrOpenFile(s)
  <2>1. PICK f \in FirstOf(files[s]) :
          \/ UNCHANGED <<pc, work>>
          \/ /\ IsMigrationApplied(f, FALSE)
             /\ file' = [file EXCEPT ![s] = f]
             /\ at' = [at EXCEPT ![s] = 0]
             /\ failed' = [failed EXCEPT ![s] = FALSE]
             /\ GoTo(s, "statement")
    BY <1>1 DEF SkipOrOpenFile
  <2>2. faults' = 0 /\ IsMigrationApplied(f, FALSE) => f \notin recorded
    BY FaultsStay DEF IsMigrationApplied, Answers
  <2> QED BY <1>1, <2>1, <2>2 DEF SkipOrOpenFile, GoTo, Quiet, TypeOK, db, work
<1>2. CASE StartServer(s) \/ EnsureSchemaMigrationsTable(s) \/ BookkeepingFails(s)
  BY <1>2 DEF StartServer, EnsureSchemaMigrationsTable, BookkeepingFails, GoTo, Quiet,
              TypeOK, db, work
<1>3. CASE InspectDatabase(s) \/ FinishDatabase(s) \/ FinishMigrations(s)
  BY <1>3 DEF InspectDatabase, FinishDatabase, FinishMigrations, GoTo, Quiet,
              TypeOK, db, work
<1>4. CASE AbandonFile(s) \/ Exit(s)
  BY <1>4 DEF AbandonFile, Exit, LeaveFile, GoTo, Quiet, TypeOK, db
<1> QED BY <1>1, <1>2, <1>3, <1>4

\* A statement leaves the other files alone, and takes nothing from its own unless it
\* rebuilds it; what it is rejected for has happened, or is in effect.
LEMMA StatementStep ==
  ASSUME TypeOK, OwnFiles, NEW s \in Server, ExecuteStatement(s)
  PROVE  /\ file[s] \in File /\ at[s] \in Nat /\ at[s] + 1 \in 1 .. Statements
         /\ at'[s] = at[s] + 1 /\ file' = file /\ pc' = pc /\ recorded' = recorded
         /\ pc[s] = "statement"
         /\ \A t \in Server \ {s} : at'[t] = at[t] /\ failed'[t] = failed[t]
         /\ \A f \in File \ {file[s]} : applied'[f] = applied[f]
         /\ file[s] \notin Rebuilding => applied[file[s]] \subseteq applied'[file[s]]
         /\ \/ /\ ~Rejected(file[s], at[s] + 1) /\ failed'[s] = failed[s]
               /\ applied'[file[s]] = Effect(file[s], at[s] + 1)
            \/ /\ Rejected(file[s], at[s] + 1) \/ Fault
               /\ failed'[s] = TRUE /\ applied' = applied
<1> USE Constants
<1>0. /\ at \in [Server -> 0 .. Statements] /\ failed \in [Server -> BOOLEAN]
      /\ applied \in [File -> SUBSET (1 .. Statements)]
  BY DEF TypeOK
<1>1. /\ pc[s] = "statement" /\ at[s] < Statements /\ file[s] \in File
      /\ file' = file /\ pc' = pc /\ recorded' = recorded
      /\ at' = [at EXCEPT ![s] = at[s] + 1]
  BY <1>0 DEF ExecuteStatement, OwnFiles
<1>2. \/ /\ ~Rejected(file[s], at[s] + 1) /\ failed' = failed
         /\ applied' = [applied EXCEPT ![file[s]] = Effect(file[s], at[s] + 1)]
      \/ /\ Rejected(file[s], at[s] + 1) \/ Fault
         /\ failed' = [failed EXCEPT ![s] = TRUE] /\ applied' = applied
  BY DEF ExecuteStatement
<1>3. \A t \in Server \ {s} : at'[t] = at[t] /\ failed'[t] = failed[t]
  BY <1>0, <1>1, <1>2
<1>4. \A f \in File \ {file[s]} : applied'[f] = applied[f]
  BY <1>0, <1>1, <1>2
<1>5. file[s] \notin Rebuilding => applied[file[s]] \subseteq applied'[file[s]]
  BY <1>0, <1>1, <1>2 DEF Effect
<1>6. at[s] \in Nat /\ at[s] + 1 \in 1 .. Statements /\ at'[s] = at[s] + 1
  BY <1>0, <1>1
<1>7. \/ /\ ~Rejected(file[s], at[s] + 1) /\ failed'[s] = failed[s]
         /\ applied'[file[s]] = Effect(file[s], at[s] + 1)
      \/ /\ Rejected(file[s], at[s] + 1) \/ Fault
         /\ failed'[s] = TRUE /\ applied' = applied
  BY <1>0, <1>1, <1>2
<1> QED BY <1>1, <1>3, <1>4, <1>5, <1>6, <1>7

\* What the others know of their files stands: they have another one, or one that
\* nobody undoes.
LEMMA OthersInside ==
  ASSUME TypeOK, OwnFiles, InsideFile, faults' = 0 => faults = 0,
         NEW s \in Server, ExecuteStatement(s) \/ FinishFile(s),
         NEW t \in Server, t # s, pc'[t] = "statement"
  PROVE  /\ ~failed'[t] => Made(t)'
         /\ faults' = 0 => Undisturbed(t)'
<1>1. /\ pc[t] = "statement" /\ pc[s] = "statement" /\ file'[t] = file[t] /\ file[t] \in File
      /\ at'[t] = at[t] /\ failed'[t] = failed[t]
      /\ file[t] # file[s] \/ file[s] \notin Rebuilding => applied[file[t]] \subseteq applied'[file[t]]
      /\ file[t] # file[s] => applied[file[t]] = applied'[file[t]]
      /\ recorded' = recorded \/ recorded' = recorded \cup {file[s]}
  <2>1. CASE ExecuteStatement(s)
    BY <2>1, StatementStep DEF OwnFiles
  <2>2. CASE FinishFile(s)
    BY <2>2 DEF FinishFile, LeaveFile, GoTo, OwnFiles, TypeOK
  <2> QED BY <2>1, <2>2
<1>2. file[t] = file[s] => file[t] \notin Rebuilding
  BY <1>1, OneRebuilder
<1>3. applied[file[t]] \subseteq applied'[file[t]] BY <1>1, <1>2
<1>4. Made(t) => Made(t)' BY <1>1, <1>3 DEF Made
<1>5. file[t] \in Rebuilding => applied'[file[t]] = applied[file[t]]
  BY <1>1, <1>2
<1>6. ~failed[t] => Made(t) BY <1>1 DEF InsideFile
<1>7. faults = 0 => Undisturbed(t) BY <1>1 DEF InsideFile
<1>8. Undisturbed(t) => Undisturbed(t)'
  <2>1. file[t] \in Rebuilding /\ file[t] \notin recorded => file[t] \notin recorded'
    BY <1>1, <1>2
  <2> QED BY <1>1, <1>4, <1>5, <2>1 DEF Undisturbed, Repeatable
<1> QED BY <1>1, <1>4, <1>6, <1>7, <1>8

\* The server that executes a statement.
LEMMA OwnInside ==
  ASSUME TypeOK, OwnFiles, InsideFile, faults' = 0 => faults = 0 /\ ~Fault,
         NEW s \in Server, ExecuteStatement(s)
  PROVE  /\ ~failed'[s] => Made(s)'
         /\ faults' = 0 => Undisturbed(s)'
<1> DEFINE f == file[s]
           n == at[s] + 1
<1>1. /\ f \in File /\ at[s] \in Nat /\ n \in 1 .. Statements
      /\ at'[s] = n /\ file'[s] = f /\ recorded' = recorded /\ pc[s] = "statement"
      /\ \/ ~Rejected(f, n) /\ failed'[s] = failed[s] /\ applied'[f] = Effect(f, n)
         \/ /\ Rejected(f, n) \/ Fault
            /\ failed'[s] = TRUE /\ applied' = applied
  BY StatementStep
<1>2. applied[f] \subseteq 1 .. Statements BY <1>1 DEF TypeOK
<1>3. /\ ~failed[s] => Made(s)
      /\ faults = 0 => Undisturbed(s)
  BY <1>1 DEF InsideFile
<1>4. \A i \in 1 .. n : i = n \/ i \in 1 .. at[s] BY <1>1
<1>5. n = 1 \/ n - 1 \in 1 .. at[s] BY <1>1
<1> HIDE DEF n, f
<1>6. ASSUME applied'[f] = Effect(f, n), Made(s) PROVE Made(s)'
  <2>1. CASE f \in Rebuilding /\ n = 1
    BY <1>1, <1>6, <2>1 DEF Made, Effect
  <2>2. CASE ~(f \in Rebuilding /\ n = 1)
    BY <1>1, <1>4, <1>6, <2>2 DEF Made, Effect, f
  <2> QED BY <2>1, <2>2
<1>7. ASSUME faults' = 0 PROVE Undisturbed(s)'
  <2>1. faults = 0 /\ ~Fault /\ Undisturbed(s) BY <1>3, <1>7
  <2>2. f \in Rebuilding => f \notin recorded' BY <1>1, <2>1 DEF Undisturbed, f
  <2>3. ASSUME f \notin Broken
        PROVE  /\ Made(s)'
               /\ Repeatable(f) => ~failed'[s]
               /\ f \in Rebuilding /\ n > 0 => applied'[f] \subseteq 1 .. n
    <3>1. Made(s) /\ (Repeatable(f) => ~failed[s])
      BY <2>1, <2>3 DEF Undisturbed, f
    <3>2. f \in Rebuilding /\ at[s] > 0 => applied[f] \subseteq 1 .. at[s]
      BY <2>1, <2>3 DEF Undisturbed, f
    <3>3. Rejected(f, n) => n \in OnceOnly[f] /\ n \in applied[f]
      BY <2>3 DEF Rejected
    <3>4. f \in Rebuilding => ~Rejected(f, n)
      <4>1. f \in Rebuilding => 1 \notin OnceOnly[f] BY MigratorAssumption
      <4>2. n # 1 => at[s] > 0 /\ n \notin 1 .. at[s] BY <1>1 DEF n
      <4> QED BY <3>2, <3>3, <4>1, <4>2
    <3>5. Repeatable(f) => ~Rejected(f, n) BY <3>3, <3>4 DEF Repeatable
    <3>6. CASE ~Rejected(f, n)
      <4>1. applied'[f] = Effect(f, n) /\ failed'[s] = failed[s] BY <1>1, <2>1, <3>6
      <4>2. Made(s)' BY <1>6, <3>1, <4>1
      <4>3. f \in Rebuilding => applied'[f] \subseteq 1 .. n
        <5>1. n = 1 => applied'[f] \subseteq 1 .. n \/ f \notin Rebuilding
          BY <1>1, <4>1 DEF Effect
        <5>2. n # 1 => at[s] > 0 /\ n \in 1 .. n /\ 1 .. at[s] \subseteq 1 .. n
          BY <1>1 DEF n
        <5>3. n # 1 => applied'[f] = applied[f] \cup {n} BY <4>1 DEF Effect
        <5> QED BY <3>2, <5>1, <5>2, <5>3
      <4> QED BY <3>1, <4>1, <4>2, <4>3
    <3>7. CASE Rejected(f, n)
      <4>1. applied' = applied BY <1>1, <2>1, <3>7
      <4>2. \A i \in 1 .. n : i \in applied[f]
        BY <1>4, <3>1, <3>3, <3>7 DEF Made, f
      <4>3. Made(s)' BY <1>1, <4>1, <4>2 DEF Made
      <4> QED BY <3>4, <3>5, <3>7, <4>3
    <3> QED BY <3>6, <3>7
  <2> QED BY <1>1, <2>2, <2>3 DEF Undisturbed, Repeatable
<1>8. ~failed'[s] => Made(s)'
  BY <1>1, <1>3, <1>6
<1> QED BY <1>7, <1>8

\* The invariant is kept: by the quiet steps, by a statement, which adds itself
\* to the file in hand, and by the end of a file, where all have been added.
LEMMA Inductive == IInv /\ [Next]_vars => IInv'
<1> SUFFICES ASSUME IInv, [Next]_vars PROVE IInv'
  OBVIOUS
<1> USE Constants
<1>1. TypeOK' /\ OwnFiles'
  BY TypeStep, OwnFilesStep DEF IInv
<1>2. faults' = 0 => faults = 0 /\ ~Fault
  BY FaultsStay DEF IInv
<1>3. ASSUME NEW s \in Server, Quiet(s) PROVE InsideFile' /\ RecordedIsApplied'
  <2>1. RecordedIsApplied'
    BY <1>2, <1>3 DEF Quiet, RecordedIsApplied, IInv
  <2>2. ASSUME NEW t \in Server, pc'[t] = "statement"
        PROVE  /\ ~failed'[t] => Made(t)'
               /\ faults' = 0 => Undisturbed(t)'
    <3>1. CASE at'[t] = 0 /\ ~failed'[t] /\ (faults' = 0 => file'[t] \notin recorded)
      BY <1>3, <3>1 DEF Quiet, Made, Undisturbed
    <3>2. CASE /\ pc[t] = "statement"
               /\ file'[t] = file[t] /\ at'[t] = at[t] /\ failed'[t] = failed[t]
      <4>1. /\ ~failed[t] => Made(t)
            /\ faults = 0 => Undisturbed(t)
        BY <3>2 DEF InsideFile, IInv
      <4> QED BY <1>2, <1>3, <3>2, <4>1 DEF Quiet, Made, Undisturbed, Repeatable
    <3> QED BY <1>3, <2>2, <3>1, <3>2 DEF Quiet
  <2> QED BY <2>1, <2>2 DEF InsideFile
<1>4. ASSUME NEW s \in Server, ExecuteStatement(s)
      PROVE  InsideFile' /\ RecordedIsApplied'
  <2>1. ASSUME NEW t \in Server, pc'[t] = "statement"
        PROVE  /\ ~failed'[t] => Made(t)'
               /\ faults' = 0 => Undisturbed(t)'
    BY <1>2, <1>4, <2>1, OwnInside, OthersInside DEF IInv
  <2>2. ASSUME NEW f \in recorded', f \in Rebuilding => faults' = 0
        PROVE  applied'[f] = 1 .. Statements
    <3>1. /\ f \in recorded /\ f \in File /\ pc[s] = "statement" /\ file[s] \in File
          /\ f # file[s] => applied'[f] = applied[f]
          /\ f \notin Rebuilding => applied[f] \subseteq applied'[f]
      BY <1>4, <2>2, StatementStep DEF IInv, TypeOK
    <3>2. applied[f] = 1 .. Statements
      BY <1>2, <2>2, <3>1 DEF IInv, RecordedIsApplied
    <3>3. applied'[f] \subseteq 1 .. Statements BY <1>1, <3>1 DEF TypeOK
    <3>4. f \in Rebuilding => f # file[s]
      BY <1>2, <2>2, <3>1 DEF IInv, InsideFile, Undisturbed
    <3> QED BY <3>1, <3>2, <3>3, <3>4
  <2> QED BY <2>1, <2>2 DEF InsideFile, RecordedIsApplied
<1>5. ASSUME NEW s \in Server, FinishFile(s)
      PROVE  InsideFile' /\ RecordedIsApplied'
  <2>1. /\ applied' = applied /\ pc' = [pc EXCEPT ![s] = "file"]
        /\ pc[s] = "statement" /\ at[s] = Statements
        /\ recorded' = recorded \/ (~failed[s] /\ recorded' = recorded \cup {file[s]})
    BY <1>5 DEF FinishFile, LeaveFile, GoTo
  <2>2. ASSUME NEW t \in Server, pc'[t] = "statement"
        PROVE  /\ ~failed'[t] => Made(t)'
               /\ faults' = 0 => Undisturbed(t)'
    <3>1. t # s BY <2>1, <2>2 DEF IInv, TypeOK
    <3> QED BY <1>2, <1>5, <2>2, <3>1, OthersInside DEF IInv
  <2>3. ~failed[s] => applied[file[s]] = 1 .. Statements
    <3>1. file[s] \in File /\ (~failed[s] => Made(s))
      BY <2>1 DEF OwnFiles, InsideFile, IInv
    <3>2. applied[file[s]] \subseteq 1 .. Statements BY <3>1 DEF IInv, TypeOK
    <3> QED BY <2>1, <3>1, <3>2 DEF Made
  <2>4. RecordedIsApplied'
    BY <1>2, <2>1, <2>3 DEF RecordedIsApplied, IInv
  <2> QED BY <2>2, <2>4 DEF InsideFile
<1>6. CASE UNCHANGED vars
  <2>1. /\ recorded' = recorded /\ applied' = applied /\ pc' = pc
        /\ file' = file /\ at' = at /\ failed' = failed /\ faults' = faults
    BY <1>6 DEF vars, db, work
  <2>2. InsideFile'
    BY <2>1 DEF InsideFile, Made, Undisturbed, Repeatable, IInv
  <2>3. RecordedIsApplied'
    BY <2>1 DEF RecordedIsApplied, IInv
  <2> QED BY <1>1, <2>2, <2>3 DEF IInv
<1>7. ASSUME Next PROVE InsideFile' /\ RecordedIsApplied'
  <2>1. PICK s \in Server : MigrateForRole(s) \/ StartServer(s) \/ Exit(s)
    BY <1>7 DEF Next
  <2>2. Quiet(s) \/ ExecuteStatement(s) \/ FinishFile(s)
    BY <2>1, QuietSteps DEF MigrateForRole, IInv
  <2> QED BY <2>2, <1>3, <1>4, <1>5
<1> QED BY <1>1, <1>6, <1>7 DEF IInv

LEMMA Initially == Init => IInv
BY TypeInit DEF Init, IInv, OwnFiles, InsideFile, RecordedIsApplied

\* The tables, the bookkeeping and the servers keep their types.
THEOREM TypeCorrect == Spec => []TypeOK
<1>1. IInv => TypeOK
  BY DEF IInv
<1> QED BY <1>1, Initially, Inductive, PTL DEF Spec

\* A file in schema_migrations has had all its statements take effect, one that
\* rebuilds its table as long as no call of the database has failed.
THEOREM RecordedApplied == Spec => []RecordedIsApplied
<1>1. IInv => RecordedIsApplied
  BY DEF IInv
<1> QED BY <1>1, Initially, Inductive, PTL DEF Spec

---------------------------------------------------------------------------
\* The order of the migrations, while no call of the database has failed.  The rows
\* and the tables only say what is done; the proof needs what a server has still to
\* come to.  Done(s) databases of its list are behind a server, the last of them the
\* one it is in.
Done(s) == Len(Targets[s]) - Len(todo[s])

\* The list of a server that is in it is cut from the front.
InList(s) ==
  /\ Len(todo[s]) <= Len(Targets[s])
  /\ \A i \in 1 .. Len(todo[s]) : todo[s][i] = Targets[s][Done(s) + i]

\* The databases a server has left, and the files of its database that are neither
\* waiting nor in hand, are settled; what is in hand comes before what is waiting.
Behind(s) ==
  /\ pc[s] \in {"database", "file", "statement"} => InList(s)
  /\ pc[s] \in {"file", "statement"} =>
       /\ Done(s) \in 1 .. Len(Targets[s])
       /\ \A i \in 1 .. Done(s) - 1 : \A f \in Sound : TargetOf[f] = Targets[s][i] => Settled(f)
       /\ \A f \in files[s] : TargetOf[f] = Targets[s][Done(s)]
       /\ \A f \in Sound : TargetOf[f] = Targets[s][Done(s)] =>
            Settled(f) \/ f \in files[s] \/ (pc[s] = "statement" /\ f = file[s])
  /\ pc[s] = "statement" =>
       /\ TargetOf[file[s]] = Targets[s][Done(s)]
       /\ \A f \in files[s] : f # file[s] /\ Before(file[s], f)
  /\ pc[s] = "database" =>
       \A i \in 1 .. Done(s) : \A f \in Sound : TargetOf[f] = Targets[s][i] => Settled(f)

Orderly ==
  faults = 0 =>
    /\ \A s \in Server : Behind(s)
    /\ MigrationsInOrder /\ CompleteAtFinish

\* What is settled stays so: only a file that is rebuilt takes statements back, and
\* that one is not opened again once it is recorded.
LEMMA SettledStays ==
  ASSUME IInv, [Next]_vars, faults' = 0, NEW f \in File, Settled(f)
  PROVE  Settled(f)'
<1>1. faults = 0 BY FaultsStay DEF IInv
<1>2. CASE applied'[f] = applied[f] /\ recorded \subseteq recorded'
  BY <1>2 DEF Settled, Repeatable
<1>3. ASSUME NEW s \in Server, ExecuteStatement(s) PROVE Settled(f)'
  <2>1. /\ recorded' = recorded /\ pc[s] = "statement" /\ file[s] \in File
        /\ f # file[s] => applied'[f] = applied[f]
        /\ f \notin Rebuilding => applied[f] \subseteq applied'[f]
    BY <1>3, StatementStep DEF IInv
  <2>2. f \in Rebuilding => f # file[s]
    BY <1>1, <2>1 DEF Settled, Repeatable, IInv, InsideFile, Undisturbed
  <2>3. applied'[f] \subseteq 1 .. Statements BY TypeStep DEF IInv, TypeOK
  <2>4. applied'[f] = 1 .. Statements BY <2>1, <2>2, <2>3 DEF Settled
  <2> QED BY <2>1, <2>4 DEF Settled, Repeatable
<1>4. ASSUME NEW s \in Server, StartServer(s) \/ Exit(s) \/ MigrateForRole(s), ~ExecuteStatement(s)
      PROVE  applied'[f] = applied[f] /\ recorded \subseteq recorded'
  BY <1>4 DEF MigrateForRole, StartServer, EnsureSchemaMigrationsTable, BookkeepingFails,
       InspectDatabase, FinishDatabase, FinishMigrations, SkipOrOpenFile, AbandonFile,
       FinishFile, Exit, db
<1>5. CASE UNCHANGED vars BY <1>2, <1>5 DEF vars, db
<1> QED BY <1>2, <1>3, <1>4, <1>5 DEF Next

\* What others do only settles files.
LEMMA OthersBehind ==
  ASSUME NEW t \in Server, Behind(t), \A f \in Sound : Settled(f) => Settled(f)',
         pc'[t] = pc[t], todo'[t] = todo[t], files'[t] = files[t], file'[t] = file[t]
  PROVE  Behind(t)'
BY DEF Behind, InList, Done

\* Where an action takes the server that does it.
LEMMA ListBehind ==
  ASSUME TypeOK, NEW s \in Server, Behind(s),
         EnsureSchemaMigrationsTable(s) \/ InspectDatabase(s)
  PROVE  Behind(s)'
<1>0. todo[s] \in Seq(Database) /\ Targets[s] \in Seq(Database)
  BY Constants DEF TypeOK
<1>1. CASE EnsureSchemaMigrationsTable(s)
  <2>1. pc'[s] = "database" /\ todo'[s] = Targets[s]
    BY <1>1 DEF EnsureSchemaMigrationsTable, GoTo, TypeOK
  <2>2. Done(s)' = 0 BY <1>0, <2>1 DEF Done
  <2>3. InList(s)' BY <1>0, <2>1, <2>2 DEF InList
  <2> QED BY <2>1, <2>2, <2>3 DEF Behind
<1>2. CASE InspectDatabase(s)
  <2>1. /\ pc[s] = "database" /\ todo[s] # <<>>
        /\ pc'[s] = "file" /\ todo'[s] = Tail(todo[s])
        /\ recorded' = recorded /\ applied' = applied
        /\ \E fresh : files'[s] = FilesOf(Head(todo[s]), fresh)
    BY <1>2 DEF InspectDatabase, GoTo, db, TypeOK
  <2> DEFINE n == Done(s)
  <2>2. /\ InList(s)
        /\ \A i \in 1 .. n : \A f \in Sound : TargetOf[f] = Targets[s][i] => Settled(f)'
    BY <2>1 DEF Behind, Settled
  <2>3. Len(todo[s]) \in Nat /\ Len(todo[s]) > 0 /\ Len(todo'[s]) = Len(todo[s]) - 1
        /\ Len(Targets[s]) \in Nat
    BY <1>0, <2>1
  <2>4. n \in Nat /\ Done(s)' = n + 1 /\ n + 1 \in 1 .. Len(Targets[s])
    <3>1. Len(todo[s]) <= Len(Targets[s]) BY <2>2 DEF InList
    <3>2. n = Len(Targets[s]) - Len(todo[s]) /\ Done(s)' = Len(Targets[s]) - Len(todo'[s])
      BY DEF Done
    <3>3. ASSUME NEW a \in Nat, NEW b \in Nat, a > 0, a <= b
          PROVE  b - a \in Nat /\ b - (a - 1) = b - a + 1 /\ b - a + 1 \in 1 .. b
      BY <3>3
    <3>4. Done(s)' = Len(Targets[s]) - (Len(todo[s]) - 1) BY <2>3, <3>2
    <3> HIDE DEF n
    <3> QED BY <2>3, <3>1, <3>2, <3>3, <3>4
  <2>5. Head(todo[s]) = Targets[s][n + 1]
    BY <1>0, <2>2, <2>3, <2>4 DEF InList
  <2>6. InList(s)'
    <3>1. Len(todo'[s]) <= Len(Targets[s]) BY <2>2, <2>3 DEF InList
    <3>2. ASSUME NEW i \in 1 .. Len(todo'[s])
          PROVE  todo'[s][i] = Targets[s][n + 1 + i]
      <4>1. todo'[s][i] = todo[s][i + 1] BY <1>0, <2>1, <2>3
      <4>2. i + 1 \in 1 .. Len(todo[s]) BY <2>3
      <4>3. todo[s][i + 1] = Targets[s][n + (i + 1)] BY <2>2, <4>2 DEF InList
      <4>4. n + (i + 1) = n + 1 + i BY <2>3, <2>4
      <4> QED BY <4>1, <4>3, <4>4
    <3> QED BY <2>4, <3>1, <3>2 DEF InList
  <2>7. \A f \in files'[s] : TargetOf[f] = Targets[s][n + 1]
    BY <2>1, <2>5 DEF FilesOf
  <2>8. \A f \in Sound : TargetOf[f] = Targets[s][n + 1] => f \in files'[s]
    BY <2>1, <2>5 DEF FilesOf, Sound
  <2>9. n + 1 - 1 = n BY <2>4
  <2> HIDE DEF n
  <2> QED BY <2>1, <2>2, <2>4, <2>6, <2>7, <2>8, <2>9 DEF Behind
<1> QED BY <1>1, <1>2

LEMMA FileBehind ==
  ASSUME IInv, NEW s \in Server, Behind(s), [Next]_vars, faults' = 0,
         \A f \in Sound : Settled(f) => Settled(f)',
         SkipOrOpenFile(s) \/ ExecuteStatement(s) \/ FinishFile(s)
  PROVE  Behind(s)'
<1>0. TypeOK /\ faults = 0 /\ ~Fault /\ Sound \subseteq File
  BY FaultsStay DEF IInv, Sound
<1>1. CASE SkipOrOpenFile(s)
  <2>1. PICK f \in FirstOf(files[s]) :
          /\ files' = [files EXCEPT ![s] = @ \ {f}]
          /\ \/ f \in recorded /\ UNCHANGED <<pc, work>>
             \/ file' = [file EXCEPT ![s] = f] /\ GoTo(s, "statement")
    BY <1>0, <1>1 DEF SkipOrOpenFile, IsMigrationApplied, Answers
  <2>2. /\ pc[s] = "file" /\ todo' = todo /\ files'[s] = files[s] \ {f}
    BY <1>0, <1>1, <2>1 DEF SkipOrOpenFile, db, TypeOK
  <2>3. f \in files[s] /\ f \in File /\ \A g \in files'[s] : g # f /\ Before(f, g)
    BY <1>0, <2>2 DEF FirstOf, TypeOK
  <2>4. InList(s)' /\ Done(s)' = Done(s)
    BY <2>2 DEF Behind, InList, Done
  <2>5. CASE f \in recorded /\ UNCHANGED <<pc, work>>
    <3>1. Settled(f) BY <1>0, <2>5 DEF Settled, IInv, RecordedIsApplied
    <3>2. f \in Sound => Settled(f)' BY <3>1
    <3>3. pc'[s] = "file" BY <2>2, <2>5
    <3> QED BY <2>2, <2>4, <3>2, <3>3 DEF Behind
  <2>6. CASE file' = [file EXCEPT ![s] = f] /\ GoTo(s, "statement")
    <3>1. file'[s] = f /\ pc'[s] = "statement"
      BY <1>0, <2>6 DEF TypeOK, GoTo
    <3> QED BY <2>2, <2>3, <2>4, <3>1 DEF Behind
  <2> QED BY <2>1, <2>5, <2>6
<1>2. CASE ExecuteStatement(s)
  <2>1. pc[s] = "statement" /\ UNCHANGED <<pc, todo, files, file>>
    BY <1>2 DEF ExecuteStatement, pass
  <2> QED BY <2>1 DEF Behind, InList, Done
<1>3. CASE FinishFile(s)
  <2>1. /\ pc[s] = "statement" /\ pc'[s] = "file" /\ todo' = todo /\ files' = files
        /\ applied' = applied /\ at[s] = Statements
        /\ recorded' = recorded \cup {file[s]} \/ (failed[s] /\ recorded' = recorded)
    <3>1. /\ pc[s] = "statement" /\ pc' = [pc EXCEPT ![s] = "file"] /\ todo' = todo
          /\ files' = files /\ applied' = applied /\ at[s] = Statements
      BY <1>3 DEF FinishFile, LeaveFile, GoTo, pass
    <3>2. recorded' = recorded \cup {file[s]} \/ (failed[s] /\ recorded' = recorded)
      BY <1>0, <1>3 DEF FinishFile
    <3> QED BY <1>0, <3>1, <3>2 DEF TypeOK
  <2>2. \A f \in Sound : f = file[s] => Settled(f)'
    <3>1. file[s] \in File /\ Undisturbed(s)
      BY <1>0, <2>1 DEF IInv, OwnFiles, InsideFile
    <3>2. applied[file[s]] \subseteq 1 .. Statements BY <1>0, <3>1 DEF TypeOK
    <3>3. file[s] \in Sound => Made(s) /\ (Repeatable(file[s]) => ~failed[s])
      BY <3>1 DEF Sound, Undisturbed
    <3>4. file[s] \in Sound => applied[file[s]] = 1 .. Statements
      BY <2>1, <3>2, <3>3 DEF Made
    <3>5. file[s] \in Sound /\ Repeatable(file[s]) => file[s] \in recorded'
      BY <2>1, <3>3
    <3> QED BY <2>1, <3>4, <3>5 DEF Settled, Repeatable
  <2>3. InList(s)' /\ Done(s)' = Done(s)
    BY <2>1 DEF Behind, InList, Done
  <2> QED BY <2>1, <2>2, <2>3 DEF Behind
<1> QED BY <1>1, <1>2, <1>3

LEMMA RestBehind ==
  ASSUME TypeOK, NEW s \in Server, Behind(s), ~Fault,
         \/ StartServer(s) \/ BookkeepingFails(s) \/ FinishDatabase(s) \/ FinishMigrations(s)
         \/ AbandonFile(s) \/ Exit(s)
  PROVE  Behind(s)'
<1>1. CASE FinishDatabase(s)
  <2>1. /\ pc[s] = "file" /\ files[s] = {} /\ pc'[s] = "database"
        /\ recorded' = recorded /\ applied' = applied /\ todo' = todo
    BY <1>1 DEF FinishDatabase, GoTo, db, pass, TypeOK
  <2>2. InList(s)' /\ Done(s)' = Done(s)
    BY <2>1 DEF Behind, InList, Done
  <2>3. Done(s) \in 1 .. Len(Targets[s]) BY <2>1 DEF Behind
  <2>4. ASSUME NEW i \in 1 .. Done(s), NEW f \in Sound, TargetOf[f] = Targets[s][i]
        PROVE  Settled(f)
    <3>1. Len(Targets[s]) \in Nat BY Constants
    <3>2. i = Done(s) \/ i \in 1 .. Done(s) - 1 BY <2>3, <3>1
    <3> QED BY <2>1, <2>4, <3>2 DEF Behind
  <2>5. \A f : Settled(f) => Settled(f)' BY <2>1 DEF Settled, Repeatable
  <2> QED BY <2>1, <2>2, <2>4, <2>5 DEF Behind
<1>2. CASE StartServer(s) \/ FinishMigrations(s) \/ Exit(s)
  <2>1. pc'[s] \in {"start", "finished", "down"}
    BY <1>2 DEF StartServer, FinishMigrations, Exit, GoTo, TypeOK
  <2> QED BY <2>1 DEF Behind
<1>3. ~BookkeepingFails(s) /\ ~AbandonFile(s)
  BY DEF BookkeepingFails, AbandonFile
<1> QED BY <1>1, <1>2, <1>3

\* Who may move what.
LEMMA OneServerMoves ==
  ASSUME TypeOK, NEW s \in Server, MigrateForRole(s) \/ StartServer(s) \/ Exit(s)
  PROVE  /\ applied' = applied \/ ExecuteStatement(s)
         /\ \A t \in Server \ {s} :
              /\ pc'[t] = pc[t] /\ todo'[t] = todo[t] /\ files'[t] = files[t]
              /\ file'[t] = file[t]
<1>1. CASE EnsureSchemaMigrationsTable(s) \/ BookkeepingFails(s) \/ InspectDatabase(s)
           \/ FinishDatabase(s) \/ FinishMigrations(s) \/ StartServer(s)
  BY <1>1 DEF EnsureSchemaMigrationsTable, BookkeepingFails, InspectDatabase, FinishDatabase,
              FinishMigrations, StartServer, GoTo, db, pass, work, TypeOK
<1>2. CASE SkipOrOpenFile(s)
  BY <1>2 DEF SkipOrOpenFile, GoTo, db, work, TypeOK
<1>3. CASE ExecuteStatement(s) \/ AbandonFile(s) \/ FinishFile(s) \/ Exit(s)
  BY <1>3 DEF ExecuteStatement, AbandonFile, FinishFile, Exit, LeaveFile, GoTo, db, pass, TypeOK
<1> QED BY <1>1, <1>2, <1>3 DEF MigrateForRole

\* A statement is executed after all sound files of its database with smaller numbers.
LEMMA OrderKept ==
  ASSUME IInv, NEW s \in Server, Behind(s), MigrationsInOrder, faults = 0, faults' = 0,
         \A f \in Sound : Settled(f) => Settled(f)',
         MigrateForRole(s) \/ StartServer(s) \/ Exit(s)
  PROVE  MigrationsInOrder'
<1>1. CASE applied' = applied BY <1>1 DEF MigrationsInOrder
<1>2. CASE ExecuteStatement(s)
  <2>1. /\ pc[s] = "statement" /\ file[s] \in File
        /\ \A g \in File \ {file[s]} : applied'[g] = applied[g]
    BY <1>2, StatementStep DEF IInv
  <2>2. ASSUME NEW f \in Sound, TargetOf[f] = TargetOf[file[s]], Number[f] < Number[file[s]],
               file[s] \notin InitScripts
        PROVE  Settled(f)
    <3>1. Number[f] \in Nat /\ Number[file[s]] \in Nat
      BY <2>1, MigratorAssumption DEF Sound
    <3>2. f # file[s] BY <2>2, <3>1
    <3>3. f \notin files[s]
      BY <2>1, <2>2, <3>1 DEF Behind, Before, Sound
    <3> QED BY <2>1, <2>2, <3>2, <3>3 DEF Behind
  <2>3. ASSUME NEW f \in Sound, NEW g \in File \ InitScripts, TargetOf[f] = TargetOf[g],
               Number[f] < Number[g], applied'[g] # {}
        PROVE  Settled(f)'
    <3>1. CASE g = file[s] BY <2>2, <2>3, <3>1
    <3>2. CASE g # file[s] BY <2>1, <2>3, <3>2 DEF MigrationsInOrder
    <3> QED BY <3>1, <3>2
  <2> QED BY <2>3 DEF MigrationsInOrder
<1> QED BY <1>1, <1>2, OneServerMoves DEF IInv

\* A server that gets through has come to the end of its list.
LEMMA FinishKept ==
  ASSUME TypeOK, NEW s \in Server, Behind(s), CompleteAtFinish, faults = 0, faults' = 0,
         \A f \in Sound : Settled(f) => Settled(f)',
         ~Fault, MigrateForRole(s) \/ StartServer(s) \/ Exit(s)
  PROVE  CompleteAtFinish'
<1>1. ASSUME NEW t \in Server, t # s, pc'[t] = "finished",
             NEW i \in DOMAIN Targets[t], NEW f \in Sound,
             TargetOf[f] = Targets[t][i]
      PROVE  Settled(f)'
  BY <1>1, OneServerMoves DEF CompleteAtFinish
<1>2. ASSUME pc'[s] = "finished",
             NEW i \in DOMAIN Targets[s], NEW f \in Sound,
             TargetOf[f] = Targets[s][i]
      PROVE  Settled(f)'
  <2>1. FinishMigrations(s)
    <3>1. ~BookkeepingFails(s) /\ ~AbandonFile(s) BY DEF BookkeepingFails, AbandonFile
    <3>2. pc[s] = "statement" \/ pc[s] = "file" => pc'[s] # "finished" \/ FinishMigrations(s)
      BY <3>1 DEF MigrateForRole, StartServer, EnsureSchemaMigrationsTable, InspectDatabase,
         FinishDatabase, SkipOrOpenFile, ExecuteStatement, FinishFile, LeaveFile, Exit, GoTo, TypeOK
    <3>3. pc[s] \notin {"statement", "file"} => pc'[s] # "finished" \/ FinishMigrations(s)
      BY <3>1 DEF MigrateForRole, StartServer, EnsureSchemaMigrationsTable, InspectDatabase,
         FinishDatabase, SkipOrOpenFile, ExecuteStatement, FinishFile, Exit, GoTo, TypeOK
    <3> QED BY <1>2, <3>2, <3>3
  <2>2. pc[s] = "database" /\ todo[s] = <<>> BY <2>1 DEF FinishMigrations
  <2>3. Targets[s] \in Seq(Database) BY Constants
  <2>4. i \in 1 .. Done(s) BY <2>2, <2>3 DEF Done
  <2>5. Settled(f) BY <1>2, <2>2, <2>4 DEF Behind
  <2> QED BY <2>5
<1> QED BY <1>1, <1>2 DEF CompleteAtFinish

LEMMA OrderlyStep == IInv /\ Orderly /\ [Next]_vars => Orderly'
<1> SUFFICES ASSUME IInv, Orderly, [Next]_vars, faults' = 0
             PROVE  /\ \A s \in Server : Behind(s)'
                    /\ MigrationsInOrder' /\ CompleteAtFinish'
  BY DEF Orderly
<1>1. TypeOK /\ faults = 0 /\ ~Fault BY FaultsStay DEF IInv
<1>2. /\ \A t \in Server : Behind(t)
      /\ MigrationsInOrder /\ CompleteAtFinish
  BY <1>1 DEF Orderly
<1>3. \A f \in Sound : Settled(f) => Settled(f)' BY SettledStays DEF Sound
<1>4. CASE UNCHANGED vars
  <2>1. UNCHANGED <<recorded, applied, pc, todo, files, file, faults>>
    BY <1>4 DEF vars, db, pass, work
  <2>2. \A s \in Server : Behind(s)' BY <1>2, <1>3, <2>1, OthersBehind
  <2>3. MigrationsInOrder' /\ CompleteAtFinish'
    BY <1>1, <1>2, <1>3, <2>1 DEF MigrationsInOrder, CompleteAtFinish
  <2> QED BY <2>2, <2>3
<1>5. CASE Next
  <2>1. PICK s \in Server : MigrateForRole(s) \/ StartServer(s) \/ Exit(s) BY <1>5 DEF Next
  <2>2. Behind(s)'
    BY <1>1, <1>2, <1>3, <2>1, ListBehind, FileBehind, RestBehind DEF MigrateForRole
  <2>3. ASSUME NEW t \in Server, t # s PROVE Behind(t)'
    BY <1>1, <1>2, <1>3, <2>1, <2>3, OneServerMoves, OthersBehind
  <2>4. MigrationsInOrder' BY <1>1, <1>2, <1>3, <2>1, OrderKept
  <2>5. CompleteAtFinish' BY <1>1, <1>2, <1>3, <2>1, FinishKept
  <2> QED BY <2>2, <2>3, <2>4, <2>5
<1> QED BY <1>4, <1>5

LEMMA OrderlyInit == Init => Orderly
BY DEF Init, Orderly, Behind, MigrationsInOrder, CompleteAtFinish

\* While no call of the database has failed, no migration of a database has begun before
\* every sound one with a smaller number is in effect in full, and recorded if it can be
\* repeated, with any number of servers that start and stop anywhere.
THEOREM InOrder == Spec => []MigrationsInOrder
<1>1. Orderly => MigrationsInOrder BY DEF Orderly, MigrationsInOrder
<1> QED BY <1>1, Initially, Inductive, OrderlyInit, OrderlyStep, PTL DEF Spec

\* Then a server that gets through leaves every sound migration of its databases in effect
\* in full, and those that can be repeated recorded.
THEOREM CompleteWhenDone == Spec => []CompleteAtFinish
<1>1. Orderly => CompleteAtFinish BY DEF Orderly, CompleteAtFinish
<1> QED BY <1>1, Initially, Inductive, OrderlyInit, OrderlyStep, PTL DEF Spec

---------------------------------------------------------------------------
\* Init scripts, whatever fails.  The bookkeeping makes the auth database one that
\* has tables, and any other database belongs to one server, which takes its init
\* scripts first: TargetDatabasesForRole of the auth role is the auth database alone.
OneMigrator ==
  \A s, t \in Server, d \in Database : Migrates(s, d) /\ Migrates(t, d) => s = t \/ d = Auth

Untouched(d) == d # Auth /\ \A g \in recorded \ InitScripts : TargetOf[g] # d
HasTable == \A g \in File : applied[g] # {} \/ g \in recorded => TargetOf[g] \in tables

\* Init scripts are only waiting or in hand while nothing of their database is recorded.
InitFirst(s) ==
  /\ \A f \in files[s] \cap InitScripts : Untouched(TargetOf[f])
  /\ pc[s] \in {"database", "file", "statement"} => Auth \in tables
  /\ pc[s] = "statement" =>
       /\ file[s] \in InitScripts => Untouched(TargetOf[file[s]])
       /\ file[s] \notin InitScripts => files[s] \cap InitScripts = {}

\* A database without tables has nothing recorded, and is not the auth database.
LEMMA FreshIsUntouched ==
  ASSUME IInv, HasTable, NEW d \in Database, d \notin tables, Auth \in tables
  PROVE  Untouched(d)
BY DEF Untouched, HasTable, IInv, TypeOK

\* Tables only come, and a statement that takes effect leaves one.
LEMMA TablesStep ==
  ASSUME IInv, HasTable, [Next]_vars
  PROVE  HasTable' /\ tables \subseteq tables'
<1> USE Constants
<1>1. TypeOK BY DEF IInv
<1>2. CASE applied' = applied /\ recorded' = recorded /\ tables \subseteq tables'
  BY <1>2 DEF HasTable
<1>3. ASSUME NEW s \in Server, ExecuteStatement(s)
      PROVE  HasTable' /\ tables \subseteq tables'
  <2>1. /\ file[s] \in File /\ recorded' = recorded
        /\ \A g \in File \ {file[s]} : applied'[g] = applied[g]
    BY <1>1, <1>3, StatementStep DEF IInv
  <2>2. \/ applied' = applied /\ tables' = tables
        \/ tables' = tables \cup {TargetOf[file[s]]}
    BY <1>3 DEF ExecuteStatement
  <2> QED BY <2>1, <2>2 DEF HasTable
<1>4. ASSUME NEW s \in Server, FinishFile(s)
      PROVE  HasTable' /\ tables \subseteq tables'
  <2>1. /\ pc[s] = "statement" /\ at[s] = Statements /\ applied' = applied /\ tables' = tables
        /\ recorded' = recorded \/ (~failed[s] /\ recorded' = recorded \cup {file[s]})
    BY <1>4 DEF FinishFile
  <2>2. file[s] \in File /\ (~failed[s] => 1 \in applied[file[s]])
    BY <2>1 DEF IInv, OwnFiles, InsideFile, Made
  <2> QED BY <2>1, <2>2 DEF HasTable
<1>5. CASE UNCHANGED vars BY <1>2, <1>5 DEF vars, db
<1>6. ASSUME NEW s \in Server, StartServer(s) \/ Exit(s) \/ MigrateForRole(s),
             ~ExecuteStatement(s), ~FinishFile(s)
      PROVE  applied' = applied /\ recorded' = recorded /\ tables \subseteq tables'
  BY <1>6 DEF MigrateForRole, StartServer, EnsureSchemaMigrationsTable, BookkeepingFails,
       InspectDatabase, FinishDatabase, FinishMigrations, SkipOrOpenFile, AbandonFile, Exit, db
<1> QED BY <1>2, <1>3, <1>4, <1>5, <1>6 DEF Next

\* What a server does leaves the others where they are; only the end of a file records.
LEMMA OthersKept ==
  ASSUME IInv, NEW s \in Server, MigrateForRole(s) \/ StartServer(s) \/ Exit(s),
         NEW t \in Server, t # s
  PROVE  /\ pc'[t] = pc[t] /\ todo'[t] = todo[t] /\ files'[t] = files[t] /\ file'[t] = file[t]
         /\ \/ recorded' = recorded
            \/ FinishFile(s) /\ recorded' = recorded \cup {file[s]}
<1>1. CASE StartServer(s) \/ Exit(s)
  BY <1>1 DEF StartServer, Exit, GoTo, db, pass, work, IInv, TypeOK
<1>2. CASE EnsureSchemaMigrationsTable(s) \/ BookkeepingFails(s)
  BY <1>2 DEF EnsureSchemaMigrationsTable, BookkeepingFails, GoTo, db, pass, work, IInv, TypeOK
<1>3. CASE InspectDatabase(s) \/ FinishDatabase(s) \/ FinishMigrations(s)
  BY <1>3 DEF InspectDatabase, FinishDatabase, FinishMigrations, GoTo, db, pass, work, IInv, TypeOK
<1>4. CASE SkipOrOpenFile(s)
  <2>1. PICK f \in FirstOf(files[s]) :
          /\ files' = [files EXCEPT ![s] = @ \ {f}]
          /\ \/ UNCHANGED <<pc, work>>
             \/ file' = [file EXCEPT ![s] = f] /\ GoTo(s, "statement")
    BY <1>4 DEF SkipOrOpenFile
  <2> QED BY <1>4, <2>1 DEF SkipOrOpenFile, GoTo, db, work, IInv, TypeOK
<1>5. CASE ExecuteStatement(s) \/ AbandonFile(s)
  BY <1>5 DEF ExecuteStatement, AbandonFile, LeaveFile, GoTo, db, pass, IInv, TypeOK
<1>6. CASE FinishFile(s)
  BY <1>6 DEF FinishFile, LeaveFile, GoTo, pass, IInv, TypeOK
<1> QED BY <1>1, <1>2, <1>3, <1>4, <1>5, <1>6 DEF MigrateForRole

\* Another server records nothing of the database of an init script of this one.
LEMMA OthersInitFirst ==
  ASSUME OneMigrator, IInv, \A u \in Server : InitFirst(u), tables \subseteq tables',
         NEW s \in Server, MigrateForRole(s) \/ StartServer(s) \/ Exit(s),
         NEW t \in Server, t # s
  PROVE  InitFirst(t)'
<1> USE Constants
<1>1. /\ pc'[t] = pc[t] /\ todo'[t] = todo[t] /\ files'[t] = files[t] /\ file'[t] = file[t]
      /\ \/ recorded' = recorded
         \/ FinishFile(s) /\ recorded' = recorded \cup {file[s]}
  BY OthersKept
<1>2. ASSUME NEW d \in Database, Migrates(t, d), Untouched(d) PROVE Untouched(d)'
  <2>1. CASE recorded' = recorded BY <1>2, <2>1 DEF Untouched
  <2>2. CASE FinishFile(s) /\ recorded' = recorded \cup {file[s]}
    <3>1. Migrates(s, TargetOf[file[s]]) BY <2>2 DEF FinishFile, IInv, OwnFiles
    <3>2. TargetOf[file[s]] # d BY <1>2, <3>1 DEF OneMigrator, Untouched
    <3> QED BY <1>2, <2>2, <3>2 DEF Untouched
  <2> QED BY <1>1, <2>1, <2>2
<1>3. InitFirst(t) OBVIOUS
<1>4. \A f \in files[t] : TargetOf[f] \in Database /\ Migrates(t, TargetOf[f])
  BY DEF IInv, TypeOK, OwnFiles
<1>5. pc[t] = "statement" => TargetOf[file[t]] \in Database /\ Migrates(t, TargetOf[file[t]])
  BY DEF IInv, OwnFiles
<1>6. \A f \in files[t] \cap InitScripts : Untouched(TargetOf[f])'
  BY <1>2, <1>3, <1>4 DEF InitFirst
<1>7. ASSUME pc[t] = "statement", file[t] \in InitScripts
      PROVE  Untouched(TargetOf[file[t]])'
  <2>1. PICK d \in Database : d = TargetOf[file[t]] BY <1>5, <1>7
  <2>2. Untouched(d)' BY <1>2, <1>3, <1>5, <1>7, <2>1 DEF InitFirst
  <2>3. TargetOf[file'[t]] = d BY <1>1, <2>1
  <2> QED BY <2>2, <2>3 DEF Untouched
<1>8. \A f \in files'[t] \cap InitScripts : Untouched(TargetOf[f])'
  BY <1>1, <1>3, <1>6 DEF InitFirst
<1>9. /\ pc'[t] \in {"database", "file", "statement"} => Auth \in tables'
      /\ pc'[t] = "statement" =>
           /\ file'[t] \in InitScripts => Untouched(TargetOf[file[t]])'
           /\ file'[t] \notin InitScripts => files'[t] \cap InitScripts = {}
  BY <1>1, <1>3, <1>7 DEF InitFirst
<1> QED BY <1>8, <1>9 DEF InitFirst

\* The server that acts: it finds init scripts only where nothing is recorded, takes them
\* first, and records a migration only when none of them is waiting.
LEMMA OwnInitFirst ==
  ASSUME IInv, HasTable, tables \subseteq tables', NEW s \in Server, InitFirst(s),
         MigrateForRole(s) \/ StartServer(s) \/ Exit(s)
  PROVE  InitFirst(s)'
<1> USE Constants
<1>0. /\ todo \in [Server -> Seq(Database)] /\ files \in [Server -> SUBSET File]
      /\ file \in [Server -> File \cup {NoFile}]
      /\ pc \in [Server -> {"down", "start", "database", "file", "statement", "finished"}]
  BY DEF IInv, TypeOK
<1>1. CASE StartServer(s) \/ BookkeepingFails(s) \/ FinishDatabase(s) \/ FinishMigrations(s)
  <2>1. /\ recorded' = recorded /\ todo' = todo /\ files' = files /\ file' = file
        /\ pc'[s] # "statement"
        /\ pc'[s] \in {"database", "file"} => pc[s] = "file"
    BY <1>0, <1>1 DEF StartServer, BookkeepingFails, FinishDatabase, FinishMigrations, GoTo,
                      db, pass, work
  <2> QED BY <2>1 DEF InitFirst, Untouched
<1>2. CASE EnsureSchemaMigrationsTable(s)
  <2>1. /\ recorded' = recorded /\ files' = files /\ pc'[s] = "database" /\ Auth \in tables'
    BY <1>0, <1>2 DEF EnsureSchemaMigrationsTable, GoTo
  <2> QED BY <2>1 DEF InitFirst, Untouched
<1>3. CASE InspectDatabase(s)
  <2> DEFINE d == Head(todo[s])
  <2>1. PICK fresh \in BOOLEAN :
          /\ IsDatabaseFresh(d, fresh)
          /\ files' = [files EXCEPT ![s] = FilesOf(d, fresh)]
    BY <1>3 DEF InspectDatabase
  <2>2. /\ recorded' = recorded /\ pc'[s] = "file" /\ Auth \in tables
        /\ todo'[s] = Tail(todo[s]) /\ todo[s] # <<>>
    BY <1>0, <1>3 DEF InspectDatabase, GoTo, db, InitFirst
  <2>3. todo[s] \in Seq(Database) /\ d = todo[s][1] /\ Len(todo[s]) > 0 BY <1>0, <2>2
  <2>4. d \in Database BY <2>3
  <2>5. \A f \in files'[s] : TargetOf[f] = d /\ (f \in InitScripts => fresh)
    BY <1>0, <2>1 DEF FilesOf
  <2>6. fresh => d \notin tables BY <2>1 DEF IsDatabaseFresh, Answers
  <2>7. fresh => Untouched(d) BY <2>2, <2>4, <2>6, FreshIsUntouched
  <2> HIDE DEF d
  <2>8. \A f \in files'[s] \cap InitScripts : Untouched(TargetOf[f])
    BY <2>5, <2>7
  <2> QED BY <2>2, <2>8 DEF InitFirst, Untouched
<1>4. CASE SkipOrOpenFile(s)
  <2>1. PICK f \in FirstOf(files[s]) :
          /\ files' = [files EXCEPT ![s] = @ \ {f}]
          /\ \/ UNCHANGED <<pc, work>>
             \/ file' = [file EXCEPT ![s] = f] /\ GoTo(s, "statement")
    BY <1>4 DEF SkipOrOpenFile
  <2>2. /\ recorded' = recorded /\ todo' = todo /\ pc[s] = "file" /\ Auth \in tables
        /\ files'[s] = files[s] \ {f}
        /\ pc'[s] = "statement" => file'[s] = f
    BY <1>0, <1>4, <2>1 DEF SkipOrOpenFile, GoTo, db, InitFirst
  <2>3. f \in files[s] /\ \A g \in files[s] \ {f} : Before(f, g) BY DEF FirstOf
  <2>4. f \notin InitScripts => files'[s] \cap InitScripts = {}
    BY <2>2, <2>3 DEF Before
  <2>5. /\ f \in InitScripts => Untouched(TargetOf[f])
        /\ \A g \in files'[s] \cap InitScripts : Untouched(TargetOf[g])
    BY <2>2, <2>3 DEF InitFirst
  <2>6. \A g : Untouched(TargetOf[g]) <=> Untouched(TargetOf[g])' BY <2>2 DEF Untouched
  <2>7. Auth \in tables'
    BY <2>2 DEF InitFirst
  <2> QED BY <2>2, <2>4, <2>5, <2>7 DEF InitFirst, Untouched
<1>5. CASE ExecuteStatement(s)
  <2>1. recorded' = recorded /\ todo' = todo /\ files' = files /\ file' = file /\ pc' = pc
    BY <1>5 DEF ExecuteStatement, pass
  <2> QED BY <2>1 DEF InitFirst, Untouched
<1>6. CASE AbandonFile(s)
  <2>1. recorded' = recorded /\ todo' = todo /\ files' = files /\ pc[s] = "statement" /\ pc'[s] = "file"
    BY <1>0, <1>6 DEF AbandonFile, LeaveFile, GoTo, db, pass
  <2> QED BY <2>1 DEF InitFirst, Untouched
<1>7. CASE FinishFile(s)
  <2>1. /\ todo' = todo /\ files' = files /\ pc[s] = "statement" /\ pc'[s] = "file"
        /\ recorded' = recorded \/ recorded' = recorded \cup {file[s]}
    BY <1>0, <1>7 DEF FinishFile, LeaveFile, GoTo, pass
  <2>2. file[s] \in InitScripts => recorded' \ InitScripts = recorded \ InitScripts
    BY <2>1
  <2>3. file[s] \notin InitScripts => files'[s] \cap InitScripts = {}
    BY <2>1 DEF InitFirst
  <2>4. \A f \in files'[s] \cap InitScripts :
          TargetOf[f] # Auth /\ \A g \in recorded' \ InitScripts : TargetOf[g] # TargetOf[f]
    BY <2>1, <2>2, <2>3 DEF InitFirst, Untouched
  <2>5. Auth \in tables'
    BY <2>1 DEF InitFirst
  <2> QED BY <2>1, <2>4, <2>5 DEF InitFirst, Untouched
<1>8. CASE Exit(s)
  <2>1. files'[s] = {} /\ pc'[s] = "down"
    BY <1>0, <1>8 DEF Exit, GoTo
  <2> QED BY <2>1 DEF InitFirst
<1> QED BY <1>1, <1>2, <1>3, <1>4, <1>5, <1>6, <1>7, <1>8 DEF MigrateForRole

LEMMA InitFirstInit == Init => HasTable /\ \A s \in Server : InitFirst(s)
BY DEF Init, HasTable, InitFirst

LEMMA InitFirstStep ==
  ASSUME OneMigrator, IInv, HasTable, \A s \in Server : InitFirst(s), [Next]_vars
  PROVE  HasTable' /\ \A s \in Server : InitFirst(s)'
<1>1. HasTable' /\ tables \subseteq tables' BY TablesStep
<1>2. CASE UNCHANGED vars
  BY <1>1, <1>2 DEF vars, db, pass, work, InitFirst, Untouched
<1>3. ASSUME NEW s \in Server, MigrateForRole(s) \/ StartServer(s) \/ Exit(s)
      PROVE  \A t \in Server : InitFirst(t)'
  BY <1>1, <1>3, OwnInitFirst, OthersInitFirst
<1> QED BY <1>1, <1>2, <1>3 DEF Next

\* Where one server migrates each database but that of the bookkeeping, an init script
\* is never executed over a database with migrations, whatever fails and restarts.
THEOREM InitComesFirst == ASSUME OneMigrator PROVE Spec => InitPrecedesMigrations
<1> DEFINE NoneLater == HasTable /\ \A s \in Server : InitFirst(s)
<1>1. ASSUME \A s \in Server : InitFirst(s), NEW s \in Server, NEW f \in InitScripts,
             Executes(s, f), NEW g \in recorded \ InitScripts
      PROVE  TargetOf[g] # TargetOf[f]
  BY <1>1 DEF Executes, InitFirst, Untouched
<1>2. NoneLater => [\A s \in Server : \A f \in InitScripts :
                  Executes(s, f) => \A g \in recorded \ InitScripts : TargetOf[g] # TargetOf[f]]_vars
  BY <1>1
<1>3. Init => NoneLater BY InitFirstInit
<1>4. IInv /\ NoneLater /\ [Next]_vars => NoneLater'
  BY InitFirstStep
<1> QED BY <1>2, <1>3, <1>4, Initially, Inductive, PTL DEF Spec, InitPrecedesMigrations

---------------------------------------------------------------------------
\* The next file.
\* The files a server has not come to are all of one database.
OneDatabase == \A s \in Server : \A f, g \in files[s] : TargetOf[f] = TargetOf[g]

LEMMA OneDatabaseStep == TypeOK /\ OneDatabase /\ [Next]_vars => OneDatabase'
<1> SUFFICES ASSUME TypeOK, OneDatabase, [Next]_vars PROVE OneDatabase'
  OBVIOUS
<1>1. ASSUME NEW s \in Server, NEW S \in SUBSET files[s], files' = [files EXCEPT ![s] = S]
      PROVE  OneDatabase'
  BY <1>1 DEF OneDatabase, TypeOK
<1>2. ASSUME NEW s \in Server, InspectDatabase(s) PROVE OneDatabase'
  <2>1. PICK fresh \in BOOLEAN : files' = [files EXCEPT ![s] = FilesOf(Head(todo[s]), fresh)]
    BY <1>2 DEF InspectDatabase
  <2>2. \A f, g \in FilesOf(Head(todo[s]), fresh) : TargetOf[f] = TargetOf[g]
    BY DEF FilesOf
  <2> QED BY <2>1, <2>2 DEF OneDatabase, TypeOK
<1>3. ASSUME NEW s \in Server, SkipOrOpenFile(s) PROVE OneDatabase'
  <2>1. PICK f \in FirstOf(files[s]) : files' = [files EXCEPT ![s] = @ \ {f}]
    BY <1>3 DEF SkipOrOpenFile
  <2>2. files' = [files EXCEPT ![s] = files[s] \ {f}]
    BY <2>1
  <2> QED BY <1>1, <2>2
<1>4. ASSUME NEW s \in Server, Exit(s) PROVE OneDatabase'
  BY <1>1, <1>4 DEF Exit
<1>5. ASSUME NEW s \in Server,
             \/ StartServer(s) \/ EnsureSchemaMigrationsTable(s) \/ BookkeepingFails(s)
             \/ FinishDatabase(s) \/ FinishMigrations(s)
             \/ ExecuteStatement(s) \/ AbandonFile(s) \/ FinishFile(s)
      PROVE  OneDatabase'
  <2>1. files' = files
    BY <1>5 DEF StartServer, EnsureSchemaMigrationsTable, BookkeepingFails, FinishDatabase,
                FinishMigrations, ExecuteStatement, AbandonFile, FinishFile, pass
  <2> QED BY <2>1 DEF OneDatabase
<1>6. CASE UNCHANGED vars
  BY <1>6 DEF vars, pass, OneDatabase
<1> QED BY <1>2, <1>3, <1>4, <1>5, <1>6 DEF Next, MigrateForRole

LEMMA LeastNumber ==
  ASSUME NEW N \in SUBSET Nat, N # {}
  PROVE  \E n \in N : \A m \in N : n =< m
<1> DEFINE R == OpToRel(<, Nat)
<1>1. IsWellFoundedOn(R, Nat) BY NatLessThanWellFounded, Zenon
<1>2. \A x, y \in Nat : <<x, y>> \in R <=> x < y BY Zenon DEF OpToRel
<1> HIDE DEF R
<1>3. PICK n \in N : \A m \in N : ~ (<<m, n>> \in R) BY <1>1, WFMin
<1>4. \A m \in N : ~ (m < n) BY <1>2, <1>3, Zenon
<1> QED BY <1>4

LEMMA LeastOf ==
  ASSUME NEW S, S # {}, NEW rank, \A f \in S : rank[f] \in Nat
  PROVE  \E f \in S : \A g \in S : rank[f] =< rank[g]
<1>1. PICK n \in {rank[f] : f \in S} : \A m \in {rank[f] : f \in S} : n =< m
  BY LeastNumber
<1> QED BY <1>1

\* Among files of one database the order of execution has a first one, and only one.
LEMMA FirstIsOne ==
  ASSUME NEW S \in SUBSET File, S # {}, \A f, g \in S : TargetOf[f] = TargetOf[g]
  PROVE  \E f \in S : FirstOf(S) = {f}
<1>1. \A f \in File : Number[f] \in Nat /\ NameRank[f] \in Nat
  BY MigratorAssumption
<1>2. \A f, g \in S : f # g => Number[f] # Number[g] \/ NameRank[f] # NameRank[g]
  BY MigratorAssumption
<1> DEFINE Early == IF S \cap InitScripts # {} THEN S \cap InitScripts ELSE S
<1>3. /\ Early # {} /\ Early \subseteq S
      /\ \A f \in Early, g \in S : g \notin Early => f \in InitScripts /\ g \notin InitScripts
      /\ \A f, g \in Early : f \in InitScripts <=> g \in InitScripts
  OBVIOUS
<1> HIDE DEF Early
<1>4. PICK low \in Early : \A g \in Early : Number[low] =< Number[g]
  BY <1>1, <1>3, LeastOf
<1> DEFINE Lowest == {f \in Early : Number[f] = Number[low]}
<1>5. Lowest # {} /\ \A f \in Lowest : NameRank[f] \in Nat
  BY <1>1, <1>3
<1>6. PICK f \in Lowest : \A g \in Lowest : NameRank[f] =< NameRank[g]
  BY <1>5, LeastOf
<1>7. f \in S /\ f \in Early /\ Number[f] = Number[low]
  BY <1>3
<1>8. ASSUME NEW g \in S \ {f} PROVE Before(f, g)
  <2>1. CASE g \notin Early BY <1>3, <1>7, <2>1 DEF Before
  <2>2. CASE g \in Lowest
    <3>1. NameRank[f] < NameRank[g] BY <1>1, <1>2, <1>6, <1>7, <2>2
    <3> QED BY <1>3, <1>7, <2>2, <3>1 DEF Before
  <2>3. CASE g \in Early /\ Number[g] # Number[low]
    <3>1. Number[f] < Number[g] BY <1>1, <1>3, <1>4, <1>7, <2>3
    <3> QED BY <1>3, <1>7, <2>3, <3>1 DEF Before
  <2> QED BY <2>1, <2>2, <2>3
<1>9. ASSUME NEW g \in S \ {f} PROVE ~Before(g, f)
  BY <1>1, <1>7, <1>8, <1>9 DEF Before
<1>10. f \in FirstOf(S) /\ \A g \in FirstOf(S) : g = f
  BY <1>7, <1>8, <1>9 DEF FirstOf
<1> QED BY <1>7, <1>10

\* A server never stops in front of its list, and the order in which a directory is
\* read decides nothing (CollectMigrationSqlPaths).
THEOREM NextDecided == Spec => []NextFileIsDecided
<1>1. Init => OneDatabase BY DEF Init, OneDatabase
<1>2. TypeOK /\ OneDatabase => NextFileIsDecided
  BY FirstIsOne DEF OneDatabase, NextFileIsDecided, TypeOK
<1> QED BY <1>1, <1>2, OneDatabaseStep, TypeCorrect, PTL DEF Spec

---------------------------------------------------------------------------
\* The link.
LEMMA LinkTypeInit == LinkInit => LinkTypeOK
BY RealmLinkAssumption DEF LinkInit, LinkTypeOK, Pieces, Registered

(* Every step of a thread or a session, of a start or a stop, keeps types.  *)
LEMMA LinkTypeNext == LinkTypeOK /\ [LinkNext]_linkVars => LinkTypeOK'
<1> SUFFICES ASSUME LinkTypeOK, [LinkNext]_linkVars PROVE LinkTypeOK'
  OBVIOUS
<1> USE RealmLinkAssumption
<1>1. ASSUME NEW w \in World, ThreadStep(w) PROVE LinkTypeOK'
  <2>1. ASSUME NEW k \in Conn, Connect(w, k) PROVE LinkTypeOK'
    BY <2>1 DEF Connect, LinkTypeOK, Pieces, Registered
  <2>2. CASE ConnectFails(w)
    BY <2>2 DEF ConnectFails, ThreadTo, LinkTypeOK
  <2>3. CASE BackoffEnds(w)
    BY <2>3 DEF BackoffEnds, ThreadTo, LinkTypeOK
  <2>4. CASE ReadAck(w)
    BY <2>4 DEF ReadAck, ThreadTo, LinkTypeOK
  <2>5. CASE LinkBroken(w)
    BY <2>5 DEF LinkBroken, ThreadTo, LinkTypeOK
  <2>6. CASE NoticeStop(w)
    BY <2>6 DEF NoticeStop, ThreadTo, LinkTypeOK
  <2> QED BY <1>1, <2>1, <2>2, <2>3, <2>4, <2>5, <2>6 DEF ThreadStep
<1>2. ASSUME NEW w \in World, StartWorld(w) \/ RequestStop(w) \/ Kill(w)
      PROVE LinkTypeOK'
  <2>1. CASE StartWorld(w)
    BY <2>1 DEF StartWorld, ThreadTo, LinkTypeOK
  <2>2. CASE RequestStop(w)
    BY <2>2 DEF RequestStop, cvars, LinkTypeOK
  <2>3. CASE Kill(w)
    BY <2>3 DEF Kill, ThreadTo, LinkTypeOK
  <2> QED BY <1>2, <2>1, <2>2, <2>3
<1>3. ASSUME NEW k \in Conn, SessionStep(k) PROVE LinkTypeOK'
  <2>1. CASE ReadHandshake(k)
    <3>1. unread' \in [Conn -> 0 .. Pieces]
      BY <2>1 DEF ReadHandshake, LinkTypeOK, Pieces
    <3>2. /\ server' \in [Conn -> {"reading", "refusing", "closed"} \cup Registered]
          /\ connected' \in [Realm -> BOOLEAN]
      BY <2>1 DEF ReadHandshake, tryConsumeHandshake, RealmAt, LinkTypeOK, Registered
    <3> QED BY <2>1, <3>1, <3>2 DEF ReadHandshake, wvars, LinkTypeOK
  <2>2. CASE SendAck(k)
    BY <2>2 DEF SendAck, Acknowledge, SessionEnds, OnDisconnect, RealmAt, wvars,
                LinkTypeOK, Pieces, Registered
  <2>3. CASE SendAckFails(k) \/ ReadEnds(k)
    <3>1. SessionEnds(k) /\ UNCHANGED <<wvars, ack, authUp>>
      BY <2>3 DEF SendAckFails, ReadEnds
    <3>2. unread' \in [Conn -> 0 .. Pieces]
      BY <3>1 DEF SessionEnds, LinkTypeOK, Pieces
    <3> QED BY <3>1, <3>2 DEF SessionEnds, OnDisconnect, RealmAt, wvars, LinkTypeOK
  <2> QED BY <1>3, <2>1, <2>2, <2>3 DEF SessionStep
<1>4. CASE AuthStops
  <2>1. unread' \in [Conn -> 0 .. Pieces]
    BY <1>4 DEF AuthStops, Pieces
  <2> QED BY <1>4, <2>1 DEF AuthStops, wvars, LinkTypeOK
<1>5. CASE AuthStarts
  BY <1>5 DEF AuthStarts, wvars, cvars, LinkTypeOK
<1>6. CASE UNCHANGED linkVars
  BY <1>6 DEF linkVars, wvars, cvars, LinkTypeOK
<1> QED BY <1>1, <1>2, <1>3, <1>4, <1>5, <1>6 DEF LinkNext

(* The link's state keeps its type (RealmLinkOutbound.cpp,                  *)
(* RealmLinkSession.cpp).                                                   *)
THEOREM LinkTypeCorrect == LinkSpec => []LinkTypeOK
<1>1. LinkInit => LinkTypeOK BY LinkTypeInit
<1>2. LinkTypeOK /\ [LinkNext]_linkVars => LinkTypeOK' BY LinkTypeNext
<1> QED BY <1>1, <1>2, PTL DEF LinkSpec

-----------------------------------------------------------------------------
(* What the steps do to the registry and the registered sessions: a claim   *)
(* of a free realm, the end of one session, or the end of all of them.      *)
LEMMA ClaimNext == LinkTypeOK /\ ClaimHeldOnce /\ [LinkNext]_linkVars => ClaimHeldOnce'
<1> SUFFICES ASSUME LinkTypeOK, ClaimHeldOnce, [LinkNext]_linkVars PROVE ClaimHeldOnce'
  OBVIOUS
<1> USE RealmLinkAssumption
<1>1. ASSUME \A k \in Conn : server'[k] \in Registered <=> server[k] \in Registered,
             connected' = connected
      PROVE ClaimHeldOnce'
  BY <1>1 DEF ClaimHeldOnce, Holds, RealmAt
<1>2. ASSUME NEW k \in Conn, SessionEnds(k) PROVE ClaimHeldOnce'
  <2>1. \A l \in Conn : server'[l] \in Registered <=> server[l] \in Registered /\ l # k
    BY <1>2 DEF SessionEnds, LinkTypeOK, Registered
  <2>2. CASE server[k] \in Registered
    <3>1. Holds(k, RealmAt(k))
      BY <2>2 DEF Holds
    <3>2. \A r \in Realm : connected'[r] <=> connected[r] /\ r # RealmAt(k)
      BY <1>2, <2>2 DEF SessionEnds, OnDisconnect, LinkTypeOK, RealmAt
    <3> QED BY <2>1, <3>1, <3>2 DEF ClaimHeldOnce, Holds, RealmAt
  <2>3. CASE server[k] \notin Registered
    BY <1>1, <1>2, <2>1, <2>3 DEF SessionEnds, OnDisconnect
  <2> QED BY <2>2, <2>3
<1>3. ASSUME NEW w \in World, ThreadStep(w) PROVE ClaimHeldOnce'
  <2>1. ASSUME NEW k \in Conn, Connect(w, k) PROVE ClaimHeldOnce'
    BY <1>1, <2>1 DEF Connect, LinkTypeOK, Registered
  <2>2. CASE ConnectFails(w) \/ BackoffEnds(w) \/ ReadAck(w) \/ LinkBroken(w)
               \/ NoticeStop(w)
    BY <1>1, <2>2 DEF ConnectFails, BackoffEnds, ReadAck, LinkBroken, NoticeStop
  <2> QED BY <1>3, <2>1, <2>2 DEF ThreadStep
<1>4. ASSUME NEW w \in World, StartWorld(w) \/ RequestStop(w) \/ Kill(w)
      PROVE ClaimHeldOnce'
  BY <1>1, <1>4 DEF StartWorld, RequestStop, Kill, cvars
<1>5. ASSUME NEW k \in Conn, ReadHandshake(k) PROVE ClaimHeldOnce'
  <2>1. CASE UNCHANGED <<server, connected>>
    BY <1>1, <2>1
  <2>2. CASE tryConsumeHandshake(k) /\ server'[k] = "refusing"
    BY <1>1, <1>5, <2>2 DEF ReadHandshake, tryConsumeHandshake, LinkTypeOK, Registered
  <2>3. CASE tryConsumeHandshake(k) /\ server'[k] # "refusing"
    <3>1. ~connected[RealmAt(k)] /\ server[k] \notin Registered
      BY <1>5, <2>3 DEF ReadHandshake, tryConsumeHandshake, LinkTypeOK, Registered
    <3>2. \A l \in Conn :
            server'[l] \in Registered <=> server[l] \in Registered \/ l = k
      BY <1>5, <2>3, <3>1 DEF tryConsumeHandshake, LinkTypeOK, Registered
    <3>3. \A r \in Realm : connected'[r] <=> connected[r] \/ r = RealmAt(k)
      BY <2>3 DEF tryConsumeHandshake, LinkTypeOK, RealmAt
    <3> QED BY <3>1, <3>2, <3>3 DEF ClaimHeldOnce, Holds, RealmAt
  <2> QED BY <1>5, <2>1, <2>2, <2>3 DEF ReadHandshake
<1>6. ASSUME NEW k \in Conn, SendAck(k) PROVE ClaimHeldOnce'
  <2>1. CASE server[k] = "acking"
    BY <1>1, <1>6, <2>1 DEF SendAck, LinkTypeOK, Registered
  <2>2. CASE server[k] # "acking"
    BY <1>2, <1>6, <2>2 DEF SendAck
  <2> QED BY <2>1, <2>2
<1>7. ASSUME NEW k \in Conn, SendAckFails(k) \/ ReadEnds(k) PROVE ClaimHeldOnce'
  BY <1>2, <1>7 DEF SendAckFails, ReadEnds
<1>8. CASE AuthStops
  BY <1>8 DEF AuthStops, ClaimHeldOnce, Holds, Registered
<1>9. CASE AuthStarts \/ UNCHANGED linkVars
  BY <1>1, <1>9 DEF AuthStarts, linkVars, cvars
<1> QED BY <1>3, <1>4, <1>5, <1>6, <1>7, <1>8, <1>9 DEF LinkNext, SessionStep

(* The registry marks a realm exactly while one session holds it            *)
(* (RealmLiveRegistry::tryClaim, release; RealmLinkSession::OnDisconnect).   *)
THEOREM ClaimRight == LinkSpec => []ClaimHeldOnce
<1>1. LinkInit => ClaimHeldOnce
  BY DEF LinkInit, ClaimHeldOnce, Holds, Registered
<1>2. LinkTypeOK /\ ClaimHeldOnce /\ [LinkNext]_linkVars => ClaimHeldOnce'
  BY ClaimNext
<1> QED BY <1>1, <1>2, LinkTypeCorrect, PTL DEF LinkSpec

-----------------------------------------------------------------------------
(* Which connection a thread can hold, and what its other end can be in.     *)
LinkShape ==
  /\ \A w \in World : current[w] # NoConn <=> thread[w] \in {"handshake", "linked"}
  /\ \A w \in World : current[w] # NoConn => Owner[current[w]] = w
  /\ \A k \in Conn :
       ack[k] # "none" => ClientOpen(k) /\ thread[Owner[k]] = "handshake"
  /\ \A k \in Conn : ack[k] = "ok" => server[k] \in {"live", "closed"}
  /\ \A k \in Conn :
       ClientOpen(k) /\ thread[Owner[k]] = "linked" => server[k] \in {"live", "closed"}

LEMMA ShapeNext == LinkTypeOK /\ LinkShape /\ [LinkNext]_linkVars => LinkShape'
<1> SUFFICES ASSUME LinkTypeOK, LinkShape, [LinkNext]_linkVars PROVE LinkShape'
  OBVIOUS
<1> USE RealmLinkAssumption
<1>1. ASSUME NEW w \in World, NEW next \in {"down", "connect", "backoff"},
             ThreadTo(w, next), server' = server
      PROVE LinkShape'
  BY <1>1 DEF ThreadTo, LinkShape, ClientOpen, LinkTypeOK
<1>2. ASSUME NEW w \in World, ThreadStep(w) PROVE LinkShape'
  <2>1. ASSUME NEW k \in Conn, Connect(w, k) PROVE LinkShape'
    BY <2>1 DEF Connect, LinkShape, ClientOpen, LinkTypeOK
  <2>2. CASE ConnectFails(w) \/ BackoffEnds(w) \/ LinkBroken(w) \/ NoticeStop(w)
    BY <1>1, <2>2 DEF ConnectFails, BackoffEnds, LinkBroken, NoticeStop
  <2>3. CASE ReadAck(w) /\ thread'[w] = "linked"
    BY <2>3 DEF ReadAck, ThreadTo, LinkShape, ClientOpen, LinkTypeOK
  <2>4. CASE ReadAck(w) /\ thread'[w] # "linked"
    BY <1>1, <2>4 DEF ReadAck, LinkTypeOK
  <2> QED BY <1>2, <2>1, <2>2, <2>3, <2>4 DEF ThreadStep
<1>3. ASSUME NEW w \in World, StartWorld(w) \/ Kill(w) PROVE LinkShape'
  BY <1>1, <1>3 DEF StartWorld, Kill
<1>4. ASSUME NEW w \in World, RequestStop(w) PROVE LinkShape'
  BY <1>4 DEF RequestStop, cvars, LinkShape, ClientOpen
<1>5. ASSUME NEW k \in Conn, SessionEnds(k), UNCHANGED <<wvars, ack>>
      PROVE LinkShape'
  BY <1>5 DEF SessionEnds, wvars, LinkShape, ClientOpen, LinkTypeOK
<1>6. ASSUME NEW k \in Conn, ReadHandshake(k) PROVE LinkShape'
  BY <1>6 DEF ReadHandshake, tryConsumeHandshake, wvars, LinkShape, ClientOpen,
              LinkTypeOK
<1>7. ASSUME NEW k \in Conn, SendAck(k) PROVE LinkShape'
  <2>0. UNCHANGED wvars
    BY <1>7 DEF SendAck
  <2>1. ClientOpen(k) => thread[Owner[k]] = "handshake"
    <3> SUFFICES ASSUME ClientOpen(k) PROVE thread[Owner[k]] = "handshake"
      OBVIOUS
    <3>1. server[k] \notin {"live", "closed"}
      BY <1>7 DEF SendAck
    <3> QED BY <3>1 DEF LinkShape, ClientOpen, LinkTypeOK
  <2>2. CASE server[k] = "acking"
    BY <1>7, <2>0, <2>1, <2>2 DEF SendAck, Acknowledge, wvars, LinkShape, ClientOpen,
                                  LinkTypeOK
  <2>3. CASE server[k] # "acking"
    BY <1>7, <2>0, <2>1, <2>3 DEF SendAck, Acknowledge, SessionEnds, wvars, LinkShape,
                                  ClientOpen, LinkTypeOK
  <2> QED BY <2>2, <2>3
<1>8. ASSUME NEW k \in Conn, SendAckFails(k) \/ ReadEnds(k) PROVE LinkShape'
  BY <1>5, <1>8 DEF SendAckFails, ReadEnds
<1>9. CASE AuthStops
  BY <1>9 DEF AuthStops, wvars, LinkShape, ClientOpen, LinkTypeOK
<1>10. CASE AuthStarts \/ UNCHANGED linkVars
  BY <1>10 DEF AuthStarts, linkVars, wvars, cvars, LinkShape, ClientOpen
<1> QED BY <1>2, <1>3, <1>4, <1>6, <1>7, <1>8, <1>9, <1>10 DEF LinkNext, SessionStep

(* Two worlds of one realm never both hold a link that works, and one that   *)
(* does is listed (RunRealmLinkOutbound, RealmListService::GetRealmList).    *)
THEOREM LinkExclusive == LinkSpec => []LinkIsExclusive
<1>1. LinkInit => LinkShape
  BY RealmLinkAssumption DEF LinkInit, LinkShape, ClientOpen
<1>2. LinkTypeOK /\ LinkShape /\ [LinkNext]_linkVars => LinkShape'
  BY ShapeNext
<1>3. LinkTypeOK /\ LinkShape /\ ClaimHeldOnce => LinkIsExclusive
  <2> SUFFICES ASSUME LinkTypeOK, LinkShape, ClaimHeldOnce PROVE LinkIsExclusive
    OBVIOUS
  <2>1. ASSUME NEW w \in World, thread[w] = "linked", server[current[w]] # "closed"
        PROVE current[w] \in Conn /\ Holds(current[w], RealmOf[w])
              /\ Owner[current[w]] = w
    BY <2>1, RealmLinkAssumption
       DEF LinkShape, ClientOpen, LinkTypeOK, Holds, RealmAt, Registered
  <2> QED BY <2>1, RealmLinkAssumption DEF LinkIsExclusive, ListedOnline, ClaimHeldOnce
<1> QED BY <1>1, <1>2, <1>3, LinkTypeCorrect, ClaimRight, PTL DEF LinkSpec

-----------------------------------------------------------------------------
(* A session that reads has something left to read, and one that has          *)
(* acknowledged to a thread that still waits has the ack on the wire.         *)
Answering ==
  /\ \A k \in Conn : server[k] = "reading" => unread[k] > 0
  /\ \A k \in Conn :
       ClientOpen(k) /\ thread[Owner[k]] = "handshake" /\ server[k] = "live" => ack[k] = "ok"

LEMMA AnsweringNext ==
  LinkTypeOK /\ LinkShape /\ Answering /\ [LinkNext]_linkVars => Answering'
<1> SUFFICES ASSUME LinkTypeOK, LinkShape, Answering, [LinkNext]_linkVars PROVE Answering'
  OBVIOUS
<1> USE RealmLinkAssumption
<1>1. ASSUME NEW w \in World, NEW next \in {"down", "connect", "backoff"},
             ThreadTo(w, next), UNCHANGED <<server, unread>>
      PROVE Answering'
  BY <1>1 DEF ThreadTo, Answering, LinkShape, ClientOpen, LinkTypeOK
<1>2. ASSUME NEW w \in World, ThreadStep(w) PROVE Answering'
  <2>1. ASSUME NEW k \in Conn, Connect(w, k) PROVE Answering'
    BY <2>1 DEF Connect, Pieces, Answering, LinkShape, ClientOpen, LinkTypeOK
  <2>2. CASE ConnectFails(w) \/ BackoffEnds(w) \/ LinkBroken(w) \/ NoticeStop(w)
    BY <1>1, <2>2 DEF ConnectFails, BackoffEnds, LinkBroken, NoticeStop
  <2>3. CASE ReadAck(w) /\ thread'[w] = "linked"
    BY <2>3 DEF ReadAck, ThreadTo, Answering, LinkShape, ClientOpen, LinkTypeOK
  <2>4. CASE ReadAck(w) /\ thread'[w] # "linked"
    BY <1>1, <2>4 DEF ReadAck, LinkTypeOK
  <2> QED BY <1>2, <2>1, <2>2, <2>3, <2>4 DEF ThreadStep
<1>3. ASSUME NEW w \in World, StartWorld(w) \/ Kill(w) PROVE Answering'
  BY <1>1, <1>3 DEF StartWorld, Kill
<1>4. ASSUME NEW w \in World, RequestStop(w) PROVE Answering'
  BY <1>4 DEF RequestStop, cvars, Answering, ClientOpen
<1>5. ASSUME NEW k \in Conn, SessionEnds(k), UNCHANGED <<wvars, ack>>
      PROVE Answering'
  BY <1>5 DEF SessionEnds, wvars, Answering, ClientOpen, LinkTypeOK
<1>6. ASSUME NEW k \in Conn, ReadHandshake(k) PROVE Answering'
  <2>1. PICK n \in 1 .. unread[k] :
          /\ unread' = [unread EXCEPT ![k] = unread[k] - n]
          /\ IF n = unread[k] THEN tryConsumeHandshake(k) ELSE UNCHANGED <<server, connected>>
    BY <1>6 DEF ReadHandshake
  <2>2. UNCHANGED <<wvars, ack>>
    BY <1>6 DEF ReadHandshake
  <2>3. unread[k] \in Nat /\ unread[k] - n \in Nat /\ (n # unread[k] => unread[k] - n > 0)
    BY <2>1 DEF LinkTypeOK, Pieces
  <2>4. CASE n = unread[k]
    BY <2>1, <2>2, <2>4 DEF tryConsumeHandshake, wvars, Answering, ClientOpen, LinkTypeOK
  <2>5. CASE n # unread[k]
    BY <2>1, <2>2, <2>3, <2>5 DEF wvars, Answering, ClientOpen, LinkTypeOK
  <2> QED BY <2>4, <2>5
<1>7. ASSUME NEW k \in Conn, SendAck(k) PROVE Answering'
  BY <1>7 DEF SendAck, Acknowledge, SessionEnds, wvars, Answering, ClientOpen, LinkTypeOK
<1>8. ASSUME NEW k \in Conn, SendAckFails(k) \/ ReadEnds(k) PROVE Answering'
  BY <1>5, <1>8 DEF SendAckFails, ReadEnds
<1>9. CASE AuthStops
  BY <1>9 DEF AuthStops, wvars, Answering, ClientOpen, LinkTypeOK
<1>10. CASE AuthStarts \/ UNCHANGED linkVars
  BY <1>10 DEF AuthStarts, linkVars, wvars, cvars, Answering, ClientOpen
<1> QED BY <1>2, <1>3, <1>4, <1>6, <1>7, <1>8, <1>9, <1>10 DEF LinkNext, SessionStep

(* A thread that waits for its ack waits for a session that has yet to speak, *)
(* or for a connection whose end it is going to see.                          *)
THEOREM AckComes == LinkSpec => []AckIsComing
<1>1. LinkInit => LinkShape /\ Answering
  BY RealmLinkAssumption DEF LinkInit, LinkShape, Answering, ClientOpen
<1>2. LinkTypeOK /\ LinkShape /\ Answering => AckIsComing
  <2> SUFFICES ASSUME LinkTypeOK, LinkShape, Answering, NEW w \in World, thread[w] = "handshake"
               PROVE  \/ ack[current[w]] # "none"
                      \/ server[current[w]] \in {"acking", "refusing", "closed"}
                      \/ server[current[w]] = "reading" /\ unread[current[w]] > 0
    BY DEF AckIsComing
  <2>1. current[w] \in Conn /\ ClientOpen(current[w]) /\ Owner[current[w]] = w
    BY RealmLinkAssumption DEF LinkShape, ClientOpen, LinkTypeOK
  <2>2. server[current[w]] \in {"reading", "refusing", "closed", "acking", "live"}
    BY <2>1 DEF LinkTypeOK, Registered
  <2> QED BY <2>1, <2>2 DEF Answering
<1> QED BY <1>1, <1>2, ShapeNext, AnsweringNext, LinkTypeCorrect, PTL DEF LinkSpec
=============================================================================
