------------------------------ MODULE Startup -------------------------------
(***************************************************************************)
(* The start of the server: the migration runner (internal/migration/      *)
(* runner.go), the bootstrap administrator and the begin of service        *)
(* (cmd/server/main.go).  Processes of different builds of the program may *)
(* start together on one database, and each may stop at any time.          *)
(*                                                                         *)
(* On SQLite a migration is one transaction.  On MySQL each statement is   *)
(* taken to commit by itself, as those that change the schema do.  What    *)
(* requests do to the administrator afterwards is left to UserAdmin.       *)
(***************************************************************************)
EXTENDS Naturals, Sequences

CONSTANTS
  Process,     \* the starts of the program that may overlap
  Mode,        \* of each: auto, check (MIGRATION_CHECK_ONLY) or skip
  HasPassword, \* those with a BOOTSTRAP_ADMIN_PASSWORD
  Dialect,     \* the dialects to consider
  Latest,      \* the number of versions
  Content,     \* the contents of migration files, which checksums tell apart
  Files,       \* for each process, the file of each version its program has
  Script,      \* for each content, its statements in order
  Statement,   \* the statements
  Repeatable,  \* those that do not fail when they were executed before
  UserTable,   \* the one that creates the table of users
  None

Version == 1 .. Latest

\* What a migration has executed when it is through.
Effect(c) == {Script[c][i] : i \in 1 .. Len(Script[c])}

ASSUME StartupAssumption ==
  /\ Mode \in [Process -> {"auto", "check", "skip"}]
  /\ HasPassword \subseteq Process
  /\ Dialect \subseteq {"sqlite", "mysql"}
  /\ Latest \in Nat
  /\ Files \in [Process -> Seq(Content)]
  /\ \A p \in Process : Len(Files[p]) <= Latest
  /\ Script \in [Content -> Seq(Statement)]
  /\ None \notin Content \cup Process

VARIABLES
  dialect,    \* that of the database
  recorded,   \* schema_migrations: the content applied as each version
  committed,  \* the statements whose effect is in the database
  writer,     \* whose transaction holds SQLite's write lock
  admin,      \* the bootstrap administrator: absent, blank (no password) or ready
  pc,         \* where each process is
  at,         \* the version it looks at
  ran         \* how many of its statements it has executed

vars == <<dialect, recorded, committed, writer, admin, pc, at, ran>>

\* The database of an earlier start, or a new one.
StartupInit ==
  /\ dialect \in Dialect
  /\ \E p \in Process, n \in 0 .. Latest :
       /\ n <= Len(Files[p])
       /\ recorded = [v \in Version |-> IF v <= n THEN Files[p][v] ELSE None]
  /\ committed = UNION {Effect(c) : c \in {recorded[v] : v \in Version} \ {None}}
  /\ admin \in (IF UserTable \in committed THEN {"absent", "blank", "ready"} ELSE {"absent"})
  /\ writer = None
  /\ pc = [p \in Process |-> "off"]
  /\ at = [p \in Process |-> 1]
  /\ ran = [p \in Process |-> 0]

-----------------------------------------------------------------------------

\* Mutant: the end of a process leaves its transaction open.
Exit_KeepsLock(p) ==
  /\ pc' = [pc EXCEPT ![p] = "off"]
  /\ writer' = writer
  /\ at' = [at EXCEPT ![p] = 1] /\ ran' = [ran EXCEPT ![p] = 0]
  /\ UNCHANGED <<dialect, recorded, committed, admin>>

\* The program ends: of itself, with an error, or stopped.  Its transaction
\* is rolled back.
Exit(p) ==
  /\ pc' = [pc EXCEPT ![p] = "off"]
  /\ writer' = IF writer = p THEN None ELSE writer
  /\ at' = [at EXCEPT ![p] = 1] /\ ran' = [ran EXCEPT ![p] = 0]
  /\ UNCHANGED <<dialect, recorded, committed, admin>>

Goto(p, where) == pc' = [pc EXCEPT ![p] = where]

Start(p) ==
  /\ pc[p] = "off"
  /\ Goto(p, IF Mode[p] = "skip" THEN "admin" ELSE "check")
  /\ UNCHANGED <<dialect, recorded, committed, writer, admin, at, ran>>

-----------------------------------------------------------------------------
(* Runner.Run.                                                             *)

Advance(p) == at' = [at EXCEPT ![p] = @ + 1] /\ ran' = [ran EXCEPT ![p] = 0]

Pending(p) == pc[p] = "check" /\ at[p] <= Len(Files[p])

\* Mutant: a version that is recorded counts as applied.
Applied_AnyChecksum(p) ==
  /\ Pending(p)
  /\ recorded[at[p]] # None
  /\ Advance(p)
  /\ UNCHANGED <<dialect, recorded, committed, writer, admin, pc>>

\* isApplied: the version is recorded with the checksum of the file.
Applied(p) ==
  /\ Pending(p)
  /\ recorded[at[p]] = Files[p][at[p]]
  /\ Advance(p)
  /\ UNCHANGED <<dialect, recorded, committed, writer, admin, pc>>

\* With another checksum: the program ends.
ChecksumChanged(p) ==
  /\ Pending(p)
  /\ recorded[at[p]] \notin {None, Files[p][at[p]]}
  /\ Exit(p)

\* Not recorded: it is counted, and applied unless this is only a check.
NotApplied(p) ==
  /\ Pending(p)
  /\ recorded[at[p]] = None
  /\ IF Mode[p] = "check" THEN Advance(p) /\ UNCHANGED pc
     ELSE Goto(p, "apply") /\ UNCHANGED <<at, ran>>
  /\ UNCHANGED <<dialect, recorded, committed, writer, admin>>

\* All versions are looked at.
Migrated(p) ==
  /\ pc[p] = "check" /\ ~Pending(p)
  /\ IF Mode[p] = "check" THEN Exit(p)
     ELSE Goto(p, "admin") /\ UNCHANGED <<dialect, recorded, committed, writer, admin, at, ran>>

-----------------------------------------------------------------------------
(* apply.                                                                  *)

\* Mutant: splitStatements drops the statement that is open at the end.
Statements_LosesLast(p) == SubSeq(Script[Files[p][at[p]]], 1, Len(Script[Files[p][at[p]]]) - 1)

\* splitStatements of the file.
Statements(p) == Script[Files[p][at[p]]]

\* On SQLite the first write takes the lock, and holds it to the end.
CanWrite(p) == dialect = "sqlite" => writer \in {None, p}

\* The lock is waited for no longer than busy_timeout.
Busy(p) == pc[p] = "apply" /\ ~CanWrite(p) /\ Exit(p)

Executed(p) == {Statements(p)[i] : i \in 1 .. ran[p]}

\* What the process finds in the database.
View(p) == committed \cup Executed(p)

\* Mutant: the statements are executed on the connection, not in the
\* transaction.
Execute_Autocommit(p) ==
  /\ pc[p] = "apply" /\ CanWrite(p)
  /\ ran[p] < Len(Statements(p))
  /\ LET s == Statements(p)[ran[p] + 1] IN
       /\ s \in Repeatable \/ s \notin committed
       /\ committed' = committed \cup {s}
  /\ ran' = [ran EXCEPT ![p] = @ + 1]
  /\ UNCHANGED <<dialect, recorded, writer, admin, pc, at>>

Execute(p) ==
  /\ pc[p] = "apply" /\ CanWrite(p)
  /\ ran[p] < Len(Statements(p))
  /\ LET s == Statements(p)[ran[p] + 1] IN
       /\ s \in Repeatable \/ s \notin View(p)
       /\ IF dialect = "mysql" THEN committed' = committed \cup {s} /\ UNCHANGED writer
          ELSE writer' = p /\ UNCHANGED committed
  /\ ran' = [ran EXCEPT ![p] = @ + 1]
  /\ UNCHANGED <<dialect, recorded, admin, pc, at>>

\* A table, a column or an index is already there.
ExecuteFails(p) ==
  /\ pc[p] = "apply" /\ CanWrite(p)
  /\ ran[p] < Len(Statements(p))
  /\ Statements(p)[ran[p] + 1] \in View(p) \ Repeatable
  /\ Exit(p)

\* Mutant: the insert into schema_migrations replaces the row that is there.
Record_Replaces(p) ==
  /\ pc[p] = "apply" /\ CanWrite(p)
  /\ ran[p] = Len(Statements(p))
  /\ recorded' = [recorded EXCEPT ![at[p]] = Files[p][at[p]]]
  /\ committed' = IF dialect = "sqlite" THEN View(p) ELSE committed
  /\ writer' = None
  /\ Goto(p, "check") /\ Advance(p)
  /\ UNCHANGED <<dialect, admin>>

\* The version is recorded and the transaction committed; it is the primary
\* key of schema_migrations.
Record(p) ==
  /\ pc[p] = "apply" /\ CanWrite(p)
  /\ ran[p] = Len(Statements(p))
  /\ recorded[at[p]] = None
  /\ recorded' = [recorded EXCEPT ![at[p]] = Files[p][at[p]]]
  /\ committed' = IF dialect = "sqlite" THEN View(p) ELSE committed
  /\ writer' = None
  /\ Goto(p, "check") /\ Advance(p)
  /\ UNCHANGED <<dialect, admin>>

RecordFails(p) ==
  /\ pc[p] = "apply" /\ CanWrite(p)
  /\ ran[p] = Len(Statements(p))
  /\ recorded[at[p]] # None
  /\ Exit(p)

-----------------------------------------------------------------------------
(* ensureBootstrapAdmin, and the worker and the API.                       *)

Serve(p) ==
  /\ pc[p] = "admin" /\ admin = "ready"
  /\ Goto(p, "serve")
  /\ UNCHANGED <<dialect, recorded, committed, writer, admin, at, ran>>

\* The administrator is read; there is no reading without the table.
FindAdmin(p) ==
  /\ pc[p] = "admin" /\ admin # "ready"
  /\ UserTable \in committed /\ p \in HasPassword
  /\ Goto(p, IF admin = "absent" THEN "create" ELSE "set")
  /\ UNCHANGED <<dialect, recorded, committed, writer, admin, at, ran>>

\* Without a password to give, or without a table.
NoAdmin(p) ==
  /\ pc[p] = "admin" /\ admin # "ready"
  /\ UserTable \notin committed \/ p \notin HasPassword
  /\ Exit(p)

\* The name is unique: of two that create the administrator one fails.
CreateAdmin(p) ==
  /\ pc[p] = "create"
  /\ IF admin = "absent"
     THEN /\ admin' = "ready" /\ Goto(p, "serve")
          /\ UNCHANGED <<dialect, recorded, committed, writer, at, ran>>
     ELSE Exit(p)

SetPassword(p) ==
  /\ pc[p] = "set"
  /\ admin' = "ready"
  /\ Goto(p, "serve")
  /\ UNCHANGED <<dialect, recorded, committed, writer, at, ran>>

\* The process is stopped, or a request to the database fails.
Stop(p) == pc[p] # "off" /\ Exit(p)

-----------------------------------------------------------------------------

StartupNext ==
  \E p \in Process :
    \/ Start(p) \/ Stop(p)
    \/ Applied(p) \/ ChecksumChanged(p) \/ NotApplied(p) \/ Migrated(p)
    \/ Busy(p) \/ Execute(p) \/ ExecuteFails(p) \/ Record(p) \/ RecordFails(p)
    \/ Serve(p) \/ FindAdmin(p) \/ NoAdmin(p) \/ CreateAdmin(p) \/ SetPassword(p)

StartupSpec == StartupInit /\ [][StartupNext]_vars

-----------------------------------------------------------------------------

\* The database and the processes have their types, and the write lock is
\* held by a migration that is running.
StartupTypeOK ==
  /\ dialect \in Dialect
  /\ recorded \in [Version -> Content \cup {None}]
  /\ committed \subseteq Statement
  /\ writer \in Process \cup {None}
  /\ writer # None => pc[writer] = "apply"
  /\ admin \in {"absent", "blank", "ready"}
  /\ pc \in [Process -> {"off", "check", "apply", "admin", "create", "set", "serve"}]
  /\ at \in [Process -> 1 .. Latest + 1]
  /\ ran \in [Process -> Nat]

\* A migration that is recorded was executed to its last statement, whoever
\* else was starting and whatever stopped in between.
RecordedIsDone ==
  \A v \in Version : recorded[v] # None => Effect(recorded[v]) \subseteq committed

\* On SQLite nothing is left of a migration that was not recorded, so that
\* the next start can apply it.
NothingHalfDone ==
  dialect = "sqlite" =>
    \A s \in committed : \E v \in Version : recorded[v] # None /\ s \in Effect(recorded[v])

\* A process that migrates serves on the schema of its own files: every one
\* was applied, with the content it has now, and there is an administrator.
ServesItsSchema ==
  \A p \in Process : pc[p] = "serve" =>
    /\ admin = "ready"
    /\ Mode[p] = "auto" => \A v \in 1 .. Len(Files[p]) : recorded[v] = Files[p][v]

-----------------------------------------------------------------------------
(* Why a process serves on its schema: what it knows before.               *)

\* A process that applies a migration is in its file, and on MySQL what it
\* has executed is committed.
AppliesItsFile ==
  \A p \in Process :
    IF pc[p] = "apply"
    THEN /\ at[p] <= Len(Files[p])
         /\ ran[p] <= Len(Statements(p))
         /\ dialect = "mysql" => Executed(p) \subseteq committed
    ELSE ran[p] = 0

\* The versions behind it are applied.
KnowsWhatIsApplied ==
  \A p \in Process : Mode[p] = "auto" =>
    /\ pc[p] = "off" => at[p] = 1
    /\ pc[p] \in {"check", "apply"} =>
         at[p] - 1 <= Len(Files[p]) /\ \A v \in 1 .. at[p] - 1 : recorded[v] = Files[p][v]
    /\ pc[p] \in {"admin", "create", "set", "serve"} =>
         \A v \in 1 .. Len(Files[p]) : recorded[v] = Files[p][v]

StartupInv ==
  /\ StartupTypeOK /\ RecordedIsDone /\ NothingHalfDone
  /\ AppliesItsFile /\ KnowsWhatIsApplied /\ ServesItsSchema

-----------------------------------------------------------------------------

\* The starts, whichever programs they are of, write one history of the
\* schema: in order, once, and none of it by halves.
History == INSTANCE SchemaHistory
  WITH Effects <- [c \in Content |-> Effect(c)],
       Absent <- None,
       history <- recorded,
       schema <- committed,
       transactional <- (dialect = "sqlite")

ImplementsSchemaHistory == History!Spec
=============================================================================
