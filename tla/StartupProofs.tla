--------------------------- MODULE StartupProofs ----------------------------
(***************************************************************************)
(* The invariants of Startup, for any number of processes, programs and    *)
(* migrations, on both dialects.  Each process knows only what it has read *)
(* of schema_migrations; StartupInv says that what it has read stays true. *)
(***************************************************************************)
EXTENDS Startup, TLAPS

USE StartupAssumption

\* The steps after which a process has gone on without writing.
MovesOn(p) ==
  /\ \/ pc[p] = "off" /\ Goto(p, IF Mode[p] = "skip" THEN "admin" ELSE "check")
     \/ NotApplied(p) /\ Mode[p] # "check" /\ Goto(p, "apply")
     \/ pc[p] = "check" /\ ~Pending(p) /\ Mode[p] # "check" /\ Goto(p, "admin")
     \/ pc[p] = "admin" /\ admin = "ready" /\ Goto(p, "serve")
     \/ pc[p] = "admin" /\ (Goto(p, "create") \/ Goto(p, "set"))
  /\ UNCHANGED <<dialect, recorded, committed, writer, admin, at, ran>>

\* The steps that go to the next version without writing.
Passes(p) ==
  /\ Pending(p) /\ Advance(p)
  /\ recorded[at[p]] = Files[p][at[p]] \/ Mode[p] = "check"
  /\ UNCHANGED <<dialect, recorded, committed, writer, admin, pc>>

\* The steps that give the administrator a password.
Appoints(p) ==
  /\ pc[p] \in {"create", "set"}
  /\ admin' = "ready" /\ Goto(p, "serve")
  /\ UNCHANGED <<dialect, recorded, committed, writer, at, ran>>

\* Every step is of one of these kinds.
LEMMA StepKinds ==
  ASSUME StartupNext
  PROVE  \E p \in Process :
           MovesOn(p) \/ Passes(p) \/ Appoints(p) \/ Execute(p) \/ Record(p) \/ (pc[p] # "off" /\ Exit(p))
<1>1. PICK p \in Process :
        \/ Start(p) \/ Stop(p)
        \/ Applied(p) \/ ChecksumChanged(p) \/ NotApplied(p) \/ Migrated(p)
        \/ Busy(p) \/ Execute(p) \/ ExecuteFails(p) \/ Record(p) \/ RecordFails(p)
        \/ Serve(p) \/ FindAdmin(p) \/ NoAdmin(p) \/ CreateAdmin(p) \/ SetPassword(p)
  BY DEF StartupNext
<1>2. CASE Start(p)
  BY <1>2 DEF Start, MovesOn
<1>3. CASE Stop(p) \/ ChecksumChanged(p) \/ Busy(p) \/ ExecuteFails(p) \/ RecordFails(p) \/ NoAdmin(p)
  BY <1>3 DEF Stop, ChecksumChanged, Busy, ExecuteFails, RecordFails, NoAdmin, Pending
<1>4. CASE Applied(p)
  BY <1>4 DEF Applied, Passes
<1>5. CASE NotApplied(p)
  BY <1>5 DEF NotApplied, Passes, MovesOn, Pending
<1>6. CASE Migrated(p)
  BY <1>6 DEF Migrated, MovesOn
<1>7. CASE Serve(p) \/ FindAdmin(p)
  BY <1>7 DEF Serve, FindAdmin, MovesOn
<1>8. CASE CreateAdmin(p) \/ SetPassword(p)
  BY <1>8 DEF CreateAdmin, SetPassword, Appoints
<1>9. QED
  BY <1>1, <1>2, <1>3, <1>4, <1>5, <1>6, <1>7, <1>8

\* A file of a program is one of the contents, and its script has statements.
LEMMA FileTypes ==
  ASSUME NEW p \in Process, NEW v \in 1 .. Len(Files[p])
  PROVE  Files[p][v] \in Content /\ v \in Version
BY DEF Version

-----------------------------------------------------------------------------

\* What is true of a process that applies a migration.
Applies(p) ==
  IF pc[p] = "apply"
  THEN /\ at[p] <= Len(Files[p])
       /\ ran[p] <= Len(Statements(p))
       /\ dialect = "mysql" => Executed(p) \subseteq committed
  ELSE ran[p] = 0

\* The statements of a migration are its effect when all are executed.
LEMMA AllExecuted ==
  ASSUME NEW p \in Process, StartupTypeOK, AppliesItsFile, pc[p] = "apply", ran[p] = Len(Statements(p))
  PROVE  /\ Executed(p) = Effect(Files[p][at[p]])
         /\ Files[p][at[p]] \in Content
         /\ at[p] \in Version
         /\ Effect(Files[p][at[p]]) \subseteq Statement
BY FileTypes DEF Executed, Effect, Statements, AppliesItsFile, StartupTypeOK, Version

LEMMA TypeInit == StartupInit => StartupTypeOK
<1> SUFFICES ASSUME StartupInit PROVE StartupTypeOK
  OBVIOUS
<1>1. recorded \in [Version -> Content \cup {None}]
  <2>1. PICK p \in Process, n \in 0 .. Latest :
          n <= Len(Files[p]) /\ recorded = [v \in Version |-> IF v <= n THEN Files[p][v] ELSE None]
    BY DEF StartupInit
  <2>2. \A v \in Version : v <= n => Files[p][v] \in Content
    BY <2>1, FileTypes DEF Version
  <2>3. QED
    BY <2>1, <2>2
<1>2. committed \subseteq Statement
  <2>1. \A c \in Content : Effect(c) \subseteq Statement
    BY DEF Effect
  <2>2. {recorded[v] : v \in Version} \ {None} \subseteq Content
    BY <1>1
  <2>3. QED
    BY <2>1, <2>2 DEF StartupInit
<1>3. /\ dialect \in Dialect /\ writer = None /\ admin \in {"absent", "blank", "ready"}
      /\ pc \in [Process -> {"off", "check", "apply", "admin", "create", "set", "serve"}]
      /\ ran \in [Process -> Nat]
  BY DEF StartupInit
<1>4. at \in [Process -> 1 .. Latest + 1]
  BY DEF StartupInit
<1>5. QED
  BY <1>1, <1>2, <1>3, <1>4 DEF StartupTypeOK

LEMMA TypeStep ==
  ASSUME StartupTypeOK, AppliesItsFile, [StartupNext]_vars
  PROVE  StartupTypeOK'
<1>1. CASE UNCHANGED vars
  BY <1>1 DEF vars, StartupTypeOK
<1>2. ASSUME NEW p \in Process, MovesOn(p) PROVE StartupTypeOK'
  <2>1. writer # p \/ pc'[p] = "apply"
    BY <1>2 DEF MovesOn, Goto, NotApplied, Pending, StartupTypeOK
  <2>2. QED
    BY <1>2, <2>1 DEF MovesOn, Goto, StartupTypeOK
<1>3. ASSUME NEW p \in Process, Passes(p) PROVE StartupTypeOK'
  <2>1. at[p] + 1 \in 1 .. Latest + 1
    BY <1>3 DEF Passes, Pending, StartupTypeOK
  <2>2. QED
    BY <1>3, <2>1 DEF Passes, Advance, StartupTypeOK
<1>4. ASSUME NEW p \in Process, Appoints(p) PROVE StartupTypeOK'
  BY <1>4 DEF Appoints, Goto, StartupTypeOK
<1>5. ASSUME NEW p \in Process, Exit(p) PROVE StartupTypeOK'
  BY <1>5 DEF Exit, StartupTypeOK
<1>6. ASSUME NEW p \in Process, Execute(p) PROVE StartupTypeOK'
  <2>1. Statements(p)[ran[p] + 1] \in Statement
    <3>1. Files[p][at[p]] \in Content
      BY <1>6, FileTypes DEF Execute, AppliesItsFile, StartupTypeOK
    <3>2. QED
      BY <1>6, <3>1 DEF Execute, Statements, StartupTypeOK
  <2>2. committed' \subseteq Statement
    BY <1>6, <2>1 DEF Execute, StartupTypeOK
  <2>3. writer' \in Process \cup {None} /\ (writer' # None => pc'[writer'] = "apply")
    BY <1>6 DEF Execute, StartupTypeOK
  <2>4. QED
    BY <1>6, <2>2, <2>3 DEF Execute, StartupTypeOK
<1>7. ASSUME NEW p \in Process, Record(p) PROVE StartupTypeOK'
  <2>1. /\ Executed(p) \subseteq Statement
        /\ Files[p][at[p]] \in Content
        /\ at[p] \in Version
    BY <1>7, AllExecuted DEF Record
  <2>2. recorded' \in [Version -> Content \cup {None}] /\ committed' \subseteq Statement
    BY <1>7, <2>1 DEF Record, View, StartupTypeOK
  <2>3. at' \in [Process -> 1 .. Latest + 1] /\ ran' \in [Process -> Nat]
    BY <1>7, <2>1 DEF Record, Advance, StartupTypeOK, Version
  <2>4. QED
    BY <1>7, <2>2, <2>3 DEF Record, Goto, StartupTypeOK
<1>8. QED
  BY <1>1, <1>2, <1>3, <1>4, <1>5, <1>6, <1>7, StepKinds

-----------------------------------------------------------------------------

LEMMA AppliesStep ==
  ASSUME StartupTypeOK, AppliesItsFile, [StartupNext]_vars
  PROVE  AppliesItsFile'
<1> SUFFICES ASSUME NEW q \in Process PROVE Applies(q)'
  BY DEF AppliesItsFile, Applies
<1>0. Applies(q)
  BY DEF AppliesItsFile, Applies
<1>1. ASSUME pc'[q] = pc[q], at'[q] = at[q], ran'[q] = ran[q], dialect' = dialect, committed \subseteq committed'
      PROVE  Applies(q)'
  BY <1>0, <1>1 DEF Applies, Statements, Executed
<1>2. CASE UNCHANGED vars
  BY <1>1, <1>2 DEF vars
<1>3. ASSUME NEW p \in Process, MovesOn(p) PROVE Applies(q)'
  <2>1. CASE p = q /\ pc'[q] = "apply"
    <3>1. Pending(q) /\ pc[q] # "apply" /\ at' = at /\ ran' = ran /\ dialect' = dialect
      BY <1>3, <2>1 DEF MovesOn, Goto, NotApplied, Pending, StartupTypeOK
    <3>2. ran'[q] = 0 /\ at'[q] <= Len(Files[q])
      BY <1>0, <3>1 DEF Applies, Pending
    <3>3. Executed(q)' = {}
      BY <3>2 DEF Executed
    <3>4. 0 <= Len(Statements(q)')
      BY <3>1, <3>2, FileTypes DEF Statements, StartupTypeOK, Pending
    <3>5. QED
      BY <2>1, <3>2, <3>3, <3>4 DEF Applies
  <2>2. CASE p # q \/ pc'[q] # "apply"
    <3>1. CASE p # q
      BY <1>1, <1>3, <3>1 DEF MovesOn, Goto, NotApplied, StartupTypeOK
    <3>2. CASE p = q /\ pc'[q] # "apply"
      BY <1>0, <1>3, <3>2 DEF MovesOn, Goto, Applies, NotApplied, Pending, StartupTypeOK
    <3>3. QED
      BY <2>2, <3>1, <3>2
  <2>3. QED
    BY <2>1, <2>2
<1>4. ASSUME NEW p \in Process, Passes(p) PROVE Applies(q)'
  <2>1. CASE p = q
    BY <1>4, <2>1 DEF Passes, Pending, Advance, Applies, StartupTypeOK
  <2>2. CASE p # q
    BY <1>1, <1>4, <2>2 DEF Passes, Advance, StartupTypeOK
  <2>3. QED
    BY <2>1, <2>2
<1>5. ASSUME NEW p \in Process, Appoints(p) PROVE Applies(q)'
  <2>1. CASE p = q
    BY <1>0, <1>5, <2>1 DEF Appoints, Goto, Applies, StartupTypeOK
  <2>2. CASE p # q
    BY <1>1, <1>5, <2>2 DEF Appoints, Goto, StartupTypeOK
  <2>3. QED
    BY <2>1, <2>2
<1>6. ASSUME NEW p \in Process, Exit(p) PROVE Applies(q)'
  <2>1. CASE p = q
    BY <1>6, <2>1 DEF Exit, Applies, StartupTypeOK
  <2>2. CASE p # q
    BY <1>1, <1>6, <2>2 DEF Exit, StartupTypeOK
  <2>3. QED
    BY <2>1, <2>2
<1>7. ASSUME NEW p \in Process, Execute(p) PROVE Applies(q)'
  <2>1. CASE p = q
    <3>1. at' = at /\ ran'[q] = ran[q] + 1 /\ ran[q] < Len(Statements(q)) /\ dialect' = dialect
      BY <1>7, <2>1 DEF Execute, StartupTypeOK
    <3>2. Statements(q)' = Statements(q)
      BY <3>1 DEF Statements
    <3>3. Executed(q)' \subseteq Executed(q) \cup {Statements(q)[ran[q] + 1]}
      BY <3>1, <3>2 DEF Executed, StartupTypeOK
    <3>4. dialect = "mysql" => committed' = committed \cup {Statements(q)[ran[q] + 1]}
      BY <1>7, <2>1 DEF Execute
    <3>5. Len(Statements(q)) \in Nat
      BY <1>7, <1>0, <2>1, FileTypes DEF Execute, Applies, Statements, StartupTypeOK
    <3>6. QED
      BY <1>0, <1>7, <2>1, <3>1, <3>2, <3>3, <3>4, <3>5 DEF Applies, Execute, StartupTypeOK
  <2>2. CASE p # q
    BY <1>1, <1>7, <2>2 DEF Execute, StartupTypeOK
  <2>3. QED
    BY <2>1, <2>2
<1>8. ASSUME NEW p \in Process, Record(p) PROVE Applies(q)'
  <2>1. CASE p = q
    BY <1>8, <2>1 DEF Record, Goto, Advance, Applies, StartupTypeOK
  <2>2. CASE p # q
    BY <1>1, <1>8, <2>2 DEF Record, Goto, Advance, View, StartupTypeOK
  <2>3. QED
    BY <2>1, <2>2
<1>9. QED
  BY <1>2, <1>3, <1>4, <1>5, <1>6, <1>7, <1>8, StepKinds

\* RecordedIsDone and NothingHalfDone.
LEMMA RecordedStep ==
  ASSUME StartupTypeOK, AppliesItsFile, RecordedIsDone, NothingHalfDone, [StartupNext]_vars
  PROVE  RecordedIsDone' /\ NothingHalfDone'
<1>1. ASSUME recorded' = recorded, committed' = committed, dialect' = dialect
      PROVE  RecordedIsDone' /\ NothingHalfDone'
  BY <1>1 DEF RecordedIsDone, NothingHalfDone
<1>2. ASSUME NEW p \in Process, MovesOn(p) \/ Passes(p) \/ Appoints(p) \/ Exit(p)
      PROVE  RecordedIsDone' /\ NothingHalfDone'
  BY <1>1, <1>2 DEF MovesOn, Passes, Appoints, Exit
<1>3. ASSUME NEW p \in Process, Execute(p) PROVE RecordedIsDone' /\ NothingHalfDone'
  <2>1. dialect \in {"sqlite", "mysql"}
    BY DEF StartupTypeOK
  <2>2. CASE dialect = "sqlite"
    BY <1>1, <1>3, <2>2 DEF Execute
  <2>3. CASE dialect = "mysql"
    BY <1>3, <2>3 DEF Execute, RecordedIsDone, NothingHalfDone
  <2>4. QED
    BY <2>1, <2>2, <2>3
<1>4. ASSUME NEW p \in Process, Record(p) PROVE RecordedIsDone' /\ NothingHalfDone'
  <2>1. /\ Executed(p) = Effect(Files[p][at[p]])
        /\ Files[p][at[p]] \in Content
        /\ at[p] \in Version
    BY <1>4, AllExecuted DEF Record
  <2>2. /\ recorded'[at[p]] = Files[p][at[p]]
        /\ \A v \in Version \ {at[p]} : recorded'[v] = recorded[v]
        /\ recorded[at[p]] = None
        /\ dialect' = dialect
    BY <1>4, <2>1 DEF Record, StartupTypeOK
  <2>3. Executed(p) \subseteq committed' /\ committed \subseteq committed'
    BY <1>4 DEF Record, View, AppliesItsFile, StartupTypeOK
  <2>4. dialect = "sqlite" => committed' = committed \cup Executed(p)
    BY <1>4 DEF Record, View
  <2>5. RecordedIsDone'
    <3> SUFFICES ASSUME NEW v \in Version, recorded'[v] # None
                 PROVE  Effect(recorded'[v]) \subseteq committed'
      BY DEF RecordedIsDone, Effect
    <3>1. CASE v = at[p]
      BY <2>1, <2>2, <2>3, <3>1
    <3>2. CASE v # at[p]
      <4>1. recorded'[v] = recorded[v]
        BY <2>2, <3>2
      <4>2. Effect(recorded[v]) \subseteq committed
        BY <4>1 DEF RecordedIsDone
      <4>3. QED
        BY <2>3, <4>1, <4>2
    <3>3. QED
      BY <3>1, <3>2
  <2>6. NothingHalfDone'
    <3> SUFFICES ASSUME dialect = "sqlite", NEW s \in committed'
                 PROVE  \E v \in Version : recorded'[v] # None /\ s \in Effect(recorded'[v])
      BY <2>2 DEF NothingHalfDone, Effect
    <3>1. CASE s \in committed
      <4>1. PICK v \in Version : recorded[v] # None /\ s \in Effect(recorded[v])
        BY <2>2, <3>1 DEF NothingHalfDone
      <4>2. v # at[p] /\ recorded'[v] = recorded[v]
        BY <2>2, <4>1
      <4>3. QED
        BY <4>1, <4>2
    <3>2. CASE s \in Executed(p)
      <4>1. recorded'[at[p]] # None
        BY <2>1, <2>2
      <4>2. s \in Effect(recorded'[at[p]])
        BY <2>1, <2>2, <3>2
      <4>3. QED
        BY <2>1, <4>1, <4>2
    <3>3. QED
      BY <2>4, <3>1, <3>2
  <2>7. QED
    BY <2>5, <2>6
<1>5. CASE UNCHANGED vars
  BY <1>1, <1>5 DEF vars
<1>6. QED
  BY <1>2, <1>3, <1>4, <1>5, StepKinds

-----------------------------------------------------------------------------

\* What one process knows of schema_migrations.
Knows(q) ==
  Mode[q] = "auto" =>
    /\ pc[q] = "off" => at[q] = 1
    /\ pc[q] \in {"check", "apply"} =>
         at[q] - 1 <= Len(Files[q]) /\ \A v \in 1 .. at[q] - 1 : recorded[v] = Files[q][v]
    /\ pc[q] \in {"admin", "create", "set", "serve"} =>
         \A v \in 1 .. Len(Files[q]) : recorded[v] = Files[q][v]

\* What is recorded stays.
LEMMA RecordedStays ==
  ASSUME StartupTypeOK, AppliesItsFile, [StartupNext]_vars, NEW v \in Version, recorded[v] # None
  PROVE  recorded'[v] = recorded[v]
<1>1. ASSUME NEW p \in Process, Record(p) PROVE recorded'[v] = recorded[v]
  BY <1>1 DEF Record, StartupTypeOK
<1>2. QED
  BY <1>1, StepKinds DEF MovesOn, Passes, Appoints, Execute, Exit, vars

LEMMA KnowsStep ==
  ASSUME StartupTypeOK, AppliesItsFile, KnowsWhatIsApplied, [StartupNext]_vars
  PROVE  KnowsWhatIsApplied'
<1> SUFFICES ASSUME NEW q \in Process, Mode[q] = "auto" PROVE Knows(q)'
  BY DEF KnowsWhatIsApplied, Knows
<1>0. Knows(q)
  BY DEF KnowsWhatIsApplied, Knows
<1>1. \A v \in 1 .. Len(Files[q]) : recorded[v] = Files[q][v] => recorded'[v] = Files[q][v]
  BY RecordedStays, FileTypes
<1>2. at[q] \in Nat /\ Len(Files[q]) \in Nat
  BY DEF StartupTypeOK
<1>3. ASSUME pc'[q] = pc[q], at'[q] = at[q] PROVE Knows(q)'
  BY <1>0, <1>1, <1>2, <1>3 DEF Knows
<1>4. ASSUME NEW p \in Process, MovesOn(p) PROVE Knows(q)'
  <2>1. CASE p = q
    <3>1. at'[q] = at[q] /\ recorded' = recorded
      BY <1>4, <2>1 DEF MovesOn
    <3>2. CASE pc[q] = "off"
      BY <1>0, <1>2, <1>4, <2>1, <3>1, <3>2 DEF MovesOn, Goto, NotApplied, Pending, Knows, StartupTypeOK
    <3>3. CASE pc[q] = "check" /\ ~Pending(q)
      <4>1. pc'[q] = "admin"
        BY <1>4, <2>1, <3>3 DEF MovesOn, Goto, NotApplied, StartupTypeOK
      <4>2. \A v \in 1 .. Len(Files[q]) : recorded[v] = Files[q][v]
        <5>1. at[q] - 1 = Len(Files[q])
          BY <1>0, <1>2, <3>3 DEF Knows, Pending
        <5>2. \A v \in 1 .. at[q] - 1 : recorded[v] = Files[q][v]
          BY <1>0, <3>3 DEF Knows
        <5>3. QED
          BY <5>1, <5>2
      <4>3. QED
        BY <3>1, <4>1, <4>2 DEF Knows
    <3>4. CASE pc[q] = "check" /\ Pending(q)
      <4>1. pc'[q] = "apply"
        BY <1>4, <2>1, <3>4 DEF MovesOn, Goto, StartupTypeOK
      <4>2. QED
        BY <1>0, <3>1, <3>4, <4>1 DEF Knows
    <3>5. CASE pc[q] = "admin"
      <4>1. pc'[q] \in {"create", "set", "serve"}
        BY <1>4, <2>1, <3>5 DEF MovesOn, Goto, NotApplied, Pending, StartupTypeOK
      <4>2. QED
        BY <1>0, <3>1, <3>5, <4>1 DEF Knows
    <3>6. QED
      BY <1>4, <2>1, <3>2, <3>3, <3>4, <3>5 DEF MovesOn, NotApplied, Pending
  <2>2. CASE p # q
    BY <1>3, <1>4, <2>2 DEF MovesOn, Goto, NotApplied, StartupTypeOK
  <2>3. QED
    BY <2>1, <2>2
<1>5. ASSUME NEW p \in Process, Passes(p) PROVE Knows(q)'
  <2>1. CASE p = q
    BY <1>0, <1>2, <1>5, <2>1 DEF Passes, Pending, Advance, Knows, StartupTypeOK
  <2>2. CASE p # q
    BY <1>3, <1>5, <2>2 DEF Passes, Advance, StartupTypeOK
  <2>3. QED
    BY <2>1, <2>2
<1>6. ASSUME NEW p \in Process, Appoints(p) PROVE Knows(q)'
  <2>1. CASE p = q
    BY <1>0, <1>6, <2>1 DEF Appoints, Goto, Knows, StartupTypeOK
  <2>2. CASE p # q
    BY <1>3, <1>6, <2>2 DEF Appoints, Goto, StartupTypeOK
  <2>3. QED
    BY <2>1, <2>2
<1>7. ASSUME NEW p \in Process, Exit(p) PROVE Knows(q)'
  <2>1. CASE p = q
    BY <1>7, <2>1 DEF Exit, Knows, StartupTypeOK
  <2>2. CASE p # q
    BY <1>3, <1>7, <2>2 DEF Exit, StartupTypeOK
  <2>3. QED
    BY <2>1, <2>2
<1>8. ASSUME NEW p \in Process, Record(p) PROVE Knows(q)'
  <2>1. CASE p = q
    <3>1. /\ at'[q] = at[q] + 1 /\ pc'[q] = "check" /\ pc[q] = "apply"
          /\ at[q] <= Len(Files[q])
      BY <1>8, <2>1 DEF Record, Goto, Advance, AppliesItsFile, StartupTypeOK
    <3>2. recorded'[at[q]] = Files[q][at[q]]
      BY <1>8, <2>1, <3>1, AllExecuted DEF Record, StartupTypeOK
    <3>3. \A v \in 1 .. at[q] - 1 : recorded'[v] = Files[q][v]
      BY <1>0, <1>1, <1>2, <3>1 DEF Knows
    <3>4. QED
      <4>1. at'[q] - 1 = at[q]
        BY <1>2, <3>1
      <4>2. \A v \in 1 .. at[q] : recorded'[v] = Files[q][v]
        <5> SUFFICES ASSUME NEW v \in 1 .. at[q] PROVE recorded'[v] = Files[q][v]
          OBVIOUS
        <5>1. v = at[q] \/ v \in 1 .. at[q] - 1
          BY <1>2
        <5>2. QED
          BY <3>2, <3>3, <5>1
      <4>3. QED
        BY <3>1, <4>1, <4>2 DEF Knows
  <2>2. CASE p # q
    BY <1>3, <1>8, <2>2 DEF Record, Goto, Advance, StartupTypeOK
  <2>3. QED
    BY <2>1, <2>2
<1>9. CASE UNCHANGED vars
  BY <1>3, <1>9 DEF vars
<1>10. ASSUME NEW p \in Process, Execute(p) PROVE Knows(q)'
  BY <1>3, <1>10 DEF Execute
<1>11. QED
  BY <1>4, <1>5, <1>6, <1>7, <1>8, <1>9, <1>10, StepKinds

\* There is an administrator when a process serves.
AdminBeforeService == \A p \in Process : pc[p] = "serve" => admin = "ready"

LEMMA AdminStep ==
  ASSUME StartupTypeOK, AdminBeforeService, [StartupNext]_vars
  PROVE  AdminBeforeService'
<1>1. ASSUME NEW p \in Process, MovesOn(p) \/ Passes(p) \/ Exit(p) \/ Execute(p) \/ Record(p)
      PROVE  AdminBeforeService'
  BY <1>1
  DEF MovesOn, Passes, Exit, Execute, Record, Goto, NotApplied, Pending, AdminBeforeService, StartupTypeOK
<1>2. ASSUME NEW p \in Process, Appoints(p) PROVE AdminBeforeService'
  BY <1>2 DEF Appoints, AdminBeforeService
<1>3. CASE UNCHANGED vars
  BY <1>3 DEF vars, AdminBeforeService
<1>4. QED
  BY <1>1, <1>2, <1>3, StepKinds

-----------------------------------------------------------------------------

\* Recorded migrations are complete, and a process knows which they are.
THEOREM StartupHolds == StartupSpec => []StartupInv
<1>1. StartupInit => StartupInv
  <2> SUFFICES ASSUME StartupInit PROVE StartupInv
    OBVIOUS
  <2>1. StartupTypeOK
    BY TypeInit
  <2>2. RecordedIsDone
    BY DEF StartupInit, RecordedIsDone
  <2>3. NothingHalfDone
    BY DEF StartupInit, NothingHalfDone
  <2>4. AppliesItsFile /\ KnowsWhatIsApplied /\ ServesItsSchema
    BY DEF StartupInit, AppliesItsFile, KnowsWhatIsApplied, ServesItsSchema
  <2>5. QED
    BY <2>1, <2>2, <2>3, <2>4 DEF StartupInv
<1>2. StartupInv /\ [StartupNext]_vars => StartupInv'
  <2> SUFFICES ASSUME StartupInv, [StartupNext]_vars PROVE StartupInv'
    OBVIOUS
  <2>1. AdminBeforeService'
    BY AdminStep DEF StartupInv, ServesItsSchema, AdminBeforeService
  <2>2. KnowsWhatIsApplied'
    BY KnowsStep DEF StartupInv
  <2>3. ServesItsSchema'
    BY <2>1, <2>2 DEF ServesItsSchema, AdminBeforeService, KnowsWhatIsApplied
  <2>4. QED
    BY <2>2, <2>3, TypeStep, AppliesStep, RecordedStep DEF StartupInv
<1>3. QED
  BY <1>1, <1>2, PTL DEF StartupSpec

\* RecordedIsDone and NothingHalfDone: a migration that is recorded is
\* complete on both dialects, and on SQLite nothing else is done.
THEOREM MigrationsAreWhole == StartupSpec => [](RecordedIsDone /\ NothingHalfDone)
<1>1. StartupInv => RecordedIsDone /\ NothingHalfDone
  BY DEF StartupInv
<1>2. QED
  BY <1>1, StartupHolds, PTL

\* ServesItsSchema: who migrates serves on the schema of its own files.
THEOREM ServiceHasItsSchema == StartupSpec => []ServesItsSchema
<1>1. StartupInv => ServesItsSchema
  BY DEF StartupInv
<1>2. QED
  BY <1>1, StartupHolds, PTL

\* The database and the processes keep their types (StartupTypeOK).
THEOREM StartupTypeCorrect == StartupSpec => []StartupTypeOK
<1>1. StartupInv => StartupTypeOK
  BY DEF StartupInv
<1> QED
  BY <1>1, StartupHolds, PTL

\* On SQLite a migration that is stopped leaves no trace (NothingHalfDone), so
\* that the next start can apply it from its first statement.
THEOREM NothingIsHalfDone == StartupSpec => []NothingHalfDone
<1>1. StartupInv => NothingHalfDone
  BY DEF StartupInv
<1> QED
  BY <1>1, StartupHolds, PTL

-----------------------------------------------------------------------------
(* The starts implement SchemaHistory.                                     *)

\* Only a process that is to migrate comes to apply anything.
AppliesByMode ==
  \A p \in Process :
    /\ pc[p] = "apply" => Mode[p] = "auto"
    /\ pc[p] = "check" => Mode[p] # "skip"

LEMMA ModeStep ==
  ASSUME StartupTypeOK, AppliesByMode, [StartupNext]_vars
  PROVE  AppliesByMode'
<1> SUFFICES ASSUME NEW q \in Process
             PROVE  /\ pc'[q] = "apply" => Mode[q] = "auto"
                    /\ pc'[q] = "check" => Mode[q] # "skip"
  BY DEF AppliesByMode
<1>0. /\ pc[q] = "apply" => Mode[q] = "auto"
      /\ pc[q] = "check" => Mode[q] # "skip"
      /\ Mode[q] \in {"auto", "check", "skip"}
  BY DEF AppliesByMode
<1>1. ASSUME NEW p \in Process, MovesOn(p)
      PROVE  \/ pc'[q] = pc[q]
             \/ pc'[q] \in {"admin", "create", "set", "serve"}
             \/ pc'[q] = "check" /\ Mode[q] # "skip"
             \/ pc'[q] = "apply" /\ pc[q] = "check" /\ Mode[q] # "check"
  BY <1>1 DEF MovesOn, Goto, NotApplied, Pending, StartupTypeOK
<1>2. ASSUME NEW p \in Process, Exit(p) \/ Appoints(p)
      PROVE  pc'[q] = pc[q] \/ pc'[q] \in {"off", "serve"}
  BY <1>2 DEF Exit, Appoints, Goto, StartupTypeOK
<1>3. ASSUME NEW p \in Process, Passes(p) \/ Execute(p)
      PROVE  pc'[q] = pc[q]
  BY <1>3 DEF Passes, Execute
<1>4. ASSUME NEW p \in Process, Record(p)
      PROVE  pc'[q] = pc[q] \/ (pc'[q] = "check" /\ pc[q] = "apply")
  BY <1>4 DEF Record, Goto, StartupTypeOK
<1>5. CASE UNCHANGED vars
  BY <1>0, <1>5 DEF vars
<1> QED
  BY <1>0, <1>1, <1>2, <1>3, <1>4, <1>5, StepKinds

\* The database of an earlier start has a history.
LEMMA HistoryInit == StartupInit => History!Init
<1> SUFFICES ASSUME StartupInit
             PROVE  History!Init
  OBVIOUS
<1> USE DEF History!Versions, Version
<1>1. PICK p \in Process, n \in 0 .. Latest :
        n <= Len(Files[p]) /\ recorded = [v \in Version |-> IF v <= n THEN Files[p][v] ELSE None]
  BY DEF StartupInit
<1>2. recorded \in [Version -> Content \cup {None}]
  BY TypeInit DEF StartupTypeOK
<1>3. \A v \in Version : recorded[v] # None <=> v <= n
  BY <1>1, FileTypes
<1>4. committed = UNION {[d \in Content |-> Effect(d)][c] : c \in {recorded[v] : v \in Version} \ {None}}
  <2>1. \A c \in {recorded[v] : v \in Version} \ {None} : [d \in Content |-> Effect(d)][c] = Effect(c)
    BY <1>2
  <2> QED
    BY <2>1 DEF StartupInit
<1> QED
  BY <1>2, <1>3, <1>4 DEF History!Init

\* Only the statements of a script on MySQL, and the record of a migration,
\* are steps of the history.
LEMMA HistoryStep ==
  ASSUME StartupInv, AppliesByMode, [StartupNext]_vars
  PROVE  History!Next \/ UNCHANGED <<recorded, committed, dialect = "sqlite">>
<1> USE DEF StartupInv
<1>1. ASSUME NEW p \in Process, MovesOn(p) \/ Passes(p) \/ Appoints(p) \/ Exit(p)
      PROVE  UNCHANGED <<recorded, committed, dialect>>
  BY <1>1 DEF MovesOn, Passes, Appoints, Exit
<1>2. ASSUME NEW p \in Process, Execute(p)
      PROVE  History!Next \/ UNCHANGED <<recorded, committed, dialect>>
  <2> DEFINE c == Files[p][at[p]]
             s == Statements(p)[ran[p] + 1]
  <2>1. UNCHANGED <<recorded, dialect>>
    BY <1>2 DEF Execute
  <2>2. CASE dialect = "mysql"
    <3>1. c \in Content
      BY <1>2, FileTypes DEF Execute, AppliesItsFile, StartupTypeOK
    <3>2. s \in Effect(c)
      <4>1. Len(Statements(p)) \in Nat /\ ran[p] \in Nat /\ ran[p] < Len(Statements(p))
        BY <1>2, <3>1 DEF Execute, Statements, StartupTypeOK
      <4>2. ran[p] + 1 \in 1 .. Len(Statements(p))
        BY <4>1
      <4> QED
        BY <4>2 DEF Effect, Statements
    <3>3. committed' = committed \cup {s}
      BY <1>2, <2>2 DEF Execute
    <3>4. History!RunAhead(c)
      BY <2>1, <2>2, <3>1, <3>2, <3>3 DEF History!RunAhead
    <3> QED
      BY <3>1, <3>4 DEF History!Next
  <2>3. CASE dialect # "mysql"
    BY <1>2, <2>1, <2>3 DEF Execute
  <2> QED
    BY <2>2, <2>3
<1>3. ASSUME NEW p \in Process, Record(p)
      PROVE  History!Next
  <2> DEFINE c == Files[p][at[p]]
  <2>1. /\ pc[p] = "apply" /\ Mode[p] = "auto" /\ recorded[at[p]] = None
        /\ recorded' = [recorded EXCEPT ![at[p]] = c]
        /\ committed' = IF dialect = "sqlite" THEN committed \cup Executed(p) ELSE committed
        /\ dialect' = dialect
    BY <1>3 DEF Record, View, AppliesByMode
  <2>2. c \in Content /\ Executed(p) = Effect(c) /\ at[p] \in Version
    BY <1>3, AllExecuted DEF Record
  <2>3. ASSUME NEW u \in 1 .. at[p] - 1
        PROVE  recorded[u] # None
    <3>1. recorded[u] = Files[p][u] /\ u \in 1 .. Len(Files[p])
      BY <2>1, <2>3 DEF KnowsWhatIsApplied, StartupTypeOK
    <3> QED
      BY <3>1, FileTypes
  <2>4. dialect # "sqlite" => Effect(c) \subseteq committed
    BY <2>1, <2>2 DEF AppliesItsFile, StartupTypeOK
  <2>5. History!Apply(at[p], c)
    BY <2>1, <2>2, <2>3, <2>4 DEF History!Apply
  <2> QED
    BY <2>2, <2>5 DEF History!Next, History!Versions, Version
<1>4. CASE UNCHANGED vars
  BY <1>4 DEF vars
<1> QED
  BY <1>1, <1>2, <1>3, <1>4, StepKinds

\* However many starts of whichever builds overlap, and wherever they stop,
\* they write one history of the schema, in order and each version whole
\* (ImplementsSchemaHistory).
THEOREM MigrationsImplementHistory == StartupSpec => ImplementsSchemaHistory
<1>1. StartupInit => AppliesByMode
  BY DEF StartupInit, AppliesByMode
<1>2. StartupInv /\ AppliesByMode /\ [StartupNext]_vars => AppliesByMode'
  BY ModeStep DEF StartupInv
<1>3. StartupInv /\ AppliesByMode /\ [StartupNext]_vars =>
        [History!Next]_<<recorded, committed, dialect = "sqlite">>
  BY HistoryStep
<1> QED
  BY <1>1, <1>2, <1>3, StartupHolds, HistoryInit, PTL DEF StartupSpec, ImplementsSchemaHistory, History!Spec
=============================================================================
