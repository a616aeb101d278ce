---------------------------- MODULE SchemaProofs ----------------------------
(***************************************************************************)
(* The migration of the store keeps the rows of the old file, for any      *)
(* number of processes that open it at once and die anywhere.              *)
(*                                                                         *)
(* The reason is that CREATE TABLE fails when the copy is there: between   *)
(* the creation of a copy and its renaming only one process is at work on  *)
(* a table (Exclusive), and it drops the table only when all rows are in   *)
(* the copy (Loaded).                                                      *)
(*                                                                         *)
(* `weather update` opens the store like every command (WeatherOpensStore) *)
(* and then saves rows, each of the window of some update (RowsOfWindows). *)
(* What such a row says of its session depends on no stress before the     *)
(* window unless the session is near its start; the newest row, when it is *)
(* fresh, is near the end of its window (FreshRow).                        *)
(***************************************************************************)
EXTENDS Weather, FiniteSetTheorems, WellFoundedInduction, TLAPS

(* The statements before those about t.                                    *)
Offset(t) == IF t = "broker_orders" THEN 0 ELSE 4

(* p has created the copy of t and not yet renamed it.                     *)
Inside(p, t) == At(p, "script") /\ opener[p].at \in Offset(t) + 2..Offset(t) + 4

(* p has copied the rows of t as well.                                     *)
Copied(p, t) == At(p, "script") /\ opener[p].at \in Offset(t) + 3..Offset(t) + 4

(* A process inside finds the copy.                                        *)
CopyThere == \A t \in Rebuilt, p \in Openers : Inside(p, t) => Exists(CopyOf(t))

(* No two are inside the same table.                                       *)
Exclusive ==
    \A t \in Rebuilt, p, q \in Openers : Inside(p, t) /\ Inside(q, t) => p = q

(* A process that has copied the rows finds them in the copy.              *)
Loaded ==
    \A t \in Rebuilt, p \in Openers :
        Copied(p, t) /\ setup.file # "new" => Rows \subseteq rows[CopyOf(t)]

(* The inductive invariant of RowsSurvive.                                 *)
IInv == TypeSchema /\ CopyThere /\ Exclusive /\ Loaded /\ RowsSurvive

-----------------------------------------------------------------------------
(* Facts about the script.                                                 *)

(* The script, entry by entry.                                             *)
LEMMA ScriptEntries ==
    /\ Len(Script) = 15
    /\ Script[1] = <<"create", "broker_orders_v2">>
    /\ Script[2] = <<"copy", "broker_orders">>
    /\ Script[3] = <<"drop", "broker_orders">>
    /\ Script[4] = <<"rename", "broker_orders">>
    /\ Script[5] = <<"create", "fills_v2">>
    /\ Script[6] = <<"copy", "fills">>
    /\ Script[7] = <<"drop", "fills">>
    /\ Script[8] = <<"rename", "fills">>
    /\ \A i \in 9..14 : Script[i][1] = "create" /\ Script[i][2] \in Added
    /\ Script[15] = <<"version", "schema_migrations">>
BY DEF Script, Added

(* Which statements change a rebuilt table or its copy, and where they are *)
(* in the script.                                                          *)
LEMMA ScriptShape ==
    ASSUME NEW i \in 1..Len(Script)
    PROVE  /\ Script[i][1] # "ensure"
           /\ Script[i][1] = "create" =>
                \/ Script[i][2] \in Added
                \/ \E t \in Rebuilt :
                     Script[i][2] = CopyOf(t) /\ i = Offset(t) + 1
           /\ Script[i][1] \in {"copy", "drop", "rename"} =>
                Script[i][2] \in Rebuilt
           /\ Script[i][1] = "copy" => i = Offset(Script[i][2]) + 2
           /\ Script[i][1] = "drop" => i = Offset(Script[i][2]) + 3
           /\ Script[i][1] = "rename" => i = Offset(Script[i][2]) + 4
           /\ Script[i][1] = "version" => i = 15
<1>1. i \in 1..15
  BY ScriptEntries
<1>2. CASE i \in 1..4
  BY <1>2, ScriptEntries DEF Offset, CopyOf, Rebuilt
<1>3. CASE i \in 5..8
  BY <1>3, ScriptEntries DEF Offset, CopyOf, Rebuilt
<1>4. CASE i \in 9..15
  BY <1>4, ScriptEntries DEF Offset, CopyOf, Rebuilt
<1> QED BY <1>1, <1>2, <1>3, <1>4

(* The tables are different from each other.                               *)
LEMMA Tables ==
    /\ Rebuilt \subseteq Table /\ Added \subseteq Table
    /\ \A t \in Rebuilt : /\ CopyOf(t) \in Table
                          /\ CopyOf(t) \notin Rebuilt /\ CopyOf(t) \notin Added
                          /\ t \notin Added
    /\ \A t, u \in Rebuilt : CopyOf(t) = CopyOf(u) => t = u
    /\ \A t \in Rebuilt : Offset(t) \in {0, 4}
    /\ \A t, u \in Rebuilt : Offset(t) = Offset(u) => t = u
BY DEF Table, Rebuilt, Added, CopyOf, Offset

-----------------------------------------------------------------------------
(* Steps.                                                                  *)

(* A process that is in the middle of a script, and at no later place of   *)
(* it than before, is inside and has copied nothing it had not.            *)
LEMMA Outside ==
    ASSUME TypeSchema, NEW p \in Openers, NEW label \in Label,
           Goto(p, label), setup' = setup
    PROVE  /\ opener' \in [Openers -> OpenerLocals]
           /\ Openers' = Openers
           /\ \A t \in Rebuilt, q \in Openers :
                /\ Inside(q, t)' => Inside(q, t)
                /\ Copied(q, t)' => Copied(q, t)
BY Tables, ScriptEntries DEF TypeSchema, Goto, At, Inside, Copied, Openers,
   OpenerLocals, Label

(* A step that moves no process into a section and keeps what the copies   *)
(* and the tables hold keeps the invariant.                                *)
LEMMA QuietStep ==
    ASSUME IInv, TypeSchema', setup' = setup,
           \A t \in Rebuilt, q \in Openers :
                /\ Inside(q, t)' => Inside(q, t)
                /\ Copied(q, t)' => Copied(q, t),
           \A t \in Rebuilt :
                Exists(CopyOf(t)) => layout'[CopyOf(t)] # 0,
           rows' = rows
    PROVE  IInv'
<1>1. Openers' = Openers
  BY DEF Openers
<1> QED BY <1>1 DEF IInv, CopyThere, Exclusive, Loaded, RowsSurvive, Exists

(* Opening, the first script, the check, an error, the end and the death   *)
(* of a process.                                                           *)
LEMMA PlainSteps ==
    ASSUME IInv, NEW p \in Openers,
           \/ Open(p) \/ BaseDone(p) \/ CheckVersion(p) \/ MigrationRaises(p)
           \/ FinishMigration(p) \/ Close(p) \/ Die(p)
    PROVE  IInv'
<1>1. PICK label \in Label :
        Goto(p, label) /\ setup' = setup /\ rows' = rows
  BY DEF Open, BaseDone, CheckVersion, MigrationRaises, FinishMigration, Close,
         Die, Exit, schema, Label
<1>2. /\ layout' \in [Table -> 0..2]
      /\ \A t \in Table : Exists(t) => layout'[t] # 0
      /\ version' \in SUBSET {1, 2} /\ active' \in BOOLEAN
  <2>1. /\ layout \in [Table -> 0..2]
        /\ version \in SUBSET {1, 2} /\ active \in BOOLEAN
    BY DEF IInv, TypeSchema
  <2>2. CASE CheckVersion(p)
    <3>1. \/ layout' = layout
          \/ layout' = [layout EXCEPT !["capital_allocations"] =
                          IF layout["capital_allocations"] = 0 THEN 2
                          ELSE layout["capital_allocations"]]
      BY <2>2 DEF CheckVersion
    <3>2. /\ layout' \in [Table -> 0..2]
          /\ \A t \in Table : Exists(t) => layout'[t] # 0
      BY <2>1, <3>1, Tables DEF Exists
    <3>3. version' = version \cup {1} /\ (active' = active \/ active' = FALSE)
      BY <2>2 DEF CheckVersion
    <3> QED BY <2>1, <3>2, <3>3
  <2>3. CASE FinishMigration(p)
    BY <2>1, <2>3 DEF FinishMigration, Exists
  <2>4. CASE \/ Open(p) \/ BaseDone(p) \/ MigrationRaises(p)
             \/ Close(p) \/ Die(p)
    <3>1. UNCHANGED <<layout, version, active>>
      BY <2>4 DEF Open, BaseDone, MigrationRaises, Close, Die, schema
    <3> QED BY <2>1, <3>1 DEF Exists
  <2> QED BY <2>2, <2>3, <2>4
<1>3. TypeSchema
  BY DEF IInv
<1>4. TypeSchema'
  BY <1>1, <1>2, <1>3, Outside DEF TypeSchema
<1> QED BY <1>1, <1>2, <1>3, <1>4, Outside, QuietStep, Tables

(* CREATE TABLE IF NOT EXISTS                                              *)
LEMMA CreateMissingStep ==
    ASSUME IInv, NEW p \in Openers, CreateMissing(p)
    PROVE  IInv'
<1>1. TypeSchema /\ opener[p].pc = "base" /\ setup' = setup
  BY DEF IInv, CreateMissing, At
<1>2. PICK t \in Rebuilt : Ensure(t)
  <2>1. opener[p].at \in 1..2
    BY <1>1 DEF TypeSchema, CreateMissing, Base, OpenerLocals
  <2> QED BY <2>1 DEF CreateMissing, Execute, Base, Rebuilt
<1>3. opener' = [opener EXCEPT ![p].at = @ + 1] /\ opener[p].at \in 1..2
  BY <1>1 DEF TypeSchema, CreateMissing, Base, OpenerLocals, Advance
<1>4. TypeSchema'
  BY <1>1, <1>2, <1>3, Tables, ScriptEntries
     DEF TypeSchema, Ensure, Openers, OpenerLocals
<1>5. \A u \in Rebuilt, q \in Openers :
        /\ Inside(q, u)' => Inside(q, u)
        /\ Copied(q, u)' => Copied(q, u)
  BY <1>1, <1>3 DEF TypeSchema, Inside, Copied, At, Offset, OpenerLocals
<1>6. \A u \in Rebuilt : Exists(CopyOf(u)) => layout'[CopyOf(u)] # 0
  BY <1>1, <1>2, Tables DEF TypeSchema, Ensure, Exists
<1> QED BY <1>1, <1>2, <1>4, <1>5, <1>6, QuietStep DEF Ensure

(* How a statement of the migration moves its process.                     *)
LEMMA MigrateMoves ==
    ASSUME IInv, NEW p \in Openers, Migrate(p), NEW i, i = opener[p].at
    PROVE  /\ i \in 1..15 /\ At(p, "script") /\ Execute(Script[i])
           /\ setup' = setup /\ Openers' = Openers
           /\ opener' \in [Openers -> OpenerLocals]
           /\ \A q \in Openers \ {p} : opener'[q] = opener[q]
           /\ opener'[p].pc = "script" /\ opener'[p].at = i + 1
           /\ \A t \in Rebuilt, q \in Openers \ {p} :
                /\ Inside(q, t)' <=> Inside(q, t)
                /\ Copied(q, t)' <=> Copied(q, t)
           /\ \A t \in Rebuilt :
                /\ Inside(p, t) <=> i \in Offset(t) + 2..Offset(t) + 4
                /\ Inside(p, t)' <=> i \in Offset(t) + 1..Offset(t) + 3
                /\ Copied(p, t) <=> i \in Offset(t) + 3..Offset(t) + 4
                /\ Copied(p, t)' <=> i \in Offset(t) + 2..Offset(t) + 3
<1>1. TypeSchema /\ i \in 1..15 /\ At(p, "script")
  BY ScriptEntries DEF IInv, TypeSchema, Migrate, OpenerLocals
<1>2. /\ Execute(Script[i]) /\ setup' = setup /\ Openers' = Openers
      /\ opener' = [opener EXCEPT ![p].at = @ + 1]
  BY DEF Migrate, Advance, Openers
<1>3. opener' \in [Openers -> OpenerLocals]
  BY <1>1, <1>2, ScriptEntries DEF TypeSchema, OpenerLocals
<1>4. /\ \A q \in Openers \ {p} : opener'[q] = opener[q]
      /\ opener'[p].pc = "script" /\ opener'[p].at = i + 1
  BY <1>1, <1>2 DEF TypeSchema, At, OpenerLocals
<1>5. \A t \in Rebuilt, q \in Openers \ {p} :
        /\ Inside(q, t)' <=> Inside(q, t)
        /\ Copied(q, t)' <=> Copied(q, t)
  BY <1>4 DEF Inside, Copied, At, Offset
<1>6. \A t \in Rebuilt :
        /\ Inside(p, t) <=> i \in Offset(t) + 2..Offset(t) + 4
        /\ Inside(p, t)' <=> i \in Offset(t) + 1..Offset(t) + 3
        /\ Copied(p, t) <=> i \in Offset(t) + 3..Offset(t) + 4
        /\ Copied(p, t)' <=> i \in Offset(t) + 2..Offset(t) + 3
  BY <1>1, <1>4, Tables DEF Inside, Copied, At
<1> QED BY <1>1, <1>2, <1>3, <1>4, <1>5, <1>6

(* The statement that creates a copy: nobody is inside, and only p enters. *)
LEMMA CreateCopyStep ==
    ASSUME IInv, NEW p \in Openers, Migrate(p), NEW t \in Rebuilt,
           opener[p].at = Offset(t) + 1, Create(CopyOf(t))
    PROVE  IInv'
<1> DEFINE i == opener[p].at
<1>1. TypeSchema'
  BY MigrateMoves, Tables DEF IInv, TypeSchema, Create
<1>2. \A q \in Openers : ~ Inside(q, t)
  BY DEF IInv, CopyThere, Create
<1>3. \A u \in Rebuilt \ {t} : ~ Inside(p, u)' /\ ~ Copied(p, u)'
  BY MigrateMoves, Tables
<1>4. \A u \in Rebuilt : Exists(CopyOf(u))' <=> (u = t \/ Exists(CopyOf(u)))
  BY Tables DEF Create, Exists, IInv, TypeSchema
<1>5. ~ Copied(p, t)'
  BY MigrateMoves, Tables
<1>6. CopyThere' /\ Exclusive'
  BY <1>2, <1>3, <1>4, MigrateMoves DEF IInv, CopyThere, Exclusive
<1>7. Loaded' /\ RowsSurvive'
  BY <1>3, <1>5, MigrateMoves DEF IInv, Loaded, RowsSurvive, Create
<1> QED BY <1>1, <1>6, <1>7 DEF IInv

(* Creating a table of version 2.                                          *)
LEMMA CreateAddedStep ==
    ASSUME IInv, NEW p \in Openers, Migrate(p),
           \/ opener[p].at \in 9..14 /\ \E t \in Added : Create(t)
           \/ opener[p].at = 15 /\ SetVersion
    PROVE  IInv'
<1>1. \A u \in Rebuilt, q \in Openers :
        /\ Inside(q, u)' => Inside(q, u)
        /\ Copied(q, u)' => Copied(q, u)
  <2> DEFINE i == opener[p].at
  <2>1. i \in 9..15
    OBVIOUS
  <2>2. \A u \in Rebuilt :
          /\ Inside(p, u)' <=> i \in Offset(u) + 1..Offset(u) + 3
          /\ Copied(p, u)' <=> i \in Offset(u) + 2..Offset(u) + 3
    BY MigrateMoves
  <2>3. \A u \in Rebuilt : ~ Inside(p, u)' /\ ~ Copied(p, u)'
    BY <2>1, <2>2, Tables
  <2> QED BY <2>3, MigrateMoves
<1>2. TypeSchema'
  <2>1. CASE \E t \in Added : Create(t)
    BY <2>1, MigrateMoves, Tables DEF IInv, TypeSchema, Create
  <2>2. CASE SetVersion
    BY <2>2, MigrateMoves DEF IInv, TypeSchema, SetVersion
  <2> QED BY <2>1, <2>2
<1>3. \A u \in Rebuilt : Exists(CopyOf(u)) => layout'[CopyOf(u)] # 0
  BY Tables DEF Create, SetVersion, Exists, IInv, TypeSchema
<1>4. rows' = rows /\ setup' = setup
  BY MigrateMoves DEF Create, SetVersion
<1> QED BY <1>1, <1>2, <1>3, <1>4, QuietStep

(* INSERT INTO the copy: p has all rows of the table in the copy.          *)
LEMMA CopyStep ==
    ASSUME IInv, NEW p \in Openers, Migrate(p), NEW t \in Rebuilt,
           opener[p].at = Offset(t) + 2, Copy(t)
    PROVE  IInv'
<1>1. TypeSchema'
  BY MigrateMoves, Tables DEF IInv, TypeSchema, Copy
<1>2. /\ \A u \in Rebuilt : /\ rows'[u] = rows[u]
                            /\ rows[CopyOf(u)] \subseteq rows'[CopyOf(u)]
      /\ rows'[CopyOf(t)] = rows[CopyOf(t)] \cup rows[t]
      /\ layout' = layout /\ setup' = setup
  BY MigrateMoves, Tables DEF IInv, TypeSchema, Copy
<1>3. /\ \A u \in Rebuilt : Inside(p, u)' => Inside(p, u)
      /\ \A u \in Rebuilt \ {t} : Copied(p, u)' => Copied(p, u)
  BY MigrateMoves, Tables
<1>4. CopyThere' /\ Exclusive'
  BY <1>2, <1>3, MigrateMoves DEF IInv, CopyThere, Exclusive, Exists
<1>5. setup.file # "new" => Rows \subseteq rows'[CopyOf(t)]
  BY <1>2 DEF IInv, RowsSurvive
<1>6. Loaded'
  BY <1>2, <1>3, <1>5, MigrateMoves DEF IInv, Loaded
<1>7. RowsSurvive'
  BY <1>2 DEF IInv, RowsSurvive
<1> QED BY <1>1, <1>4, <1>6, <1>7 DEF IInv

(* DROP TABLE: all rows are in the copy.                                   *)
LEMMA DropStep ==
    ASSUME IInv, NEW p \in Openers, Migrate(p), NEW t \in Rebuilt,
           opener[p].at = Offset(t) + 3, Drop(t)
    PROVE  IInv'
<1>1. TypeSchema'
  BY MigrateMoves, Tables DEF IInv, TypeSchema, Drop
<1>2. /\ \A u \in Rebuilt : rows'[CopyOf(u)] = rows[CopyOf(u)]
      /\ \A u \in Rebuilt : layout'[CopyOf(u)] = layout[CopyOf(u)]
      /\ \A u \in Rebuilt \ {t} : rows'[u] = rows[u]
      /\ setup' = setup
  BY MigrateMoves, Tables DEF IInv, TypeSchema, Drop
<1>3. \A u \in Rebuilt : /\ Inside(p, u)' => Inside(p, u)
                         /\ Copied(p, u)' => Copied(p, u)
  BY MigrateMoves, Tables
<1>4. CopyThere' /\ Exclusive' /\ Loaded'
  <2>1. \A u \in Rebuilt, q \in Openers :
          /\ Inside(q, u)' => Inside(q, u)
          /\ Copied(q, u)' => Copied(q, u)
    BY <1>2, <1>3, MigrateMoves
  <2>2. Exclusive'
    <3>1. Openers' = Openers /\ Exclusive
      BY MigrateMoves DEF IInv
    <3> QED BY <2>1, <3>1 DEF Exclusive
  <2>3. CopyThere'
    BY <1>2, <1>3, <2>1, MigrateMoves DEF IInv, CopyThere, Exists
  <2>4. Loaded'
    BY <1>2, <1>3, <2>1, MigrateMoves DEF IInv, Loaded
  <2> QED BY <2>2, <2>3, <2>4
<1>5. setup.file # "new" => Rows \subseteq rows[CopyOf(t)]
  BY MigrateMoves, Tables DEF IInv, Loaded
<1>6. RowsSurvive'
  BY <1>2, <1>5 DEF IInv, RowsSurvive
<1> QED BY <1>1, <1>4, <1>6 DEF IInv

(* ALTER TABLE ... RENAME: p leaves, and nobody else was inside.           *)
LEMMA RenameStep ==
    ASSUME IInv, NEW p \in Openers, Migrate(p), NEW t \in Rebuilt,
           opener[p].at = Offset(t) + 4, Rename(t)
    PROVE  IInv'
<1>1. TypeSchema'
  BY MigrateMoves, Tables DEF IInv, TypeSchema, Rename
<1>2. /\ rows'[t] = rows[CopyOf(t)] /\ setup' = setup
      /\ \A u \in Rebuilt \ {t} : /\ rows'[u] = rows[u]
                                  /\ rows'[CopyOf(u)] = rows[CopyOf(u)]
                                  /\ layout'[CopyOf(u)] = layout[CopyOf(u)]
  BY MigrateMoves, Tables DEF IInv, TypeSchema, Rename
<1>3. Inside(p, t) /\ Copied(p, t) /\ ~ Inside(p, t)' /\ ~ Copied(p, t)'
  BY MigrateMoves, Tables
<1>4. \A u \in Rebuilt : /\ Inside(p, u)' => Inside(p, u)
                         /\ Copied(p, u)' => Copied(p, u)
  BY MigrateMoves, Tables
<1>5. \A u \in Rebuilt, q \in Openers : Copied(q, u) => Inside(q, u)
  BY Tables DEF Copied, Inside
<1>6. \A q \in Openers : ~ Inside(q, t)' /\ ~ Copied(q, t)'
  BY <1>3, <1>5, MigrateMoves DEF IInv, Exclusive
<1>7. CopyThere' /\ Exclusive' /\ Loaded'
  <2>1. \A u \in Rebuilt, q \in Openers :
          /\ Inside(q, u)' => Inside(q, u)
          /\ Copied(q, u)' => Copied(q, u)
    BY <1>2, <1>4, <1>6, MigrateMoves
  <2>2. Exclusive'
    <3>1. Openers' = Openers /\ Exclusive
      BY MigrateMoves DEF IInv
    <3> QED BY <2>1, <3>1 DEF Exclusive
  <2>3. CopyThere'
    BY <1>2, <1>4, <1>6, <2>1, MigrateMoves DEF IInv, CopyThere, Exists
  <2>4. Loaded'
    BY <1>2, <1>4, <1>6, <2>1, MigrateMoves DEF IInv, Loaded
  <2> QED BY <2>2, <2>3, <2>4
<1>8. setup.file # "new" => Rows \subseteq rows[CopyOf(t)]
  BY <1>3 DEF IInv, Loaded
<1>9. RowsSurvive'
  BY <1>2, <1>8 DEF IInv, RowsSurvive
<1> QED BY <1>1, <1>7, <1>9 DEF IInv

(* The statements of the script together.                                  *)
LEMMA MigrateStep ==
    ASSUME IInv, NEW p \in Openers, Migrate(p)
    PROVE  IInv'
<1> DEFINE i == opener[p].at
           s == Script[i]
<1>1. i \in 1..15 /\ Execute(s)
  BY MigrateMoves
<1> HIDE DEF i, s
<1>2. CASE s[1] = "create" /\ Create(s[2])
  <2>1. CASE s[2] \in Added
    <3>1. i \in 9..14
      BY <1>1, <1>2, <2>1, ScriptEntries, Tables DEF Added, s
    <3> QED BY <1>2, <2>1, <3>1, CreateAddedStep DEF i
  <2>2. CASE \E t \in Rebuilt : s[2] = CopyOf(t) /\ i = Offset(t) + 1
    BY <1>2, <2>2, CreateCopyStep DEF i
  <2> QED BY <1>1, <1>2, <2>1, <2>2, ScriptEntries, ScriptShape DEF s
<1>3. CASE s[1] = "copy" /\ Copy(s[2])
  BY <1>1, <1>3, ScriptEntries, ScriptShape, CopyStep DEF i, s
<1>4. CASE s[1] = "drop" /\ Drop(s[2])
  BY <1>1, <1>4, ScriptEntries, ScriptShape, DropStep DEF i, s
<1>5. CASE s[1] = "rename" /\ Rename(s[2])
  BY <1>1, <1>5, ScriptEntries, ScriptShape, RenameStep DEF i, s
<1>6. CASE s[1] = "version" /\ SetVersion
  BY <1>1, <1>6, ScriptEntries, ScriptShape, CreateAddedStep DEF i, s
<1>7. s[1] # "ensure"
  BY <1>1, ScriptEntries, ScriptShape DEF s
<1> QED BY <1>1, <1>2, <1>3, <1>4, <1>5, <1>6, <1>7 DEF Execute

-----------------------------------------------------------------------------
(* One command at a time: what a migration has behind it.                  *)

(* Table t is migrated.                                                    *)
Done(t) ==
    /\ layout[t] = 2 /\ layout[CopyOf(t)] = 0
    /\ setup.file # "new" => rows[t] = Rows

(* What version 2 stands for; early files lack capital_allocations.        *)
Migrated == (\A t \in Rebuilt : Done(t)) /\ \A t \in Early : layout[t] = 2
(* What a process that opened the store relies on.                         *)
Complete == (\A t \in Rebuilt : Done(t)) /\ \A t \in Added : layout[t] = 2

(* What the statements of the script before the next one have achieved.    *)
Progress(p) ==
    /\ \A t \in Rebuilt :
         /\ opener[p].at \in Offset(t) + 2..Offset(t) + 4 => layout[CopyOf(t)] = 2
         /\ opener[p].at > Offset(t) + 4 => Done(t)
    /\ \A j \in 9..14 : opener[p].at > j => layout[Script[j][2]] = 2
    /\ 2 \in version <=> opener[p].at = 16

(* A new table is there with its columns of version 2 or not at all.       *)
AddedForm == \A t \in Added : layout[t] \in {0, 2}

(* With one process: the recorded version, the progress of the script and  *)
(* the opened store mean what they say.                                    *)
Sound ==
    /\ 2 \in version => Migrated
    /\ \A p \in Openers :
          /\ At(p, "script") => Progress(p)
          /\ At(p, "open") => Complete /\ ~ active

(* The inductive invariant of OpenedIsWhole.                               *)
WholeInv == AddedForm /\ (Cardinality(Openers) = 1 => Sound)

(* The new tables are those the end of the script creates.                 *)
LEMMA AddedEntries ==
    /\ \A t \in Added : \E j \in 9..14 : Script[j][2] = t
    /\ Early \subseteq Added /\ Added \subseteq Early \cup {"capital_allocations"}
    /\ "capital_allocations" \in Added
BY DEF Script, Added, Early

(* A single process is each process.                                       *)
LEMMA SoleOpener ==
    ASSUME IInv, Cardinality(Openers) = 1
    PROVE  \A p, q \in Openers : p = q
<1>1. IsFiniteSet(Openers)
  BY SetupsAssumption DEF IInv, TypeSchema, Openers
<1> QED BY <1>1, FS_Singleton

(* The new tables are created with the columns of version 2 only.          *)
LEMMA AddedFormStep ==
    ASSUME IInv, AddedForm, [SchemaNext]_schemaVars
    PROVE  AddedForm'
<1>0. layout \in [Table -> 0..2]
  BY DEF IInv, TypeSchema
<1>1. CASE UNCHANGED layout
  BY <1>1 DEF AddedForm
<1>2. ASSUME NEW p \in Openers, CheckVersion(p) PROVE AddedForm'
  <2>1. CASE 2 \notin version
    BY <1>1, <1>2, <2>1 DEF CheckVersion
  <2>2. CASE 2 \in version
    <3>1. layout' = [layout EXCEPT !["capital_allocations"] = IF @ = 0 THEN 2 ELSE @]
      BY <1>2, <2>2 DEF CheckVersion
    <3>2. \A t \in Added : t \in Table
      BY DEF Table
    <3> QED BY <1>0, <3>1, <3>2 DEF AddedForm
  <2> QED BY <2>1, <2>2
<1>3. ASSUME NEW p \in Openers, CreateMissing(p) PROVE AddedForm'
  <2>1. opener[p].at \in 1..2
    BY <1>3 DEF IInv, TypeSchema, CreateMissing, Base, OpenerLocals
  <2>2. PICK t \in Rebuilt : Ensure(t)
    BY <1>3, <2>1 DEF CreateMissing, Execute, Base, Rebuilt
  <2> QED BY <1>0, <2>2, Tables DEF Ensure, AddedForm
<1>4. ASSUME NEW p \in Openers, Migrate(p) PROVE AddedForm'
  <2>1. PICK s : Execute(s) /\ (s[1] \in {"copy", "drop", "rename"} => s[2] \in Rebuilt)
                 /\ s[1] # "ensure"
    BY <1>4, MigrateMoves, ScriptEntries, ScriptShape
  <2>2. ASSUME NEW t, Create(t) PROVE AddedForm'
    BY <1>0, <2>2 DEF Create, AddedForm
  <2>3. ASSUME NEW t \in Rebuilt, Copy(t) \/ Drop(t) \/ Rename(t) PROVE AddedForm'
    BY <1>0, <2>3, Tables DEF Copy, Drop, Rename, AddedForm
  <2>4. CASE SetVersion
    BY <1>1, <2>4 DEF SetVersion
  <2> QED BY <2>1, <2>2, <2>3, <2>4 DEF Execute
<1>5. ASSUME NEW p \in Openers,
             \/ Open(p) \/ BaseDone(p) \/ MigrationRaises(p)
             \/ FinishMigration(p) \/ Close(p) \/ Die(p)
      PROVE  UNCHANGED layout
  BY <1>5 DEF Open, BaseDone, MigrationRaises, FinishMigration, Close, Die, schema
<1>6. CASE UNCHANGED schemaVars
  BY <1>1, <1>6 DEF schemaVars, schema
<1> QED BY <1>1, <1>2, <1>3, <1>4, <1>5, <1>6 DEF SchemaNext, OpenStep

(* For a single process, Sound is about that process.                      *)
LEMMA SoundOf ==
    ASSUME NEW p \in Openers, \A q \in Openers : q = p, setup' = setup,
           2 \in version' => Migrated',
           At(p, "script")' => Progress(p)',
           At(p, "open")' => Complete' /\ ~ active'
    PROVE  Sound'
<1>1. Openers' = Openers
  BY DEF Openers
<1> QED BY <1>1 DEF Sound

(* Tables that keep their form and their rows stay migrated.               *)
LEMMA DoneKept ==
    ASSUME NEW t, Done(t), setup' = setup, rows'[t] = rows[t],
           layout'[t] = layout[t], layout'[CopyOf(t)] = layout[CopyOf(t)]
    PROVE  Done(t)'
BY DEF Done

(* The statements of the script.                                           *)
LEMMA MigrateSound ==
    ASSUME IInv, Sound, NEW p \in Openers, \A q \in Openers : q = p, Migrate(p)
    PROVE  Sound'
<1> DEFINE i == opener[p].at
           s == Script[i]
<1>0. /\ layout \in [Table -> 0..2] /\ rows \in [Table -> SUBSET Rows]
      /\ i \in 1..15 /\ At(p, "script") /\ Execute(s) /\ setup' = setup
      /\ opener'[p].pc = "script" /\ opener'[p].at = i + 1 /\ Progress(p)
  BY MigrateMoves DEF IInv, TypeSchema, Sound
<1>1. /\ \A t \in Rebuilt :
           /\ i \in Offset(t) + 2..Offset(t) + 4 => layout[CopyOf(t)] = 2
           /\ i > Offset(t) + 4 => Done(t)
      /\ \A j \in 9..14 : i > j => layout[Script[j][2]] = 2
      /\ 2 \notin version
  BY <1>0 DEF Progress
<1>02. ~ At(p, "open")'
  BY <1>0 DEF At
<1>2. ASSUME \A t \in Rebuilt :
                /\ i + 1 \in Offset(t) + 2..Offset(t) + 4 => layout'[CopyOf(t)] = 2
                /\ i + 1 > Offset(t) + 4 => Done(t)',
             \A j \in 9..14 : i + 1 > j => layout'[Script[j][2]] = 2,
             2 \in version' <=> i + 1 = 16
      PROVE  Progress(p)'
  BY <1>0, <1>2 DEF Progress
<1> HIDE DEF i, s
<1>3. ASSUME NEW t \in Rebuilt, i = Offset(t) + 1, Create(CopyOf(t)) PROVE Sound'
  <2>1. /\ layout' = [layout EXCEPT ![CopyOf(t)] = 2] /\ rows' = rows /\ version' = version
    BY <1>3 DEF Create
  <2>2. \A u \in Rebuilt : i + 1 \in Offset(u) + 2..Offset(u) + 4 => layout'[CopyOf(u)] = 2
    BY <1>0, <1>3, <2>1, Tables
  <2>3. \A u \in Rebuilt : i + 1 > Offset(u) + 4 => u # t /\ Done(u)
    BY <1>1, <1>3, Tables
  <2>4. \A u \in Rebuilt : u # t => /\ layout'[u] = layout[u] /\ rows'[u] = rows[u]
                                    /\ layout'[CopyOf(u)] = layout[CopyOf(u)]
    BY <1>0, <2>1, Tables
  <2>5. \A u \in Rebuilt : i + 1 > Offset(u) + 4 => Done(u)'
    BY <1>0, <2>3, <2>4, DoneKept
  <2>6. \A j \in 9..14 : ~ (i + 1 > j)
    BY <1>3, Tables
  <2>7. 2 \notin version' /\ i + 1 # 16
    BY <1>1, <1>3, <2>1, Tables
  <2> QED BY <1>0, <1>02, <1>2, <2>2, <2>5, <2>6, <2>7, SoundOf
<1>4. ASSUME NEW t \in Rebuilt, i = Offset(t) + 2, Copy(t) PROVE Sound'
  <2>1. /\ layout' = layout /\ version' = version
        /\ rows' = [rows EXCEPT ![CopyOf(t)] = @ \cup rows[t]]
    BY <1>4 DEF Copy
  <2>2. \A u \in Rebuilt : i + 1 \in Offset(u) + 2..Offset(u) + 4 => layout'[CopyOf(u)] = 2
    BY <1>0, <1>1, <1>4, <2>1, Tables
  <2>3. \A u \in Rebuilt : i + 1 > Offset(u) + 4 => Done(u)
    BY <1>1, <1>4, Tables
  <2>4. \A u \in Rebuilt : rows'[u] = rows[u]
    BY <1>0, <2>1, Tables
  <2>5. \A u \in Rebuilt : i + 1 > Offset(u) + 4 => Done(u)'
    BY <1>0, <2>1, <2>3, <2>4, DoneKept
  <2>6. \A j \in 9..14 : ~ (i + 1 > j)
    BY <1>4, Tables
  <2>7. 2 \notin version' /\ i + 1 # 16
    BY <1>1, <1>4, <2>1, Tables
  <2> QED BY <1>0, <1>02, <1>2, <2>2, <2>5, <2>6, <2>7, SoundOf
<1>5. ASSUME NEW t \in Rebuilt, i = Offset(t) + 3, Drop(t) PROVE Sound'
  <2>1. /\ layout' = [layout EXCEPT ![t] = 0] /\ rows' = [rows EXCEPT ![t] = {}]
        /\ version' = version
    BY <1>5 DEF Drop
  <2>2. \A u \in Rebuilt : i + 1 \in Offset(u) + 2..Offset(u) + 4 => layout'[CopyOf(u)] = 2
    BY <1>0, <1>1, <1>5, <2>1, Tables
  <2>3. \A u \in Rebuilt : i + 1 > Offset(u) + 4 => u # t /\ Done(u)
    BY <1>1, <1>5, Tables
  <2>4. \A u \in Rebuilt : u # t => /\ layout'[u] = layout[u] /\ rows'[u] = rows[u]
                                    /\ layout'[CopyOf(u)] = layout[CopyOf(u)]
    BY <1>0, <2>1, Tables
  <2>5. \A u \in Rebuilt : i + 1 > Offset(u) + 4 => Done(u)'
    BY <1>0, <2>3, <2>4, DoneKept
  <2>6. \A j \in 9..14 : ~ (i + 1 > j)
    BY <1>5, Tables
  <2>7. 2 \notin version' /\ i + 1 # 16
    BY <1>1, <1>5, <2>1, Tables
  <2> QED BY <1>0, <1>02, <1>2, <2>2, <2>5, <2>6, <2>7, SoundOf
<1>6. ASSUME NEW t \in Rebuilt, i = Offset(t) + 4, Rename(t) PROVE Sound'
  <2>1. /\ layout' = [layout EXCEPT ![t] = layout[CopyOf(t)], ![CopyOf(t)] = 0]
        /\ rows' = [rows EXCEPT ![t] = rows[CopyOf(t)], ![CopyOf(t)] = {}]
        /\ version' = version
    BY <1>6 DEF Rename
  <2>2. \A u \in Rebuilt : ~ (i + 1 \in Offset(u) + 2..Offset(u) + 4)
    BY <1>6, Tables
  <2>3. \A u \in Rebuilt : i + 1 > Offset(u) + 4 => u = t \/ Done(u)
    BY <1>1, <1>6, Tables
  <2>4. \A u \in Rebuilt : u # t => /\ layout'[u] = layout[u] /\ rows'[u] = rows[u]
                                    /\ layout'[CopyOf(u)] = layout[CopyOf(u)]
    BY <1>0, <2>1, Tables
  <2>8. Done(t)'
    <3>1. layout[CopyOf(t)] = 2
      BY <1>1, <1>6, Tables
    <3>2. Copied(p, t)
      BY <1>0, <1>6, Tables DEF Copied, i
    <3>3. setup.file # "new" => rows[CopyOf(t)] = Rows
      BY <1>0, <3>2, Tables DEF IInv, Loaded
    <3>4. layout'[t] = 2 /\ layout'[CopyOf(t)] = 0 /\ rows'[t] = rows[CopyOf(t)]
      BY <1>0, <2>1, <3>1, Tables
    <3> QED BY <1>0, <3>3, <3>4 DEF Done
  <2>5. \A u \in Rebuilt : i + 1 > Offset(u) + 4 => Done(u)'
    BY <1>0, <2>3, <2>4, <2>8, DoneKept
  <2>6. \A j \in 9..14 : ~ (i + 1 > j)
    BY <1>6, Tables
  <2>7. 2 \notin version' /\ i + 1 # 16
    BY <1>1, <1>6, <2>1, Tables
  <2> QED BY <1>0, <1>02, <1>2, <2>2, <2>5, <2>6, <2>7, SoundOf
<1>7. ASSUME i \in 9..14, s[2] \in Added, Create(s[2]) PROVE Sound'
  <2>1. /\ layout' = [layout EXCEPT ![s[2]] = 2] /\ rows' = rows /\ version' = version
    BY <1>7 DEF Create
  <2>2. \A u \in Rebuilt : ~ (i + 1 \in Offset(u) + 2..Offset(u) + 4)
    BY <1>7, Tables
  <2>3. \A u \in Rebuilt : Done(u)
    BY <1>1, <1>7, Tables
  <2>4. \A u \in Rebuilt : /\ layout'[u] = layout[u] /\ rows'[u] = rows[u]
                           /\ layout'[CopyOf(u)] = layout[CopyOf(u)]
    BY <1>0, <1>7, <2>1, Tables
  <2>5. \A u \in Rebuilt : Done(u)'
    BY <1>0, <2>3, <2>4, DoneKept
  <2>6. ASSUME NEW j \in 9..14, i + 1 > j PROVE layout'[Script[j][2]] = 2
    <3>1. Script[j][2] \in Table
      BY ScriptEntries, Tables
    <3>2. CASE j = i
      BY <1>0, <2>1, <3>1, <3>2 DEF s
    <3>3. CASE j # i
      BY <1>0, <1>1, <1>7, <2>1, <2>6, <3>1, <3>3
    <3> QED BY <3>2, <3>3
  <2>7. 2 \notin version' /\ i + 1 # 16
    BY <1>1, <1>7, <2>1
  <2> QED BY <1>0, <1>02, <1>2, <2>2, <2>5, <2>6, <2>7, SoundOf
<1>8. ASSUME i = 15, SetVersion PROVE Sound'
  <2>1. /\ layout' = layout /\ rows' = rows /\ version' = version \cup {2}
    BY <1>8 DEF SetVersion
  <2>2. \A u \in Rebuilt : ~ (i + 1 \in Offset(u) + 2..Offset(u) + 4)
    BY <1>8, Tables
  <2>3. \A u \in Rebuilt : Done(u)
    BY <1>1, <1>8, Tables
  <2>5. \A u \in Rebuilt : Done(u)'
    BY <1>0, <2>1, <2>3, DoneKept
  <2>6. \A j \in 9..14 : layout'[Script[j][2]] = 2
    BY <1>1, <1>8, <2>1
  <2>7. Migrated'
    BY <2>5, <2>6, AddedEntries DEF Migrated
  <2>8. 2 \in version' /\ i + 1 = 16
    BY <1>8, <2>1
  <2> QED BY <1>0, <1>02, <1>2, <2>2, <2>5, <2>6, <2>7, <2>8, SoundOf
<1>9. CASE s[1] = "create" /\ Create(s[2])
  <2>1. CASE s[2] \in Added
    <3>1. i \in 9..14
      BY <1>0, <1>9, <2>1, ScriptEntries, Tables DEF Added, s
    <3> QED BY <1>7, <1>9, <2>1, <3>1
  <2>2. CASE \E t \in Rebuilt : s[2] = CopyOf(t) /\ i = Offset(t) + 1
    BY <1>3, <1>9, <2>2
  <2> QED BY <1>0, <1>9, <2>1, <2>2, ScriptEntries, ScriptShape DEF s
<1>10. CASE s[1] = "copy" /\ Copy(s[2])
  BY <1>0, <1>4, <1>10, ScriptEntries, ScriptShape DEF s
<1>11. CASE s[1] = "drop" /\ Drop(s[2])
  BY <1>0, <1>5, <1>11, ScriptEntries, ScriptShape DEF s
<1>12. CASE s[1] = "rename" /\ Rename(s[2])
  BY <1>0, <1>6, <1>12, ScriptEntries, ScriptShape DEF s
<1>13. CASE s[1] = "version" /\ SetVersion
  BY <1>0, <1>8, <1>13, ScriptEntries, ScriptShape DEF s
<1>14. s[1] # "ensure"
  BY <1>0, ScriptEntries, ScriptShape DEF s
<1> QED BY <1>0, <1>9, <1>10, <1>11, <1>12, <1>13, <1>14 DEF Execute

(* The other steps of a process, and what it does with its store.          *)
LEMMA OpenSound ==
    ASSUME IInv, AddedForm, Sound, NEW p \in Openers, \A q \in Openers : q = p,
           \/ OpenStep(p) \/ Close(p) \/ Die(p)
    PROVE  Sound'
<1>0. /\ layout \in [Table -> 0..2] /\ rows \in [Table -> SUBSET Rows]
      /\ opener \in [Openers -> OpenerLocals]
      /\ 2 \in version => Migrated
  BY DEF IInv, TypeSchema, Sound
<1>1. ASSUME NEW label \in {"closed", "base", "check"}, Goto(p, label),
             UNCHANGED <<setup, schema>>
      PROVE  Sound'
  <2>1. ~ At(p, "script")' /\ ~ At(p, "open")'
    BY <1>0, <1>1 DEF Goto, At
  <2>2. UNCHANGED <<setup, layout, rows, version, active>>
    BY <1>1 DEF schema
  <2>3. 2 \in version' => Migrated'
    BY <1>0, <2>2 DEF Migrated, Done
  <2> QED BY <2>1, <2>2, <2>3, SoundOf
<1>2. CASE CreateMissing(p)
  <2>1. PICK t \in Rebuilt : Ensure(t) /\ setup' = setup
    <3>1. opener[p].at \in 1..2
      BY <1>2 DEF IInv, TypeSchema, CreateMissing, Base, OpenerLocals
    <3> QED BY <1>2, <3>1 DEF CreateMissing, Execute, Base, Rebuilt
  <2>2. ~ At(p, "script")' /\ ~ At(p, "open")'
    BY <1>0, <1>2 DEF CreateMissing, Advance, At, OpenerLocals
  <2>3. version' = version /\ rows' = rows
    BY <2>1 DEF Ensure
  <2>4. 2 \in version => layout' = layout
    <3> SUFFICES ASSUME 2 \in version PROVE layout' = layout
      OBVIOUS
    <3>1. layout[t] = 2
      BY <1>0, <2>1 DEF Migrated, Done
    <3> QED BY <1>0, <2>1, <3>1, Tables DEF Ensure, Exists
  <2>5. 2 \in version' => Migrated'
    BY <1>0, <2>1, <2>3, <2>4 DEF Migrated, Done
  <2> QED BY <2>1, <2>2, <2>5, SoundOf
<1>3. CASE CheckVersion(p)
  <2>1. version' = version \cup {1} /\ setup' = setup /\ rows' = rows
    BY <1>3 DEF CheckVersion
  <2>2. CASE 2 \notin version
    <3>1. /\ 2 \notin version' /\ opener'[p].pc = "script" /\ opener'[p].at = 1
      BY <1>0, <1>3, <2>1, <2>2 DEF CheckVersion, Goto
    <3>2. ~ At(p, "open")' /\ Progress(p)'
      BY <3>1, Tables DEF At, Progress
    <3> QED BY <2>1, <3>1, <3>2, SoundOf
  <2>3. CASE 2 \in version
    <3>1. /\ layout' = [layout EXCEPT !["capital_allocations"] = IF @ = 0 THEN 2 ELSE @]
          /\ active' = FALSE /\ opener'[p].pc = "open"
      BY <1>0, <1>3, <2>3 DEF CheckVersion, Goto
    <3>2. \A t \in Rebuilt : layout'[t] = layout[t] /\ layout'[CopyOf(t)] = layout[CopyOf(t)]
      BY <1>0, <3>1, Tables, AddedEntries
    <3>3. \A t \in Rebuilt : Done(t)'
      BY <1>0, <2>1, <2>3, <3>2, DoneKept DEF Migrated
    <3>4. \A t \in Added : layout'[t] = 2
      BY <1>0, <2>3, <3>1, AddedEntries, Tables DEF Migrated, AddedForm
    <3>5. Migrated' /\ Complete' /\ ~ At(p, "script")'
      BY <3>1, <3>3, <3>4, AddedEntries DEF Migrated, Complete, At
    <3> QED BY <2>1, <3>1, <3>5, SoundOf
  <2> QED BY <2>2, <2>3
<1>4. CASE FinishMigration(p)
  <2>1. opener[p].at = 16 /\ At(p, "script")
    BY <1>0, <1>4, ScriptEntries DEF FinishMigration, OpenerLocals
  <2>2. Progress(p)
    BY <2>1 DEF Sound
  <2>3. \A t \in Rebuilt : Done(t)
    BY <2>1, <2>2, Tables DEF Progress
  <2>4. \A t \in Added : layout[t] = 2
    BY <2>1, <2>2, AddedEntries DEF Progress
  <2>5. UNCHANGED <<setup, layout, rows, version>> /\ active' = FALSE
        /\ opener'[p].pc = "open"
    BY <1>0, <1>4 DEF FinishMigration, Goto
  <2>6. Migrated' /\ Complete' /\ ~ At(p, "script")'
    BY <2>3, <2>4, <2>5, AddedEntries DEF Migrated, Complete, Done, At
  <2> QED BY <2>5, <2>6, SoundOf
<1> QED BY <1>1, <1>2, <1>3, <1>4, MigrateSound
        DEF OpenStep, Open, BaseDone, MigrationRaises, Close, Die, Exit

(* WholeInv is inductive together with IInv.                               *)
LEMMA NextWhole ==
    ASSUME IInv, WholeInv, [SchemaNext]_schemaVars
    PROVE  WholeInv'
<1>1. AddedForm'
  BY AddedFormStep DEF WholeInv
<1>2. ASSUME (Cardinality(Openers) = 1)' PROVE Sound'
  <2>1. CASE UNCHANGED schemaVars
    <3>1. UNCHANGED <<setup, layout, rows, version, active, opener>>
      BY <2>1 DEF schemaVars, schema
    <3> QED BY <1>2, <3>1 DEF WholeInv, Sound, Migrated, Complete, Progress, Done, At, Openers
  <2>2. ASSUME NEW p \in Openers, OpenStep(p) \/ Close(p) \/ Die(p) PROVE Sound'
    <3>1. setup' = setup
      BY <2>2 DEF OpenStep, Open, CreateMissing, BaseDone, CheckVersion, Migrate,
         MigrationRaises, FinishMigration, Close, Die
    <3>2. Cardinality(Openers) = 1
      BY <1>2, <3>1 DEF Openers
    <3> QED BY <2>2, <3>2, SoleOpener, OpenSound DEF WholeInv
  <2> QED BY <2>1, <2>2 DEF SchemaNext
<1> QED BY <1>1, <1>2 DEF WholeInv

(* A file of version 2 is whole, of one process or not.                    *)
LEMMA InitWhole == SchemaInit => WholeInv
<1> SUFFICES ASSUME SchemaInit PROVE WholeInv
  OBVIOUS
<1>1. PICK old, cur : /\ old = (setup.file = "v1") /\ cur = (setup.file = "early v2")
                      /\ layout = [t \in Table |->
                                      CASE old /\ t \in Rebuilt -> 1
                                        [] cur /\ t \in Rebuilt \cup Early -> 2
                                        [] OTHER -> 0]
                      /\ version = IF cur THEN {1, 2} ELSE IF old THEN {1} ELSE {}
                      /\ rows = [t \in Table |->
                                    IF setup.file # "new" /\ t \in Rebuilt THEN Rows ELSE {}]
  BY DEF SchemaInit
<1>2. ~ (old /\ cur)
  BY <1>1
<1>3. \A t \in Added : layout[t] \in {0, 2}
  BY <1>1, Tables
<1>4. \A p \in Openers : opener[p].pc = "closed"
  BY DEF SchemaInit, Closed
<1>5. 2 \in version => cur
  <2>1. CASE setup.file = "early v2"
    BY <1>1, <2>1
  <2>2. CASE setup.file # "early v2"
    <3>1. version \in {{}, {1}}
      BY <1>1, <2>2
    <3> QED BY <3>1
  <2> QED BY <2>1, <2>2
<1>6. ASSUME cur PROVE Migrated
  <2>1. \A t \in Rebuilt : layout[t] = 2 /\ layout[CopyOf(t)] = 0 /\ rows[t] = Rows
    BY <1>1, <1>2, <1>6, Tables, AddedEntries
  <2>2. \A t \in Early : layout[t] = 2
    BY <1>1, <1>2, <1>6, Tables, AddedEntries
  <2> QED BY <2>1, <2>2 DEF Migrated, Done
<1> QED BY <1>3, <1>4, <1>5, <1>6 DEF WholeInv, AddedForm, Sound, At

-----------------------------------------------------------------------------
(* Theorems.                                                               *)

(* The old file satisfies it.                                              *)
LEMMA InitIInv == SchemaInit => IInv
<1> SUFFICES ASSUME SchemaInit PROVE IInv
  OBVIOUS
<1>1. TypeSchema
  <2>1. layout \in [Table -> 0..2] /\ rows \in [Table -> SUBSET Rows]
    <3>1. \E old, cur : layout = [t \in Table |->
                                  CASE old /\ t \in Rebuilt -> 1
                                    [] cur /\ t \in Rebuilt \cup Early -> 2
                                    [] OTHER -> 0]
      BY DEF SchemaInit
    <3>2. layout \in [Table -> 0..2]
      BY <3>1
    <3> QED BY <3>2 DEF SchemaInit
  <2>2. setup \in Setups /\ version \in SUBSET {1, 2} /\ active \in BOOLEAN
    BY DEF SchemaInit
  <2>3. opener \in [Openers -> OpenerLocals]
    <3>1. Closed \in OpenerLocals
      BY ScriptEntries DEF Closed, OpenerLocals, Label
    <3> QED BY <3>1 DEF SchemaInit
  <2> QED BY <2>1, <2>2, <2>3 DEF TypeSchema
<1>2. \A t \in Rebuilt, p \in Openers : ~ Inside(p, t) /\ ~ Copied(p, t)
  BY DEF SchemaInit, Closed, Inside, Copied, At
<1>3. RowsSurvive
  BY Tables DEF SchemaInit, RowsSurvive
<1> QED BY <1>1, <1>2, <1>3 DEF IInv, CopyThere, Exclusive, Loaded

(* Every step keeps it.                                                    *)
LEMMA NextIInv == IInv /\ [SchemaNext]_schemaVars => IInv'
<1> SUFFICES ASSUME IInv, [SchemaNext]_schemaVars PROVE IInv'
  OBVIOUS
<1>1. CASE UNCHANGED schemaVars
  <2>1. /\ setup' = setup /\ layout' = layout /\ rows' = rows
        /\ version' = version /\ active' = active /\ opener' = opener
    BY <1>1 DEF schemaVars, schema
  <2>2. TypeSchema'
    BY <2>1 DEF IInv, TypeSchema, Openers
  <2> QED BY <2>1, <2>2, QuietStep DEF Inside, Copied, At, Exists
<1>2. CASE SchemaNext
  BY <1>2, PlainSteps, CreateMissingStep, MigrateStep DEF SchemaNext, OpenStep
<1> QED BY <1>1, <1>2

(* However many processes open the store at once, and wherever they die,   *)
(* every order and fill of the old file is in its table or in the copy     *)
(* (initialize, _migrate_v2).                                              *)
THEOREM SchemaKeepsRows == SchemaSpec => []RowsSurvive
<1>1. SchemaInit => IInv
  BY InitIInv
<1>2. IInv /\ [SchemaNext]_schemaVars => IInv'
  BY NextIInv
<1>3. IInv => RowsSurvive
  BY DEF IInv
<1> QED BY <1>1, <1>2, <1>3, PTL DEF SchemaSpec

(* initialize returns only with _migrate_v2 through: a store that the only *)
(* command opens is complete, however often a migration died before.       *)
THEOREM SchemaOpensWhole == SchemaSpec => []OpenedIsWhole
<1>1. SchemaInit => IInv /\ WholeInv
  BY InitIInv, InitWhole
<1>2. IInv /\ WholeInv /\ [SchemaNext]_schemaVars => (IInv /\ WholeInv)'
  BY NextIInv, NextWhole
<1>3. IInv /\ WholeInv => OpenedIsWhole
  BY DEF WholeInv, Sound, Complete, Done, OpenedIsWhole, Exists
<1> QED BY <1>1, <1>2, <1>3, PTL DEF SchemaSpec

(* A weather update opens the store as every command does: its steps are   *)
(* steps of the opening or leave the schema alone (weather_update,         *)
(* StateStore).                                                            *)
THEOREM WeatherOpensStore == Spec => SchemaSpec
<1>1. Init => SchemaInit
  BY DEF Init
<1>2. [Next]_vars => [SchemaNext]_schemaVars
  <2> SUFFICES ASSUME [Next]_vars PROVE [SchemaNext]_schemaVars
    OBVIOUS
  <2>1. CASE UNCHANGED vars
    BY <2>1 DEF vars
  <2>2. CASE SessionCloses
    BY <2>2 DEF SessionCloses
  <2>3. ASSUME NEW p \in Openers,
               \/ OpenStep(p) /\ UNCHANGED weatherVars
               \/ BeginUpdate(p) \/ SaveSnapshot(p)
               \/ EndCommand(p) \/ DieUpdating(p)
        PROVE  [SchemaNext]_schemaVars
    BY <2>3 DEF BeginUpdate, SaveSnapshot, EndCommand, DieUpdating, SchemaNext
  <2> QED BY <2>1, <2>2, <2>3 DEF Next
<1> QED BY <1>1, <1>2, PTL DEF Spec, SchemaSpec

(* So weather updates keep the rows of the old file as well               *)
(* (initialize, weather_update).                                           *)
THEOREM UpdatesKeepRows == Spec => []RowsSurvive
BY SchemaKeepsRows, WeatherOpensStore, PTL

(* And the store a weather update saves to is complete (initialize,        *)
(* weather_update).                                                        *)
THEOREM UpdatesOpenWhole == Spec => []OpenedIsWhole
BY SchemaOpensWhole, WeatherOpensStore, PTL

-----------------------------------------------------------------------------
(* The weather.                                                            *)

(* A set of natural numbers that is not empty has a least element.         *)
LEMMA LeastElement ==
    ASSUME NEW S \in SUBSET Nat, S # {}
    PROVE  \E m \in S : \A x \in S : m <= x
<1>1. IsWellFoundedOn(OpToRel(<, Nat), Nat)
  BY NatLessThanWellFounded
<1>2. PICK m \in S : \A x \in S : ~ (<<x, m>> \in OpToRel(<, Nat))
  BY <1>1, WFMin
<1>3. \A x \in S : ~ (x < m)
  BY <1>2 DEF OpToRel
<1> QED BY <1>3

(* And a bounded one a greatest.                                           *)
LEMMA GreatestElement ==
    ASSUME NEW k \in Nat, NEW S \in SUBSET (1..k), S # {}
    PROVE  Max(S) \in S /\ \A x \in S : x <= Max(S)
<1> DEFINE T == {k - x : x \in S}
<1>1. T \in SUBSET Nat /\ T # {}
  OBVIOUS
<1>2. PICK m \in T : \A y \in T : m <= y
  BY <1>1, LeastElement
<1>3. PICK x \in S : m = k - x
  BY <1>2
<1>4. \A y \in S : x >= y
  <2>1. SUFFICES ASSUME NEW y \in S PROVE x >= y
    OBVIOUS
  <2>2. m <= k - y
    BY <1>2
  <2> QED BY <1>3, <2>2
<1> HIDE DEF T
<1>5. Max(S) \in S /\ \A y \in S : Max(S) >= y
  BY <1>3, <1>4 DEF Max
<1> QED BY <1>5

(* The larger and the smaller of two numbers.                              *)
LEMMA OfTwo ==
    ASSUME NEW a \in Int, NEW b \in Int
    PROVE  /\ Max({a, b}) = IF a >= b THEN a ELSE b
           /\ Min({a, b}) = IF a <= b THEN a ELSE b
<1>1. \E x \in {a, b} : \A y \in {a, b} : x >= y
  OBVIOUS
<1>2. Max({a, b}) \in {a, b} /\ \A y \in {a, b} : Max({a, b}) >= y
  BY <1>1 DEF Max
<1>3. \E x \in {a, b} : \A y \in {a, b} : x <= y
  OBVIOUS
<1>4. Min({a, b}) \in {a, b} /\ \A y \in {a, b} : Min({a, b}) <= y
  BY <1>3 DEF Min
<1> QED BY <1>2, <1>4

(* The state of d has lasted for n sessions, as far as the states S are    *)
(* known from session "from" on.                                           *)
Lasted(S, from, d, n) ==
    /\ n \in 1..(d - from + 1)
    /\ \A i \in 0..n - 1 : S[d - i] = S[d]
    /\ n < d - from + 1 => S[d - n] # S[d]

(* A state lasts for one number of sessions.                               *)
LEMMA LastedOnce ==
    ASSUME NEW S, NEW from \in Nat, NEW d \in Nat, from <= d, NEW n, NEW m,
           Lasted(S, from, d, n), Lasted(S, from, d, m)
    PROVE  n = m
<1>1. n \in 1..(d - from + 1) /\ m \in 1..(d - from + 1)
  BY DEF Lasted
<1>2. ASSUME n < m PROVE FALSE
  <2>1. n \in 0..m - 1 /\ n < d - from + 1
    BY <1>1, <1>2
  <2> QED BY <2>1 DEF Lasted
<1>3. ASSUME m < n PROVE FALSE
  <2>1. m \in 0..n - 1 /\ m < d - from + 1
    BY <1>1, <1>3
  <2> QED BY <2>1 DEF Lasted
<1> QED BY <1>1, <1>2, <1>3

(* It lasts for one session more when it stays, and for one when it        *)
(* changes.                                                                *)
LEMMA LastedNext ==
    ASSUME NEW S, NEW from \in Nat, NEW d \in Nat, from < d, NEW n,
           Lasted(S, from, d - 1, n)
    PROVE  Lasted(S, from, d, IF S[d] = S[d - 1] THEN n + 1 ELSE 1)
<1>1. n \in Nat /\ 1 <= n /\ n <= d - from
  BY DEF Lasted
<1>2. CASE S[d] = S[d - 1]
  <2>1. ASSUME NEW i \in 0..(n + 1) - 1
        PROVE  S[d - i] = S[d]
    <3>1. CASE i = 0
      BY <3>1
    <3>2. CASE i # 0
      <4>1. i - 1 \in 0..n - 1 /\ (d - 1) - (i - 1) = d - i
        BY <1>1, <3>2
      <4>2. S[(d - 1) - (i - 1)] = S[d - 1]
        BY <4>1 DEF Lasted
      <4> QED BY <1>2, <4>1, <4>2
    <3> QED BY <3>1, <3>2
  <2>2. ASSUME n + 1 < d - from + 1
        PROVE  S[d - (n + 1)] # S[d]
    <3>1. n < (d - 1) - from + 1 /\ (d - 1) - n = d - (n + 1)
      BY <1>1, <2>2
    <3>2. S[(d - 1) - n] # S[d - 1]
      BY <3>1 DEF Lasted
    <3> QED BY <1>2, <3>1, <3>2
  <2>3. n + 1 \in 1..(d - from + 1)
    BY <1>1
  <2> QED BY <1>2, <2>1, <2>2, <2>3 DEF Lasted
<1>3. CASE S[d] # S[d - 1]
  <2>1. 1 \in 1..(d - from + 1) /\ \A i \in 0..1 - 1 : d - i = d
    BY <1>1
  <2> QED BY <1>3, <2>1 DEF Lasted
<1> QED BY <1>2, <1>3

(* The first session of all stands alone.                                  *)
LEMMA LastedFirst ==
    ASSUME NEW S, NEW d \in Nat
    PROVE  Lasted(S, d, d, 1)
<1>1. 1 \in 1..(d - d + 1) /\ (\A i \in 0..1 - 1 : d - i = d) /\ ~ (1 < d - d + 1)
  OBVIOUS
<1> QED BY <1>1 DEF Lasted

(* Every state has lasted for some number of sessions.                     *)
LEMMA LastedSome ==
    ASSUME NEW S, NEW from \in Nat, NEW d \in Nat, from <= d
    PROVE  \E n : Lasted(S, from, d, n)
<1> DEFINE Bad == {x \in Nat : from <= x /\ ~ \E n : Lasted(S, from, x, n)}
<1>1. SUFFICES ASSUME Bad # {} PROVE FALSE
  OBVIOUS
<1>2. PICK x \in Bad : \A y \in Bad : x <= y
  <2>1. Bad \in SUBSET Nat
    OBVIOUS
  <2> HIDE DEF Bad
  <2> QED BY <1>1, <2>1, LeastElement
<1>3. x # from
  BY <1>2, LastedFirst
<1>4. x - 1 \in Nat /\ from <= x - 1 /\ x - 1 \notin Bad
  BY <1>2, <1>3
<1>5. PICK n : Lasted(S, from, x - 1, n)
  BY <1>4
<1>6. \E k : Lasted(S, from, x, k)
  <2>1. x \in Nat /\ from < x
    BY <1>2, <1>3
  <2>2. Lasted(S, from, x, IF S[x] = S[x - 1] THEN n + 1 ELSE 1)
    BY ONLY <1>5, <2>1, from \in Nat, LastedNext
  <2> QED BY <2>2
<1> QED BY <1>2, <1>6

(* The durations of a window, a session from the one before it.            *)
NextDurations(S, first, e, g) ==
    [d \in first..e |->
       IF d > first /\ S[d] = S[d - 1] THEN g[d - 1] + 1 ELSE 1]

(* Durations that satisfy the recursion say how long states have lasted.   *)
LEMMA DurationsLast ==
    ASSUME NEW S, NEW first \in Nat, NEW e \in Int,
           NEW g, g = NextDurations(S, first, e, g)
    PROVE  \A d \in first..e : Lasted(S, first, d, g[d])
<1> DEFINE Bad == {x \in first..e : ~ Lasted(S, first, x, g[x])}
<1>1. SUFFICES ASSUME Bad # {} PROVE FALSE
  OBVIOUS
<1>2. PICK x \in Bad : \A y \in Bad : x <= y
  <2>1. Bad \in SUBSET Nat
    OBVIOUS
  <2> HIDE DEF Bad
  <2> QED BY <1>1, <2>1, LeastElement
<1>3. x \in first..e /\ x \in Nat
  BY <1>2
<1>4. g[x] = IF x > first /\ S[x] = S[x - 1] THEN g[x - 1] + 1 ELSE 1
  BY <1>3 DEF NextDurations
<1>5. CASE x = first
  BY <1>2, <1>4, <1>5, LastedFirst
<1>6. CASE x > first
  <2>1. x - 1 \in first..e /\ x - 1 \notin Bad
    BY <1>2, <1>3, <1>6
  <2>2. Lasted(S, first, x - 1, g[x - 1])
    BY <2>1
  <2>3. Lasted(S, first, x, IF S[x] = S[x - 1] THEN g[x - 1] + 1 ELSE 1)
    BY <1>3, <1>6, <2>2, LastedNext
  <2> QED BY <1>2, <1>4, <1>6, <2>3
<1> QED BY <1>3, <1>5, <1>6

(* There are such durations.                                               *)
LEMMA DurationsExist ==
    ASSUME NEW S, NEW first \in Nat, NEW e \in Int
    PROVE  \E g : g = NextDurations(S, first, e, g)
<1> DEFINE long(x) == CHOOSE n : Lasted(S, first, x, n)
           g == [x \in first..e |-> long(x)]
<1>1. \A x \in first..e : Lasted(S, first, x, long(x))
  <2> SUFFICES ASSUME NEW x \in first..e PROVE Lasted(S, first, x, long(x))
    OBVIOUS
  <2>1. x \in Nat /\ first <= x
    OBVIOUS
  <2>2. \E n : Lasted(S, first, x, n)
    BY <2>1, LastedSome
  <2> QED BY <2>2, Zenon
<1>2. ASSUME NEW x \in first..e
      PROVE  long(x) = IF x > first /\ S[x] = S[x - 1] THEN g[x - 1] + 1 ELSE 1
  <2>1. Lasted(S, first, x, long(x))
    BY <1>1
  <2> HIDE DEF long
  <2>2. CASE x = first
    <3>1. x \in Nat /\ Lasted(S, x, x, 1) /\ Lasted(S, x, x, long(x))
      BY <2>1, <2>2, LastedFirst
    <3>2. long(x) = 1
      BY <3>1, LastedOnce
    <3> QED BY <2>2, <3>2
  <2>3. CASE x > first
    <3>1. x - 1 \in first..e /\ g[x - 1] = long(x - 1)
      BY <2>3
    <3>2. Lasted(S, first, x - 1, long(x - 1))
      BY <1>1, <3>1
    <3>3. Lasted(S, first, x, IF S[x] = S[x - 1] THEN long(x - 1) + 1 ELSE 1)
      BY <2>3, <3>2, LastedNext
    <3>4. x \in Nat /\ first <= x
      BY <2>3
    <3>5. long(x) = IF S[x] = S[x - 1] THEN long(x - 1) + 1 ELSE 1
      BY ONLY <2>1, <3>3, <3>4, first \in Nat, LastedOnce
    <3> QED BY <2>3, <3>1, <3>5
  <2> QED BY <2>2, <2>3
<1> HIDE DEF long
<1>3. g = NextDurations(S, first, e, g)
  BY <1>2 DEF NextDurations
<1> QED BY <1>3

(* The states of the sessions an update saves.                             *)
States(from, e) ==
    [x \in First(from, e)..e |-> StateOf(x, from, First(from, e))]

(* The durations that the recursion picks.                                 *)
Durations(from, e) ==
    CHOOSE f : f = NextDurations(States(from, e), First(from, e), e, f)

(* The history of a window has them.                                       *)
LEMMA HistoryIs ==
    ASSUME NEW from, NEW e
    PROVE  History(from, e) = [d \in First(from, e)..e |->
             [state |-> States(from, e)[d], duration |-> Durations(from, e)[d]]]
BY Zenon DEF History, Durations, NextDurations, States

(* So a row of a history says what the sessions of its window say.         *)
LEMMA HistoryLast ==
    ASSUME NEW from, NEW e \in Int, First(from, e) \in Nat, NEW d \in First(from, e)..e
    PROVE  /\ History(from, e)[d].state = StateOf(d, from, First(from, e))
           /\ Lasted(States(from, e), First(from, e), d, History(from, e)[d].duration)
           /\ History(from, e)[d] = [state |-> History(from, e)[d].state,
                                     duration |-> History(from, e)[d].duration]
<1>1. PICK g : g = Durations(from, e)
  OBVIOUS
<1>2. g = NextDurations(States(from, e), First(from, e), e, g)
  <2>1. \E f : f = NextDurations(States(from, e), First(from, e), e, f)
    BY DurationsExist
  <2> QED BY <1>1, <2>1, Zenon DEF Durations
<1>3. Lasted(States(from, e), First(from, e), d, g[d])
  BY <1>2, DurationsLast
<1>4. States(from, e)[d] = StateOf(d, from, First(from, e))
  BY DEF States
<1> QED BY <1>1, <1>3, <1>4, HistoryIs

(* The true states of all sessions.                                        *)
TrueStates == [x \in Nat |-> TrueState(x)]

(* The duration computed from all sessions.                                *)
LEMMA TrueDurationLasts ==
    ASSUME NEW d \in Nat \ {0}
    PROVE  Lasted(TrueStates, 1, d, TrueDuration(d))
<1> DEFINE Since == {n \in 1..d : \A i \in 0..n - 1 : TrueState(d - i) = TrueState(d)}
<1>1. Since \in SUBSET (1..d) /\ 1 \in Since
  OBVIOUS
<1>2. TrueDuration(d) = Max(Since)
  BY DEF TrueDuration
<1>3. PICK m : m = Max(Since)
  OBVIOUS
<1>4. m \in Since /\ \A n \in Since : n <= m
  <2> HIDE DEF Since
  <2> QED BY <1>1, <1>3, GreatestElement
<1>5. ASSUME m < d - 1 + 1
      PROVE  TrueState(d - m) # TrueState(d)
  <2>1. SUFFICES ASSUME TrueState(d - m) = TrueState(d) PROVE FALSE
    OBVIOUS
  <2>2. ASSUME NEW i \in 0..(m + 1) - 1
        PROVE  TrueState(d - i) = TrueState(d)
    <3>1. CASE i = m
      BY <2>1, <3>1
    <3>2. CASE i # m
      BY <1>4, <3>2
    <3> QED BY <3>1, <3>2
  <2>3. m + 1 \in Since
    BY <1>4, <1>5, <2>2
  <2> QED BY <1>4, <2>3
<1>6. m \in 1..(d - 1 + 1) /\ \A i \in 0..m - 1 : TrueState(d - i) = TrueState(d)
  BY <1>4
<1>7. \A i \in 0..m : d - i \in Nat /\ TrueStates[d - i] = TrueState(d - i)
  BY <1>6 DEF TrueStates
<1>8. TrueStates[d] = TrueState(d)
  BY DEF TrueStates
<1>9. m \in 0..m /\ \A i \in 0..m - 1 : i \in 0..m
  BY <1>6
<1>10. (\A i \in 0..m - 1 : TrueStates[d - i] = TrueStates[d])
       /\ (m < d - 1 + 1 => TrueStates[d - m] # TrueStates[d])
  BY <1>5, <1>6, <1>7, <1>8, <1>9
<1> QED BY <1>2, <1>3, <1>6, <1>10 DEF Lasted

(* A session whose year is in the window says what it truly says.          *)
LEMMA KnownSignal ==
    ASSUME NEW from \in Nat, NEW s \in Nat, from + YearLength - 1 <= s
    PROVE  SignalOf(s, from) = TrueSignal(s)
<1>1. YearLength \in Nat /\ s - from + 1 >= YearLength
  BY WeatherAssumption
<1>2. Min({s - from + 1, YearLength}) = YearLength
  <2>1. PICK k : k = s - from + 1
    OBVIOUS
  <2>2. k \in Int /\ YearLength \in Int /\ YearLength <= k
    BY <1>1, <2>1
  <2>3. Min({k, YearLength}) = IF k <= YearLength THEN k ELSE YearLength
    BY <2>2, OfTwo
  <2> QED BY <2>1, <2>2, <2>3
<1> QED BY <1>2 DEF SignalOf, TrueSignal

(* A session has its true state when the year of all the sessions whose    *)
(* stress it remembers is in the window.                                   *)
LEMMA KnownState ==
    ASSUME NEW from \in Nat \ {0}, NEW i \in Nat, NEW e, Known(from) <= i
    PROVE  StateOf(i, from, First(from, e)) = TrueState(i)
<1>1. StressMemory \in Nat /\ YearLength \in Nat /\ MinimumSessions \in Nat \ {0}
      /\ MinimumSessions <= YearLength
  BY WeatherAssumption
<1>2. i - StressMemory \in Int /\ from + YearLength - 1 <= i - StressMemory
  BY <1>1 DEF Known
<1>3. First(from, e) \in Int /\ First(from, e) <= i - StressMemory /\ 1 <= i - StressMemory
  BY <1>1, <1>2 DEF First
<1>4. Max({First(from, e), i - StressMemory}) = i - StressMemory
      /\ Max({1, i - StressMemory}) = i - StressMemory
  BY <1>2, <1>3, OfTwo
<1>5. \A s \in (i - StressMemory)..i : SignalOf(s, from) = TrueSignal(s)
  BY <1>1, <1>2, <1>3, KnownSignal
<1>6. i \in (i - StressMemory)..i
  BY <1>1
<1>7. SignalOf(i, from) = TrueSignal(i)
  BY <1>5, <1>6
<1>8. (\E s \in (i - StressMemory)..i : Stress(s, from))
        <=> (\E s \in (i - StressMemory)..i : TrueSignal(s) \in {"red", "orange"})
  BY <1>5 DEF Stress
<1> QED BY <1>4, <1>7, <1>8 DEF StateOf, TrueState

(* The last k states of S are those of T.                                  *)
Agree(S, T, d, k) == \A i \in 0..k - 1 : S[d - i] = T[d - i]

(* Durations of states that agree agree as far as the states do.           *)
LEMMA SameDuration ==
    ASSUME NEW S, NEW T, NEW from \in Nat \ {0}, NEW d \in Nat, from <= d,
           NEW k \in Nat \ {0}, k <= d - from + 1,
           Agree(S, T, d, k), NEW n, Lasted(S, from, d, n), NEW m, Lasted(T, 1, d, m)
    PROVE  Min({k, n}) = Min({k, m})
<1>1. n \in 1..(d - from + 1) /\ m \in 1..(d - 1 + 1)
  BY DEF Lasted
<1> USE DEF Agree
<1>2. S[d] = T[d]
  <2>1. 0 \in 0..k - 1 /\ d - 0 = d
    OBVIOUS
  <2> QED BY <2>1
<1>3. CASE n < k
  <2>1. ASSUME NEW i \in 0..n - 1 PROVE T[d - i] = T[d]
    <3>1. i \in 0..k - 1
      BY <1>1, <1>3
    <3>2. S[d - i] = S[d]
      BY DEF Lasted
    <3> QED BY <1>2, <3>1, <3>2
  <2>2. T[d - n] # T[d]
    <3>1. n < d - from + 1 /\ n \in 0..k - 1
      BY <1>1, <1>3
    <3>2. S[d - n] # S[d]
      BY <3>1 DEF Lasted
    <3> QED BY <1>2, <3>1, <3>2
  <2>3. n \in 1..(d - 1 + 1)
    BY <1>1
  <2>4. Lasted(T, 1, d, n)
    BY <2>1, <2>2, <2>3 DEF Lasted
  <2>5. n = m
    BY <1>1, <2>4, LastedOnce
  <2> QED BY <2>5
<1>4. CASE n >= k
  <2>1. m >= k
    <3>1. SUFFICES ASSUME m < k PROVE FALSE
      BY <1>1
    <3>2. m < d - 1 + 1 /\ m \in 0..k - 1 /\ m \in 0..n - 1
      BY <1>1, <1>4, <3>1
    <3>3. T[d - m] # T[d]
      BY <3>2 DEF Lasted
    <3>4. S[d - m] = S[d]
      BY <3>2 DEF Lasted
    <3> QED BY <1>2, <3>2, <3>3, <3>4
  <2>2. k \in Int /\ n \in Int /\ m \in Int /\ k <= n /\ k <= m
    BY <1>1, <1>4, <2>1
  <2>3. Min({k, n}) = k /\ Min({k, m}) = k
    BY ONLY <2>2, OfTwo
  <2> QED BY <2>3
<1> QED BY <1>1, <1>3, <1>4

(* A stored row is of the window of an update that began at its basis.     *)
WindowRow(d, e) ==
    LET from == basis[d] IN
    /\ from \in Nat \ {0}
    /\ d \in First(from, e)..e
    /\ weather[d].state = StateOf(d, from, First(from, e))
    /\ Lasted(States(from, e), First(from, e), d, weather[d].duration)

RowsOfWindows == \A d \in Stored : \E e \in Session : WindowRow(d, e)

(* So is the row that an update is at.                                     *)
InWindow(u) ==
    /\ u.from \in Nat \ {0} /\ u.end \in Session
    /\ u.next \in First(u.from, u.end)..u.end

UpdatesInWindow == \A p \in Openers : update[p] # Idle => InWindow(update[p])

WeatherInv == TypeOK /\ RowsOfWindows /\ UpdatesInWindow

(* What an update saves is of sessions.                                    *)
LEMMA Windows ==
    ASSUME NEW from \in Nat \ {0}, NEW e \in Session
    PROVE  /\ First(from, e) \in Nat \ {0} /\ e \in Nat /\ from <= First(from, e)
           /\ First(from, e)..e \subseteq Session
BY WeatherAssumption DEF First, Session

(* The newest row, when it counts as fresh, says what all sessions say.    *)
LEMMA FreshRow ==
    ASSUME TypeOK, RowsOfWindows
    PROVE  FreshWeatherIsTrue
<1>1. SUFFICES ASSUME Fresh, NEW d, d = Max(Stored), Known(basis[d]) <= d
      PROVE  /\ weather[d].state = TrueState(d)
             /\ Min({d - Known(basis[d]) + 1, weather[d].duration})
                  = Min({d - Known(basis[d]) + 1, TrueDuration(d)})
  <2>1. ASSUME NEW d \in Stored, Known(basis[d]) \in Int, d \in Int,
               d >= Known(basis[d]) PROVE Known(basis[d]) <= d
    BY <2>1
  <2>2. Fresh => Max(Stored) \in Stored
    <3>1. Stored \in SUBSET (1..LastSession) /\ LastSession \in Nat
      BY WeatherAssumption DEF Stored, Session
    <3> QED BY <3>1, GreatestElement DEF Fresh
  <2>3. \A d \in Stored : d \in Int /\ Known(basis[d]) \in Int
    <3>1. YearLength \in Nat /\ StressMemory \in Nat /\ LastSession \in Nat
      BY WeatherAssumption
    <3>2. \A d \in Stored : d \in Session /\ basis[d] \in 0..LastSession
      BY DEF TypeOK, Stored
    <3> QED BY <3>1, <3>2 DEF Known, Session
  <2> QED BY <2>1, <2>2, <2>3 DEF FreshWeatherIsTrue
<1>2. Stored \in SUBSET (1..LastSession) /\ Stored # {} /\ LastSession \in Nat
  BY <1>1, WeatherAssumption DEF Fresh, Stored, Session
<1>3. d \in Stored
  BY <1>1, <1>2, GreatestElement
<1>4. d \in Nat \ {0}
  BY <1>2, <1>3
<1>5. PICK e \in Session : WindowRow(d, e)
  BY <1>3 DEF RowsOfWindows
<1>6. PICK from : from = basis[d]
  OBVIOUS
<1>7. /\ from \in Nat \ {0} /\ d \in First(from, e)..e
      /\ weather[d].state = StateOf(d, from, First(from, e))
      /\ Lasted(States(from, e), First(from, e), d, weather[d].duration)
  BY <1>5, <1>6 DEF WindowRow
<1>8. First(from, e) \in Nat \ {0} /\ e \in Nat
  BY <1>7, Windows
<1>9. YearLength \in Nat /\ StressMemory \in Nat /\ MinimumSessions \in Nat \ {0}
      /\ MinimumSessions <= YearLength
  BY WeatherAssumption
<1>10. PICK k : k = d - Known(from) + 1
  OBVIOUS
<1>11. /\ Known(from) \in Nat /\ First(from, e) <= Known(from) /\ Known(from) <= d
       /\ k \in Nat \ {0} /\ k <= d - First(from, e) + 1
  <2>1. Known(from) \in Nat
    BY <1>7, <1>9 DEF Known
  <2>2. First(from, e) <= Known(from)
    BY <1>7, <1>9 DEF Known, First
  <2>3. Known(from) <= d
    BY <1>1, <1>6
  <2> QED BY <1>4, <1>8, <1>10, <2>1, <2>2, <2>3
<1>12. ASSUME NEW i \in 0..k - 1
       PROVE  /\ d - i \in Nat /\ d - i \in First(from, e)..e
              /\ StateOf(d - i, from, First(from, e)) = TrueState(d - i)
  <2>1. d - i \in Nat /\ Known(from) <= d - i /\ d - i \in First(from, e)..e
    BY <1>4, <1>7, <1>8, <1>10, <1>11
  <2> QED BY <1>7, <2>1, KnownState
<1>13. weather[d].state = TrueState(d)
  <2>1. 0 \in 0..k - 1 /\ d - 0 = d
    BY <1>4, <1>11
  <2>2. StateOf(d, from, First(from, e)) = TrueState(d)
    BY <1>12, <2>1
  <2> QED BY <1>7, <2>2
<1>14. Min({k, weather[d].duration}) = Min({k, TrueDuration(d)})
  <2>1. PICK S, first : S = States(from, e) /\ first = First(from, e)
    OBVIOUS
  <2>2. PICK n, m : n = weather[d].duration /\ m = TrueDuration(d)
    OBVIOUS
  <2>3. Agree(S, TrueStates, d, k)
    BY <1>12, <2>1 DEF Agree, States, TrueStates
  <2>4. Lasted(S, first, d, n) /\ Lasted(TrueStates, 1, d, m)
    BY <1>4, <1>7, <2>1, <2>2, TrueDurationLasts
  <2>5. first \in Nat \ {0} /\ d \in Nat /\ first <= d /\ k \in Nat \ {0} /\ k <= d - first + 1
    BY <1>4, <1>7, <1>8, <1>11, <2>1
  <2>6. Min({k, n}) = Min({k, m})
    BY ONLY <2>3, <2>4, <2>5, SameDuration
  <2> QED BY <2>2, <2>6
<1> QED BY <1>6, <1>10, <1>13, <1>14

(* The rows an update saves are rows.                                      *)
LEMMA HistoryRow ==
    ASSUME TypeOK, NEW from \in Nat \ {0}, NEW e \in Session, NEW d \in First(from, e)..e
    PROVE  History(from, e)[d] \in Snapshot
<1>1. /\ First(from, e) \in Nat \ {0} /\ d \in Session /\ e \in Int /\ LastSession \in Nat
      /\ from <= d /\ YearLength \in Nat \ {0} /\ d \in Nat
  BY Windows, WeatherAssumption DEF Session
<1>2. History(from, e)[d].state = StateOf(d, from, First(from, e))
      /\ Lasted(States(from, e), First(from, e), d, History(from, e)[d].duration)
      /\ History(from, e)[d] = [state |-> History(from, e)[d].state,
                                duration |-> History(from, e)[d].duration]
  BY <1>1, HistoryLast
<1>3. SignalOf(d, from) \in Signal
  <2>1. d - from + 1 \in Nat \ {0}
    BY <1>1
  <2>2. Min({d - from + 1, YearLength}) \in 1..YearLength
    <3>1. Min({d - from + 1, YearLength})
            = IF d - from + 1 <= YearLength THEN d - from + 1 ELSE YearLength
      <4>1. d - from + 1 \in Int /\ YearLength \in Int
        BY <1>1, <2>1
      <4> QED BY <4>1, OfTwo
    <3> QED BY <1>1, <2>1, <3>1
  <2>3. market[d] \in [1..YearLength -> Signal]
    BY <1>1 DEF TypeOK
  <2> QED BY <2>2, <2>3 DEF SignalOf
<1>4. StateOf(d, from, First(from, e)) \in WeatherState
  BY <1>3 DEF StateOf, Signal, WeatherState
<1>5. History(from, e)[d].duration \in Session
  <2>1. PICK n : n = History(from, e)[d].duration
    OBVIOUS
  <2>2. n \in 1..(d - First(from, e) + 1)
    BY <1>2, <2>1 DEF Lasted
  <2> QED BY <1>1, <2>1, <2>2 DEF Session
<1> QED BY <1>2, <1>4, <1>5 DEF Snapshot

(* What sessions say does not change.                                      *)
LEMMA SameMarket ==
    ASSUME market' = market
    PROVE  \A d, from, e :
             /\ StateOf(d, from, First(from, e))' = StateOf(d, from, First(from, e))
             /\ States(from, e)' = States(from, e)
<1>1. \A d, from, e : StateOf(d, from, First(from, e))' = StateOf(d, from, First(from, e))
  BY DEF StateOf, Stress, SignalOf, First
<1>2. \A from, e : States(from, e)' = States(from, e)
  BY <1>1 DEF States, First
<1> QED BY <1>1, <1>2

(* A row that was stored stays a row of a window.                          *)
LEMMA RowKept ==
    ASSUME market' = market, NEW d, NEW e, weather'[d] = weather[d], basis'[d] = basis[d],
           WindowRow(d, e)
    PROVE  WindowRow(d, e)'
BY SameMarket DEF WindowRow, First, Lasted

(* Saving a row keeps it all.                                              *)
LEMMA SaveStep ==
    ASSUME WeatherInv, TypeSchema', NEW p \in Openers, SaveSnapshot(p)
    PROVE  WeatherInv'
<1> DEFINE u == update[p]
<1>1. /\ u # Idle /\ market' = market /\ today' = today /\ setup' = setup
      /\ weather' = [weather EXCEPT ![u.next] = History(u.from, u.end)[u.next]]
      /\ basis' = [basis EXCEPT ![u.next] = u.from]
      /\ update' = [update EXCEPT ![p] =
                      IF u.next = u.end THEN Idle ELSE [u EXCEPT !.next = @ + 1]]
  BY DEF SaveSnapshot, schemaVars
<1>2. Openers' = Openers
  BY <1>1 DEF Openers
<1>3. PICK f, e, d : f = u.from /\ e = u.end /\ d = u.next
  OBVIOUS
<1>4. /\ u \in [next : 0..LastSession, from : 0..LastSession, end : 0..LastSession]
      /\ f \in Nat \ {0} /\ f \in 0..LastSession /\ e \in Session /\ d \in First(f, e)..e
  <2>1. u \in [next : 0..LastSession, from : 0..LastSession, end : 0..LastSession]
    BY DEF WeatherInv, TypeOK
  <2> QED BY <1>1, <1>3, <2>1 DEF WeatherInv, UpdatesInWindow, InWindow
<1>5. First(f, e) \in Nat \ {0} /\ d \in Session /\ d \in Nat /\ e \in Nat
  BY <1>4, Windows DEF Session
<1>6. History(f, e)[d] \in Snapshot
  BY <1>4, HistoryRow DEF WeatherInv
<1>7. /\ weather \in [Session -> Snapshot \cup {NoSnapshot}]
      /\ basis \in [Session -> 0..LastSession]
      /\ update \in [Openers -> [next : 0..LastSession, from : 0..LastSession,
                                 end : 0..LastSession]]
  BY DEF WeatherInv, TypeOK
<1>8. weather' = [weather EXCEPT ![d] = History(f, e)[d]] /\ basis' = [basis EXCEPT ![d] = f]
  BY <1>1, <1>3
<1>9. update' = [update EXCEPT ![p] =
                   IF d = e THEN Idle ELSE [next |-> d + 1, from |-> f, end |-> e]]
  <2>1. [u EXCEPT !.next = @ + 1] = [next |-> d + 1, from |-> f, end |-> e]
    BY <1>3, <1>4
  <2> QED BY <1>1, <1>3, <2>1
<1> HIDE DEF u
<1>10. TypeOK'
  <2>1. weather' \in [Session -> Snapshot \cup {NoSnapshot}]
        /\ basis' \in [Session -> 0..LastSession]
    BY <1>4, <1>5, <1>6, <1>7, <1>8
  <2>2. update' \in [Openers -> [next : 0..LastSession, from : 0..LastSession,
                                 end : 0..LastSession]]
    <3>1. CASE d = e
      BY <1>7, <1>9, <3>1, WeatherAssumption DEF Idle
    <3>2. CASE d # e
      <4>1. d + 1 \in 0..LastSession /\ e \in 0..LastSession
        BY <1>4, <1>5, <3>2, WeatherAssumption DEF Session
      <4> QED BY <1>4, <1>7, <1>9, <3>2, <4>1
    <3> QED BY <3>1, <3>2
  <2> QED BY <1>1, <1>2, <2>1, <2>2 DEF WeatherInv, TypeOK
<1>11. RowsOfWindows'
  <2> SUFFICES ASSUME NEW x \in Stored' PROVE \E w \in Session : WindowRow(x, w)'
    BY <1>1 DEF RowsOfWindows
  <2>1. CASE x = d
    <3>1. weather'[d] = History(f, e)[d] /\ basis'[d] = f
      BY <1>5, <1>7, <1>8
    <3>2. History(f, e)[d].state = StateOf(d, f, First(f, e))
          /\ Lasted(States(f, e), First(f, e), d, History(f, e)[d].duration)
      <4>1. e \in Int /\ First(f, e) \in Nat /\ d \in First(f, e)..e
        BY <1>4, <1>5
      <4> QED BY <4>1, HistoryLast
    <3>3. /\ StateOf(d, f, First(f, e))' = StateOf(d, f, First(f, e))
          /\ States(f, e)' = States(f, e)
      BY <1>1, SameMarket
    <3>4. WindowRow(d, e)'
      BY <1>4, <3>1, <3>2, SameMarket, <1>1 DEF WindowRow, First, Lasted
    <3> QED BY <1>4, <2>1, <3>4
  <2>2. CASE x # d
    <3>1. x \in Stored /\ weather'[x] = weather[x] /\ basis'[x] = basis[x]
      BY <1>7, <1>8, <2>2 DEF Stored
    <3>2. PICK w \in Session : WindowRow(x, w)
      BY <3>1 DEF WeatherInv, RowsOfWindows
    <3> QED BY <1>1, <3>1, <3>2, RowKept
  <2> QED BY <2>1, <2>2
<1>12. UpdatesInWindow'
  <2> SUFFICES ASSUME NEW q \in Openers, update'[q] # Idle PROVE InWindow(update'[q])
    BY <1>1, <1>2 DEF UpdatesInWindow, InWindow, First
  <2>1. CASE q = p
    <3>1. d # e /\ update'[q] = [next |-> d + 1, from |-> f, end |-> e]
      BY <1>7, <1>9, <2>1
    <3>2. d + 1 \in First(f, e)..e
      BY <1>4, <1>5, <3>1
    <3> QED BY <1>4, <3>1, <3>2 DEF InWindow
  <2>2. CASE q # p
    <3>1. update'[q] = update[q]
      BY <1>7, <1>9, <2>2
    <3> QED BY <3>1 DEF WeatherInv, UpdatesInWindow
  <2> QED BY <2>1, <2>2
<1> QED BY <1>10, <1>11, <1>12 DEF WeatherInv

(* Every other step leaves the rows, or an update, or begins or forgets    *)
(* one.                                                                    *)
LEMMA OtherWeatherStep ==
    ASSUME WeatherInv, TypeSchema', setup' = setup, market' = market, weather' = weather,
           basis' = basis, today' \in today..LastSession,
           update' \in [Openers -> [next : 0..LastSession, from : 0..LastSession,
                                    end : 0..LastSession]],
           \A p \in Openers : update'[p] \in {update[p], Idle} \/ InWindow(update'[p])
    PROVE  WeatherInv'
<1>1. Openers' = Openers
  BY DEF Openers
<1>2. today \in FirstEnd..LastSession /\ today' \in FirstEnd..LastSession
  BY WeatherAssumption DEF WeatherInv, TypeOK
<1>3. TypeOK'
  BY <1>1, <1>2 DEF WeatherInv, TypeOK
<1>4. RowsOfWindows'
  <2> SUFFICES ASSUME NEW x \in Stored' PROVE \E w \in Session : WindowRow(x, w)'
    BY DEF RowsOfWindows
  <2>1. x \in Stored
    BY DEF Stored
  <2>2. PICK w \in Session : WindowRow(x, w)
    BY <2>1 DEF WeatherInv, RowsOfWindows
  <2> QED BY <2>2, RowKept
<1>5. UpdatesInWindow'
  <2> SUFFICES ASSUME NEW q \in Openers, update'[q] # Idle PROVE InWindow(update'[q])
    BY <1>1 DEF UpdatesInWindow, InWindow, First
  <2> QED BY DEF WeatherInv, UpdatesInWindow
<1> QED BY <1>3, <1>4, <1>5 DEF WeatherInv

(* The steps of the schema keep the setup.                                 *)
LEMMA SchemaKeepsSetup == [SchemaNext]_schemaVars => setup' = setup
BY DEF SchemaNext, OpenStep, Open, CreateMissing, BaseDone, CheckVersion,
       Migrate, MigrationRaises, FinishMigration, Close, Die, schemaVars

(* So every step keeps the invariant,                                      *)
LEMMA WeatherStep ==
    ASSUME WeatherInv, TypeSchema', setup' = setup, [Next]_vars
    PROVE  WeatherInv'
<1>1. today \in FirstEnd..LastSession /\ LastSession \in Nat /\ FirstEnd \in Nat
      /\ update \in [Openers -> [next : 0..LastSession, from : 0..LastSession,
                                 end : 0..LastSession]]
  BY WeatherAssumption DEF WeatherInv, TypeOK
<1>2. today \in today..LastSession
  BY <1>1
<1>3. CASE UNCHANGED weatherVars
  BY <1>1, <1>2, <1>3, OtherWeatherStep DEF weatherVars
<1>4. CASE SessionCloses
  <2>1. today + 1 \in today..LastSession
    BY <1>1, <1>4 DEF SessionCloses
  <2> QED BY <1>1, <1>4, <2>1, OtherWeatherStep DEF SessionCloses
<1>5. ASSUME NEW p \in Openers, BeginUpdate(p) PROVE WeatherInv'
  <2>1. PICK from \in today - WindowLength + 1..today, end \in today - WindowLength + 1..today :
          /\ FirstCandle(setup) <= from
          /\ end - from + 1 >= MinimumSessions
          /\ update' = [update EXCEPT ![p] =
               [next |-> First(from, end), from |-> from, end |-> end]]
    BY <1>5 DEF BeginUpdate
  <2>2. market' = market /\ today' = today /\ weather' = weather /\ basis' = basis
    BY <1>5 DEF BeginUpdate
  <2>3. setup \in Setups
    BY DEF WeatherInv, TypeOK, TypeSchema
  <2>4. FirstCandle(setup) \in Nat \ {0} /\ WindowLength \in Nat /\ MinimumSessions \in Nat \ {0}
    BY <2>3, WeatherAssumption
  <2>5. from \in Nat \ {0} /\ from <= today /\ end \in Int /\ end <= today
    BY <1>1, <2>1, <2>4
  <2>6. /\ First(from, end) = from + MinimumSessions - 1
        /\ First(from, end) <= end /\ end \in Session
    BY <1>1, <2>1, <2>4, <2>5 DEF First, Session
  <2>7. [next |-> First(from, end), from |-> from, end |-> end]
          \in [next : 0..LastSession, from : 0..LastSession, end : 0..LastSession]
    BY <1>1, <2>4, <2>5, <2>6
  <2>8. InWindow([next |-> First(from, end), from |-> from, end |-> end])
    BY <2>4, <2>5, <2>6 DEF InWindow, Session
  <2>9. update' \in [Openers -> [next : 0..LastSession, from : 0..LastSession,
                                 end : 0..LastSession]]
    BY <1>1, <2>1, <2>7
  <2>10. \A q \in Openers : update'[q] \in {update[q], Idle} \/ InWindow(update'[q])
    BY <1>1, <2>1, <2>8
  <2>11. setup' = setup
    OBVIOUS
  <2> QED BY <1>2, <2>2, <2>9, <2>10, OtherWeatherStep
<1>6. ASSUME NEW p \in Openers, SaveSnapshot(p) PROVE WeatherInv'
  BY <1>6, SaveStep
<1>7. ASSUME NEW p \in Openers, DieUpdating(p) PROVE WeatherInv'
  <2>1. update' = [update EXCEPT ![p] = Idle]
        /\ market' = market /\ today' = today /\ weather' = weather /\ basis' = basis
    BY <1>7 DEF DieUpdating
  <2>2. update' \in [Openers -> [next : 0..LastSession, from : 0..LastSession,
                                 end : 0..LastSession]]
    BY <1>1, <2>1 DEF Idle
  <2>3. \A q \in Openers : update'[q] \in {update[q], Idle}
    BY <1>1, <2>1
  <2> QED BY <1>2, <2>1, <2>2, <2>3, OtherWeatherStep
<1> QED BY <1>3, <1>4, <1>5, <1>6, <1>7 DEF Next, vars, EndCommand

(* and it holds at first.                                                  *)
LEMMA WeatherAtFirst == Init => WeatherInv
<1> SUFFICES ASSUME Init PROVE WeatherInv
  OBVIOUS
<1>1. TypeSchema
  BY InitIInv DEF Init, IInv
<1>2. market \in [Session -> [1..YearLength -> Signal]]
  BY WeatherAssumption DEF Init, SchemaInit
<1>3. /\ today \in FirstEnd..LastSession
      /\ Idle \in [next : 0..LastSession, from : 0..LastSession, end : 0..LastSession]
      /\ basis \in [Session -> 0..LastSession]
  BY WeatherAssumption DEF Init, Idle
<1>4. weather = [d \in Session |-> NoSnapshot] /\ update = [p \in Openers |-> Idle]
  BY DEF Init
<1>5. Stored = {} /\ \A p \in Openers : update[p] = Idle
  BY <1>4 DEF Stored
<1> QED BY <1>1, <1>2, <1>3, <1>4, <1>5 DEF WeatherInv, TypeOK, RowsOfWindows, UpdatesInWindow

(* The invariant of the weather, always.                                   *)
LEMMA AlwaysWeatherInv == Spec => []WeatherInv
<1>1. Init => IInv /\ WeatherInv
  BY InitIInv, WeatherAtFirst DEF Init
<1>2. IInv /\ WeatherInv /\ [SchemaNext]_schemaVars /\ [Next]_vars => (IInv /\ WeatherInv)'
  <2> SUFFICES ASSUME IInv, WeatherInv, [SchemaNext]_schemaVars, [Next]_vars
               PROVE  IInv' /\ WeatherInv'
    OBVIOUS
  <2>1. IInv'
    BY NextIInv
  <2>2. TypeSchema'
    BY <2>1 DEF IInv
  <2>3. setup' = setup
    BY SchemaKeepsSetup
  <2> QED BY <2>1, <2>2, <2>3, WeatherStep
<1> QED BY <1>1, <1>2, WeatherOpensStore, PTL DEF Spec, SchemaSpec

(* The weather of the store and the commands at work on it keep their      *)
(* types (WeatherSnapshot, save_weather).                                  *)
THEOREM WeatherTypes == Spec => []TypeOK
<1>1. WeatherInv => TypeOK
  BY DEF WeatherInv
<1> QED BY <1>1, AlwaysWeatherInv, PTL

(* Whatever updates overlap, die between two rows or are followed by more  *)
(* sessions, and whatever windows they have, the newest row that counts as *)
(* fresh says what the whole history says as soon as its own window        *)
(* reaches back a year and the stress memory (weather_update,              *)
(* compute_weather_history, _readiness_data).                              *)
THEOREM FreshWeatherTrue == Spec => []FreshWeatherIsTrue
<1>1. WeatherInv => FreshWeatherIsTrue
  BY FreshRow DEF WeatherInv
<1> QED BY <1>1, AlwaysWeatherInv, PTL
=============================================================================
