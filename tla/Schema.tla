------------------------------- MODULE Schema -------------------------------
(***************************************************************************)
(* Opening the store (store.py).  Every command begins with StateStore(),  *)
(* whose initialize creates the missing tables, and whose _migrate_v2      *)
(* rebuilds the two tables of version 1 whose keys changed, through a copy *)
(* and a rename, and creates the new ones.  Both are scripts: SQLite       *)
(* commits every statement by itself, so a step of this module is one      *)
(* statement.  Several commands may open the same file at once, and any    *)
(* may die between two statements.  A statement that finds a table that    *)
(* should not be there, or misses one that should, ends the command.       *)
(*                                                                         *)
(* Tables of version 1 that keep their form, and the indexes, are left     *)
(* out.  A row is a model value: what identifies an order or a fill.       *)
(***************************************************************************)
EXTENDS Integers, Sequences, FiniteSets

CONSTANTS
    Setups,  \* who opens which file
    Rows     \* the orders, and the fills, of a version 1 file

File == {"new", "v1", "early v2"}  \* an early v2 lacks capital_allocations

ASSUME SetupsAssumption ==
    \A s \in Setups : s.file \in File /\ IsFiniteSet(s.openers)

VARIABLES
    setup,    \* one of Setups
    layout,   \* columns of each table: of version 1 or 2, 0 without the table
    rows,     \* rows of each table
    version,  \* versions in schema_migrations
    active,   \* some profile has the status 'active' of version 1
    opener    \* per process: program counter and next statement

schema == <<layout, rows, version, active>>
schemaVars == <<setup, schema, opener>>

Openers == setup.openers

Rebuilt == {"broker_orders", "fills"}
CopyOf(t) == IF t = "broker_orders" THEN "broker_orders_v2" ELSE "fills_v2"
Added == {"position_cycles", "cycle_sessions", "weather_snapshots",
          "capital_events", "automation_claims", "capital_allocations"}
Early == Added \ {"capital_allocations"}
Table == Rebuilt \cup {"broker_orders_v2", "fills_v2"} \cup Added

(* The statements of the two scripts, in their order.                      *)
Base == << <<"ensure", "broker_orders">>, <<"ensure", "fills">> >>

Script == <<
    <<"create", "broker_orders_v2">>, <<"copy", "broker_orders">>,
    <<"drop", "broker_orders">>, <<"rename", "broker_orders">>,
    <<"create", "fills_v2">>, <<"copy", "fills">>,
    <<"drop", "fills">>, <<"rename", "fills">>,
    <<"create", "position_cycles">>, <<"create", "cycle_sessions">>,
    <<"create", "weather_snapshots">>, <<"create", "capital_events">>,
    <<"create", "automation_claims">>, <<"create", "capital_allocations">>,
    <<"version", "schema_migrations">> >>

Label == {"closed", "base", "check", "script", "open"}
OpenerLocals == [pc : Label, at : 1..Len(Script) + 1]
Closed == [pc |-> "closed", at |-> 1]

TypeSchema ==
    /\ setup \in Setups
    /\ layout \in [Table -> 0..2]
    /\ rows \in [Table -> SUBSET Rows]
    /\ version \in SUBSET {1, 2}
    /\ active \in BOOLEAN
    /\ opener \in [Openers -> OpenerLocals]

SchemaInit ==
    /\ setup \in Setups
    /\ LET old == setup.file = "v1"
           cur == setup.file = "early v2" IN
       /\ layout = [t \in Table |->
                      CASE old /\ t \in Rebuilt -> 1
                        [] cur /\ t \in Rebuilt \cup Early -> 2
                        [] OTHER -> 0]
       /\ rows = [t \in Table |->
                    IF setup.file # "new" /\ t \in Rebuilt THEN Rows ELSE {}]
       /\ version = IF cur THEN {1, 2} ELSE IF old THEN {1} ELSE {}
       /\ active = old
    /\ opener = [p \in Openers |-> Closed]

At(p, label) == opener[p].pc = label
Exists(t) == layout[t] # 0
Goto(p, label) == opener' = [opener EXCEPT ![p] = [pc |-> label, at |-> 1]]
Exit(p) == Goto(p, "closed")

(* StateStore(settings.db_path)                                            *)
Open(p) ==
    /\ At(p, "closed")
    /\ Goto(p, "base")
    /\ UNCHANGED <<setup, schema>>

-----------------------------------------------------------------------------
(* What a statement does when it succeeds.                                 *)

(* CREATE TABLE IF NOT EXISTS with the columns of version 1.               *)
Ensure(t) ==
    /\ layout' = [layout EXCEPT ![t] = IF Exists(t) THEN @ ELSE 1]
    /\ UNCHANGED <<rows, version, active>>

(* Mutant: CREATE TABLE IF NOT EXISTS, so that an interrupted migration    *)
(* can be run again.                                                       *)
CreateIfMissing(t) ==
    /\ layout' = [layout EXCEPT ![t] = IF Exists(t) THEN @ ELSE 2]
    /\ UNCHANGED <<rows, version, active>>

(* CREATE TABLE                                                            *)
Create(t) ==
    /\ ~ Exists(t)
    /\ layout' = [layout EXCEPT ![t] = 2]
    /\ UNCHANGED <<rows, version, active>>

(* INSERT INTO the copy SELECT FROM t                                      *)
Copy(t) ==
    /\ Exists(t) /\ Exists(CopyOf(t))
    /\ rows' = [rows EXCEPT ![CopyOf(t)] = @ \cup rows[t]]
    /\ UNCHANGED <<layout, version, active>>

(* DROP TABLE                                                              *)
Drop(t) ==
    /\ Exists(t)
    /\ layout' = [layout EXCEPT ![t] = 0]
    /\ rows' = [rows EXCEPT ![t] = {}]
    /\ UNCHANGED <<version, active>>

(* ALTER TABLE the copy RENAME TO t                                        *)
Rename(t) ==
    /\ Exists(CopyOf(t)) /\ ~ Exists(t)
    /\ layout' = [layout EXCEPT ![t] = layout[CopyOf(t)], ![CopyOf(t)] = 0]
    /\ rows' = [rows EXCEPT ![t] = rows[CopyOf(t)], ![CopyOf(t)] = {}]
    /\ UNCHANGED <<version, active>>

(* INSERT INTO schema_migrations VALUES (2, ...)                           *)
SetVersion ==
    /\ 2 \notin version
    /\ version' = version \cup {2}
    /\ UNCHANGED <<layout, rows, active>>

Execute(s) ==
    \/ s[1] = "ensure" /\ Ensure(s[2])
    \/ s[1] = "create" /\ Create(s[2])
    \/ s[1] = "copy" /\ Copy(s[2])
    \/ s[1] = "drop" /\ Drop(s[2])
    \/ s[1] = "rename" /\ Rename(s[2])
    \/ s[1] = "version" /\ SetVersion

(* The condition under which it does not.                                  *)
Raises(s) ==
    \/ s[1] = "create" /\ Exists(s[2])
    \/ s[1] = "copy" /\ ~ (Exists(s[2]) /\ Exists(CopyOf(s[2])))
    \/ s[1] = "drop" /\ ~ Exists(s[2])
    \/ s[1] = "rename" /\ (~ Exists(CopyOf(s[2])) \/ Exists(s[2]))
    \/ s[1] = "version" /\ 2 \in version

-----------------------------------------------------------------------------
(* A step of a script: the next statement.                                 *)

Advance(p) == opener' = [opener EXCEPT ![p].at = @ + 1]

CreateMissing(p) ==
    /\ At(p, "base") /\ opener[p].at <= Len(Base)
    /\ Execute(Base[opener[p].at])
    /\ Advance(p)
    /\ UNCHANGED setup

BaseDone(p) ==
    /\ At(p, "base") /\ opener[p].at > Len(Base)
    /\ Goto(p, "check")
    /\ UNCHANGED <<setup, schema>>

(* Mutant: both versions are recorded before the tables are changed.       *)
CheckVersionBoth(p) ==
    /\ At(p, "check")
    /\ version' = {1, 2}
    /\ Goto(p, IF 2 \in version THEN "open" ELSE "script")
    /\ UNCHANGED <<setup, layout, rows, active>>

(* One transaction: version 1 is inserted and version 2 looked for.  When  *)
(* it is there, the rest of _migrate_v2 belongs to the transaction too.    *)
CheckVersion(p) ==
    /\ At(p, "check")
    /\ version' = version \cup {1}
    /\ \/ /\ 2 \notin version
          /\ Goto(p, "script")
          /\ UNCHANGED <<layout, active>>
       \/ /\ 2 \in version
          /\ layout' = [layout EXCEPT !["capital_allocations"] =
                           IF @ = 0 THEN 2 ELSE @]
          /\ active' = FALSE
          /\ Goto(p, "open")
    /\ UNCHANGED <<setup, rows>>

Migrate(p) ==
    /\ At(p, "script") /\ opener[p].at <= Len(Script)
    /\ Execute(Script[opener[p].at])
    /\ Advance(p)
    /\ UNCHANGED setup

MigrationRaises(p) ==
    /\ At(p, "script") /\ opener[p].at <= Len(Script)
    /\ Raises(Script[opener[p].at])
    /\ Exit(p)
    /\ UNCHANGED <<setup, schema>>

(* The updates after the script, in a transaction of their own.            *)
FinishMigration(p) ==
    /\ At(p, "script") /\ opener[p].at > Len(Script)
    /\ active' = FALSE
    /\ Goto(p, "open")
    /\ UNCHANGED <<setup, layout, rows, version>>

(* The command is over.                                                    *)
Close(p) ==
    /\ At(p, "open")
    /\ Exit(p)
    /\ UNCHANGED <<setup, schema>>

(* The process dies while it opens the store or works with it.             *)
Die(p) ==
    /\ ~ At(p, "closed")
    /\ Exit(p)
    /\ UNCHANGED <<setup, schema>>

OpenStep(p) ==
    \/ Open(p) \/ CreateMissing(p) \/ BaseDone(p) \/ CheckVersion(p)
    \/ Migrate(p) \/ MigrationRaises(p) \/ FinishMigration(p)

SchemaNext == \E p \in Openers : OpenStep(p) \/ Close(p) \/ Die(p)

SchemaSpec == SchemaInit /\ [][SchemaNext]_schemaVars

-----------------------------------------------------------------------------
(* Properties.                                                             *)

(* No order and no fill of the old file is lost, wherever migrations that  *)
(* overlap stop: each is in its table or in the copy of it                 *)
(* (initialize, _migrate_v2).                                              *)
RowsSurvive ==
    setup.file # "new" =>
        \A t \in Rebuilt : Rows \subseteq rows[t] \cup rows[CopyOf(t)]

(* With one command at a time, a store that was opened is complete, however *)
(* often a migration died before: its tables have the columns of version 2 *)
(* and all rows, no copy is left over and no profile is 'active'           *)
(* (initialize returns only when _migrate_v2 is through).                  *)
OpenedIsWhole ==
    Cardinality(Openers) = 1 =>
        \A p \in Openers : At(p, "open") =>
            /\ \A t \in Rebuilt \cup Added : layout[t] = 2
            /\ \A t \in Rebuilt :
                 /\ ~ Exists(CopyOf(t))
                 /\ setup.file # "new" => rows[t] = Rows
            /\ ~ active
=============================================================================
