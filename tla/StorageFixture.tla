--------------------------- MODULE StorageFixture ---------------------------
(***************************************************************************)
(* The storage fixture of tqtk_common/testing.py: a table built from one   *)
(* version of its contract, a statement at a time on a connection that     *)
(* commits each (test_storage_fixture.py), so what failed half way, or     *)
(* built another version, is still there for the next.  The database is    *)
(* external.  An index covers one column; keys and checks are part of the  *)
(* statement that creates the table and are left out with it.              *)
(***************************************************************************)
EXTENDS StorageContract

CONSTANT Indexed  \* the columns each version's contract indexes

ASSUME IndexedAssumption == Indexed \in [Versions -> SUBSET Columns]

VARIABLES
  checkout,  \* the contracts on disk
  asked,     \* the version create_schema is applying, or NoFile
  todo,      \* the statement it is at
  pending,   \* the indexes still to create
  hypertable,  \* does the database have TimescaleDB?
  table,     \* its table
  partitioned, indexes,
  applied,   \* history: the versions some statement has been executed of
  built      \* history: what create_schema has returned for

databaseVars == <<hypertable, table, partitioned, indexes>>
fixtureVars == <<checkout, asked, todo, pending, databaseVars, applied, built>>

FixtureTypeOK ==
  /\ checkout \in Tree /\ table \in File
  /\ asked \in Versions \cup {NoFile}
  /\ todo \in {"none", "table", "hypertable", "indexes"}
  /\ pending \subseteq Columns /\ indexes \subseteq Columns
  /\ hypertable \in BOOLEAN /\ partitioned \in BOOLEAN
  /\ applied \subseteq Versions /\ built \subseteq Versions

(* CI keeps the lineage additive, and an index on a column that is not     *)
(* there out of a contract (test_storage_contract.py).                     *)
FixtureInit ==
  /\ checkout \in {t \in Tree : LineageHolds(t) /\ Released(t) # {}}
  /\ \A v \in Released(checkout) : \A c \in Indexed[v] : Has(checkout[v], c)
  /\ asked = NoFile /\ todo = "none" /\ pending = {}
  /\ hypertable \in BOOLEAN
  /\ table = NoFile /\ partitioned = FALSE /\ indexes = {}
  /\ applied = {} /\ built = {}

-----------------------------------------------------------------------------
(* Mutant: the newest on disk. *)
Loaded_Newest(v) ==
  checkout[CHOOSE w \in Released(checkout) :
             \A u \in Released(checkout) : u <= w]

(* load_contract of an explicit version; it raises if there is none. *)
Loaded(v) == checkout[v]

(* render_ddl, with or without the hypertable statement. *)
CreateSchema(v) ==
  /\ todo = "none" /\ v \in Released(checkout)
  /\ asked' = v
  /\ todo' = "table" /\ pending' = Indexed[v]
  /\ UNCHANGED <<checkout, databaseVars, applied, built>>

(* CREATE TABLE IF NOT EXISTS: a table that is there stays as it is. *)
CreateTable ==
  /\ todo = "table"
  /\ table' = IF table = NoFile THEN Loaded(asked) ELSE table
  /\ todo' = IF hypertable THEN "hypertable" ELSE "indexes"
  /\ applied' = applied \cup {asked}
  /\ UNCHANGED <<checkout, asked, pending, hypertable, partitioned, indexes,
                 built>>

(* create_hypertable(..., if_not_exists => TRUE). *)
CreateHypertable ==
  /\ todo = "hypertable"
  /\ partitioned' = TRUE
  /\ todo' = "indexes"
  /\ UNCHANGED <<checkout, asked, pending, hypertable, table, indexes,
                 applied, built>>

(* CREATE INDEX IF NOT EXISTS. *)
CreateIndex ==
  /\ todo = "indexes"
  /\ \E c \in pending :
       /\ Has(table, c)
       /\ indexes' = indexes \cup {c}
       /\ pending' = pending \ {c}
  /\ UNCHANGED <<checkout, asked, todo, hypertable, table, partitioned,
                 applied, built>>

Return ==
  /\ todo = "indexes" /\ pending = {}
  /\ built' = built \cup {asked}
  /\ asked' = NoFile /\ todo' = "none"
  /\ UNCHANGED <<checkout, pending, databaseVars, applied>>

(* A statement fails: an index on a column the table does not have, or a   *)
(* connection that is lost.                                                *)
StatementFails ==
  /\ todo # "none"
  /\ asked' = NoFile /\ todo' = "none" /\ pending' = {}
  /\ UNCHANGED <<checkout, databaseVars, applied, built>>

(* The container is removed, and the next one started. *)
NewDatabase ==
  /\ todo = "none" /\ table # NoFile
  /\ hypertable' \in BOOLEAN
  /\ table' = NoFile /\ partitioned' = FALSE /\ indexes' = {}
  /\ applied' = {} /\ built' = {}
  /\ UNCHANGED <<checkout, asked, todo, pending>>

FixtureNext ==
  \/ \E v \in Versions : CreateSchema(v)
  \/ CreateTable \/ CreateHypertable \/ CreateIndex \/ Return
  \/ StatementFails \/ NewDatabase

FixtureSpec == FixtureInit /\ [][FixtureNext]_fixtureVars

-----------------------------------------------------------------------------
(* When create_schema has returned for a version and nothing of any other  *)
(* has been applied to this database, it is that contract, however many    *)
(* attempts it took: "the schema comes from the artifact rather than from  *)
(* whoever happens to have migrated the database".                         *)
BuiltIsTheContract ==
  \A v \in built : applied = {v} =>
    table = checkout[v] /\ indexes = Indexed[v] /\ partitioned = hypertable

(* A database that versions have been applied to in any order serves a     *)
(* reader bound to the oldest of them, or to an older one: the columns it  *)
(* knows are there, with types it can read.                                *)
EarlierReadersAreServed ==
  \A u \in Released(checkout) :
    (applied # {} /\ \A w \in applied : u <= w) =>
      KeepsColumns(checkout[u], table) /\ TypesWiden(checkout[u], table)
=============================================================================
