--------------------------- MODULE StorageContract ---------------------------
(***************************************************************************)
(* One table's storage contract, contracts/storage/<table>.v<n>.json: its  *)
(* versions in a tree, and what tools/ci/additive_only.py asks of them.  A *)
(* schema is its columns; prose is left out, and the tables are separate   *)
(* lineages.                                                               *)
(***************************************************************************)
EXTENDS Integers

CONSTANTS
  Versions,   \* the schema_versions a lineage may reach
  Columns,    \* column names
  Types,      \* column types
  Widenings,  \* SAFE_WIDENINGS: pairs of types
  NoColumn, NoFile

ASSUME ContractAssumption ==
  /\ Versions \subseteq Nat
  /\ Widenings \subseteq Types \X Types

Column == [type : Types, nullable : BOOLEAN, default : BOOLEAN]
Schema == [Columns -> Column \cup {NoColumn}]
File   == Schema \cup {NoFile}
Tree   == [Versions -> File]

-----------------------------------------------------------------------------
(* The check.                                                              *)

Has(schema, c) == schema[c] # NoColumn

(* The four rules of check_lineage; the version rule holds as the files    *)
(* are compared in the order of their versions.                            *)
KeepsColumns(older, newer) == \A c \in Columns : Has(older, c) => Has(newer, c)

TypesWiden(older, newer) ==
  \A c \in Columns : (Has(older, c) /\ Has(newer, c)) =>
    \/ older[c].type = newer[c].type
    \/ <<older[c].type, newer[c].type>> \in Widenings

NullsStay(older, newer) ==
  \A c \in Columns : (Has(older, c) /\ Has(newer, c) /\ older[c].nullable) =>
    newer[c].nullable

AddedAreFillable(older, newer) ==
  \A c \in Columns : (~Has(older, c) /\ Has(newer, c)) =>
    newer[c].nullable \/ newer[c].default

(* Mutant: a column only one of the two versions has is not looked at. *)
Additive_SharedOnly(older, newer) ==
  TypesWiden(older, newer) /\ NullsStay(older, newer)

Additive(older, newer) ==
  /\ KeepsColumns(older, newer)
  /\ TypesWiden(older, newer)
  /\ NullsStay(older, newer)
  /\ AddedAreFillable(older, newer)

Released(tree) == {v \in Versions : tree[v] # NoFile}

(* sorted, pairwise: each version with the next one there is. *)
Consecutive(tree) ==
  {vw \in Released(tree) \X Released(tree) :
     vw[1] < vw[2] /\ ~ \E u \in Released(tree) : vw[1] < u /\ u < vw[2]}

LineageHolds(tree) ==
  \A vw \in Consecutive(tree) : Additive(tree[vw[1]], tree[vw[2]])

NoneEdited(base, tree) ==
  \A v \in Released(base) \cap Released(tree) : tree[v] = base[v]

NoneDeleted(base, tree) == Released(base) \subseteq Released(tree)

(* Mutant: only the files on disk are compared. *)
Passes_DiskOnly(base, tree) == LineageHolds(tree) /\ NoneEdited(base, tree)

(* main() exits 0. *)
Passes(base, tree) ==
  LineageHolds(tree) /\ NoneEdited(base, tree) /\ NoneDeleted(base, tree)
=============================================================================
