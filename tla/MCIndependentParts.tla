------------------------- MODULE MCIndependentParts -------------------------
(***************************************************************************)
(* Small instances of the five parts, one beside the other.                *)
(***************************************************************************)
EXTENDS IndependentParts, TLC

CONSTANTS
  c, integer, bigint,                            \* contracts
  common, adapter,                               \* members
  lib, code, manifest, contract, script,         \* paths
  old, new,                                      \* contents
  postgres, grafana,                             \* secrets
  nan

-----------------------------------------------------------------------------
MCTypes == {integer, bigint}
MCWidenings == {<<integer, bigint>>}
MCIndexed == [v \in Versions |-> IF v = 3 THEN {c} ELSE {}]

(* The library, a service that uses it, a contract both are tested         *)
(* against, and the seed script, which is ignored although the service's   *)
(* tests read it.                                                          *)
MCOwned == common :> {lib} @@ adapter :> {code, manifest}
MCManifest == common :> lib @@ adapter :> manifest
MCReads ==
  common :> {lib, contract}
    @@ adapter :> {code, manifest, lib, contract, script}
MCHolds == lib :> {old, new} @@ code :> {old, new} @@ contract :> {old, new}
             @@ manifest :> {old, Absent} @@ script :> {old, Absent}

(* Changes that are fine one by one and not together. *)
MCGood(m, inputs) ==
  CASE m = common  -> ~(inputs[lib] = new /\ inputs[contract] = new)
    [] m = adapter -> /\ inputs[script] # Absent
                      /\ ~(inputs[code] = new /\ inputs[lib] = new)

MCSimilar == Contents \X Contents

MCEntries == <<postgres, grafana>>
MCMode == postgres :> "owner" @@ grafana :> "all"

(* Off the grid, on it, and on the ties between two prices. *)
MCInitial == {1, 5, 23, 60}
MCReturns == -25..25 \cup {nan}
MCSpreads == {-7, -5, 0, 4, 5, 6, 15, 200, nan}

Symmetry == Permutations(Authors \cup Branches \cup Scripts)
=============================================================================
