------------------------ MODULE StorageLineageProofs ------------------------
(***************************************************************************)
(* Released versions are frozen, whether or not a pull request has to be   *)
(* checked again when main has moved; and if it has, every version can be  *)
(* read as any earlier one, however many lie between.  And the databases   *)
(* the fixture builds from such a lineage.                                 *)
(***************************************************************************)
EXTENDS StorageLineage, StorageFixture, WellFoundedInduction, TLAPS

(* A pull request that has passed writes a new file: the check refuses any *)
(* edit and any deletion of a released one.                                *)
PassedAddsFile(a) == green[a] => change[a] # NoChange /\ change[a].from = NoFile

(* A proposal is no proposal unless it changes its file. *)
ChangesItsFile(a) == change[a] # NoChange => change[a].from # change[a].to

FrozenInv ==
  /\ change \in [Authors -> Change \cup {NoChange}]
  /\ green \in [Authors -> BOOLEAN] /\ upToDate \in BOOLEAN
  /\ main \in [Versions -> File]
  /\ \A a \in Authors : PassedAddsFile(a) /\ ChangesItsFile(a)

LEMMA InitEstablishes == Init => FrozenInv
<1> SUFFICES ASSUME Init PROVE FrozenInv
  OBVIOUS
<1>1. main \in [Versions -> File]
  BY DEF Init, File
<1> QED
  BY <1>1 DEF Init, FrozenInv, PassedAddsFile, ChangesItsFile

(* What the check accepts leaves every released file of its base alone. *)
LEMMA PassesFreezes ==
  ASSUME NEW base, NEW tree, Passes(base, tree), NEW v \in Versions, base[v] # NoFile
  PROVE  tree[v] = base[v]
<1>1. v \in Released(base)
  BY DEF Released
<1>2. v \in Released(tree)
  BY <1>1 DEF Passes, NoneDeleted
<1> QED
  BY <1>1, <1>2 DEF Passes, NoneEdited

LEMMA ProposePreserves ==
  ASSUME FrozenInv, NEW a \in Authors, Propose(a)
  PROVE  FrozenInv'
<1>1. PICK v \in Versions, f \in File :
        /\ f # main[v]
        /\ change' = [change EXCEPT ![a] = [version |-> v, from |-> main[v], to |-> f]]
  BY DEF Propose
<1>2. change[a] = NoChange /\ UNCHANGED <<main, green, upToDate>>
  BY DEF Propose
<1>3. [version |-> v, from |-> main[v], to |-> f] \in Change
  BY DEF FrozenInv, Change
<1>4. change' \in [Authors -> Change \cup {NoChange}]
  BY <1>1, <1>3 DEF FrozenInv
<1>5. ASSUME NEW b \in Authors PROVE (PassedAddsFile(b) /\ ChangesItsFile(b))'
  <2>1. CASE b = a
    <3>1. change'[a].from = main[v] /\ change'[a].to = f
      BY <1>1 DEF FrozenInv
    <3>2. ~green[a]
      BY <1>2 DEF FrozenInv, PassedAddsFile
    <3> QED
      BY <2>1, <3>1, <3>2, <1>1, <1>2 DEF PassedAddsFile, ChangesItsFile
  <2>2. CASE b # a
    <3>1. change'[b] = change[b] /\ green'[b] = green[b]
      BY <2>2, <1>1, <1>2 DEF FrozenInv
    <3> QED
      BY <3>1 DEF FrozenInv, PassedAddsFile, ChangesItsFile
  <2> QED
    BY <2>1, <2>2
<1> QED
  BY <1>2, <1>4, <1>5 DEF FrozenInv

(* A change that passes was written against a version not yet released. *)
LEMMA RunCheckPreserves ==
  ASSUME FrozenInv, NEW a \in Authors, RunCheck(a)
  PROVE  FrozenInv'
<1>1. /\ change[a] # NoChange /\ main[change[a].version] = change[a].from
      /\ Passes(main, Merged(a))
      /\ green' = [green EXCEPT ![a] = TRUE]
      /\ UNCHANGED <<main, change, upToDate>>
  BY DEF RunCheck, Mergeable
<1>2. change[a].version \in Versions /\ change[a].from # change[a].to
  BY <1>1 DEF FrozenInv, Change, ChangesItsFile
<1>3. Merged(a)[change[a].version] = change[a].to
  BY <1>2 DEF Merged, FrozenInv
<1>4. change[a].from = NoFile
  BY <1>1, <1>2, <1>3, PassesFreezes
<1>5. ASSUME NEW b \in Authors PROVE (PassedAddsFile(b) /\ ChangesItsFile(b))'
  BY <1>1, <1>4 DEF FrozenInv, PassedAddsFile, ChangesItsFile
<1> QED
  BY <1>1, <1>5 DEF FrozenInv

LEMMA MergePreserves ==
  ASSUME FrozenInv, NEW a \in Authors, Merge(a)
  PROVE  FrozenInv'
<1>1. /\ change[a] # NoChange
      /\ main' = Merged(a)
      /\ change' = [change EXCEPT ![a] = NoChange]
      /\ green' = [b \in Authors |-> b # a /\ green[b] /\ ~upToDate]
      /\ UNCHANGED upToDate
  BY DEF Merge, Mergeable
<1>2. main' \in [Versions -> File]
  <2>1. change[a].version \in Versions /\ change[a].to \in File
    BY <1>1 DEF FrozenInv, Change
  <2> QED
    BY <1>1, <2>1 DEF Merged, FrozenInv
<1>3. change' \in [Authors -> Change \cup {NoChange}]
  BY <1>1 DEF FrozenInv
<1>4. green' \in [Authors -> BOOLEAN]
  BY <1>1
<1>5. ASSUME NEW b \in Authors PROVE (PassedAddsFile(b) /\ ChangesItsFile(b))'
  <2>1. green'[b] => b # a /\ green[b]
    BY <1>1
  <2>2. change'[b] = IF b = a THEN NoChange ELSE change[b]
    BY <1>1 DEF FrozenInv
  <2> QED
    BY <2>1, <2>2 DEF FrozenInv, PassedAddsFile, ChangesItsFile
<1>6. upToDate' \in BOOLEAN
  BY <1>1 DEF FrozenInv
<1> QED
  BY <1>2, <1>3, <1>4, <1>5, <1>6 DEF FrozenInv

LEMMA WithdrawPreserves ==
  ASSUME FrozenInv, NEW a \in Authors, Withdraw(a)
  PROVE  FrozenInv'
<1>1. /\ UNCHANGED <<main, upToDate>>
      /\ change' = [change EXCEPT ![a] = NoChange]
      /\ green' = [green EXCEPT ![a] = FALSE]
  BY DEF Withdraw
<1>2. /\ change' \in [Authors -> Change \cup {NoChange}]
      /\ green' \in [Authors -> BOOLEAN]
  BY <1>1 DEF FrozenInv
<1>3. ASSUME NEW b \in Authors PROVE (PassedAddsFile(b) /\ ChangesItsFile(b))'
  BY <1>1 DEF FrozenInv, PassedAddsFile, ChangesItsFile
<1> QED
  BY <1>1, <1>2, <1>3 DEF FrozenInv

LEMMA NextPreserves == FrozenInv /\ [Next]_vars => FrozenInv'
<1> SUFFICES ASSUME FrozenInv, [Next]_vars PROVE FrozenInv'
  OBVIOUS
<1>1. ASSUME NEW a \in Authors, Propose(a) \/ RunCheck(a) \/ Merge(a) \/ Withdraw(a)
      PROVE  FrozenInv'
  BY <1>1, ProposePreserves, RunCheckPreserves, MergePreserves, WithdrawPreserves
<1>2. CASE UNCHANGED vars
  BY <1>2 DEF vars, FrozenInv, PassedAddsFile, ChangesItsFile
<1> QED
  BY <1>1, <1>2 DEF Next

(* Only a merge changes main, and only where nothing was released. *)
LEMMA StepFreezes ==
  ASSUME FrozenInv, [Next]_vars, NEW v \in Released(main)
  PROVE  main'[v] = main[v]
<1>1. CASE UNCHANGED main
  BY <1>1
<1>2. ASSUME NEW a \in Authors, Merge(a) PROVE main'[v] = main[v]
  <2>1. /\ main[change[a].version] = NoFile /\ main' = Merged(a)
        /\ v \in Versions /\ main[v] # NoFile
    BY <1>2 DEF Merge, Mergeable, FrozenInv, PassedAddsFile, Released
  <2> QED
    BY <2>1 DEF Merged, FrozenInv
<1> QED
  BY <1>1, <1>2 DEF Next, Propose, RunCheck, Withdraw, vars

(* Main, the pull requests and their passes keep their types, and only an  *)
(* open pull request has a pass.                                           *)
THEOREM LineageTypes == Spec => []TypeOK
<1>1. FrozenInv => TypeOK
  BY DEF FrozenInv, PassedAddsFile, TypeOK, Tree
<1> QED
  BY <1>1, InitEstablishes, NextPreserves, PTL DEF Spec

(* No sequence of pull requests edits or deletes a released version, even  *)
(* if passes outlive the main they were earned on: additive_only.py with   *)
(* git's refusal to merge over a file that has changed.                    *)
THEOREM ReleasedStaysFrozen == Spec => ReleasedIsFrozen
<1>1. FrozenInv /\ [Next]_vars =>
        [\A v \in Released(main) : main'[v] = main[v]]_vars
  BY StepFreezes
<1> QED
  BY <1>1, InitEstablishes, NextPreserves, PTL DEF Spec, ReleasedIsFrozen
-----------------------------------------------------------------------------
(* From neighbours to all versions.                                        *)

(* What SAFE_WIDENINGS, one pair, has: two steps are no more than one. *)
WideningsCompose ==
  \A t, u, v \in Types :
    (<<t, u>> \in Widenings /\ <<u, v>> \in Widenings) => <<t, v>> \in Widenings

Readable(older, newer) == KeepsColumns(older, newer) /\ TypesWiden(older, newer)

(* A non-empty set of naturals has a least element. *)
LEMMA LeastNatural ==
  ASSUME NEW T \in SUBSET Nat, T # {}
  PROVE  \E x \in T : \A y \in T : ~(y < x)
<1> DEFINE Less == {p \in Nat \X Nat : p[1] < p[2]}
<1>1. IsWellFoundedOn(Less, Nat)
  BY NatLessThanWellFounded, Zenon DEF OpToRel
<1>2. \E x \in T : \A y \in T : ~(<<y, x>> \in Less)
  BY <1>1, WFMin
<1>3. \A x, y \in Nat : y < x => <<y, x>> \in Less
  OBVIOUS
<1> QED
  BY <1>2, <1>3

(* Being readable as an older schema carries over a version between. *)
LEMMA ReadableComposes ==
  ASSUME WideningsCompose, NEW x \in Schema, NEW y \in Schema, NEW z \in Schema,
         Readable(x, y), Readable(y, z)
  PROVE  Readable(x, z)
<1>1. KeepsColumns(x, z)
  BY DEF Readable, KeepsColumns
<1>2. ASSUME NEW c \in Columns, Has(x, c), Has(z, c)
      PROVE  \/ x[c].type = z[c].type
             \/ <<x[c].type, z[c].type>> \in Widenings
  <2>1. Has(y, c)
    BY <1>2 DEF Readable, KeepsColumns
  <2>2. /\ x[c].type = y[c].type \/ <<x[c].type, y[c].type>> \in Widenings
        /\ y[c].type = z[c].type \/ <<y[c].type, z[c].type>> \in Widenings
    BY <1>2, <2>1 DEF Readable, TypesWiden
  <2>3. x[c].type \in Types /\ y[c].type \in Types /\ z[c].type \in Types
    BY <1>2, <2>1 DEF Schema, Column, Has
  <2> QED
    BY <2>2, <2>3 DEF WideningsCompose
<1> QED
  BY <1>1, <1>2 DEF Readable, TypesWiden

(* What holds of neighbours, and carries over a version between, holds of  *)
(* all pairs: otherwise take two of which it does not, as close together   *)
(* as possible; they are no neighbours, and a version between them closes  *)
(* the gap.                                                                *)
LEMMA FromNeighbours ==
  ASSUME NEW tree, NEW R,
         \A xy \in Consecutive(tree) : xy \in R,
         \A x, y, z \in Released(tree) :
           (<<x, y>> \in R /\ <<y, z>> \in R) => <<x, z>> \in R,
         NEW v \in Released(tree), NEW w \in Released(tree), v < w
  PROVE  <<v, w>> \in R
<1> DEFINE Bad(x, y) == x < y /\ <<x, y>> \notin R
           T == {d \in Nat : \E x, y \in Released(tree) : d = y - x /\ Bad(x, y)}
<1>1. Released(tree) \subseteq Nat
  BY ContractAssumption DEF Released
<1> SUFFICES ASSUME Bad(v, w) PROVE FALSE
  OBVIOUS
<1>2. w - v \in T
  BY <1>1
<1>3. PICK d \in T : \A e \in T : ~(e < d)
  BY <1>2, LeastNatural
<1>4. PICK x, y \in Released(tree) : d = y - x /\ Bad(x, y)
  BY <1>3
<1>5. CASE \E u \in Released(tree) : x < u /\ u < y
  <2>1. PICK u \in Released(tree) : x < u /\ u < y
    BY <1>5
  <2>2. /\ u - x \in Nat /\ u - x < d
        /\ y - u \in Nat /\ y - u < d
    BY <1>1, <1>4, <2>1
  <2>3. ~Bad(x, u) /\ ~Bad(u, y)
    BY <1>3, <2>2
  <2> QED
    BY <1>4, <2>1, <2>3
<1>6. CASE ~ \E u \in Released(tree) : x < u /\ u < y
  <2>1. <<x, y>> \in Consecutive(tree)
    BY <1>4, <1>6 DEF Consecutive
  <2> QED
    BY <1>4, <2>1
<1> QED
  BY <1>5, <1>6

LEMMA ReleasedAreSchemas ==
  ASSUME NEW tree \in Tree
  PROVE  /\ \A v \in Released(tree) : tree[v] \in Schema
         /\ \A xy \in Consecutive(tree) :
              /\ xy = <<xy[1], xy[2]>>
              /\ xy[1] \in Released(tree) /\ xy[2] \in Released(tree)
BY DEF Released, Tree, File, Consecutive

(* A lineage the check accepts pair by pair is readable from any version   *)
(* on.                                                                     *)
LEMMA NeighboursSuffice ==
  ASSUME WideningsCompose, NEW tree \in Tree, LineageHolds(tree),
         NEW v \in Released(tree), NEW w \in Released(tree), v < w
  PROVE  Readable(tree[v], tree[w])
<1> DEFINE R == {xy \in Released(tree) \X Released(tree) :
                  Readable(tree[xy[1]], tree[xy[2]])}
<1>1. \A xy \in Consecutive(tree) : xy \in R
  BY DEF LineageHolds, Additive, Readable, Consecutive
<1>2. \A x, y, z \in Released(tree) :
        (<<x, y>> \in R /\ <<y, z>> \in R) => <<x, z>> \in R
  BY ReleasedAreSchemas, ReadableComposes
<1>3. <<v, w>> \in R
  <2> HIDE DEF R
  <2> QED
    BY <1>1, <1>2, FromNeighbours
<1> QED
  BY <1>3

(* The rule check_lineage does not have: a default stays, or the column    *)
(* becomes nullable.                                                       *)
KeepsDefaults(older, newer) ==
  \A c \in Columns :
    (Has(older, c) /\ Has(newer, c) /\ older[c].default) =>
      newer[c].nullable \/ newer[c].default

DefaultsStay(tree) ==
  \A vw \in Consecutive(tree) : KeepsDefaults(tree[vw[1]], tree[vw[2]])

(* A column an older schema can leave out may be left out of the newer. *)
StaysFillable(older, newer) ==
  /\ KeepsColumns(older, newer) /\ AddedAreFillable(older, newer)
  /\ \A c \in Columns :
       (Has(older, c) /\ (older[c].nullable \/ older[c].default)) =>
         newer[c].nullable \/ newer[c].default

LEMMA FillableComposes ==
  ASSUME NEW x, NEW y, NEW z, StaysFillable(x, y), StaysFillable(y, z)
  PROVE  StaysFillable(x, z)
BY DEF StaysFillable, KeepsColumns, AddedAreFillable

(* With that rule, neighbours suffice for the writes as well. *)
LEMMA NeighboursSufficeForWrites ==
  ASSUME NEW tree \in Tree, LineageHolds(tree), DefaultsStay(tree),
         NEW v \in Released(tree), NEW w \in Released(tree), v < w
  PROVE  AddedAreFillable(tree[v], tree[w])
<1> DEFINE R == {xy \in Released(tree) \X Released(tree) :
                  StaysFillable(tree[xy[1]], tree[xy[2]])}
<1>1. ASSUME NEW xy \in Consecutive(tree) PROVE xy \in R
  <2>1. /\ Additive(tree[xy[1]], tree[xy[2]])
        /\ KeepsDefaults(tree[xy[1]], tree[xy[2]])
    BY DEF LineageHolds, DefaultsStay
  <2>2. StaysFillable(tree[xy[1]], tree[xy[2]])
    BY <2>1 DEF Additive, KeepsColumns, NullsStay, KeepsDefaults, StaysFillable
  <2> QED
    BY <2>2 DEF Consecutive
<1>2. \A x, y, z \in Released(tree) :
        (<<x, y>> \in R /\ <<y, z>> \in R) => <<x, z>> \in R
  BY FillableComposes
<1>3. <<v, w>> \in R
  <2> HIDE DEF R
  <2> QED
    BY <1>1, <1>2, FromNeighbours
<1> QED
  BY <1>3 DEF StaysFillable

-----------------------------------------------------------------------------
(* A pass that counts was earned on the main it will be merged into. *)
PassIsFresh(a) == green[a] => LineageHolds(Merged(a))

CheckedInv ==
  FrozenInv /\ LineageHolds(main) /\ \A a \in Authors : PassIsFresh(a)

LEMMA InitChecked == Init => CheckedInv
<1> SUFFICES ASSUME Init PROVE CheckedInv
  OBVIOUS
<1>1. Released(main) \subseteq {1}
  BY DEF Init, Released
<1>2. Consecutive(main) = {}
  BY <1>1 DEF Consecutive
<1> QED
  BY <1>2, InitEstablishes DEF CheckedInv, Init, PassIsFresh, LineageHolds

LEMMA NextChecked ==
  ASSUME CheckedInv, [Next]_vars, upToDate
  PROVE  CheckedInv'
<1>1. FrozenInv'
  BY NextPreserves DEF CheckedInv
<1>2. ASSUME UNCHANGED main,
             \A b \in Authors :
               PassIsFresh(b)' \/ (change'[b] = change[b] /\ green'[b] = green[b])
      PROVE  CheckedInv'
  <2>1. LineageHolds(main)'
    BY <1>2 DEF CheckedInv
  <2>2. ASSUME NEW b \in Authors PROVE PassIsFresh(b)'
    BY <1>2 DEF CheckedInv, PassIsFresh, Merged
  <2> QED
    BY <1>1, <2>1, <2>2 DEF CheckedInv
<1>3. ASSUME NEW a \in Authors, Propose(a) \/ Withdraw(a) PROVE CheckedInv'
  <2>1. ~green'[a] /\ UNCHANGED main
    BY <1>3 DEF Propose, Withdraw, CheckedInv, FrozenInv, PassedAddsFile
  <2>2. \A b \in Authors :
          b # a => change'[b] = change[b] /\ green'[b] = green[b]
    BY <1>3 DEF Propose, Withdraw, CheckedInv, FrozenInv
  <2> QED
    BY <1>2, <2>1, <2>2 DEF PassIsFresh
<1>4. ASSUME NEW a \in Authors, RunCheck(a) PROVE CheckedInv'
  <2>1. UNCHANGED <<main, change>> /\ LineageHolds(Merged(a))
    BY <1>4 DEF RunCheck, Passes
  <2>2. PassIsFresh(a)'
    BY <2>1 DEF PassIsFresh, Merged
  <2>3. \A b \in Authors : b # a => green'[b] = green[b]
    BY <1>4 DEF RunCheck, CheckedInv, FrozenInv
  <2> QED
    BY <1>2, <2>1, <2>2, <2>3
<1>5. ASSUME NEW a \in Authors, Merge(a) PROVE CheckedInv'
  <2>1. LineageHolds(main') /\ \A b \in Authors : ~green'[b]
    BY <1>5 DEF Merge, CheckedInv, PassIsFresh
  <2> QED
    BY <1>1, <2>1 DEF CheckedInv, PassIsFresh
<1>6. CASE UNCHANGED vars
  BY <1>2, <1>6 DEF vars
<1> QED
  BY <1>3, <1>4, <1>5, <1>6 DEF Next

(* The rule is set once and for all. *)
LEMMA CheckedInvariant == Spec => [](upToDate => CheckedInv)
<1> DEFINE Inv == FrozenInv /\ (upToDate => CheckedInv)
<1>1. Init => Inv
  BY InitEstablishes, InitChecked
<1>2. Inv /\ [Next]_vars => Inv'
  <2> SUFFICES ASSUME Inv, [Next]_vars PROVE Inv'
    OBVIOUS
  <2>1. UNCHANGED upToDate
    BY DEF Next, Propose, RunCheck, Merge, Withdraw, vars
  <2> QED
    BY <2>1, NextPreserves, NextChecked
<1> QED
  BY <1>1, <1>2, PTL DEF Spec

LEMMA CheckedTree == CheckedInv => main \in Tree /\ LineageHolds(main)
BY DEF CheckedInv, FrozenInv, Tree

(* Where a pass is dropped when main moves, main never gets into a state   *)
(* the check rejects: no merge locks out the pull requests after it        *)
(* (main() compares the whole lineage every time).                         *)
THEOREM MainStaysAdditive == Spec => [](upToDate => LineageHolds(main))
BY CheckedTree, CheckedInvariant, PTL

(* Under the same rule, every released version can be read as any earlier  *)
(* one, for any number of columns, types and versions, although the check  *)
(* only compares neighbours ("so that a reader built against an earlier    *)
(* version keeps working", additive_only.py).                              *)
THEOREM EarlierReadersKeepWorking ==
  ASSUME WideningsCompose
  PROVE  Spec => []ReadersKeepWorking
<1>1. (upToDate => CheckedInv) => ReadersKeepWorking
  BY CheckedTree, NeighboursSuffice DEF ReadersKeepWorking, Older, Readable
<1> QED
  BY <1>1, CheckedInvariant, PTL

(* Under it again, a default that a later version drops is all that can    *)
(* fail an earlier version's writes: as long as no neighbours did that, every later        *)
(* version takes the writes of every earlier one.                          *)
THEOREM OnlyDroppedDefaultsFailWrites ==
  Spec => [](DefaultsStay(main) => OlderWritesSucceed)
<1>1. (upToDate => CheckedInv) => (DefaultsStay(main) => OlderWritesSucceed)
  BY CheckedTree, NeighboursSufficeForWrites DEF OlderWritesSucceed, Older
<1> QED
  BY <1>1, CheckedInvariant, PTL
-----------------------------------------------------------------------------
(* The storage fixture.                                                    *)

(* A database holds what some version that was applied to it says, and the *)
(* indexes of such versions.                                               *)
HoldsApplied ==
  /\ applied \subseteq Released(checkout)
  /\ table = NoFile => applied = {}
  /\ table # NoFile => \E u \in applied : table = checkout[u]
  /\ \A c \in indexes : \E u \in applied : c \in Indexed[u]
  /\ partitioned => hypertable

(* What create_schema has still to do, and has done. *)
UnderWay ==
  /\ todo \in {"none", "table", "hypertable", "indexes"}
  /\ IF todo = "none" THEN asked = NoFile ELSE asked \in Released(checkout)
  /\ todo \in {"table", "hypertable"} => pending = Indexed[asked]
  /\ todo = "hypertable" => hypertable
  /\ todo = "indexes" => /\ Indexed[asked] \subseteq indexes \cup pending
                         /\ hypertable => partitioned
  /\ todo \in {"hypertable", "indexes"} => asked \in applied
  /\ pending # {} => todo # "none" /\ pending \subseteq Indexed[asked]

BuiltInFull ==
  \A v \in built : /\ v \in applied /\ Indexed[v] \subseteq indexes
                   /\ hypertable => partitioned

FixtureInv ==
  /\ checkout \in Tree /\ LineageHolds(checkout)
  /\ hypertable \in BOOLEAN /\ partitioned \in BOOLEAN
  /\ HoldsApplied /\ UnderWay /\ BuiltInFull

LEMMA FixtureInitEstablishes == FixtureInit => FixtureInv
BY DEF FixtureInit, FixtureInv, HoldsApplied, UnderWay, BuiltInFull

LEMMA FixtureStepPreserves == FixtureInv /\ [FixtureNext]_fixtureVars => FixtureInv'
<1> SUFFICES ASSUME FixtureInv, [FixtureNext]_fixtureVars PROVE FixtureInv'
  OBVIOUS
<1> USE DEF FixtureInv, HoldsApplied, UnderWay, BuiltInFull, databaseVars
<1>1. ASSUME NEW v \in Versions, CreateSchema(v) PROVE FixtureInv'
  BY <1>1 DEF CreateSchema
<1>2. CASE CreateTable
  <2>1. checkout[asked] # NoFile
    BY <1>2 DEF CreateTable, Released
  <2> QED
    BY <1>2, <2>1 DEF CreateTable, Loaded
<1>3. CASE CreateHypertable
  BY <1>3 DEF CreateHypertable
<1>4. CASE CreateIndex
  BY <1>4 DEF CreateIndex
<1>5. CASE Return
  BY <1>5 DEF Return
<1>6. CASE StatementFails
  BY <1>6 DEF StatementFails
<1>7. CASE NewDatabase
  BY <1>7 DEF NewDatabase
<1>8. CASE UNCHANGED fixtureVars
  BY <1>8 DEF fixtureVars
<1> QED
  BY <1>1, <1>2, <1>3, <1>4, <1>5, <1>6, <1>7, <1>8 DEF FixtureNext

(* The database and what create_schema is doing to it keep their types. *)
THEOREM FixtureTypes == FixtureSpec => []FixtureTypeOK
<1>1. FixtureInv => FixtureTypeOK
  <2> SUFFICES ASSUME FixtureInv PROVE FixtureTypeOK
    OBVIOUS
  <2>1. /\ checkout \in [Versions -> File] /\ NoFile \in File
        /\ applied \subseteq Versions /\ built \subseteq Versions
    BY DEF FixtureInv, HoldsApplied, BuiltInFull, Released, Tree, File
  <2>2. table \in File
    BY <2>1 DEF FixtureInv, HoldsApplied
  <2>3. indexes \subseteq Columns
    BY <2>1, IndexedAssumption DEF FixtureInv, HoldsApplied
  <2>4. pending \subseteq Columns
    <3>1. CASE todo = "none"
      BY <3>1 DEF FixtureInv, UnderWay
    <3>2. CASE todo # "none"
      BY <3>2, IndexedAssumption DEF FixtureInv, UnderWay, Released
    <3> QED
      BY <3>1, <3>2
  <2> QED
    BY <2>1, <2>2, <2>3, <2>4
    DEF FixtureInv, HoldsApplied, UnderWay, FixtureTypeOK, Tree, Released
<1> QED
  BY <1>1, FixtureInitEstablishes, FixtureStepPreserves, PTL DEF FixtureSpec

(* However many attempts failed half way, a database that create_schema    *)
(* returned for, and no other version was applied to, is the contract      *)
(* (testing.py, create_schema).                                            *)
THEOREM FixtureBuildsTheContract == FixtureSpec => []BuiltIsTheContract
<1>1. FixtureInv => BuiltIsTheContract
  <2> SUFFICES ASSUME FixtureInv, NEW v \in built, applied = {v}
               PROVE  /\ table = checkout[v] /\ indexes = Indexed[v]
                      /\ partitioned = hypertable
    BY DEF BuiltIsTheContract
  <2>1. table = checkout[v]
    BY DEF FixtureInv, HoldsApplied
  <2>2. indexes = Indexed[v]
    BY DEF FixtureInv, HoldsApplied, BuiltInFull
  <2>3. partitioned = hypertable
    BY DEF FixtureInv, HoldsApplied, BuiltInFull
  <2> QED
    BY <2>1, <2>2, <2>3
<1> QED
  BY <1>1, FixtureInitEstablishes, FixtureStepPreserves, PTL DEF FixtureSpec

(* A database that versions were applied to in any order, first come,      *)
(* first served (CREATE TABLE IF NOT EXISTS), can be read as the oldest of *)
(* them and as any version before.                                         *)
THEOREM FixtureServesEarlierReaders ==
  ASSUME WideningsCompose
  PROVE  FixtureSpec => []EarlierReadersAreServed
<1>1. FixtureInv => EarlierReadersAreServed
  <2> SUFFICES ASSUME FixtureInv, NEW u \in Released(checkout), applied # {},
                      \A w \in applied : u <= w
               PROVE  Readable(checkout[u], table)
    BY DEF EarlierReadersAreServed, Readable
  <2>1. PICK w \in applied : table = checkout[w]
    BY DEF FixtureInv, HoldsApplied
  <2>2. w \in Released(checkout) /\ Released(checkout) \subseteq Nat
    BY ContractAssumption DEF FixtureInv, HoldsApplied, Released
  <2>3. CASE u = w
    BY <2>1, <2>3 DEF Readable, KeepsColumns, TypesWiden
  <2>4. CASE u < w
    BY <2>1, <2>2, <2>4, NeighboursSuffice DEF FixtureInv
  <2> QED
    BY <2>2, <2>3, <2>4
<1> QED
  BY <1>1, FixtureInitEstablishes, FixtureStepPreserves, PTL DEF FixtureSpec
=============================================================================
