--------------------------- MODULE StorageLineage ---------------------------
(***************************************************************************)
(* A storage contract on the main branch, and the pull requests that       *)
(* change it: tools/ci/additive_only.py, run by CI on the merge of a pull  *)
(* request with main, decides which of them may land.  Git and the merge   *)
(* button are external.                                                    *)
(***************************************************************************)
EXTENDS StorageContract

CONSTANTS
  Authors,    \* one open pull request each
  NoChange

Change == [version : Versions, from : File, to : File]

VARIABLES
  main,      \* main's files: the released versions
  change,    \* what each author's pull request does to one file
  green,     \* has CI passed for it?
  upToDate   \* must it be checked again when main has moved?  a setting of
             \* the hosting service, which the repository does not hold

vars == <<main, change, green, upToDate>>

TypeOK ==
  /\ main \in Tree
  /\ change \in [Authors -> Change \cup {NoChange}]
  /\ green \in [Authors -> BOOLEAN]
  /\ upToDate \in BOOLEAN
  /\ \A a \in Authors : green[a] => change[a] # NoChange

-----------------------------------------------------------------------------
(* Pull requests.                                                          *)

(* The first version of the table, whatever it holds, is released. *)
Init ==
  /\ \E first \in Schema :
       main = [v \in Versions |-> IF v = 1 THEN first ELSE NoFile]
  /\ change = [a \in Authors |-> NoChange]
  /\ green = [a \in Authors |-> FALSE]
  /\ upToDate \in BOOLEAN

(* The file is as it was when the change was written: git can merge it. *)
Mergeable(a) == change[a] # NoChange /\ main[change[a].version] = change[a].from

Merged(a) == [main EXCEPT ![change[a].version] = change[a].to]

Propose(a) ==
  /\ change[a] = NoChange
  /\ \E v \in Versions, f \in File :
       /\ f # main[v]
       /\ change' = [change EXCEPT
                       ![a] = [version |-> v, from |-> main[v], to |-> f]]
  /\ UNCHANGED <<main, green, upToDate>>

(* CI checks the merge of the change with main against main. *)
RunCheck(a) ==
  /\ Mergeable(a) /\ ~green[a]
  /\ Passes(main, Merged(a))
  /\ green' = [green EXCEPT ![a] = TRUE]
  /\ UNCHANGED <<main, change, upToDate>>

(* Mutant: the passes of the others stay valid. *)
Merge_KeepsPasses(a) ==
  /\ Mergeable(a) /\ green[a]
  /\ main' = Merged(a)
  /\ change' = [change EXCEPT ![a] = NoChange]
  /\ UNCHANGED <<green, upToDate>>

Merge(a) ==
  /\ Mergeable(a) /\ green[a]
  /\ main' = Merged(a)
  /\ change' = [change EXCEPT ![a] = NoChange]
  /\ green' = [b \in Authors |-> b # a /\ green[b] /\ ~upToDate]
  /\ UNCHANGED upToDate

Withdraw(a) ==
  /\ change[a] # NoChange
  /\ change' = [change EXCEPT ![a] = NoChange]
  /\ green' = [green EXCEPT ![a] = FALSE]
  /\ UNCHANGED <<main, upToDate>>

Next ==
  \E a \in Authors : Propose(a) \/ RunCheck(a) \/ Merge(a) \/ Withdraw(a)

Spec == Init /\ [][Next]_vars

-----------------------------------------------------------------------------
(* A released version stays as it was released, even where passes that     *)
(* were earned on one main are merged one after the other.                 *)
ReleasedIsFrozen ==
  [][\A v \in Released(main) : main'[v] = main[v]]_vars

Older(v, w) == v \in Released(main) /\ w \in Released(main) /\ v < w

(* Where passes are dropped when main moves, every released version can be *)
(* read as any earlier one: its columns are there, as wide or wider,       *)
(* however many versions lie between and however the pull requests were    *)
(* interleaved ("a reader built against an earlier version keeps working").*)
ReadersKeepWorking == upToDate =>
  \A v, w \in Versions : Older(v, w) =>
    KeepsColumns(main[v], main[w]) /\ TypesWiden(main[v], main[w])

(* There, a column that a version does not know is nullable or defaulted   *)
(* in every later version, so that its writes do not fail: the same rule,  *)
(* not only between neighbours.                                            *)
OlderWritesSucceed == upToDate =>
  \A v, w \in Versions : Older(v, w) => AddedAreFillable(main[v], main[w])
=============================================================================
