----------------------------- MODULE CiPipeline -----------------------------
(***************************************************************************)
(* .github/workflows/ci.yml: a pull request is checked on its merge with   *)
(* main, a push to main on what it pushed, each on the members the         *)
(* selection names.  A member's tests read some paths and nothing else, so *)
(* their verdict is a function of those.  Git and the hosting service are  *)
(* external; lint and the other checks of the repo job may turn any run    *)
(* red.                                                                    *)
(***************************************************************************)
EXTENDS AffectedMembers, FiniteSets, Naturals

CONSTANTS
  Reads,        \* the paths each member's tests and image depend on
  Good(_, _),   \* does a member pass on what it reads?
  Holds,        \* what each path may hold
  Branches,     \* one open pull request each
  Moves,        \* do pull requests move files?
  FilesChanged, \* bound: files in a pull request
  NoEdit, NoCommit

ASSUME PipelineAssumption ==
  /\ Reads \in [Dirs -> SUBSET Paths]
  /\ \A m \in Dirs : Manifest[m] \in Reads[m]
  /\ Holds \in [Paths -> SUBSET (Contents \cup {Absent})]
  /\ Moves \in BOOLEAN
  /\ FilesChanged \in Nat
  /\ NoCommit \notin Checkout

(* What a change does to some of the files. *)
IsEdit(e) ==
  \E S \in SUBSET Paths :
    e \in [from : [S -> Contents \cup {Absent}],
          to   : [S -> Contents \cup {Absent}]]

HeldTrees == {t \in Checkout : \A p \in Paths : t[p] \in Holds[p]}

VARIABLES
  tip,     \* main's tree
  before,  \* the tree main had before the last push: github.event.before
  status,  \* the run of the last push
  trail,   \* history: since the last full green run, were all runs green,
           \* and did git and the selection hide nothing from them?
  edit,    \* what each branch's pull request changes
  pass     \* has CI passed for it, and on the main of now?

ciVars == <<tip, before, status, trail, edit, pass>>

CiTypeOK ==
  /\ tip \in Checkout
  /\ before \in Checkout \cup {NoCommit}
  /\ status \in {"running", "green", "red"}
  /\ trail \in BOOLEAN
  /\ DOMAIN edit = Branches
  /\ \A a \in Branches : edit[a] = NoEdit \/ IsEdit(edit[a])
  /\ pass \in [Branches -> {"none", "fresh", "stale"}]
  /\ \A a \in Branches : pass[a] # "none" => edit[a] # NoEdit

-----------------------------------------------------------------------------
MemberPasses(m, tree) == Good(m, [p \in Reads[m] |-> tree[p]])

Healthy(tree) == \A m \in Members(tree) : MemberPasses(m, tree)

(* Mutant: the members of the old checkout. *)
Detected_OldMembers(old, new) ==
  IF old = NoCommit THEN Members(new)
  ELSE Affected(ListedNames(old, new), Members(old)) \cap Members(new)

(* The detect job: the range of the diff, and the matrix over its answer;  *)
(* without a usable base, every member.                                    *)
Detected(old, new) ==
  IF old = NoCommit THEN Members(new)
  ELSE Affected(ListedNames(old, new), Members(new))

(* The required check: every job of the matrix succeeds, or there is none. *)
MatrixPasses(old, new) == \A m \in Detected(old, new) : MemberPasses(m, new)

(* What the selection does not know to be an input of m: ignored paths,    *)
(* and those of another member, unless that is a library and m a service.  *)
Overlooked(m) ==
  {p \in Paths \ GlobalPaths :
     \/ p \in IgnoredPaths
     \/ \E d \in Dirs \ {m} :
          p \in Owned[d] /\ ~(d \in LibDirs /\ m \in ServiceDirs)}

(* A difference that hides no changed input of a member from CI. *)
SeenInFull(old, new) ==
  \A m \in Members(new) : \A p \in Reads[m] :
    old[p] # new[p] => p \notin Overlooked(m) /\ p \notin MovedAway(old, new)

(* The first push of main: there is no commit before it. *)
CiInit ==
  /\ tip \in HeldTrees
  /\ before = NoCommit /\ status = "running" /\ trail = FALSE
  /\ edit = [a \in Branches |-> NoEdit]
  /\ pass = [a \in Branches |-> "none"]

-----------------------------------------------------------------------------
(* Pull requests.                                                          *)

(* Git can merge what main has not changed since. *)
CanMerge(a) ==
  edit[a] # NoEdit /\ \A p \in DOMAIN edit[a].from : tip[p] = edit[a].from[p]

MergeOf(a) ==
  [p \in Paths |-> IF p \in DOMAIN edit[a].to THEN edit[a].to[p] ELSE tip[p]]

OpenPull(a) ==
  /\ edit[a] = NoEdit
  /\ \E new \in HeldTrees :
       LET S == Changed(tip, new) IN
       /\ Cardinality(S) \in 1..FilesChanged
       /\ Moves \/ MovedAway(tip, new) = {}
       /\ edit' = [edit EXCEPT ![a] = [from |-> [p \in S |-> tip[p]],
                                       to   |-> [p \in S |-> new[p]]]]
  /\ UNCHANGED <<tip, before, status, trail, pass>>

(* A run on refs/pull/N/merge ends green.  It is a function of what it     *)
(* checked out, so when it began and was checked out matters, not how      *)
(* long it took.  Its range starts at base.sha, the main of the event that *)
(* began it, taken here for the main it is merged with.                    *)
CheckPull(a) ==
  /\ CanMerge(a) /\ pass[a] # "fresh"
  /\ MatrixPasses(tip, MergeOf(a))
  /\ pass' = [pass EXCEPT ![a] = "fresh"]
  /\ UNCHANGED <<tip, before, status, trail, edit>>

(* The merge is a push to main: its run replaces one still in progress     *)
(* (cancel-in-progress), whose members are then not looked at again.       *)
MergePull(a) ==
  /\ CanMerge(a) /\ pass[a] # "none"
  /\ tip' = MergeOf(a) /\ before' = tip /\ status' = "running"
  /\ trail' = (trail /\ status = "green" /\ SeenInFull(tip, MergeOf(a)))
  /\ edit' = [edit EXCEPT ![a] = NoEdit]
  /\ pass' = [b \in Branches |-> IF b = a \/ pass[b] = "none" THEN "none"
                                                             ELSE "stale"]

(* Closed, or rewritten: the new commits cancel what was known of it. *)
ClosePull(a) ==
  /\ edit[a] # NoEdit
  /\ edit' = [edit EXCEPT ![a] = NoEdit]
  /\ pass' = [pass EXCEPT ![a] = "none"]
  /\ UNCHANGED <<tip, before, status, trail>>

-----------------------------------------------------------------------------
(* The run of the last push to main.                                       *)

GoesGreen ==
  /\ status = "running"
  /\ MatrixPasses(before, tip)
  /\ status' = "green"
  /\ trail' = (trail \/ Detected(before, tip) = Members(tip))
  /\ UNCHANGED <<tip, before, edit, pass>>

GoesRed ==
  /\ status = "running"
  /\ status' = "red"
  /\ UNCHANGED <<tip, before, trail, edit, pass>>

Rerun ==
  /\ status = "red"
  /\ status' = "running"
  /\ UNCHANGED <<tip, before, trail, edit, pass>>

CiNext ==
  \/ GoesGreen \/ GoesRed \/ Rerun
  \/ \E a \in Branches :
       OpenPull(a) \/ CheckPull(a) \/ MergePull(a) \/ ClosePull(a)

CiSpec == CiInit /\ [][CiNext]_ciVars

-----------------------------------------------------------------------------
(* A member one of whose inputs a push has changed is among those its run  *)
(* tests, wherever the selection can know the input for its own: "an       *)
(* unnecessary build is cheap, a skipped one that should have run is not"  *)
(* (affected_members.py).                                                  *)
SelectionIsSound ==
  before # NoCommit =>
    \A m \in Members(tip) :
      (\E p \in Reads[m] \ Overlooked(m) : before[p] # tip[p])
        => m \in Detected(before, tip)

(* When the runs of main since the last full one are all green, every      *)
(* member passes on main as it is, though each run has tested only the     *)
(* members of one push, and pull requests may have passed on a main that   *)
(* had moved when they were merged.  A push that hides an input from CI    *)
(* ends the trail: the next full run begins another.                       *)
GreenTrailMeansHealthy == (status = "green" /\ trail) => Healthy(tip)

(* A pull request whose check ran on the main it is merged into keeps that *)
(* main healthy, if it hides no input from CI: the required check is       *)
(* enough of a gate, selective as it is.                                   *)
FreshPassKeepsHealth ==
  [][\A a \in Branches :
       (/\ CanMerge(a) /\ pass[a] = "fresh" /\ SeenInFull(tip, MergeOf(a))
        /\ Healthy(tip) /\ tip' = MergeOf(a))
         => Healthy(tip')]_ciVars
=============================================================================
