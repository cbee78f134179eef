-------------------------- MODULE CiPipelineProofs --------------------------
(***************************************************************************)
(* Testing only what a diff touches is as good as testing everything: for  *)
(* any paths, members and rules of the selection, whatever members read,   *)
(* as long as a difference hides no input that changed: what is ignored,   *)
(* what lies with another member, and what git takes for moved are the     *)
(* only ways to hide one.                                                  *)
(***************************************************************************)
EXTENDS CiPipeline, TLAPS

(* A pull request may change files in any way but git's renames. *)
NothingMoves == ~Moves

-----------------------------------------------------------------------------
(* The selection.                                                          *)

LEMMA MembersAreDirs ==
  ASSUME NEW tree
  PROVE  Members(tree) \subseteq Dirs
  BY DEF Members

(* A member one of whose inputs differs is selected, unless the input is   *)
(* overlooked or was moved away.                                           *)
LEMMA ChangedReadsAreDetected ==
  ASSUME NEW old, NEW new, NEW m \in Members(new), NEW p \in Reads[m],
         old[p] # new[p], p \notin Overlooked(m), p \notin MovedAway(old, new)
  PROVE  m \in Detected(old, new)
<1> DEFINE members == Members(new)
           listed == ListedNames(old, new)
<1>1. CASE old = NoCommit
  BY <1>1 DEF Detected
<1>2. CASE old # NoCommit
  <2>1. m \in Dirs
    BY MembersAreDirs
  <2>2. p \in Paths
    BY <2>1, PipelineAssumption
  <2>3. p \in listed
    BY <2>2 DEF ListedNames, Changed
  <2>4. CASE \E q \in listed : TouchesAll(q, members)
    BY <1>2, <2>4 DEF Detected, Affected
  <2>5. CASE ~ \E q \in listed : TouchesAll(q, members)
    <3>1. p \notin GlobalPaths
      BY <2>3, <2>5 DEF TouchesAll
    <3>2. p \notin IgnoredPaths
      BY <2>2, <3>1 DEF Overlooked
    <3>3. PICK d \in members : p \in Owned[d]
      BY <2>3, <2>5, <3>2 DEF TouchesAll, OwningMembers
    <3> DEFINE touched == UNION {OwningMembers(q, members) :
                                   q \in listed \ IgnoredPaths}
    <3>4. d \in touched
      BY <2>3, <3>2, <3>3 DEF OwningMembers
    <3>5. Detected(old, new) = WithDependents(touched, members)
      BY <1>2, <2>5 DEF Detected, Affected
    <3>6. d = m \/ (d \in LibDirs /\ m \in ServiceDirs)
      BY <2>2, <3>1, <3>3, MembersAreDirs DEF Overlooked
    <3> HIDE DEF touched, members
    <3>7. m \in members
      BY DEF members
    <3> QED
      BY <3>4, <3>5, <3>6, <3>7 DEF WithDependents
  <2> QED
    BY <2>4, <2>5
<1> QED
  BY <1>1, <1>2

(* A member whose inputs are the same was there, and passes as it did. *)
LEMMA SameReadsSameVerdict ==
  ASSUME NEW old, NEW new, NEW m \in Members(new),
         \A p \in Reads[m] : old[p] = new[p]
  PROVE  m \in Members(old) /\ (MemberPasses(m, old) <=> MemberPasses(m, new))
<1>1. m \in Dirs /\ new[Manifest[m]] # Absent
  BY DEF Members
<1>2. old[Manifest[m]] # Absent
  BY <1>1, PipelineAssumption
<1>3. [p \in Reads[m] |-> old[p]] = [p \in Reads[m] |-> new[p]]
  OBVIOUS
<1> QED
  BY <1>1, <1>2, <1>3 DEF Members, MemberPasses

(* So a healthy tree stays healthy when what the selection names passes,   *)
(* if it could see what changed.                                           *)
LEMMA MatrixIsEnough ==
  ASSUME NEW old, NEW new, SeenInFull(old, new),
         Healthy(old), MatrixPasses(old, new)
  PROVE  Healthy(new)
<1> SUFFICES ASSUME NEW m \in Members(new) PROVE MemberPasses(m, new)
  BY DEF Healthy
<1>1. CASE \A p \in Reads[m] : old[p] = new[p]
  BY <1>1, SameReadsSameVerdict DEF Healthy
<1>2. CASE \E p \in Reads[m] : old[p] # new[p]
  BY <1>2, ChangedReadsAreDetected DEF MatrixPasses, SeenInFull
<1> QED
  BY <1>1, <1>2

-----------------------------------------------------------------------------
(* The invariant.                                                          *)

(* A trail that has not seen its last run out is as good as what it had    *)
(* before the push.                                                        *)
TrailIsHealthy ==
  trail => IF status = "green" THEN Healthy(tip)
           ELSE /\ before # NoCommit /\ Healthy(before)
                /\ SeenInFull(before, tip)

FreshPassIsOfNow ==
  \A a \in Branches : pass[a] = "fresh" => MatrixPasses(tip, MergeOf(a))

CiInv == CiTypeOK /\ TrailIsHealthy /\ FreshPassIsOfNow

LEMMA CiInitEstablishes == CiInit => CiInv
<1> SUFFICES ASSUME CiInit PROVE CiInv
  OBVIOUS
<1>1. tip \in Checkout
  BY DEF CiInit, HeldTrees
<1> QED
  BY <1>1 DEF CiInit, CiInv, CiTypeOK, TrailIsHealthy, FreshPassIsOfNow

(* An edit is two functions on the same paths. *)
LEMMA EditShape ==
  ASSUME NEW e, IsEdit(e)
  PROVE  /\ DOMAIN e.from \subseteq Paths /\ DOMAIN e.to = DOMAIN e.from
         /\ \A p \in DOMAIN e.to : e.to[p] \in Contents \cup {Absent}
  BY DEF IsEdit

LEMMA MergeIsCheckout ==
  ASSUME CiTypeOK, NEW a \in Branches, edit[a] # NoEdit
  PROVE  MergeOf(a) \in Checkout
  BY EditShape DEF CiTypeOK, MergeOf, Checkout

(* What a pull request changes of a tree is an edit. *)
LEMMA OpenIsEdit ==
  ASSUME CiTypeOK, NEW t \in HeldTrees, NEW S, S \subseteq Paths
  PROVE  IsEdit([from |-> [p \in S |-> tip[p]], to |-> [p \in S |-> t[p]]])
<1>1. tip \in Checkout /\ t \in Checkout
  BY DEF CiTypeOK, HeldTrees
<1>2. /\ [p \in S |-> tip[p]] \in [S -> Contents \cup {Absent}]
      /\ [p \in S |-> t[p]] \in [S -> Contents \cup {Absent}]
  BY <1>1 DEF Checkout
<1> QED
  BY <1>2 DEF IsEdit

LEMMA CiTypesPreserved == CiTypeOK /\ [CiNext]_ciVars => CiTypeOK'
<1> SUFFICES ASSUME CiTypeOK, [CiNext]_ciVars PROVE CiTypeOK'
  OBVIOUS
<1> USE DEF CiTypeOK, IsEdit, Checkout
<1>1. CASE GoesGreen
  BY <1>1 DEF GoesGreen
<1>2. CASE GoesRed \/ Rerun
  BY <1>2 DEF GoesRed, Rerun
<1>3. ASSUME NEW a \in Branches, OpenPull(a) PROVE CiTypeOK'
  <2>1. PICK t \in HeldTrees :
          edit' = [edit EXCEPT ![a] =
                     [from |-> [p \in Changed(tip, t) |-> tip[p]],
                      to   |-> [p \in Changed(tip, t) |-> t[p]]]]
    BY <1>3 DEF OpenPull
  <2>2. IsEdit([from |-> [p \in Changed(tip, t) |-> tip[p]],
                to   |-> [p \in Changed(tip, t) |-> t[p]]])
    BY OpenIsEdit DEF Changed
  <2> DEFINE e == [from |-> [p \in Changed(tip, t) |-> tip[p]],
                   to   |-> [p \in Changed(tip, t) |-> t[p]]]
  <2> HIDE DEF e
  <2>3. IsEdit(e) /\ edit' = [edit EXCEPT ![a] = e]
    BY <2>1, <2>2 DEF e
  <2>4. /\ UNCHANGED <<tip, before, status, trail, pass>>
        /\ edit[a] = NoEdit
    BY <1>3 DEF OpenPull
  <2>5. pass[a] = "none"
    BY <2>4
  <2> QED
    BY <2>3, <2>4, <2>5
<1>4. ASSUME NEW a \in Branches, CheckPull(a) PROVE CiTypeOK'
  BY <1>4 DEF CheckPull, CanMerge
<1>5. ASSUME NEW a \in Branches, MergePull(a) PROVE CiTypeOK'
  <2>1. MergeOf(a) \in Checkout
    BY <1>5, MergeIsCheckout DEF MergePull, CanMerge
  <2> QED
    BY <1>5, <2>1 DEF MergePull
<1>6. ASSUME NEW a \in Branches, ClosePull(a) PROVE CiTypeOK'
  BY <1>6 DEF ClosePull
<1>7. CASE UNCHANGED ciVars
  BY <1>7 DEF ciVars
<1> QED
  BY <1>1, <1>2, <1>3, <1>4, <1>5, <1>6, <1>7 DEF CiNext

LEMMA OpenPreserves ==
  ASSUME CiInv, NEW a \in Branches, OpenPull(a)
  PROVE  CiInv'
<1> USE DEF CiInv
<1>1. PICK e : /\ UNCHANGED <<tip, before, status, trail, pass>>
               /\ edit[a] = NoEdit /\ edit' = [edit EXCEPT ![a] = e]
  BY DEF OpenPull
<1>2. \A b \in Branches : b # a => edit'[b] = edit[b]
  BY <1>1 DEF CiTypeOK
<1>3. pass[a] = "none"
  BY <1>1 DEF CiTypeOK
<1>4. CiTypeOK'
  BY CiTypesPreserved DEF CiNext
<1>5. TrailIsHealthy'
  BY <1>1 DEF TrailIsHealthy, SeenInFull, MovedAway, Healthy, Members,
              MemberPasses
<1>6. FreshPassIsOfNow'
  <2> SUFFICES ASSUME NEW b \in Branches, pass[b] = "fresh"
               PROVE  MatrixPasses(tip, MergeOf(b)')
    BY <1>1 DEF FreshPassIsOfNow, MatrixPasses, Detected, Affected, Members,
                MemberPasses, ListedNames, Changed, MovedAway
  <2>1. b # a
    BY <1>3
  <2>2. MergeOf(b)' = MergeOf(b)
    BY <1>1, <1>2, <2>1 DEF MergeOf
  <2> QED
    BY <2>2 DEF FreshPassIsOfNow
<1> QED
  BY <1>4, <1>5, <1>6

LEMMA CheckPreserves ==
  ASSUME CiInv, NEW a \in Branches, CheckPull(a)
  PROVE  CiInv'
<1> USE DEF CiInv
<1>1. /\ UNCHANGED <<tip, before, status, trail, edit>>
      /\ pass' = [pass EXCEPT ![a] = "fresh"]
      /\ edit[a] # NoEdit /\ MatrixPasses(tip, MergeOf(a))
  BY DEF CheckPull, CanMerge
<1>2. CiTypeOK'
  BY CiTypesPreserved DEF CiNext
<1>3. TrailIsHealthy'
  BY <1>1 DEF TrailIsHealthy, SeenInFull, MovedAway, Healthy, Members,
              MemberPasses
<1>4. FreshPassIsOfNow'
  <2> SUFFICES ASSUME NEW b \in Branches, pass'[b] = "fresh"
               PROVE  MatrixPasses(tip, MergeOf(b))'
    BY DEF FreshPassIsOfNow
  <2>1. MergeOf(b)' = MergeOf(b)
    BY <1>1 DEF MergeOf
  <2>2. MatrixPasses(tip, MergeOf(b))
    BY <1>1 DEF FreshPassIsOfNow, CiTypeOK
  <2> QED
    BY <1>1, <2>1, <2>2
<1> QED
  BY <1>2, <1>3, <1>4

LEMMA MergePullPreserves ==
  ASSUME CiInv, NEW a \in Branches, MergePull(a)
  PROVE  CiInv'
<1> USE DEF CiInv
<1>1. /\ CanMerge(a) /\ edit[a] # NoEdit
      /\ tip' = MergeOf(a) /\ before' = tip /\ status' = "running"
      /\ trail' = (trail /\ status = "green" /\ SeenInFull(tip, MergeOf(a)))
      /\ edit' = [edit EXCEPT ![a] = NoEdit]
      /\ pass' = [b \in Branches |-> IF b = a \/ pass[b] = "none" THEN "none"
                                                                ELSE "stale"]
  BY DEF MergePull, CanMerge
<1>2. MergeOf(a) \in Checkout
  BY <1>1, MergeIsCheckout
<1>3. tip # NoCommit
  BY PipelineAssumption DEF CiTypeOK
<1>4. CiTypeOK'
  BY CiTypesPreserved DEF CiNext
<1>5. TrailIsHealthy'
  <2> SUFFICES ASSUME trail, status = "green", SeenInFull(tip, MergeOf(a))
               PROVE  (Healthy(before) /\ SeenInFull(before, tip))'
    BY <1>1, <1>3 DEF TrailIsHealthy
  <2>1. Healthy(tip)
    BY DEF TrailIsHealthy
  <2> QED
    BY <1>1, <2>1 DEF Healthy, Members, MemberPasses, SeenInFull, MovedAway
<1>6. FreshPassIsOfNow'
  BY <1>1 DEF FreshPassIsOfNow
<1> QED
  BY <1>4, <1>5, <1>6

LEMMA ClosePreserves ==
  ASSUME CiInv, NEW a \in Branches, ClosePull(a)
  PROVE  CiInv'
<1> USE DEF CiInv
<1>1. /\ UNCHANGED <<tip, before, status, trail>>
      /\ edit' = [edit EXCEPT ![a] = NoEdit]
      /\ pass' = [pass EXCEPT ![a] = "none"]
  BY DEF ClosePull
<1>2. CiTypeOK'
  BY CiTypesPreserved DEF CiNext
<1>3. TrailIsHealthy'
  BY <1>1 DEF TrailIsHealthy, SeenInFull, MovedAway, Healthy, Members,
              MemberPasses
<1>4. FreshPassIsOfNow'
  <2> SUFFICES ASSUME NEW b \in Branches, pass'[b] = "fresh"
               PROVE  MatrixPasses(tip, MergeOf(b))'
    BY DEF FreshPassIsOfNow
  <2>1. b # a /\ pass[b] = "fresh"
    BY <1>1 DEF CiTypeOK
  <2>2. MergeOf(b)' = MergeOf(b)
    BY <1>1, <2>1 DEF MergeOf, CiTypeOK
  <2> QED
    BY <1>1, <2>1, <2>2 DEF FreshPassIsOfNow
<1> QED
  BY <1>2, <1>3, <1>4

(* The runs of main change neither trees nor pull requests. *)
LEMMA RunPreserves ==
  ASSUME CiInv, UNCHANGED <<tip, before, edit, pass>>,
         status' \in {"running", "green", "red"}, trail' \in BOOLEAN,
         TrailIsHealthy'
  PROVE  CiInv'
<1> USE DEF CiInv
<1>1. CiTypeOK'
  BY DEF CiTypeOK, IsEdit, Checkout
<1>2. FreshPassIsOfNow'
  <2> SUFFICES ASSUME NEW b \in Branches, pass[b] = "fresh"
               PROVE  MatrixPasses(tip, MergeOf(b))'
    BY DEF FreshPassIsOfNow
  <2>1. MergeOf(b)' = MergeOf(b)
    BY DEF MergeOf
  <2> QED
    BY <2>1 DEF FreshPassIsOfNow
<1> QED
  BY <1>1, <1>2

(* Every member has been tested, or those the push touched of a tree that  *)
(* was healthy.                                                            *)
LEMMA GreenPreserves ==
  ASSUME CiInv, GoesGreen
  PROVE  CiInv'
<1> USE DEF CiInv
<1>1. /\ UNCHANGED <<tip, before, edit, pass>>
      /\ status = "running" /\ status' = "green"
      /\ trail' = (trail \/ Detected(before, tip) = Members(tip))
      /\ MatrixPasses(before, tip)
  BY DEF GoesGreen
<1>2. ASSUME Detected(before, tip) = Members(tip) PROVE Healthy(tip)
  BY <1>1, <1>2 DEF MatrixPasses, Healthy
<1>3. ASSUME trail PROVE Healthy(tip)
  <2>1. Healthy(before) /\ SeenInFull(before, tip)
    BY <1>1, <1>3 DEF TrailIsHealthy
  <2> QED
    BY <1>1, <2>1, MatrixIsEnough
<1>4. trail' => Healthy(tip)
  BY <1>1, <1>2, <1>3
<1>5. TrailIsHealthy'
  BY <1>1, <1>4 DEF TrailIsHealthy, Healthy, Members, MemberPasses
<1>6. trail' \in BOOLEAN
  BY <1>1 DEF CiTypeOK
<1> QED
  BY <1>1, <1>5, <1>6, RunPreserves

LEMMA RedAndRerunPreserve ==
  ASSUME CiInv, GoesRed \/ Rerun
  PROVE  CiInv'
<1>1. /\ UNCHANGED <<tip, before, trail, edit, pass>>
      /\ status # "green" /\ status' \in {"running", "red"}
  BY DEF GoesRed, Rerun
<1>2. TrailIsHealthy'
  BY <1>1 DEF CiInv, TrailIsHealthy, Healthy, Members, MemberPasses,
              SeenInFull, MovedAway
<1> QED
  BY <1>1, <1>2, RunPreserves DEF CiInv, CiTypeOK

LEMMA StutterPreserves ==
  ASSUME CiInv, UNCHANGED ciVars
  PROVE  CiInv'
<1>1. UNCHANGED <<tip, before, status, trail, edit, pass>>
  BY DEF ciVars
<1>2. TrailIsHealthy'
  BY <1>1 DEF CiInv, TrailIsHealthy, Healthy, Members, MemberPasses,
              SeenInFull, MovedAway
<1> QED
  BY <1>1, <1>2, RunPreserves DEF CiInv, CiTypeOK

LEMMA CiStepPreserves == CiInv /\ [CiNext]_ciVars => CiInv'
<1> SUFFICES ASSUME CiInv, [CiNext]_ciVars PROVE CiInv'
  OBVIOUS
<1>1. CASE GoesGreen
  BY <1>1, GreenPreserves
<1>2. CASE GoesRed \/ Rerun
  BY <1>2, RedAndRerunPreserve
<1>3. ASSUME NEW a \in Branches, OpenPull(a) PROVE CiInv'
  BY <1>3, OpenPreserves
<1>4. ASSUME NEW a \in Branches, CheckPull(a) PROVE CiInv'
  BY <1>4, CheckPreserves
<1>5. ASSUME NEW a \in Branches, MergePull(a) PROVE CiInv'
  BY <1>5, MergePullPreserves
<1>6. ASSUME NEW a \in Branches, ClosePull(a) PROVE CiInv'
  BY <1>6, ClosePreserves
<1>7. CASE UNCHANGED ciVars
  BY <1>7, StutterPreserves
<1> QED
  BY <1>1, <1>2, <1>3, <1>4, <1>5, <1>6, <1>7 DEF CiNext

LEMMA CiInvariant == CiSpec => []CiInv
BY CiStepPreserves, CiInitEstablishes, PTL DEF CiSpec

-----------------------------------------------------------------------------
(* Where pull requests move nothing.                                       *)

(* No file of the edit goes away while another comes with what git takes   *)
(* for the same file's content.                                            *)
MovesNothing(e) ==
  ~ \E p, q \in DOMAIN e.from :
      /\ e.from[p] # Absent /\ e.to[p] = Absent /\ e.from[q] = Absent
      /\ <<e.from[p], e.to[q]>> \in Similar

EditsMoveNothing == \A a \in Branches : edit[a] # NoEdit => MovesNothing(edit[a])

PushMovedNothing == before # NoCommit => MovedAway(before, tip) = {}

MovesInv == CiTypeOK /\ EditsMoveNothing /\ PushMovedNothing

LEMMA MergeMovesNothing ==
  ASSUME CiTypeOK, EditsMoveNothing, NEW a \in Branches, CanMerge(a)
  PROVE  MovedAway(tip, MergeOf(a)) = {}
<1>1. edit[a] # NoEdit /\ \A p \in DOMAIN edit[a].from : tip[p] = edit[a].from[p]
  BY DEF CanMerge
<1>2. DOMAIN edit[a].from \subseteq Paths /\ DOMAIN edit[a].to = DOMAIN edit[a].from
  BY <1>1, EditShape DEF CiTypeOK
<1>3. \A p \in Paths : MergeOf(a)[p] # tip[p] =>
        p \in DOMAIN edit[a].from /\ MergeOf(a)[p] = edit[a].to[p]
  BY <1>2 DEF MergeOf
<1>4. MovesNothing(edit[a])
  BY <1>1 DEF EditsMoveNothing
<1>5. \A x, y : <<x, y>> \in Similar => y # Absent
  BY PathsAssumption
<1> QED
  BY <1>1, <1>3, <1>4, <1>5 DEF MovedAway, MovesNothing

LEMMA OpenMovesNothing ==
  ASSUME MovesInv, NothingMoves, NEW a \in Branches, OpenPull(a)
  PROVE  EditsMoveNothing'
<1>1. PICK t \in HeldTrees :
        LET S == Changed(tip, t) IN
        /\ Moves \/ MovedAway(tip, t) = {}
        /\ edit' = [edit EXCEPT ![a] = [from |-> [p \in S |-> tip[p]],
                                        to   |-> [p \in S |-> t[p]]]]
  BY DEF OpenPull
<1> DEFINE S == Changed(tip, t)
           e == [from |-> [p \in S |-> tip[p]], to |-> [p \in S |-> t[p]]]
<1>2. S \subseteq Paths /\ MovedAway(tip, t) = {}
  BY <1>1 DEF Changed, NothingMoves
<1>3. MovesNothing(e)
  BY <1>2 DEF MovesNothing, MovedAway
<1>4. edit' = [edit EXCEPT ![a] = e]
  BY <1>1
<1> HIDE DEF e
<1>5. edit'[a] = e /\ \A b \in Branches : b # a => edit'[b] = edit[b]
  BY <1>4 DEF MovesInv, CiTypeOK
<1> QED
  BY <1>3, <1>5 DEF MovesInv, EditsMoveNothing, MovesNothing

LEMMA MovesStepPreserves ==
  ASSUME NothingMoves
  PROVE  MovesInv /\ [CiNext]_ciVars => MovesInv'
<1> SUFFICES ASSUME MovesInv, [CiNext]_ciVars PROVE MovesInv'
  OBVIOUS
<1> USE DEF MovesInv
<1>1. CiTypeOK'
  BY CiTypesPreserved
<1>2. CASE UNCHANGED <<tip, before, edit>>
  BY <1>1, <1>2 DEF EditsMoveNothing, MovesNothing, PushMovedNothing, MovedAway
<1>3. ASSUME NEW a \in Branches, OpenPull(a) PROVE MovesInv'
  <2>1. UNCHANGED <<tip, before>>
    BY <1>3 DEF OpenPull
  <2>2. EditsMoveNothing'
    BY <1>3, OpenMovesNothing
  <2> QED
    BY <1>1, <2>1, <2>2 DEF PushMovedNothing, MovedAway
<1>4. ASSUME NEW a \in Branches, edit' = [edit EXCEPT ![a] = NoEdit]
      PROVE  EditsMoveNothing'
  BY <1>4 DEF EditsMoveNothing, MovesNothing, CiTypeOK
<1>5. ASSUME NEW a \in Branches, MergePull(a) PROVE MovesInv'
  <2>1. /\ CanMerge(a) /\ tip' = MergeOf(a) /\ before' = tip
        /\ edit' = [edit EXCEPT ![a] = NoEdit]
    BY <1>5 DEF MergePull
  <2> QED
    BY <1>1, <1>4, <2>1, MergeMovesNothing DEF PushMovedNothing, MovedAway
<1>6. ASSUME NEW a \in Branches, ClosePull(a) PROVE MovesInv'
  <2>1. UNCHANGED <<tip, before>> /\ edit' = [edit EXCEPT ![a] = NoEdit]
    BY <1>6 DEF ClosePull
  <2> QED
    BY <1>1, <1>4, <2>1 DEF PushMovedNothing, MovedAway
<1> QED
  BY <1>2, <1>3, <1>5, <1>6
  DEF CiNext, GoesGreen, GoesRed, Rerun, CheckPull, ciVars

LEMMA MovesInvariant ==
  ASSUME NothingMoves
  PROVE  CiSpec => []MovesInv
<1>1. CiInit => MovesInv
  BY CiInitEstablishes DEF CiInit, CiInv, MovesInv, EditsMoveNothing,
                           PushMovedNothing
<1>2. MovesInv /\ [CiNext]_ciVars => MovesInv'
  BY MovesStepPreserves
<1> QED
  BY <1>1, <1>2, PTL DEF CiSpec

-----------------------------------------------------------------------------
(* The theorems.                                                           *)

(* The variables keep their types, whatever is moved. *)
THEOREM CiTypes == CiSpec => []CiTypeOK
<1>1. CiInit => CiTypeOK
  BY CiInitEstablishes DEF CiInv
<1> QED
  BY <1>1, CiTypesPreserved, PTL DEF CiSpec

(* Of two trees whatever: where the diff does not select a member although *)
(* something it reads has changed, the selection takes the path for        *)
(* nobody's or for another member's, or git lists it under a new name.     *)
THEOREM OnlyHiddenInputsAreMissed ==
  ASSUME NEW old, NEW new, NEW m \in Members(new) \ Detected(old, new),
         NEW p \in Reads[m], old[p] # new[p]
  PROVE  p \in Overlooked(m) \/ p \in MovedAway(old, new)
BY ChangedReadsAreDetected

(* Where pull requests rename nothing, edited or not, a push is tested on  *)
(* every member one of whose inputs it changed, but for inputs that the    *)
(* selection does not know for its own.                                    *)
THEOREM PushIsTested ==
  ASSUME NothingMoves
  PROVE  CiSpec => []SelectionIsSound
<1>1. MovesInv => SelectionIsSound
  <2> SUFFICES ASSUME MovesInv, before # NoCommit, NEW m \in Members(tip),
                      NEW p \in Reads[m] \ Overlooked(m), before[p] # tip[p]
               PROVE  m \in Detected(before, tip)
    BY DEF SelectionIsSound
  <2> QED
    BY ChangedReadsAreDetected DEF MovesInv, PushMovedNothing
<1> QED
  BY <1>1, MovesInvariant, PTL

(* Green runs since the last full one, of pushes that hid no changed       *)
(* input, add up to a full green one, however many runs were cancelled,    *)
(* repeated or skipped before it.                                          *)
THEOREM GreenTrailIsHealthy == CiSpec => []GreenTrailMeansHealthy
<1>1. CiInv => GreenTrailMeansHealthy
  BY DEF CiInv, TrailIsHealthy, GreenTrailMeansHealthy
<1> QED
  BY <1>1, CiInvariant, PTL

(* A pull request that hides no changed input and is checked on the main   *)
(* it goes into keeps it whole.                                            *)
THEOREM FreshPassIsEnough == CiSpec => FreshPassKeepsHealth
<1>1. CiInv /\ [CiNext]_ciVars =>
        [\A a \in Branches :
           (/\ CanMerge(a) /\ pass[a] = "fresh" /\ SeenInFull(tip, MergeOf(a))
            /\ Healthy(tip) /\ tip' = MergeOf(a))
             => Healthy(tip')]_ciVars
  <2> SUFFICES ASSUME CiInv, NEW a \in Branches, pass[a] = "fresh",
                      SeenInFull(tip, MergeOf(a)), Healthy(tip),
                      tip' = MergeOf(a)
               PROVE  Healthy(tip')
    OBVIOUS
  <2>1. MatrixPasses(tip, MergeOf(a))
    BY DEF CiInv, FreshPassIsOfNow
  <2>2. Healthy(MergeOf(a))
    BY <2>1, MatrixIsEnough
  <2> QED
    BY <2>2
<1> QED
  BY <1>1, CiInvariant, PTL DEF CiSpec, FreshPassKeepsHealth
=============================================================================
