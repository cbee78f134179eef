--------------------------- MODULE AffectedMembers ---------------------------
(***************************************************************************)
(* Which workspace members a diff touches: tools/ci/affected_members.py.   *)
(* A path is one of a few files; what its name decides (global, ignored,   *)
(* owned by a directory of libs/ or services/) is given by constants.      *)
(***************************************************************************)
CONSTANTS
  Paths,
  LibDirs, ServiceDirs,  \* directories under libs/ and services/
  Owned,                 \* the paths inside each such directory
  Manifest,              \* each directory's pyproject.toml
  GlobalPaths,           \* GLOBAL_PATHS and what GLOBAL_PREFIXES match
  IgnoredPaths,          \* IGNORED_PATHS and what IGNORED_PREFIXES match
  Contents, Absent,      \* what a path holds in a tree
  Similar                \* contents that git takes for one file's, edited or not

Dirs == LibDirs \cup ServiceDirs

ASSUME PathsAssumption ==
  /\ LibDirs \cap ServiceDirs = {}
  /\ Owned \in [Dirs -> SUBSET Paths]
  /\ Manifest \in [Dirs -> Paths]
  /\ \A d \in Dirs : Manifest[d] \in Owned[d]
  /\ GlobalPaths \subseteq Paths /\ IgnoredPaths \subseteq Paths
  /\ Absent \notin Contents
  /\ Similar \subseteq Contents \X Contents
  /\ \A x \in Contents : <<x, x>> \in Similar

Checkout == [Paths -> Contents \cup {Absent}]

(* discover_members, on a checkout. *)
Members(tree) == {d \in Dirs : tree[Manifest[d]] # Absent}

OwningMembers(path, members) == {d \in members : path \in Owned[d]}

(* The paths that make the selection give up being selective: global ones, *)
(* and those no rule knows.                                                *)
TouchesAll(path, members) ==
  \/ path \in GlobalPaths
  \/ path \notin IgnoredPaths /\ OwningMembers(path, members) = {}

(* Mutant: the library alone is tested. *)
WithDependents_OwnerOnly(touched, members) == touched

(* A change to a library invalidates every service. *)
WithDependents(touched, members) ==
  IF touched \cap LibDirs # {} THEN touched \cup (members \cap ServiceDirs)
                               ELSE touched

(* affected_members. *)
Affected(changed, members) ==
  IF \E p \in changed : TouchesAll(p, members)
  THEN members
  ELSE WithDependents(
         UNION {OwningMembers(p, members) : p \in changed \ IgnoredPaths},
         members)

-----------------------------------------------------------------------------
(* git diff --name-only, which CI pipes into the selection.                *)

Changed(old, new) == {p \in Paths : old[p] # new[p]}

(* A file deleted here and added there with the same content, or one that  *)
(* is similar enough, is a rename, and of a rename git lists the new name  *)
(* only (diff.renames is on unless configured).  Of several old names for  *)
(* one new name git leaves out one; here all are, and fewer are listed.    *)
MovedAway(old, new) ==
  {p \in Paths :
     /\ old[p] # Absent /\ new[p] = Absent
     /\ \E q \in Paths : old[q] = Absent /\ <<old[p], new[q]>> \in Similar}

ListedNames(old, new) == Changed(old, new) \ MovedAway(old, new)
=============================================================================
