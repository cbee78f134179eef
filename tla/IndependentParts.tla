-------------------------- MODULE IndependentParts --------------------------
(***************************************************************************)
(* Five parts that share no state, each with its own next-state relation:  *)
(* an initial state picks the one that moves, and the others rest in one   *)
(* state each, so that one run asks of each part what it would be asked    *)
(* alone.                                                                  *)
(***************************************************************************)
EXTENDS StorageLineage, StorageFixture, CiPipeline, SecretsBootstrap,
        RandomWalk

VARIABLE part  \* the part that moves

partsVars == <<part, vars, fixtureVars, ciVars, secretsVars, walkVars>>

-----------------------------------------------------------------------------
(* A table of one version without columns. *)
NoColumns == [v \in Versions |-> IF v = 1 THEN [x \in Columns |-> NoColumn]
                                          ELSE NoFile]

LineageRests ==
  /\ main = NoColumns
  /\ change = [a \in Authors |-> NoChange]
  /\ green = [a \in Authors |-> FALSE]
  /\ upToDate = TRUE

FixtureRests ==
  /\ checkout = NoColumns
  /\ asked = NoFile /\ todo = "none" /\ pending = {}
  /\ hypertable = FALSE /\ table = NoFile /\ partitioned = FALSE
  /\ indexes = {} /\ applied = {} /\ built = {}

CiRests ==
  /\ tip = [p \in Paths |-> Absent]
  /\ before = NoCommit /\ status = "running" /\ trail = FALSE
  /\ edit = [a \in Branches |-> NoEdit]
  /\ pass = [a \in Branches |-> "none"]

SecretsRest ==
  /\ file = [s \in Secrets |-> Missing]
  /\ fileMode = [s \in Secrets |-> "owner"]
  /\ at = [r \in Scripts |-> 1]
  /\ step = [r \in Scripts |-> "stopped"]
  /\ tmp = [r \in Scripts |-> Missing]
  /\ tmpMode = [r \in Scripts |-> "owner"]
  /\ taken = [s \in Secrets |-> NotYet]
  /\ overlap = FALSE

WalkRests == bid = 1 /\ quote = <<>> /\ walk = "walking"

PartsInit ==
  /\ part \in {"lineage", "fixture", "ci", "secrets", "walk"}
  /\ IF part = "lineage" THEN Init        ELSE LineageRests
  /\ IF part = "fixture" THEN FixtureInit ELSE FixtureRests
  /\ IF part = "ci"      THEN CiInit      ELSE CiRests
  /\ IF part = "secrets" THEN SecretsInit ELSE SecretsRest
  /\ IF part = "walk"    THEN WalkInit    ELSE WalkRests

PartsNext ==
  \/ part = "lineage" /\ Next
     /\ UNCHANGED <<part, fixtureVars, ciVars, secretsVars, walkVars>>
  \/ part = "fixture" /\ FixtureNext
     /\ UNCHANGED <<part, vars, ciVars, secretsVars, walkVars>>
  \/ part = "ci" /\ CiNext
     /\ UNCHANGED <<part, vars, fixtureVars, secretsVars, walkVars>>
  \/ part = "secrets" /\ SecretsNext
     /\ UNCHANGED <<part, vars, fixtureVars, ciVars, walkVars>>
  \/ part = "walk" /\ WalkNext
     /\ UNCHANGED <<part, vars, fixtureVars, ciVars, secretsVars>>

PartsSpec == PartsInit /\ [][PartsNext]_partsVars

(* Every variable of the five parts holds what its comment says. *)
PartsTypeOK ==
  TypeOK /\ FixtureTypeOK /\ CiTypeOK /\ SecretsTypeOK /\ WalkTypeOK
=============================================================================
