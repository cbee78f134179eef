-------------------------- MODULE CalibrationStack --------------------------
(***************************************************************************)
(* The seeder and the adapter's load over one live database.  Compose      *)
(* starts the adapter once the seeder has exited 0, but restarts it on its *)
(* own account, and an operator re-runs the seeder at any time.            *)
(***************************************************************************)
EXTENDS CalibrationSeeder, CalibrationStore

VARIABLE overlapped  \* has a seeder run beside the current or last load?

vars == <<live, seederVars, loadVars, overlapped>>

TypeOK == SeederTypeOK /\ LoadTypeOK /\ overlapped \in BOOLEAN

Init == SeederInit /\ LoadInit /\ overlapped = FALSE

Loading == phase \in Trips

Seeding == step \notin Ended

SeederStep ==
  /\ SeederNext
  /\ overlapped' = (overlapped \/ (Loading /\ Seeding'))
  /\ UNCHANGED loadVars

LoadStep ==
  /\ LoadNext
  /\ overlapped' = (IF Loading THEN overlapped ELSE Seeding)
  /\ UNCHANGED seederVars

Next == SeederStep \/ LoadStep

Spec == Init /\ [][Next]_vars

-----------------------------------------------------------------------------
(* How far the seeder is, as someone sees it who knows the store and what  *)
(* the container's exit code says.                                         *)
Outcome ==
  IF step \in {"idle", "killed"} THEN "stopped"
  ELSE IF step = "seeded" THEN "succeeded"
  ELSE IF step = "failed" THEN "failed"
  ELSE IF step = "live" /\ todo = <<>> THEN "applied"
  ELSE "running"

Store == INSTANCE SeededStore
           WITH Sound    <- {s \in Scripts : Runnable(s)},
                Seeding  <- Whole,
                db       <- live,
                applying <- script,
                lossy    <- disturbed,
                outcome  <- Outcome

(* seed.sh over redis-cli implements the store that a run replaces at once *)
(* or not at all ("a reader sees either the previous seeding or this one   *)
(* - never a mix", calibration.redis), and that a run which fails has not  *)
(* touched ("the store keeps its previous seeding", seed.sh), the seeder   *)
(* killed at any step and run any number of times.  A run that loses its   *)
(* connection damages the keys of its own script, and only until it ends.  *)
ImplementsSeededStore == Store!Spec

-----------------------------------------------------------------------------
(* Unless a connection is lost, the live store is empty or holds exactly   *)
(* one script's seeding, and never that of a script some command of which  *)
(* fails: MULTI/EXEC and the dry run (seed.sh) together, with the seeder   *)
(* killed anywhere.                                                        *)
LiveIsWhole ==
  outages = 0 =>
    live = Empty \/ \E s \in Scripts : Runnable(s) /\ live = Whole[s]

(* "exits non-zero on any failure" (seed.sh): a seeder that exits 0 has    *)
(* seeded its script.                                                      *)
ExitZeroMeansSeeded == step = "seeded" => live = Whole[script]

(* Whatever lost connections left in the store, running the seeder again   *)
(* without losing one repairs it ("re-run the seeder").                    *)
UndisturbedSeedIsWhole == ~disturbed => ExitZeroMeansSeeded

(* "A reader sees either the previous seeding or this one - never a mix":  *)
(* what load returns is all of one script's seeding and nothing else.      *)
LoadedIsOneSeeding ==
  phase = "loaded" =>
    \E s \in Scripts : \A k \in Keys :
      got[k] # NotRead => got[k] = Whole[s][k]

(* So it is when no seeder ran beside the load and none was cut off.       *)
LoadedAloneIsOneSeeding == (~overlapped /\ outages = 0) => LoadedIsOneSeeding

(* "A calibration that loads is one the generator can draw from" even if   *)
(* the store changed under the load: each family with just its parameters, *)
(* by their names, and no value the parsers refuse.                        *)
LoadedIsDrawable ==
  phase = "loaded" =>
    \A v \in got[SymbolsKey].venues, q \in Quantities :
      LET f == FamilyRead(v, q)
          stored == {n \in Positions : got[Param(v, q, n)] \in Scripts}
      IN /\ stored = 0..(Arity(f) - 1)
         /\ \A n \in stored : /\ NameRead(v, q, n) = ParameterNames[f][n + 1]
                              /\ Usable(Param(v, q, n))

(* load refuses nothing it should accept: what it read was not one sound   *)
(* script's seeding.                                                       *)
NoFalseRefusal ==
  phase = "refused" =>
    ~ \E s \in Scripts :
        /\ s.flaw.kind = "none"
        /\ \A k \in Keys : got[k] # NotRead => got[k] = Whole[s][k]
=============================================================================
