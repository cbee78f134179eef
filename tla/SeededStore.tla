----------------------------- MODULE SeededStore -----------------------------
(***************************************************************************)
(* What the calibration store promises whoever reads it, whatever seeds    *)
(* it: a run replaces the whole contents in one step by all of its own     *)
(* script's, or changes nothing and does not report success.  A run whose  *)
(* connection is lost promises less: it leaves every key as it was,        *)
(* deletes it, or writes what its own script writes there.                 *)
(***************************************************************************)
CONSTANTS
  Keys,     \* the keys of the store
  Scripts,  \* what can be applied to it
  Sound,    \* the scripts every command of which succeeds
  Seeding,  \* Seeding[s]: what all of s leaves in the store
  Absent,   \* no such key
  NoScript  \* nothing was applied yet

VARIABLES
  db,        \* the contents of the store
  applying,  \* the script of the current or last run
  lossy,     \* has that run's connection been lost?
  outcome    \* where that run is

store == <<db, applying, lossy, outcome>>

Init ==
  /\ db = [k \in Keys |-> Absent]
  /\ applying = NoScript /\ lossy = FALSE /\ outcome = "stopped"

Begin(s) ==
  /\ outcome \in {"stopped", "succeeded", "failed"}
  /\ outcome' = "running" /\ applying' = s /\ lossy' = FALSE
  /\ UNCHANGED db

(* All of the script at once, in place of all there was. *)
Seed ==
  /\ outcome = "running" /\ ~lossy /\ applying \in Sound
  /\ db' = Seeding[applying]
  /\ outcome' = "applied"
  /\ UNCHANGED <<applying, lossy>>

Lose ==
  /\ lossy' = TRUE
  /\ UNCHANGED <<db, applying, outcome>>

(* One step of a run that does not keep its connection. *)
Damage ==
  /\ outcome = "running" /\ outcome' \in {"running", "applied"}
  /\ lossy' = TRUE
  /\ db' = [k \in Keys |-> db'[k]]
  /\ \A k \in Keys : db'[k] \in {db[k], Absent, Seeding[applying][k]}
  /\ UNCHANGED applying

(* Success is reported of a run that applied its script; failure only of   *)
(* one that did not, or was disturbed.                                     *)
Succeed ==
  /\ outcome = "applied" /\ outcome' = "succeeded"
  /\ UNCHANGED <<db, applying, lossy>>

Fail ==
  /\ outcome = "running" \/ (outcome = "applied" /\ lossy)
  /\ outcome' = "failed"
  /\ UNCHANGED <<db, applying, lossy>>

Stop ==
  /\ outcome \in {"running", "applied"} /\ outcome' = "stopped"
  /\ UNCHANGED <<db, applying, lossy>>

Next ==
  \/ \E s \in Scripts : Begin(s)
  \/ Seed \/ Lose \/ Damage
  \/ Succeed \/ Fail \/ Stop

Spec == Init /\ [][Next]_store

-----------------------------------------------------------------------------
(* A run that reports success and kept its connection left its own script  *)
(* and nothing else.                                                       *)
SuccessIsWhole ==
  outcome \in {"applied", "succeeded"} /\ ~lossy => db = Seeding[applying]
=============================================================================
