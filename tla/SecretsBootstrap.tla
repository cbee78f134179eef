-------------------------- MODULE SecretsBootstrap --------------------------
(***************************************************************************)
(* deploy/bootstrap-secrets.sh: for each secret in turn, keep the file if  *)
(* it has something in it, or else draw a value into a temporary file      *)
(* beside it, measure it and rename it into place.  Scripts may be stopped *)
(* or killed anywhere, repeated, and started while another one is going.   *)
(* Compose, the images that read the files and the operator are external.  *)
(***************************************************************************)
EXTENDS Naturals, Sequences

CONSTANTS
  Entries,       \* the secrets' names, in the order of the loop
  Mode,          \* the mode each ends with: "owner" (0600) or "all" (0644)
  WholeSecrets,  \* 48 characters each
  Scripts,       \* processes of the script
  Missing, NoBytes, Short,\* what a file may hold besides a whole secret
  NotYet         \* the volume that takes a secret up is not initialised

Secrets == {Entries[i] : i \in 1..Len(Entries)}

Held == WholeSecrets \cup {Missing, NoBytes, Short}

ASSUME SecretsAssumption ==
  /\ Entries \in Seq(Secrets)
  /\ WholeSecrets # {}
  /\ Mode \in [Secrets -> {"owner", "all"}]
  /\ {Missing, NoBytes, Short} \cap WholeSecrets = {}
  /\ Missing \notin {NoBytes, Short} /\ NoBytes # Short
  /\ NotYet \notin Held

VARIABLES
  file,      \* what each secret's file holds
  fileMode,  \* and who may read it
  at,        \* the entry each run is at
  step,      \* and the command
  tmp,       \* what its temporary file holds
  tmpMode,
  taken,     \* the value the volume behind each secret was initialised with
  overlap    \* history: have two runs ever been going at once?

scriptVars == <<at, step, tmp, tmpMode>>
secretsVars == <<file, fileMode, scriptVars, taken, overlap>>

Steps == {"entry", "made", "draw", "measure", "chmod", "rename"}

SecretsTypeOK ==
  /\ file \in [Secrets -> Held]
  /\ fileMode \in [Secrets -> {"owner", "all"}]
  /\ at \in [Scripts -> 1..(Len(Entries) + 1)]
  /\ step \in [Scripts -> Steps \cup {"ok", "stopped", "killed"}]
  /\ tmp \in [Scripts -> Held]
  /\ tmpMode \in [Scripts -> {"owner", "all"}]
  /\ taken \in [Secrets -> Held \cup {NotYet}]
  /\ overlap \in BOOLEAN

(* A first run, one after an earlier release of the script, or one that    *)
(* finds files somebody has touched.                                       *)
SecretsInit ==
  /\ file \in [Secrets -> {Missing, NoBytes, CHOOSE v \in WholeSecrets : TRUE}]
  /\ fileMode \in [Secrets -> {"owner", "all"}]
  /\ at = [r \in Scripts |-> 1]
  /\ step = [r \in Scripts |-> "stopped"]
  /\ tmp = [r \in Scripts |-> Missing]
  /\ tmpMode = [r \in Scripts |-> "owner"]
  /\ taken = [s \in Secrets |-> NotYet]
  /\ overlap = FALSE

-----------------------------------------------------------------------------
Going(r) == step[r] \in Steps

HasNext(r) == at[r] <= Len(Entries)

Current(r) == Entries[at[r]]

HasSize(s) == file[s] \notin {Missing, NoBytes}

(* umask, mkdir and chmod of the directory, up to the loop. *)
StartRun(r) ==
  /\ ~Going(r)
  /\ at' = [at EXCEPT ![r] = 1]
  /\ step' = [step EXCEPT ![r] = "entry"]
  /\ tmp' = [tmp EXCEPT ![r] = Missing]
  /\ overlap' = (overlap \/ \E q \in Scripts : Going(q))
  /\ UNCHANGED <<file, fileMode, tmpMode, taken>>

(* Mutant: a file that is there is left as it is. *)
Keep_NoRepair(r) ==
  /\ step[r] = "entry" /\ HasNext(r) /\ HasSize(Current(r))
  /\ at' = [at EXCEPT ![r] = @ + 1]
  /\ UNCHANGED <<file, fileMode, step, tmp, tmpMode, taken, overlap>>

Keep(r) ==
  /\ step[r] = "entry" /\ HasNext(r) /\ HasSize(Current(r))
  /\ fileMode' = [fileMode EXCEPT ![Current(r)] = Mode[Current(r)]]
  /\ at' = [at EXCEPT ![r] = @ + 1]
  /\ UNCHANGED <<file, step, tmp, tmpMode, taken, overlap>>

(* Mutant: every run draws every secret. *)
MakeTemp_Always(r) ==
  /\ step[r] = "entry" /\ HasNext(r)
  /\ tmp' = [tmp EXCEPT ![r] = NoBytes]
  /\ tmpMode' = [tmpMode EXCEPT ![r] = "owner"]
  /\ step' = [step EXCEPT ![r] = "made"]
  /\ UNCHANGED <<file, fileMode, at, taken, overlap>>

(* mktemp: a name of its own, 0600 whatever the umask. *)
MakeTemp(r) ==
  /\ step[r] = "entry" /\ HasNext(r) /\ ~HasSize(Current(r))
  /\ tmp' = [tmp EXCEPT ![r] = NoBytes]
  /\ tmpMode' = [tmpMode EXCEPT ![r] = "owner"]
  /\ step' = [step EXCEPT ![r] = "made"]
  /\ UNCHANGED <<file, fileMode, at, taken, overlap>>

(* tmp=...: from here on the trap knows the file. *)
NameTemp(r) ==
  /\ step[r] = "made"
  /\ step' = [step EXCEPT ![r] = "draw"]
  /\ UNCHANGED <<file, fileMode, at, tmp, tmpMode, taken, overlap>>

(* openssl and tr succeed, with a value never seen before, or part of one. *)
Draw(r) ==
  /\ step[r] = "draw"
  /\ \E v \in {Short} \cup
         (WholeSecrets \ ({tmp[q] : q \in Scripts} \cup
                          {file[Current(r)], taken[Current(r)]})) :
       tmp' = [tmp EXCEPT ![r] = v]
  /\ step' = [step EXCEPT ![r] = "measure"]
  /\ UNCHANGED <<file, fileMode, at, tmpMode, taken, overlap>>

(* Mutant: something was written, and that is enough. *)
Measure_NotEmpty(r) ==
  /\ step[r] = "measure" /\ tmp[r] \notin {Missing, NoBytes}
  /\ step' = [step EXCEPT ![r] = "chmod"]
  /\ UNCHANGED <<file, fileMode, at, tmp, tmpMode, taken, overlap>>

(* wc -c finds 48 characters; otherwise Stop is all that is left. *)
Measure(r) ==
  /\ step[r] = "measure" /\ tmp[r] \in WholeSecrets
  /\ step' = [step EXCEPT ![r] = "chmod"]
  /\ UNCHANGED <<file, fileMode, at, tmp, tmpMode, taken, overlap>>

Chmod(r) ==
  /\ step[r] = "chmod"
  /\ tmpMode' = [tmpMode EXCEPT ![r] = Mode[Current(r)]]
  /\ step' = [step EXCEPT ![r] = "rename"]
  /\ UNCHANGED <<file, fileMode, at, tmp, taken, overlap>>

(* mv, which replaces what is there by now; then tmp="". *)
Rename(r) ==
  /\ step[r] = "rename"
  /\ file' = [file EXCEPT ![Current(r)] = tmp[r]]
  /\ fileMode' = [fileMode EXCEPT ![Current(r)] = tmpMode[r]]
  /\ tmp' = [tmp EXCEPT ![r] = Missing]
  /\ at' = [at EXCEPT ![r] = @ + 1]
  /\ step' = [step EXCEPT ![r] = "entry"]
  /\ UNCHANGED <<tmpMode, taken, overlap>>

Succeed(r) ==
  /\ step[r] = "entry" /\ ~HasNext(r)
  /\ step' = [step EXCEPT ![r] = "ok"]
  /\ UNCHANGED <<file, fileMode, at, tmp, tmpMode, taken, overlap>>

(* Mutant: no trap. *)
Stop_NoTrap(r) ==
  /\ Going(r)
  /\ step' = [step EXCEPT ![r] = "stopped"]
  /\ UNCHANGED <<file, fileMode, at, tmp, tmpMode, taken, overlap>>

(* A command fails under set -e and pipefail, the length is wrong, or a    *)
(* signal comes that can be caught: the trap removes the file it knows.    *)
Stop(r) ==
  /\ Going(r)
  /\ step' = [step EXCEPT ![r] = "stopped"]
  /\ tmp' = [tmp EXCEPT ![r] = IF step[r] = "made" THEN @ ELSE Missing]
  /\ UNCHANGED <<file, fileMode, at, tmpMode, taken, overlap>>

Kill(r) ==
  /\ Going(r)
  /\ step' = [step EXCEPT ![r] = "killed"]
  /\ UNCHANGED <<file, fileMode, at, tmp, tmpMode, taken, overlap>>

-----------------------------------------------------------------------------
(* Compose starts the service that reads the file, as the user its image   *)
(* runs as; a volume that is new is initialised with what it reads.        *)
TakeUp(s) ==
  /\ HasSize(s) /\ (Mode[s] = "owner" \/ fileMode[s] = "all")
  /\ taken[s] = NotYet
  /\ taken' = [taken EXCEPT ![s] = file[s]]
  /\ UNCHANGED <<file, fileMode, scriptVars, overlap>>

(* An operator rotates a secret while no run is going: the file is         *)
(* deleted, and the volume will be altered to what the next run draws.     *)
Rotate(s) ==
  /\ file[s] # Missing /\ ~ \E r \in Scripts : Going(r)
  /\ file' = [file EXCEPT ![s] = Missing]
  /\ taken' = [taken EXCEPT ![s] = NotYet]
  /\ UNCHANGED <<fileMode, scriptVars, overlap>>

RunStep(r) ==
  \/ StartRun(r) \/ Keep(r) \/ MakeTemp(r) \/ NameTemp(r) \/ Draw(r)
  \/ Measure(r) \/ Chmod(r) \/ Rename(r) \/ Succeed(r)
  \/ Stop(r) \/ Kill(r)

SecretsNext ==
  \/ \E r \in Scripts : RunStep(r)
  \/ \E s \in Secrets : TakeUp(s) \/ Rotate(s)

SecretsSpec == SecretsInit /\ [][SecretsNext]_secretsVars

-----------------------------------------------------------------------------
(* Whatever is stopped, killed or run twice at once, a reader finds no     *)
(* secret or a whole one: "never a half-written one that [ -s ] would then *)
(* treat as valid forever".                                                *)
WholeOrNothing ==
  \A s \in Secrets : HasSize(s) => file[s] \in WholeSecrets

(* Re-running never invalidates a database that was initialised with the   *)
(* current secret, as long as no two runs have been going at once.         *)
InitialisedStaysValid ==
  ~overlap => \A s \in Secrets : taken[s] # NotYet => file[s] = taken[s]

(* A run that ended, unless it was killed outright, has left no part of a  *)
(* secret in a temporary file.                                             *)
NothingLeftBehind ==
  \A r \in Scripts :
    step[r] \in {"ok", "stopped"} => tmp[r] \in {Missing, NoBytes}

(* A run that ends with 0 leaves every secret in place, and readable by    *)
(* the image that needs it.                                                *)
SuccessMeansSecrets ==
  [][\A r \in Scripts : (step'[r] = "ok" /\ step[r] # "ok") =>
       \A s \in Secrets :
         file[s] \in WholeSecrets /\ fileMode[s] = Mode[s]]_secretsVars
=============================================================================
