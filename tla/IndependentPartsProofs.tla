----------------------- MODULE IndependentPartsProofs -----------------------
(***************************************************************************)
(* The secrets script, for any entries and any number of runs, stopped,    *)
(* killed, repeated and started beside each other anywhere; the walk of    *)
(* one symbol, for any increment and any draws; and the five parts side by *)
(* side, of which one moves and the others rest.                           *)
(***************************************************************************)
EXTENDS IndependentParts, StorageLineageProofs, CiPipelineProofs, TLAPS

-----------------------------------------------------------------------------
(* The secrets. *)

Making(r) == step[r] \in {"made", "draw", "measure", "chmod", "rename"}

(* What the temporary file of a run holds, by where the run is. *)
TempFollowsStep(r) ==
  /\ step[r] \in {"entry", "ok"} => tmp[r] = Missing
  /\ step[r] = "made" => tmp[r] = NoBytes
  /\ step[r] = "stopped" => tmp[r] \in {Missing, NoBytes}
  /\ step[r] \in {"chmod", "rename"} => tmp[r] \in WholeSecrets
  /\ step[r] = "rename" => tmpMode[r] = Mode[Current(r)]
  /\ Making(r) => HasNext(r)

(* The entries a run has passed are in place, whoever put them there. *)
InPlace(s) == file[s] \in WholeSecrets /\ fileMode[s] = Mode[s]

PassedInPlace(r) ==
  Going(r) => \A i \in 1..Len(Entries) : i < at[r] => InPlace(Entries[i])

(* Without a second run, a secret is only made while there is none. *)
AloneMakesMissing ==
  ~overlap =>
    /\ \A q, r \in Scripts : Going(q) /\ Going(r) => q = r
    /\ \A r \in Scripts : Making(r) => ~HasSize(Current(r))
    /\ \A s \in Secrets : taken[s] # NotYet => HasSize(s) /\ file[s] = taken[s]

SecretsInv ==
  /\ SecretsTypeOK
  /\ \A r \in Scripts : TempFollowsStep(r)
  /\ \A r \in Scripts : PassedInPlace(r)
  /\ WholeOrNothing
  /\ AloneMakesMissing

-----------------------------------------------------------------------------
LEMMA EntriesFacts ==
  /\ Len(Entries) \in Nat
  /\ \A i \in 1..Len(Entries) : Entries[i] \in Secrets
  BY SecretsAssumption DEF Secrets

(* The entry a run is at is a secret. *)
LEMMA CurrentIsSecret ==
  ASSUME SecretsTypeOK, NEW r \in Scripts, HasNext(r)
  PROVE  /\ Current(r) \in Secrets /\ at[r] \in 1..Len(Entries)
         /\ at[r] + 1 \in 1..(Len(Entries) + 1)
  BY EntriesFacts DEF SecretsTypeOK, HasNext, Current

LEMMA SecretsInitEstablishes == SecretsInit => SecretsInv
<1> SUFFICES ASSUME SecretsInit PROVE SecretsInv
  OBVIOUS
<1>1. (CHOOSE v \in WholeSecrets : TRUE) \in WholeSecrets
  BY SecretsAssumption
<1>2. file \in [Secrets -> WholeSecrets \cup {Missing, NoBytes}]
  BY <1>1 DEF SecretsInit
<1>3. SecretsTypeOK
  <2>1. 1 \in 1..(Len(Entries) + 1)
    BY EntriesFacts
  <2>2. at \in [Scripts -> 1..(Len(Entries) + 1)]
    BY DEF SecretsInit
  <2>3. file \in [Secrets -> Held]
    BY <1>2 DEF Held
  <2> QED
    BY <2>2, <2>3 DEF SecretsInit, SecretsTypeOK, Held
<1>4. \A r \in Scripts : step[r] = "stopped" /\ tmp[r] = Missing
  BY DEF SecretsInit
<1>5. \A r \in Scripts : TempFollowsStep(r) /\ PassedInPlace(r)
  BY <1>4 DEF TempFollowsStep, PassedInPlace, Making, Going, Steps
<1>6. WholeOrNothing
  BY <1>2 DEF WholeOrNothing, HasSize
<1>7. AloneMakesMissing
  BY DEF AloneMakesMissing, Making, Going, Steps, SecretsInit
<1> QED
  BY <1>3, <1>5, <1>6, <1>7 DEF SecretsInv

(* A run that starts has passed nothing yet. *)
LEMMA StartRunPreserves ==
  ASSUME SecretsInv, NEW r \in Scripts, StartRun(r)
  PROVE  SecretsInv'
<1> USE DEF SecretsInv, StartRun
<1>2. SecretsTypeOK'
  BY DEF SecretsTypeOK, Held, Steps
<1>3. \A q \in Scripts : TempFollowsStep(q)'
  BY DEF TempFollowsStep, Making, HasNext, Current, SecretsTypeOK
<1>4. \A q \in Scripts : PassedInPlace(q)'
  BY DEF PassedInPlace, InPlace, Going, SecretsTypeOK
<1>5. WholeOrNothing'
  BY DEF WholeOrNothing, HasSize
<1>6. AloneMakesMissing'
  <2> SUFFICES ASSUME ~overlap'
               PROVE  AloneMakesMissing'
    BY DEF AloneMakesMissing
  <2>1. ~overlap /\ \A q \in Scripts : ~Going(q)
    OBVIOUS
  <2>2. \A q \in Scripts : q # r => step'[q] = step[q]
    OBVIOUS
  <2>3. \A q \in Scripts : Going(q)' => q = r
    BY <2>2 DEF Going
  <2>4. \A q \in Scripts : ~Making(q)'
    BY DEF Going, Making, SecretsTypeOK
  <2>5. \A s \in Secrets :
          (taken[s] # NotYet => HasSize(s) /\ file[s] = taken[s])'
    BY DEF AloneMakesMissing, HasSize
  <2> QED
    BY <2>3, <2>4, <2>5 DEF AloneMakesMissing
<1> QED
  BY <1>2, <1>3, <1>4, <1>5, <1>6

(* An entry is passed when its file is in place, and repaired. *)
LEMMA KeepPreserves ==
  ASSUME SecretsInv, NEW r \in Scripts, Keep(r)
  PROVE  SecretsInv'
<1> USE DEF SecretsInv, Keep
<1>1. HasNext(r) => /\ Current(r) \in Secrets /\ at[r] \in 1..Len(Entries)
                    /\ at[r] + 1 \in 1..(Len(Entries) + 1)
  BY CurrentIsSecret
<1>2. SecretsTypeOK'
  BY <1>1, SecretsAssumption DEF SecretsTypeOK
<1>3. \A q \in Scripts : TempFollowsStep(q)'
  BY DEF TempFollowsStep, Making, HasNext, Current
<1>4. \A q \in Scripts : PassedInPlace(q)'
  BY EntriesFacts
  DEF PassedInPlace, InPlace, Going, SecretsTypeOK, WholeOrNothing, Current
<1>5. WholeOrNothing'
  BY DEF WholeOrNothing, HasSize
<1>6. AloneMakesMissing'
  BY DEF AloneMakesMissing, Going, Making, HasSize, Current
<1> QED
  BY <1>2, <1>3, <1>4, <1>5, <1>6

(* A run alone makes a secret only where there is none. *)
LEMMA MakeTempPreserves ==
  ASSUME SecretsInv, NEW r \in Scripts, MakeTemp(r)
  PROVE  SecretsInv'
<1> USE DEF SecretsInv, MakeTemp
<1>2. SecretsTypeOK'
  BY DEF SecretsTypeOK, Held, Steps
<1>3. \A q \in Scripts : TempFollowsStep(q)'
  BY DEF TempFollowsStep, Making, HasNext, Current, SecretsTypeOK
<1>4. \A q \in Scripts : PassedInPlace(q)'
  BY DEF PassedInPlace, InPlace, Going, SecretsTypeOK
<1>5. WholeOrNothing'
  BY DEF WholeOrNothing, HasSize
<1>6. AloneMakesMissing'
  BY DEF AloneMakesMissing, Going, Making, Steps, HasSize, Current
<1> QED
  BY <1>2, <1>3, <1>4, <1>5, <1>6

(* Naming the temporary file changes nothing in it. *)
LEMMA NameTempPreserves ==
  ASSUME SecretsInv, NEW r \in Scripts, NameTemp(r)
  PROVE  SecretsInv'
<1> USE DEF SecretsInv, NameTemp
<1>2. SecretsTypeOK'
  BY DEF SecretsTypeOK, Steps
<1>3. \A q \in Scripts : TempFollowsStep(q)'
  BY DEF TempFollowsStep, Making, HasNext, Current
<1>4. \A q \in Scripts : PassedInPlace(q)'
  BY DEF PassedInPlace, InPlace, Going, SecretsTypeOK
<1>5. WholeOrNothing'
  BY DEF WholeOrNothing, HasSize
<1>6. AloneMakesMissing'
  BY DEF AloneMakesMissing, Going, Making, HasSize, Current, SecretsTypeOK,
         TempFollowsStep
<1> QED
  BY <1>2, <1>3, <1>4, <1>5, <1>6

(* What is drawn is not measured yet. *)
LEMMA DrawPreserves ==
  ASSUME SecretsInv, NEW r \in Scripts, Draw(r)
  PROVE  SecretsInv'
<1> USE DEF SecretsInv, Draw
<1>2. SecretsTypeOK'
  BY DEF SecretsTypeOK, Held, Steps
<1>3. \A q \in Scripts : TempFollowsStep(q)'
  BY DEF TempFollowsStep, Making, HasNext, Current
<1>4. \A q \in Scripts : PassedInPlace(q)'
  BY DEF PassedInPlace, InPlace, Going, SecretsTypeOK
<1>5. WholeOrNothing'
  BY DEF WholeOrNothing, HasSize
<1>6. AloneMakesMissing'
  BY DEF AloneMakesMissing, Going, Making, Steps, HasSize, Current
<1> QED
  BY <1>2, <1>3, <1>4, <1>5, <1>6

(* Only a whole secret passes the measurement. *)
LEMMA MeasurePreserves ==
  ASSUME SecretsInv, NEW r \in Scripts, Measure(r)
  PROVE  SecretsInv'
<1> USE DEF SecretsInv, Measure
<1>2. SecretsTypeOK'
  BY DEF SecretsTypeOK, Steps
<1>3. \A q \in Scripts : TempFollowsStep(q)'
  BY DEF TempFollowsStep, Making, HasNext, Current
<1>4. \A q \in Scripts : PassedInPlace(q)'
  BY DEF PassedInPlace, InPlace, Going, SecretsTypeOK
<1>5. WholeOrNothing'
  BY DEF WholeOrNothing, HasSize
<1>6. AloneMakesMissing'
  BY DEF AloneMakesMissing, Going, Making, Steps, HasSize, Current
<1> QED
  BY <1>2, <1>3, <1>4, <1>5, <1>6

(* The mode is set before the rename, so no reader finds a wrong one. *)
LEMMA ChmodPreserves ==
  ASSUME SecretsInv, NEW r \in Scripts, Chmod(r)
  PROVE  SecretsInv'
<1> USE DEF SecretsInv, Chmod
<1>1. HasNext(r) => /\ Current(r) \in Secrets /\ at[r] \in 1..Len(Entries)
                    /\ at[r] + 1 \in 1..(Len(Entries) + 1)
  BY CurrentIsSecret
<1>2. SecretsTypeOK'
  BY <1>1, SecretsAssumption DEF SecretsTypeOK, Steps, TempFollowsStep, Making
<1>3. \A q \in Scripts : TempFollowsStep(q)'
  BY DEF TempFollowsStep, Making, HasNext, Current, SecretsTypeOK
<1>4. \A q \in Scripts : PassedInPlace(q)'
  BY DEF PassedInPlace, InPlace, Going, SecretsTypeOK
<1>5. WholeOrNothing'
  BY DEF WholeOrNothing, HasSize
<1>6. AloneMakesMissing'
  BY DEF AloneMakesMissing, Going, Making, Steps, HasSize, Current
<1> QED
  BY <1>2, <1>3, <1>4, <1>5, <1>6

(* What takes the place is whole, with its mode; alone, it replaced nothing. *)
LEMMA RenamePreserves ==
  ASSUME SecretsInv, NEW r \in Scripts, Rename(r)
  PROVE  SecretsInv'
<1> USE DEF SecretsInv, Rename
<1>1. HasNext(r) => /\ Current(r) \in Secrets /\ at[r] \in 1..Len(Entries)
                    /\ at[r] + 1 \in 1..(Len(Entries) + 1)
  BY CurrentIsSecret
<1>2. SecretsTypeOK'
  BY <1>1 DEF SecretsTypeOK, Held, Steps, TempFollowsStep, Making
<1>3. \A q \in Scripts : TempFollowsStep(q)'
  BY DEF TempFollowsStep, Making, HasNext, Current, SecretsTypeOK
<1>4. \A q \in Scripts : PassedInPlace(q)'
  BY EntriesFacts
  DEF PassedInPlace, InPlace, Going, SecretsTypeOK, TempFollowsStep, Current,
      Making
<1>5. WholeOrNothing'
  BY DEF WholeOrNothing, HasSize, TempFollowsStep
<1>6. AloneMakesMissing'
  BY DEF AloneMakesMissing, Going, Making, Steps, HasSize, SecretsTypeOK
<1> QED
  BY <1>2, <1>3, <1>4, <1>5, <1>6

(* A run that succeeds holds no temporary file. *)
LEMMA SucceedPreserves ==
  ASSUME SecretsInv, NEW r \in Scripts, Succeed(r)
  PROVE  SecretsInv'
<1> USE DEF SecretsInv, Succeed
<1>2. SecretsTypeOK'
  BY DEF SecretsTypeOK
<1>3. \A q \in Scripts : TempFollowsStep(q)'
  BY DEF TempFollowsStep, Making, HasNext, Current
<1>4. \A q \in Scripts : PassedInPlace(q)'
  BY DEF PassedInPlace, InPlace, Going, SecretsTypeOK
<1>5. WholeOrNothing'
  BY DEF WholeOrNothing, HasSize
<1>6. AloneMakesMissing'
  BY DEF AloneMakesMissing, Going, Making, HasSize, Current, SecretsTypeOK,
         TempFollowsStep
<1> QED
  BY <1>2, <1>3, <1>4, <1>5, <1>6

(* The trap empties what was drawn, and a file not named yet is empty. *)
LEMMA StopPreserves ==
  ASSUME SecretsInv, NEW r \in Scripts, Stop(r)
  PROVE  SecretsInv'
<1> USE DEF SecretsInv, Stop
<1>2. SecretsTypeOK'
  BY DEF SecretsTypeOK, Held
<1>3. \A q \in Scripts : TempFollowsStep(q)'
  BY DEF TempFollowsStep, Making, HasNext, Current, SecretsTypeOK
<1>4. \A q \in Scripts : PassedInPlace(q)'
  BY DEF PassedInPlace, InPlace, Going
<1>5. WholeOrNothing'
  BY DEF WholeOrNothing, HasSize
<1>6. AloneMakesMissing'
  BY DEF AloneMakesMissing, Going, Making, HasSize, Current
<1> QED
  BY <1>2, <1>3, <1>4, <1>5, <1>6

(* A killed run is not going any more, whatever it leaves. *)
LEMMA KillPreserves ==
  ASSUME SecretsInv, NEW r \in Scripts, Kill(r)
  PROVE  SecretsInv'
<1> USE DEF SecretsInv, Kill
<1>2. SecretsTypeOK'
  BY DEF SecretsTypeOK
<1>3. \A q \in Scripts : TempFollowsStep(q)'
  BY DEF TempFollowsStep, Making, HasNext, Current
<1>4. \A q \in Scripts : PassedInPlace(q)'
  BY DEF PassedInPlace, InPlace, Going
<1>5. WholeOrNothing'
  BY DEF WholeOrNothing, HasSize
<1>6. AloneMakesMissing'
  BY DEF AloneMakesMissing, Going, Making, HasSize, Current
<1> QED
  BY <1>2, <1>3, <1>4, <1>5, <1>6

(* A volume is initialised with a secret that is there. *)
LEMMA TakeUpPreserves ==
  ASSUME SecretsInv, NEW s \in Secrets, TakeUp(s)
  PROVE  SecretsInv'
<1> USE DEF SecretsInv, TakeUp
<1>1. SecretsTypeOK'
  BY DEF SecretsTypeOK, scriptVars
<1>2. \A r \in Scripts : TempFollowsStep(r)' /\ PassedInPlace(r)'
  BY DEF TempFollowsStep, PassedInPlace, InPlace, Making, HasNext, Current,
         Going, scriptVars
<1>3. WholeOrNothing'
  BY DEF WholeOrNothing, HasSize
<1>4. AloneMakesMissing'
  BY DEF AloneMakesMissing, Going, Making, HasSize, Current, scriptVars
<1> QED
  BY <1>1, <1>2, <1>3, <1>4

(* No run is going while a secret is rotated. *)
LEMMA RotatePreserves ==
  ASSUME SecretsInv, NEW s \in Secrets, Rotate(s)
  PROVE  SecretsInv'
<1> USE DEF SecretsInv, Rotate
<1>1. SecretsTypeOK'
  BY DEF SecretsTypeOK, Held, scriptVars
<1>2. \A r \in Scripts : ~Going(r) /\ ~Making(r)
  BY DEF Going, Making, Steps
<1>3. \A r \in Scripts : TempFollowsStep(r)' /\ PassedInPlace(r)'
  BY <1>2 DEF TempFollowsStep, PassedInPlace, Making, Going, scriptVars
<1>4. WholeOrNothing'
  BY DEF WholeOrNothing, HasSize
<1>5. AloneMakesMissing'
  BY DEF AloneMakesMissing, Going, Making, HasSize, SecretsTypeOK, scriptVars
<1> QED
  BY <1>1, <1>3, <1>4, <1>5

LEMMA SecretsStutterPreserves ==
  ASSUME SecretsInv, UNCHANGED secretsVars
  PROVE  SecretsInv'
  BY DEF SecretsInv, secretsVars, scriptVars, SecretsTypeOK, TempFollowsStep,
         PassedInPlace, InPlace, WholeOrNothing, AloneMakesMissing, Making,
         Going, HasSize, HasNext, Current

LEMMA SecretsStepPreserves ==
  SecretsInv /\ [SecretsNext]_secretsVars => SecretsInv'
<1> SUFFICES ASSUME SecretsInv, [SecretsNext]_secretsVars PROVE SecretsInv'
  OBVIOUS
<1>1. ASSUME NEW r \in Scripts, RunStep(r) PROVE SecretsInv'
  BY <1>1, StartRunPreserves, KeepPreserves, MakeTempPreserves,
     NameTempPreserves, DrawPreserves, MeasurePreserves, ChmodPreserves,
     RenamePreserves, SucceedPreserves, StopPreserves, KillPreserves
  DEF RunStep
<1>2. ASSUME NEW s \in Secrets, TakeUp(s) \/ Rotate(s) PROVE SecretsInv'
  BY <1>2, TakeUpPreserves, RotatePreserves
<1>3. CASE UNCHANGED secretsVars
  BY <1>3, SecretsStutterPreserves
<1> QED
  BY <1>1, <1>2, <1>3 DEF SecretsNext

LEMMA SecretsInvariant == SecretsSpec => []SecretsInv
  BY SecretsInitEstablishes, SecretsStepPreserves, PTL DEF SecretsSpec

-----------------------------------------------------------------------------
(* The files, runs and volumes keep their types. *)
THEOREM SecretsTypes == SecretsSpec => []SecretsTypeOK
BY SecretsInvariant, PTL DEF SecretsInv

(* A reader of a secret finds a whole one or none. *)
THEOREM SecretsAreWhole == SecretsSpec => []WholeOrNothing
<1>1. SecretsInv => WholeOrNothing
  BY DEF SecretsInv
<1> QED
  BY <1>1, SecretsInvariant, PTL

(* A database that took a secret up can still be opened with it, as long as *)
(* no two runs were going at once.                                         *)
THEOREM RerunsKeepSecrets == SecretsSpec => []InitialisedStaysValid
<1>1. SecretsInv => InitialisedStaysValid
  BY DEF SecretsInv, AloneMakesMissing, InitialisedStaysValid
<1> QED
  BY <1>1, SecretsInvariant, PTL

(* Nothing of a secret stays in a temporary file. *)
THEOREM TrapCleansUp == SecretsSpec => []NothingLeftBehind
<1>1. SecretsInv => NothingLeftBehind
  BY DEF SecretsInv, TempFollowsStep, NothingLeftBehind
<1> QED
  BY <1>1, SecretsInvariant, PTL

(* A run that ends well has all of them in place. *)
THEOREM SuccessIsComplete == SecretsSpec => SuccessMeansSecrets
<1>1. SecretsInv /\ [SecretsNext]_secretsVars =>
        [\A r \in Scripts : (step'[r] = "ok" /\ step[r] # "ok") =>
           \A s \in Secrets :
             file[s] \in WholeSecrets /\ fileMode[s] = Mode[s]]_secretsVars
  <2> SUFFICES ASSUME SecretsInv, SecretsNext, NEW r \in Scripts,
                      step'[r] = "ok", step[r] # "ok", NEW s \in Secrets
               PROVE  InPlace(s)
    BY DEF InPlace
  <2>1. Succeed(r)
    <3>1. ASSUME NEW q \in Scripts, RunStep(q), ~Succeed(q)
          PROVE  step'[r] # "ok"
      BY <3>1
      DEF RunStep, StartRun, Keep, MakeTemp, NameTemp, Draw, Measure, Chmod,
          Rename, Stop, Kill, SecretsInv, SecretsTypeOK
    <3>2. ASSUME NEW q \in Scripts, Succeed(q), q # r PROVE step'[r] # "ok"
      BY <3>2 DEF Succeed
    <3>3. ASSUME NEW x \in Secrets, TakeUp(x) \/ Rotate(x) PROVE step'[r] # "ok"
      BY <3>3 DEF TakeUp, Rotate, scriptVars
    <3> QED
      BY <3>1, <3>2, <3>3 DEF SecretsNext
  <2>2. PICK i \in 1..Len(Entries) : s = Entries[i]
    BY DEF Secrets
  <2>3. i < at[r]
    BY <2>1 DEF Succeed, HasNext, SecretsInv, SecretsTypeOK
  <2>4. Going(r)
    BY <2>1 DEF Succeed, Going, Steps
  <2> QED
    BY <2>2, <2>3, <2>4 DEF SecretsInv, PassedInPlace
<1> QED
  BY <1>1, SecretsInvariant, PTL DEF SecretsSpec, SuccessMeansSecrets

-----------------------------------------------------------------------------
(* The walk a task draws its quotes from.                                  *)

(* quantize with ROUND_HALF_EVEN moves a price by half an increment at     *)
(* most, on either side of zero.                                           *)
THEOREM RoundedIsNearest ==
  ASSUME NEW x \in Int
  PROVE  /\ Rounded(x) \in Int
         /\ 2 * (x - Grain * Rounded(x)) <= Grain
         /\ 2 * (Grain * Rounded(x) - x) <= Grain
<1> DEFINE q == x \div Grain
           r == x % Grain
<1>0. Grain \in Nat /\ Grain > 0
  BY WalkAssumption
<1>1. q \in Int /\ r \in Int /\ 0 <= r /\ r < Grain
  BY <1>0
<1>2. x = Grain * q + r
  BY <1>0
<1>3. Grain * (q + 1) = Grain * q + Grain
  BY <1>0, <1>1
<1>4. Grain * q \in Int
  BY <1>0, <1>1
<1> HIDE DEF q, r
<1>5. CASE Rounded(x) = q /\ 2 * r <= Grain
  BY <1>0, <1>1, <1>2, <1>4, <1>5
<1>6. CASE Rounded(x) = q + 1 /\ 2 * r >= Grain
  BY <1>0, <1>1, <1>2, <1>3, <1>4, <1>6
<1> QED
  BY <1>0, <1>1, <1>5, <1>6 DEF Rounded, q, r

(* A number of increments is a multiple of the increment. *)
LEMMA OnTheGrid ==
  ASSUME NEW n \in Nat
  PROVE  Grain * n \in Nat /\ (Grain * n) % Grain = 0
<1> DEFINE x == Grain * n
<1>1. Grain \in Nat /\ Grain > 0
  BY WalkAssumption
<1>2. x \in Nat
  BY <1>1
<1>3. x = Grain * (x \div Grain) + (x % Grain) /\ x \div Grain \in Int
      /\ x % Grain \in 0..(Grain - 1)
  BY <1>1, <1>2
<1>4. x % Grain = Grain * (n - x \div Grain)
  BY <1>1, <1>2, <1>3
<1> DEFINE k == n - (x \div Grain)
<1>5. k \in Int /\ Grain * k \in 0..(Grain - 1)
  BY <1>3, <1>4
<1> HIDE DEF k
<1>6. ~(k >= 1)
  <2>1. k >= 1 => Grain * k >= Grain
    BY <1>1, <1>5
  <2> QED
    BY <1>1, <1>5, <2>1
<1>7. ~(k <= -1)
  <2>1. k <= -1 => Grain * k <= -Grain
    BY <1>1, <1>5
  <2> QED
    BY <1>1, <1>5, <2>1
<1>8. k = 0
  BY <1>5, <1>6, <1>7
<1> QED
  BY <1>1, <1>2, <1>4, <1>8 DEF k

(* A floor makes a rounded number a natural. *)
LEMMA FloorHolds ==
  ASSUME NEW x \in Int
  PROVE  /\ AtLeast(1, Rounded(x)) \in Nat \ {0}
         /\ AtLeast(0, Rounded(x)) \in Nat
<1>1. Rounded(x) \in Int
  BY RoundedIsNearest
<1> QED
  BY <1>1 DEF AtLeast

(* What next_quote returns is a Tick's quote, on the grid. *)
LEMMA NextIsTick ==
  ASSUME NEW r, NEW s, bid \in Int, r \in Int, s \in Int
  PROVE  /\ NextBid(r) \in Nat /\ NextBid(r) >= Grain
         /\ NextSpread(s) \in Nat
         /\ NextBid(r) % Grain = 0
         /\ (NextBid(r) + NextSpread(s)) % Grain = 0
         /\ IsTick(NextBid(r), NextBid(r) + NextSpread(s))
<1> DEFINE b == AtLeast(1, Rounded(bid + r))
           w == AtLeast(0, Rounded(s))
<1>0. bid + r \in Int
  OBVIOUS
<1>1. b \in Nat /\ b >= 1 /\ w \in Nat
  BY <1>0, FloorHolds
<1>2. Grain \in Nat /\ Grain > 0
  BY WalkAssumption
<1>3. NextBid(r) = Grain * b /\ NextSpread(s) = Grain * w
  BY DEF NextBid, NextSpread
<1> HIDE DEF b, w
<1>4. Grain * b + Grain * w = Grain * (b + w) /\ b + w \in Nat
  BY <1>1, <1>2
<1>5. Grain * b >= Grain /\ Grain * b \in Nat /\ Grain * w \in Nat
  BY <1>1, <1>2
<1>6. (Grain * b) % Grain = 0 /\ (Grain * (b + w)) % Grain = 0
  BY <1>1, <1>4, OnTheGrid
<1> QED
  BY <1>2, <1>3, <1>4, <1>5, <1>6 DEF IsTick

WalkInv == WalkTypeOK /\ QuotesAreTicks

LEMMA QuotePreserves ==
  ASSUME WalkInv, NEW r \in Returns, NEW s \in Spreads,
         walk = "walking", NextQuote(r, s) \/ QuoteRaises(r, s)
  PROVE  WalkInv'
<1>1. bid \in Int
  BY DEF WalkInv, WalkTypeOK
<1>2. CASE Drawable(r, s)
  <2>1. r \in Int /\ s \in Int
    BY <1>2, WalkAssumption DEF Drawable
  <2>2. NextQuote(r, s)
    BY <1>1, <1>2, <2>1, NextIsTick DEF QuoteRaises
  <2> QED
    BY <1>1, <2>1, <2>2, NextIsTick, WalkAssumption
    DEF NextQuote, WalkInv, WalkTypeOK, QuotesAreTicks
<1>3. CASE ~Drawable(r, s)
  BY <1>3 DEF NextQuote, QuoteRaises, WalkInv, WalkTypeOK, QuotesAreTicks
<1> QED
  BY <1>2, <1>3

LEMMA WalkInvariant == WalkSpec => []WalkInv
<1>1. WalkInit => WalkInv
  BY WalkAssumption DEF WalkInit, WalkInv, WalkTypeOK, QuotesAreTicks
<1>2. WalkInv /\ [WalkNext]_walkVars => WalkInv'
  <2> SUFFICES ASSUME WalkInv, [WalkNext]_walkVars PROVE WalkInv'
    OBVIOUS
  <2>1. ASSUME walk = "walking", NEW r \in Returns, NEW s \in Spreads,
               NextQuote(r, s) \/ QuoteRaises(r, s)
        PROVE  WalkInv'
    BY <2>1, QuotePreserves
  <2>2. CASE WalkAgain
    BY <2>2, WalkAssumption DEF WalkAgain, WalkInv, WalkTypeOK, QuotesAreTicks
  <2>3. CASE UNCHANGED walkVars
    BY <2>3 DEF walkVars, WalkInv, WalkTypeOK, QuotesAreTicks
  <2> QED
    BY <2>1, <2>2, <2>3 DEF WalkNext
<1> QED
  BY <1>1, <1>2, PTL DEF WalkSpec

(* The last price, what was quoted of it and the walk's end keep their     *)
(* types for any draws.                                                    *)
THEOREM WalkTypes == WalkSpec => []WalkTypeOK
BY WalkInvariant, PTL DEF WalkInv

(* No draw, however wild, makes the walk quote what a Tick refuses, or     *)
(* leave the grid.                                                         *)
THEOREM EveryQuoteIsATick == WalkSpec => []QuotesAreTicks
BY WalkInvariant, PTL DEF WalkInv

-----------------------------------------------------------------------------
(* Side by side. *)

(* A part that moves behaves as it does alone; one that rests, stays.      *)
LEMMA PartsInitially ==
  ASSUME PartsInit
  PROVE  /\ part = "lineage" => Init
         /\ part # "lineage" => LineageRests
         /\ part = "fixture" => FixtureInit
         /\ part # "fixture" => FixtureRests
         /\ part = "ci" => CiInit
         /\ part # "ci" => CiRests
         /\ part = "secrets" => SecretsInit
         /\ part # "secrets" => SecretsRest
         /\ part = "walk" => WalkInit
         /\ part # "walk" => WalkRests
BY DEF PartsInit

LEMMA PartsMove ==
  ASSUME [PartsNext]_partsVars
  PROVE  /\ part' = part
         /\ part = "lineage" => [Next]_vars
         /\ part # "lineage" => UNCHANGED vars
         /\ part = "fixture" => [FixtureNext]_fixtureVars
         /\ part # "fixture" => UNCHANGED fixtureVars
         /\ part = "ci" => [CiNext]_ciVars
         /\ part # "ci" => UNCHANGED ciVars
         /\ part = "secrets" => [SecretsNext]_secretsVars
         /\ part # "secrets" => UNCHANGED secretsVars
         /\ part = "walk" => [WalkNext]_walkVars
         /\ part # "walk" => UNCHANGED walkVars
BY DEF PartsNext, partsVars

(* The part that moves goes through a behaviour of its own specification:  *)
(* what its theorems say of it, they say of it here.                       *)
THEOREM PartsBehaveAsAlone ==
  PartsSpec =>
    /\ part = "lineage" => Spec
    /\ part = "fixture" => FixtureSpec
    /\ part = "ci" => CiSpec
    /\ part = "secrets" => SecretsSpec
    /\ part = "walk" => WalkSpec
<1>1. PartsSpec => (part = "lineage" => Spec)
  <2>1. PartsInit => (part = "lineage" => Init)
    BY PartsInitially
  <2>2. [PartsNext]_partsVars =>
          (part = "lineage" => (part = "lineage")' /\ [Next]_vars)
    BY PartsMove
  <2> QED
    BY <2>1, <2>2, PTL DEF PartsSpec, Spec
<1>2. PartsSpec => (part = "fixture" => FixtureSpec)
  <2>1. PartsInit => (part = "fixture" => FixtureInit)
    BY PartsInitially
  <2>2. [PartsNext]_partsVars =>
          (part = "fixture" => (part = "fixture")' /\ [FixtureNext]_fixtureVars)
    BY PartsMove
  <2> QED
    BY <2>1, <2>2, PTL DEF PartsSpec, FixtureSpec
<1>3. PartsSpec => (part = "ci" => CiSpec)
  <2>1. PartsInit => (part = "ci" => CiInit)
    BY PartsInitially
  <2>2. [PartsNext]_partsVars =>
          (part = "ci" => (part = "ci")' /\ [CiNext]_ciVars)
    BY PartsMove
  <2> QED
    BY <2>1, <2>2, PTL DEF PartsSpec, CiSpec
<1>4. PartsSpec => (part = "secrets" => SecretsSpec)
  <2>1. PartsInit => (part = "secrets" => SecretsInit)
    BY PartsInitially
  <2>2. [PartsNext]_partsVars =>
          (part = "secrets" => (part = "secrets")' /\ [SecretsNext]_secretsVars)
    BY PartsMove
  <2> QED
    BY <2>1, <2>2, PTL DEF PartsSpec, SecretsSpec
<1>5. PartsSpec => (part = "walk" => WalkSpec)
  <2>1. PartsInit => (part = "walk" => WalkInit)
    BY PartsInitially
  <2>2. [PartsNext]_partsVars =>
          (part = "walk" => (part = "walk")' /\ [WalkNext]_walkVars)
    BY PartsMove
  <2> QED
    BY <2>1, <2>2, PTL DEF PartsSpec, WalkSpec
<1> QED
  BY <1>1, <1>2, <1>3, <1>4, <1>5

(* The others never leave the state they rest in. *)
LEMMA OthersRest ==
  PartsSpec =>
    /\ ~(part = "lineage") => []LineageRests
    /\ ~(part = "fixture") => []FixtureRests
    /\ ~(part = "ci") => []CiRests
    /\ ~(part = "secrets") => []SecretsRest
    /\ ~(part = "walk") => []WalkRests
<1>1. PartsSpec => (~(part = "lineage") => []LineageRests)
  <2>1. PartsInit => (~(part = "lineage") => LineageRests)
    BY PartsInitially
  <2>2. [PartsNext]_partsVars =>
          (~(part = "lineage") /\ LineageRests
             => (~(part = "lineage"))' /\ LineageRests')
    BY PartsMove DEF LineageRests, vars
  <2> QED
    BY <2>1, <2>2, PTL DEF PartsSpec
<1>2. PartsSpec => (~(part = "fixture") => []FixtureRests)
  <2>1. PartsInit => (~(part = "fixture") => FixtureRests)
    BY PartsInitially
  <2>2. [PartsNext]_partsVars =>
          (~(part = "fixture") /\ FixtureRests
             => (~(part = "fixture"))' /\ FixtureRests')
    BY PartsMove DEF FixtureRests, fixtureVars, databaseVars
  <2> QED
    BY <2>1, <2>2, PTL DEF PartsSpec
<1>3. PartsSpec => (~(part = "ci") => []CiRests)
  <2>1. PartsInit => (~(part = "ci") => CiRests)
    BY PartsInitially
  <2>2. [PartsNext]_partsVars =>
          (~(part = "ci") /\ CiRests
             => (~(part = "ci"))' /\ CiRests')
    BY PartsMove DEF CiRests, ciVars
  <2> QED
    BY <2>1, <2>2, PTL DEF PartsSpec
<1>4. PartsSpec => (~(part = "secrets") => []SecretsRest)
  <2>1. PartsInit => (~(part = "secrets") => SecretsRest)
    BY PartsInitially
  <2>2. [PartsNext]_partsVars =>
          (~(part = "secrets") /\ SecretsRest
             => (~(part = "secrets"))' /\ SecretsRest')
    BY PartsMove DEF SecretsRest, secretsVars, scriptVars
  <2> QED
    BY <2>1, <2>2, PTL DEF PartsSpec
<1>5. PartsSpec => (~(part = "walk") => []WalkRests)
  <2>1. PartsInit => (~(part = "walk") => WalkRests)
    BY PartsInitially
  <2>2. [PartsNext]_partsVars =>
          (~(part = "walk") /\ WalkRests
             => (~(part = "walk"))' /\ WalkRests')
    BY PartsMove DEF WalkRests, walkVars
  <2> QED
    BY <2>1, <2>2, PTL DEF PartsSpec
<1> QED
  BY <1>1, <1>2, <1>3, <1>4, <1>5

(* The states they rest in are ones their types allow, for any constants.  *)
LEMMA RestIsTyped ==
  /\ LineageRests => TypeOK
  /\ FixtureRests => FixtureTypeOK
  /\ CiRests => CiTypeOK
  /\ SecretsRest => SecretsTypeOK
  /\ WalkRests => WalkTypeOK
<1>1. LineageRests => TypeOK
  BY DEF LineageRests, TypeOK, Tree, File, Schema, NoColumns
<1>2. FixtureRests => FixtureTypeOK
  BY DEF FixtureRests, FixtureTypeOK, Tree, File, Schema, NoColumns
<1>3. CiRests => CiTypeOK
  BY DEF CiRests, CiTypeOK, Checkout
<1>4. ASSUME SecretsRest PROVE SecretsTypeOK
  <2>1. 1 \in 1..(Len(Entries) + 1)
    BY SecretsAssumption
  <2>2. at \in [Scripts -> 1..(Len(Entries) + 1)]
    BY <1>4, <2>1 DEF SecretsRest
  <2>3. file \in [Secrets -> Held] /\ fileMode \in [Secrets -> {"owner", "all"}]
    BY <1>4 DEF SecretsRest, Held
  <2>4. tmp \in [Scripts -> Held] /\ tmpMode \in [Scripts -> {"owner", "all"}]
    BY <1>4 DEF SecretsRest, Held
  <2>5. step \in [Scripts -> Steps \cup {"ok", "stopped", "killed"}]
    BY <1>4 DEF SecretsRest
  <2>6. taken \in [Secrets -> Held \cup {NotYet}] /\ overlap \in BOOLEAN
    BY <1>4 DEF SecretsRest
  <2> QED
    BY <2>2, <2>3, <2>4, <2>5, <2>6 DEF SecretsTypeOK
<1>5. WalkRests => WalkTypeOK
  BY DEF WalkRests, WalkTypeOK
<1> QED
  BY <1>1, <1>2, <1>3, <1>4, <1>5

(* Every variable of the five parts holds what its comment says, whichever *)
(* part moves.                                                             *)
THEOREM PartsTypes == PartsSpec => []PartsTypeOK
<1>1. PartsSpec => []TypeOK
  BY PartsBehaveAsAlone, OthersRest, RestIsTyped, LineageTypes, PTL
<1>2. PartsSpec => []FixtureTypeOK
  BY PartsBehaveAsAlone, OthersRest, RestIsTyped, FixtureTypes, PTL
<1>3. PartsSpec => []CiTypeOK
  BY PartsBehaveAsAlone, OthersRest, RestIsTyped, CiTypes, PTL
<1>4. PartsSpec => []SecretsTypeOK
  BY PartsBehaveAsAlone, OthersRest, RestIsTyped, SecretsTypes, PTL
<1>5. PartsSpec => []WalkTypeOK
  BY PartsBehaveAsAlone, OthersRest, RestIsTyped, WalkTypes, PTL
<1>6. TypeOK /\ FixtureTypeOK /\ CiTypeOK /\ SecretsTypeOK /\ WalkTypeOK
        => PartsTypeOK
  BY DEF PartsTypeOK
<1> QED
  BY <1>1, <1>2, <1>3, <1>4, <1>5, <1>6, PTL
=============================================================================
