-------------------------- MODULE CalibrationStore --------------------------
(***************************************************************************)
(* CalibrationStore.load: three pipelined round trips, each followed by    *)
(* the checks on what it read.  The pipelines are not transactions: other  *)
(* clients' commands run between their commands as well as between the     *)
(* trips.                                                                  *)
(***************************************************************************)
EXTENDS CalibrationKeyspace

CONSTANT NotRead  \* no reply for this key yet

ASSUME NotReadAssumption == NotRead \notin Scripts /\ NotRead # Absent

VARIABLES
  phase,   \* where load is, or how it ended
  toRead,  \* keys of the round trip still to be read
  got      \* the replies: the script each value read was written by

loadVars == <<phase, toRead, got>>

Trips == {"discovering", "heads", "params"}

LoadTypeOK ==
  /\ phase \in Trips \cup {"idle", "loaded", "refused", "lost"}
  /\ toRead \in Seq(Keys)
  /\ got \in [Keys -> Scripts \cup {Absent, NotRead}]

Unread == [k \in Keys |-> NotRead]

LoadInit == phase = "idle" /\ toRead = <<>> /\ got = Unread

-----------------------------------------------------------------------------
(* What the replies say. *)

(* Present, and of the form the parser of that key accepts. *)
Usable(k) ==
  got[k] \notin {Absent, NotRead} /\ ~Flawed(got[k], {"unusable"}, k)

ListedVenues == got[SymbolsKey].venues

FamilyRead(v, q) == FamilyOf(got[Family(v, q)], v, q)

CountRead(v, q) == Arity(FamilyOf(got[ParamCount(v, q)], v, q))

NameRead(v, q, n) ==
  LET f == FamilyOf(got[Param(v, q, n)], v, q) IN ParameterNames[f][n + 1]

(* The checks of _discover, _read_heads and _read_params. *)
DiscoveryPasses ==
  /\ \A k \in {SymbolsKey, QuantityKey, Symbology} : Usable(k)
  /\ ListedVenues \subseteq got[Symbology].venues

HeadsPass ==
  \A v \in ListedVenues :
    /\ Usable(Instrument(v))
    /\ \A q \in Quantities :
         /\ Usable(Family(v, q)) /\ Usable(ParamCount(v, q))
         /\ CountRead(v, q) = Arity(FamilyRead(v, q))

(* Mutant: the name is not compared. *)
ParamFits_AnyName(v, q, n) == Usable(Param(v, q, n))

(* The parameter the family takes at this position. *)
ParamFits(v, q, n) ==
  /\ Usable(Param(v, q, n))
  /\ NameRead(v, q, n) = ParameterNames[FamilyRead(v, q)][n + 1]

(* Mutant: it is the last parameter that must not exist. *)
ParamsPass_LastAbsent ==
  \A v \in ListedVenues, q \in Quantities :
    /\ \A n \in 0..(CountRead(v, q) - 2) : ParamFits(v, q, n)
    /\ got[Param(v, q, CountRead(v, q) - 1)] = Absent

ParamsPass ==
  \A v \in ListedVenues, q \in Quantities :
    /\ \A n \in 0..(CountRead(v, q) - 1) : ParamFits(v, q, n)
    /\ got[Param(v, q, CountRead(v, q))] = Absent

-----------------------------------------------------------------------------
(* The adapter starts, or starts again. *)
StartLoad ==
  /\ phase \notin Trips
  /\ phase' = "discovering"
  /\ toRead' = <<SymbolsKey, QuantityKey, Symbology>>
  /\ got' = Unread
  /\ UNCHANGED live

(* Redis executes one command of the pipeline. *)
ReadKey ==
  /\ toRead # <<>>
  /\ got' = [got EXCEPT ![Head(toRead)] = live[Head(toRead)]]
  /\ toRead' = Tail(toRead)
  /\ UNCHANGED <<phase, live>>

(* Mutant: a store that lists no symbol is a calibration of none. *)
Check_NoneListed(trip, passes, next, keys) ==
  /\ phase = trip /\ toRead = <<>>
  /\ IF passes THEN phase' = next /\ toRead' = keys
     ELSE /\ phase' = IF got[SymbolsKey] = Absent THEN "loaded" ELSE "refused"
          /\ UNCHANGED toRead
  /\ UNCHANGED <<got, live>>

(* A round trip is over: go on, or raise CalibrationError. *)
Check(trip, passes, next, keys) ==
  /\ phase = trip /\ toRead = <<>>
  /\ IF passes THEN phase' = next /\ toRead' = keys
               ELSE phase' = "refused" /\ UNCHANGED toRead
  /\ UNCHANGED <<got, live>>

HeadKeys(v) ==
  <<Instrument(v)>> \o
  ForEach(LAMBDA q : <<Family(v, q), ParamCount(v, q)>>, QuantityOrder)

Discovered ==
  Check("discovering", DiscoveryPasses, "heads",
        ForEach(HeadKeys, Sorted(ListedVenues)))

(* Mutant: one position too far. *)
ParamKeys_TwoPast(v, q) ==
  [i \in 1..(CountRead(v, q) + 2) |-> Param(v, q, i - 1)]

(* The parameters the count promises, and the one past them. *)
ParamKeys(v, q) == [i \in 1..(CountRead(v, q) + 1) |-> Param(v, q, i - 1)]

FitKeys(v) == ForEach(LAMBDA q : ParamKeys(v, q), QuantityOrder)

HeadsRead ==
  Check("heads", HeadsPass, "params", ForEach(FitKeys, Sorted(ListedVenues)))

ParamsRead == Check("params", ParamsPass, "loaded", <<>>)

(* Redis is gone in the middle of a trip: its error goes through load. *)
LoseRedis ==
  /\ phase \in Trips /\ toRead # <<>>
  /\ phase' = "lost" /\ toRead' = <<>>
  /\ UNCHANGED <<got, live>>

LoadNext ==
  StartLoad \/ ReadKey \/ Discovered \/ HeadsRead \/ ParamsRead \/ LoseRedis
=============================================================================
