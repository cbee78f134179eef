------------------------ MODULE CalibrationKeyspace ------------------------
(***************************************************************************)
(* The calibration keyspace in Redis: its keys, what a seed script writes  *)
(* under each of them, and the live database.  A key's value is known by   *)
(* the script that wrote it: that is enough to tell whether it can be used *)
(* and whether two values belong together.                                 *)
(***************************************************************************)
EXTENDS Integers, SequencesExt

CONSTANTS
  VenueOrder,      \* the venue symbols a script may list, sorted
  QuantityOrder,   \* QUANTITIES: what every symbol needs a distribution for
  ParameterNames,  \* FAMILY_PARAMETERS: each family's parameter names
  Scripts,         \* the seed scripts of one deployment's history
  Absent           \* no such key

Venues     == Range(VenueOrder)
Quantities == Range(QuantityOrder)
Families   == DOMAIN ParameterNames

Arity(f) == Len(ParameterNames[f])

ASSUME FamiliesAssumption ==
  /\ VenueOrder \in Seq(Venues) /\ QuantityOrder \in Seq(Quantities)
  /\ \A f \in Families : ParameterNames[f] \in Seq(STRING)
  /\ \E f \in Families : \A g \in Families : Arity(g) <= Arity(f)

(* One more position than the longest family has, so that every            *)
(* `param:<param_count>` key exists here.                                  *)
Positions == 0..(CHOOSE m \in {Arity(f) : f \in Families} :
                   \A f \in Families : Arity(f) <= m)

Symbology    == <<"symbology">>
SymbolsKey   == <<"calib:symbols">>
QuantityKey  == <<"calib:quantities">>
Instrument(v)    == <<"instrument", v>>
Family(v, q)     == <<"family", v, q>>
ParamCount(v, q) == <<"param_count", v, q>>
Param(v, q, n)   == <<"param", v, q, n>>

Keys ==
  {Symbology, SymbolsKey, QuantityKey}
    \cup {Instrument(v) : v \in Venues}
    \cup {Family(v, q) : v \in Venues, q \in Quantities}
    \cup {ParamCount(v, q) : v \in Venues, q \in Quantities}
    \cup {Param(v, q, n) : v \in Venues, q \in Quantities, n \in Positions}

(* What can be wrong with a script: the command that writes one key is     *)
(* rejected while queueing or fails inside EXEC, or it runs and stores a   *)
(* value the adapter has no use for.                                       *)
Flaw == [kind : {"none", "queueing", "executing", "unusable"}, key : Keys]

Script == [venues : SUBSET Venues \ {{}},
           family : [Venues \X Quantities -> Families],
           flaw   : Flaw]

ASSUME ScriptsAssumption == Scripts \subseteq Script /\ Absent \notin Scripts

(* One short sequence per element of another, one after the other. *)
ForEach(Op(_), xs) == FlattenSeq([i \in DOMAIN xs |-> Op(xs[i])])

Sorted(venues) ==
  ForEach(LAMBDA v : IF v \in venues THEN <<v>> ELSE <<>>, VenueOrder)

FamilyOf(s, v, q) == s.family[<<v, q>>]

ParamLines(s, v, q) ==
  [i \in 1..Arity(FamilyOf(s, v, q)) |-> Param(v, q, i - 1)]

(* One quantity's table of fits. *)
FitLines(s, q) ==
  ForEach(LAMBDA v : <<Family(v, q), ParamCount(v, q)>> \o ParamLines(s, v, q),
          Sorted(s.venues))

(* The keys a script writes, each with a command of its own, in the order  *)
(* of its lines: the discovery sets last.                                  *)
LinesOf(s) ==
  <<Symbology>> \o ForEach(LAMBDA v : <<Instrument(v)>>, Sorted(s.venues))
    \o ForEach(LAMBDA q : FitLines(s, q), QuantityOrder)
    \o <<SymbolsKey, QuantityKey>>

Lines == [s \in Scripts |-> LinesOf(s)]

(* What is wrong with a script is one of its commands. *)
ASSUME FlawsAssumption ==
  \A s \in Scripts : s.flaw.kind # "none" => s.flaw.key \in Range(Lines[s])

Flawed(s, kinds, k) == s.flaw.kind \in kinds /\ s.flaw.key = k

Runnable(s) == s.flaw.kind \in {"none", "unusable"}

VARIABLE live  \* the live database: the script that wrote each key

Empty == [k \in Keys |-> Absent]

(* The database after the whole of a script ran: nothing else is left. *)
Whole ==
  [s \in Scripts |->
     [k \in Keys |-> IF k \in Range(Lines[s]) THEN s ELSE Absent]]
=============================================================================
