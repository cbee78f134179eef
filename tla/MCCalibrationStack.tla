------------------------ MODULE MCCalibrationStack ------------------------
(* CalibrationStack with three families and a short history of scripts. *)
EXTENDS CalibrationStack

CONSTANTS EURUSD, AAPL, Interval

MCVenueOrder == <<AAPL, EURUSD>>

MCQuantityOrder == <<Interval>>

(* Two families of the same arity that differ in one name, and a shorter one. *)
MCParameterNames ==
  [lognormal   |-> <<"s", "loc", "scale">>,
   loglogistic |-> <<"c", "loc", "scale">>,
   normal      |-> <<"loc", "scale">>]

Fits(family) == [vq \in {EURUSD, AAPL} \X {Interval} |-> family]

Sound(venues, family) ==
  [venues |-> venues, family |-> Fits(family),
   flaw |-> [kind |-> "none", key |-> <<"symbology">>]]

Broken(venues, family, kind, k) ==
  [Sound(venues, family) EXCEPT !.flaw = [kind |-> kind, key |-> k]]

(* A delisted instrument, a refit, and a refit with one flaw of each kind. *)
MCScripts ==
  {Sound({EURUSD, AAPL}, "normal"),
   Sound({EURUSD}, "loglogistic"),
   Broken({EURUSD}, "normal", "queueing", <<"calib:quantities">>),
   Broken({EURUSD}, "loglogistic", "executing", <<"param", EURUSD, Interval, 2>>),
   Broken({EURUSD}, "lognormal", "unusable", <<"instrument", EURUSD>>)}
=============================================================================
