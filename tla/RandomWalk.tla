----------------------------- MODULE RandomWalk -----------------------------
(***************************************************************************)
(* One symbol's walk: _RandomWalk of generator.py, and what the Tick built *)
(* from a quote accepts.  Prices and draws are integers, Grain of them to  *)
(* the instrument's price increment, so that rounding is to the multiples  *)
(* of Grain.  What a distribution may draw is a set; NotANumber stands for *)
(* an infinity or a NaN.  The published floats are left out: the           *)
(* conversion keeps order and sign.                                        *)
(***************************************************************************)
EXTENDS Integers

CONSTANTS
  Grain,      \* units to one price_increment
  Initial,    \* what initial_price may be: positive, a multiple or not
  Returns,    \* what the return distribution may draw
  Spreads,    \* and the spread distribution
  NotANumber,
  Digits      \* the most increments the decimal context can hold

ASSUME WalkAssumption ==
  /\ Grain \in Nat \ {0}
  /\ Initial \subseteq Nat \ {0}
  /\ Returns \subseteq Int \cup {NotANumber}
  /\ Spreads \subseteq Int \cup {NotANumber}
  /\ NotANumber \notin Int
  /\ Digits \in Nat \ {0}

VARIABLES
  bid,    \* _bid
  quote,  \* the last quote, or <<>> before the first
  walk    \* "walking", "raised" by next_quote, or "refused" by Tick

walkVars == <<bid, quote, walk>>

(* quantize(..., ROUND_HALF_EVEN), in increments. *)
Rounded(x) ==
  LET q == x \div Grain
      r == x % Grain
  IN  IF 2 * r < Grain \/ (2 * r = Grain /\ q % 2 = 0) THEN q ELSE q + 1

(* Mutant: nothing keeps a price up. *)
AtLeast_Dropped(low, n) == n

AtLeast(low, n) == IF n < low THEN low ELSE n

(* What quantize can return; past it, it raises. *)
Fits(n) == -Digits <= n /\ n <= Digits

(* Price and _check_quote. *)
IsTick(b, a) == b > 0 /\ a >= b

NextBid(r) == Grain * AtLeast(1, Rounded(bid + r))

NextSpread(s) == Grain * AtLeast(0, Rounded(s))

Drawable(r, s) ==
  /\ NotANumber \notin {r, s}
  /\ Fits(Rounded(bid + r)) /\ Fits(Rounded(s))

WalkInit ==
  /\ bid \in Initial
  /\ quote = <<>>
  /\ walk = "walking"

-----------------------------------------------------------------------------
(* next_quote, and the Tick the task makes of it.                          *)
NextQuote(r, s) ==
  /\ Drawable(r, s) /\ IsTick(NextBid(r), NextBid(r) + NextSpread(s))
  /\ bid' = NextBid(r)
  /\ quote' = <<NextBid(r), NextBid(r) + NextSpread(s)>>
  /\ UNCHANGED walk

(* Decimal raises InvalidOperation, or the Tick is not valid: the task,    *)
(* and with it the feed, ends, and nothing reads this walk again.          *)
QuoteRaises(r, s) ==
  /\ ~(Drawable(r, s) /\ IsTick(NextBid(r), NextBid(r) + NextSpread(s)))
  /\ walk' = IF Drawable(r, s) THEN "refused" ELSE "raised"
  /\ UNCHANGED <<bid, quote>>

(* A process is started again, and draws from the first price. *)
WalkAgain == bid' \in Initial /\ quote' = <<>> /\ walk' = "walking"

WalkNext ==
  \/ /\ walk = "walking"
     /\ \E r \in Returns, s \in Spreads :
          NextQuote(r, s) \/ QuoteRaises(r, s)
  \/ WalkAgain

WalkSpec == WalkInit /\ [][WalkNext]_walkVars

-----------------------------------------------------------------------------
WalkTypeOK ==
  /\ bid \in Nat \ {0}
  /\ quote \in {<<>>} \cup (Nat \X Nat)
  /\ walk \in {"walking", "raised", "refused"}

(* Whatever is drawn, the walk never quotes what a Tick refuses, and it    *)
(* stays on the instrument's grid, however far the first price was off it  *)
(* ("Keeps bid strictly positive", "a zero spread is a valid quote, a      *)
(* negative one never is").                                                *)
QuotesAreTicks ==
  /\ walk # "refused"
  /\ quote # <<>> =>
       /\ quote[1] >= Grain /\ quote[2] >= quote[1]
       /\ quote[1] % Grain = 0 /\ quote[2] % Grain = 0
=============================================================================
