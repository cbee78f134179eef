------------------------------- MODULE TickLog -------------------------------
(***************************************************************************)
(* What the raw-tick streams promise their consumers, whatever produces    *)
(* them: one append-only log per symbol in which a session's ticks are     *)
(* contiguous and gapless from seq 0, and the only repetition is the most  *)
(* recent entry written again.  A session id is compared for equality      *)
(* only: nothing here orders two sessions.                                 *)
(***************************************************************************)
EXTENDS Integers, Sequences

CONSTANTS
  Symbols,    \* one stream per symbol
  Sessions,   \* session identifiers
  Seqs,       \* sequence numbers
  Times       \* receive timestamps

NumbersAreNatural == Seqs \subseteq Nat /\ Times \subseteq Nat

VARIABLE log  \* log[s]: the entries of s's stream, oldest first

Tick == [session : Sessions, seq : Seqs, recv : Times]

TypeOK == log \in [Symbols -> Seq(Tick)]

Newest(s) == log[s][Len(log[s])]

SessionsIn(s) == {log[s][i].session : i \in 1..Len(log[s])}

-----------------------------------------------------------------------------
Init == log = [s \in Symbols |-> <<>>]

(* The first tick of a session the stream has not seen. *)
StartsSession(s, t) ==
  /\ t.session \notin SessionsIn(s)
  /\ t.seq = 0

(* The tick after the newest one, in the newest one's session. *)
ContinuesSession(s, t) ==
  /\ log[s] # <<>>
  /\ t.session = Newest(s).session
  /\ t.seq = Newest(s).seq + 1
  /\ t.recv >= Newest(s).recv

(* The newest tick, stored a second time. *)
RepeatsNewest(s, t) ==
  /\ log[s] # <<>>
  /\ t = Newest(s)

Publish(s, t) ==
  /\ StartsSession(s, t) \/ ContinuesSession(s, t) \/ RepeatsNewest(s, t)
  /\ log' = [log EXCEPT ![s] = Append(@, t)]

Next == \E s \in Symbols, t \in Tick : Publish(s, t)

Spec == Init /\ [][Next]_log

-----------------------------------------------------------------------------
(* Every tick but a session's first is preceded by its predecessor: a      *)
(* consumer that reads everything never sees a seq jump inside a session.  *)
Gapless ==
  \A s \in Symbols : \A i \in 1..Len(log[s]) :
     log[s][i].seq > 0 =>
       \E j \in 1..(i-1) : /\ log[s][j].session = log[s][i].session
                           /\ log[s][j].seq = log[s][i].seq - 1

(* Two sessions never interleave on a stream. *)
SessionsContiguous ==
  \A s \in Symbols : \A i, j, k \in 1..Len(log[s]) :
     (i < j /\ j < k /\ log[s][i].session = log[s][k].session)
       => log[s][j].session = log[s][i].session

(* Within a session seq and recv never go back. *)
OrderedInSession ==
  \A s \in Symbols : \A i, j \in 1..Len(log[s]) :
     (i < j /\ log[s][i].session = log[s][j].session)
       => log[s][i].seq <= log[s][j].seq /\ log[s][i].recv <= log[s][j].recv

(* The deduplication tuple names one tick: two entries that share it are   *)
(* copies of each other.                                                   *)
KeyNamesOneTick ==
  \A s \in Symbols : \A i, j \in 1..Len(log[s]) :
     (log[s][i].session = log[s][j].session /\ log[s][i].seq = log[s][j].seq)
       => log[s][i] = log[s][j]

WellFormed ==
  Gapless /\ SessionsContiguous /\ OrderedInSession /\ KeyNamesOneTick

(* The contract's own words: recv never goes back on a stream at all, a    *)
(* restart included.                                                       *)
RecvNeverGoesBack ==
  \A s \in Symbols : \A i, j \in 1..Len(log[s]) :
     i < j => log[s][i].recv <= log[s][j].recv
=============================================================================
