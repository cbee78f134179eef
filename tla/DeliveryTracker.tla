--------------------------- MODULE DeliveryTracker ---------------------------
(***************************************************************************)
(* A consumer of the raw-tick streams that passes every record through a   *)
(* DeliveryTracker.  The tracker is the code; the streams are what TickLog *)
(* promises, and reading, replaying and trimming them are external: no     *)
(* consumer and no janitor exists in the repository yet.                   *)
(***************************************************************************)
EXTENDS Integers, Sequences, FiniteSets

CONSTANTS
  Symbols, Sessions, Seqs, Times,
  Unseen,                 \* no mark for a stream yet
  ReplayCrossesSessions,  \* may a replay go back past a session change?
  MaxLength               \* bound: entries per stream

ASSUME ConsumerAssumption ==
  /\ Seqs \subseteq Nat /\ Times \subseteq Nat
  /\ ReplayCrossesSessions \in BOOLEAN
  /\ MaxLength \in Nat

VARIABLES
  log,       \* the streams, whole
  start,     \* entries of each stream that can no longer be read
  cursor,    \* entries of each stream already read
  seen,      \* the tracker's `_seen`: session and high-water mark
  accepted,  \* records the tracker did not call duplicates, oldest first
  alarmed    \* records the tracker reported missing

Log == INSTANCE TickLog

vars == <<log, start, cursor, seen, accepted, alarmed>>
consumer == <<start, cursor, seen, accepted, alarmed>>

Mark == [session : Sessions, seq : Seqs]

ASSUME UnseenAssumption == Unseen \notin Mark

Key(t) == [session |-> t.session, seq |-> t.seq]

TypeOK ==
  /\ log \in [Symbols -> Seq(Log!Tick)]
  /\ start \in [Symbols -> Nat]
  /\ cursor \in [Symbols -> Nat]
  /\ \A s \in Symbols : start[s] <= cursor[s] /\ cursor[s] <= Len(log[s])
  /\ seen \in [Symbols -> Mark \cup {Unseen}]
  /\ accepted \in [Symbols -> Seq(Mark)]
  /\ alarmed \in [Symbols -> Nat]

Init ==
  /\ Log!Init
  /\ start = [s \in Symbols |-> 0]
  /\ cursor = [s \in Symbols |-> 0]
  /\ seen = [s \in Symbols |-> Unseen]
  /\ accepted = [s \in Symbols |-> <<>>]
  /\ alarmed = [s \in Symbols |-> 0]

-----------------------------------------------------------------------------
(* observe, one disjunct per verdict.                                      *)

Advance(s, t) ==
  /\ seen' = [seen EXCEPT ![s] = Key(t)]
  /\ accepted' = [accepted EXCEPT ![s] = Append(@, Key(t))]

First(s, t) ==
  /\ seen[s] = Unseen
  /\ Advance(s, t)
  /\ UNCHANGED alarmed

SessionChange(s, t) ==
  /\ seen[s] # Unseen
  /\ seen[s].session # t.session
  /\ Advance(s, t)
  /\ UNCHANGED alarmed

(* Mutants: the session is not looked at; the comparison is off by one. *)
Duplicate_SeqOnly(s, t) ==
  /\ seen[s] # Unseen
  /\ t.seq <= seen[s].seq
  /\ UNCHANGED <<seen, accepted, alarmed>>

Duplicate_OneTooMany(s, t) ==
  /\ seen[s] # Unseen
  /\ seen[s].session = t.session
  /\ t.seq <= seen[s].seq + 1
  /\ UNCHANGED <<seen, accepted, alarmed>>

Duplicate(s, t) ==
  /\ seen[s] # Unseen
  /\ seen[s].session = t.session
  /\ t.seq <= seen[s].seq
  /\ UNCHANGED <<seen, accepted, alarmed>>

(* Mutants: the mark's own seq counts as new; it counts as missing. *)
NextOrGap_NotStrict(s, t) ==
  /\ seen[s] # Unseen
  /\ seen[s].session = t.session
  /\ t.seq >= seen[s].seq
  /\ Advance(s, t)
  /\ alarmed' = [alarmed EXCEPT ![s] = @ + (t.seq - seen[s].seq - 1)]

NextOrGap_CountsMark(s, t) ==
  /\ seen[s] # Unseen
  /\ seen[s].session = t.session
  /\ t.seq > seen[s].seq
  /\ Advance(s, t)
  /\ alarmed' = [alarmed EXCEPT ![s] = @ + (t.seq - seen[s].seq)]

(* IN_ORDER when nothing is missing, GAP otherwise. *)
NextOrGap(s, t) ==
  /\ seen[s] # Unseen
  /\ seen[s].session = t.session
  /\ t.seq > seen[s].seq
  /\ Advance(s, t)
  /\ alarmed' = [alarmed EXCEPT ![s] = @ + (t.seq - seen[s].seq - 1)]

Observe(s, t) ==
  First(s, t) \/ SessionChange(s, t) \/ Duplicate(s, t) \/ NextOrGap(s, t)

-----------------------------------------------------------------------------
(* The streams and the reading of them.                                    *)

Produce ==
  /\ \E s \in Symbols, t \in Log!Tick :
       Len(log[s]) < MaxLength /\ Log!Publish(s, t)
  /\ UNCHANGED consumer

(* The next entry is delivered: streams deliver in order. *)
Read(s) ==
  /\ cursor[s] < Len(log[s])
  /\ cursor' = [cursor EXCEPT ![s] = @ + 1]
  /\ Observe(s, log[s][cursor[s] + 1])
  /\ UNCHANGED <<log, start>>

(* Entries already delivered to this tracker are delivered again. *)
Replay(s) ==
  /\ \E j \in start[s]..(cursor[s] - 1) :
       /\ ReplayCrossesSessions \/ log[s][j + 1].session = seen[s].session
       /\ cursor' = [cursor EXCEPT ![s] = j]
  /\ UNCHANGED <<log, start, seen, accepted, alarmed>>

(* The oldest entries are removed, those not yet read with them. *)
Trim(s) ==
  /\ \E k \in (start[s] + 1)..Len(log[s]) :
       /\ start' = [start EXCEPT ![s] = k]
       /\ cursor' = [cursor EXCEPT ![s] = IF @ >= k THEN @ ELSE k]
  /\ UNCHANGED <<log, seen, accepted, alarmed>>

(* A new consumer process, with a new tracker, resumes from an entry the   *)
(* old one had reached.                                                    *)
Restart ==
  /\ cursor' \in {c \in [Symbols -> 0..MaxLength] :
                    \A s \in Symbols : start[s] <= c[s] /\ c[s] <= cursor[s]}
  /\ start' = cursor'
  /\ seen' = [s \in Symbols |-> Unseen]
  /\ accepted' = [s \in Symbols |-> <<>>]
  /\ alarmed' = [s \in Symbols |-> 0]
  /\ UNCHANGED log

Next ==
  \/ Produce \/ Restart
  \/ \E s \in Symbols : Read(s) \/ Replay(s) \/ Trim(s)

Spec == Init /\ [][Next]_vars

-----------------------------------------------------------------------------
Accepted(s) == {accepted[s][i] : i \in 1..Len(accepted[s])}

(* The tracker never skips a record its consumer has not handled: whatever *)
(* lies between the start and the cursor was accepted once.  "A seq at or  *)
(* below the mark can only be a redelivery" (delivery.py).                 *)
NothingDropped ==
  \A s \in Symbols : \A i \in (start[s] + 1)..cursor[s] :
    Key(log[s][i]) \in Accepted(s)

(* No record is handed on twice: the second occurrence of a key is a       *)
(* duplicate, not new data (the data contract's deduplication rule).       *)
AcceptedOnce ==
  \A s \in Symbols : \A i, j \in 1..Len(accepted[s]) :
    accepted[s][i] = accepted[s][j] => i = j

(* Keys between two accepted ones of a session that were never accepted. *)
Lost(s) ==
  {k \in Mark :
     /\ k \notin Accepted(s)
     /\ \E a, b \in Accepted(s) : /\ a.session = k.session /\ a.seq < k.seq
                                  /\ b.session = k.session /\ k.seq < b.seq}

(* The loss alarm is exact: it counts every record of a session that was   *)
(* lost between two handled ones, and nothing else; a restart of the       *)
(* producer, a replay or a repeated record never adds to it.               *)
AlarmIsExact == \A s \in Symbols : alarmed[s] = Cardinality(Lost(s))

(* Every record alarmed for was really published, and removed unread. *)
LossIsReal ==
  \A s \in Symbols : \A k \in Lost(s) :
    \E i \in 1..start[s] : Key(log[s][i]) = k
=============================================================================
