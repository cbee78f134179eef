------------------------ MODULE DeliveryTrackerProofs ------------------------
(***************************************************************************)
(* The tracker, over streams of any length and any number of symbols,      *)
(* sessions and seqs.                                                      *)
(***************************************************************************)
EXTENDS DeliveryTracker, FiniteSetTheorems, TLAPS

Streams == INSTANCE TickLogProofs

(* Below a stored seq, every seq of the session is stored before it. *)
SeqsBelow(s) ==
  \A i \in 1..Len(log[s]) : \A n \in 0..(log[s][i].seq - 1) :
    \E j \in 1..(i - 1) : /\ log[s][j].session = log[s][i].session
                          /\ log[s][j].seq = n

LogInv == TypeOK /\ Log!WellFormed /\ \A s \in Symbols : SeqsBelow(s)

Stored(s, k) == \E i \in 1..Len(log[s]) : Key(log[s][i]) = k

(* Nothing that can still be read lies at or below the mark unaccepted. *)
Marked(s) ==
  /\ seen[s] \in Accepted(s)
  /\ \A i \in (start[s] + 1)..Len(log[s]) :
       (log[s][i].session = seen[s].session /\ log[s][i].seq <= seen[s].seq)
         => Key(log[s][i]) \in Accepted(s)

Handled(s) ==
  /\ IF seen[s] = Unseen THEN accepted[s] = <<>> ELSE Marked(s)
  /\ \A k \in Accepted(s) : Stored(s, k)
  /\ \A i \in (start[s] + 1)..cursor[s] : Key(log[s][i]) \in Accepted(s)

(* When replays stay inside a session, the mark is the highest of its      *)
(* session that was accepted, the consumer is never before that session,   *)
(* and it has accepted nothing of the sessions after it.                   *)
InSession(s) ==
  /\ seen[s] # Unseen =>
       \A k \in Accepted(s) :
         k.session = seen[s].session => k.seq <= seen[s].seq
  /\ seen[s] # Unseen =>
       \E i \in 1..Len(log[s]) :
         i <= cursor[s] + 1 /\ log[s][i].session = seen[s].session
  /\ seen[s] # Unseen =>
       \A i, j \in 1..Len(log[s]) :
         (/\ i < j
          /\ log[s][i].session = seen[s].session
          /\ log[s][j].session # seen[s].session)
           => \A k \in Accepted(s) : k.session # log[s][j].session
  /\ \A i, j \in 1..Len(accepted[s]) : accepted[s][i] = accepted[s][j] => i = j

Counted(s) == IsFiniteSet(Lost(s)) /\ alarmed[s] = Cardinality(Lost(s))

HandledInv == LogInv /\ \A s \in Symbols : Handled(s)

SessionInv == HandledInv /\ \A s \in Symbols : InSession(s)

AlarmInv == SessionInv /\ \A s \in Symbols : Counted(s)

-----------------------------------------------------------------------------
(* The log. *)

(* TickLog's facts hold of the tracker's streams. *)
LEMMA SameLog ==
  /\ Log!TypeOK <=> Streams!TypeOK
  /\ Log!WellFormed <=> Streams!WellFormed
  /\ Log!Tick = Streams!Tick
  /\ \A s \in Symbols, t \in Log!Tick :
       Log!Publish(s, t) <=> Streams!Publish(s, t)
  BY DEF Log!TypeOK, Streams!TypeOK, Log!Tick, Streams!Tick,
         Log!WellFormed, Streams!WellFormed, Log!Gapless, Streams!Gapless,
         Log!SessionsContiguous, Streams!SessionsContiguous,
         Log!OrderedInSession, Streams!OrderedInSession,
         Log!KeyNamesOneTick, Streams!KeyNamesOneTick,
         Log!Publish, Streams!Publish, Log!StartsSession, Streams!StartsSession,
         Log!ContinuesSession, Streams!ContinuesSession,
         Log!RepeatsNewest, Streams!RepeatsNewest,
         Log!SessionsIn, Streams!SessionsIn, Log!Newest, Streams!Newest

(* What is stored. *)
LEMMA Entries ==
  ASSUME TypeOK, NEW s \in Symbols, NEW i \in 1..Len(log[s])
  PROVE  /\ log[s][i] \in Log!Tick
         /\ log[s][i].session \in Sessions
         /\ log[s][i].seq \in Seqs /\ log[s][i].seq \in Nat
         /\ Key(log[s][i]) \in Mark
         /\ Key(log[s][i]).session = log[s][i].session
         /\ Key(log[s][i]).seq = log[s][i].seq
<1>1. log[s] \in Seq(Log!Tick)
  BY DEF TypeOK
<1>2. log[s][i] \in Log!Tick
  BY <1>1
<1> QED
  BY <1>2, ConsumerAssumption DEF Log!Tick, Key, Mark

(* What the types say of one stream. *)
LEMMA Typed ==
  ASSUME TypeOK, NEW s \in Symbols
  PROVE  /\ Len(log[s]) \in Nat /\ start[s] \in Nat /\ cursor[s] \in Nat
         /\ start[s] <= cursor[s] /\ cursor[s] <= Len(log[s])
         /\ accepted[s] \in Seq(Mark) /\ Len(accepted[s]) \in Nat
         /\ Accepted(s) \subseteq Mark
         /\ seen[s] # Unseen => seen[s] \in Mark
         /\ alarmed[s] \in Nat
<1>1. log[s] \in Seq(Log!Tick) /\ accepted[s] \in Seq(Mark)
  BY DEF TypeOK
<1>2. Accepted(s) \subseteq Mark
  BY <1>1 DEF Accepted
<1> QED
  BY <1>1, <1>2 DEF TypeOK

(* A published tick comes at the end, and is the newest of its session. *)
LEMMA Published ==
  ASSUME LogInv, NEW s \in Symbols, NEW t \in Log!Tick, Log!Publish(s, t)
  PROVE  /\ log' \in [Symbols -> Seq(Log!Tick)]
         /\ \A r \in Symbols : r # s => log'[r] = log[r]
         /\ Len(log'[s]) = Len(log[s]) + 1
         /\ \A i \in 1..Len(log[s]) : log'[s][i] = log[s][i]
         /\ log'[s][Len(log[s]) + 1] = t
         /\ \A i \in 1..Len(log[s]) : log[s][i].session = t.session =>
              /\ log[s][Len(log[s])].session = t.session
              /\ log[s][i].seq <= t.seq
         /\ Log!WellFormed'
<1>1. Streams!NumbersAreNatural
  BY ConsumerAssumption DEF Streams!NumbersAreNatural
<1>2. Streams!TypeOK /\ Streams!WellFormed /\ t \in Streams!Tick
      /\ Streams!Publish(s, t)
  BY SameLog DEF LogInv, TypeOK, Log!TypeOK
<1>3. /\ log' \in [Symbols -> Seq(Log!Tick)]
      /\ \A r \in Symbols : r # s => log'[r] = log[r]
      /\ Len(log'[s]) = Len(log[s]) + 1
      /\ \A i \in 1..Len(log[s]) : log'[s][i] = log[s][i]
      /\ log'[s][Len(log[s]) + 1] = t
  BY <1>2, SameLog, Streams!PublishEntries
<1>4. \A i \in 1..Len(log[s]) : log[s][i].session = t.session =>
              /\ log[s][Len(log[s])].session = t.session
              /\ log[s][i].seq <= t.seq
  BY <1>1, <1>2, Streams!NextTickIsNewest DEF Streams!Newest
<1>5. Streams!WellFormed'
  BY <1>1, <1>2, Streams!PublishWellFormed
<1>6. Log!WellFormed'
  BY <1>5
  DEF Log!WellFormed, Streams!WellFormed, Log!Gapless, Streams!Gapless,
      Log!SessionsContiguous, Streams!SessionsContiguous,
      Log!OrderedInSession, Streams!OrderedInSession,
      Log!KeyNamesOneTick, Streams!KeyNamesOneTick
<1> QED
  BY <1>3, <1>4, <1>6

(* Publishing keeps what is below a seq below it. *)
LEMMA PublishSeqsBelow ==
  ASSUME LogInv, NEW s \in Symbols, NEW t \in Log!Tick, Log!Publish(s, t)
  PROVE  \A r \in Symbols : SeqsBelow(r)'
<1> DEFINE n == Len(log[s])
<1>1. /\ n \in Nat /\ Len(log'[s]) = n + 1
      /\ \A i \in 1..n : log'[s][i] = log[s][i]
      /\ log'[s][n + 1] = t
      /\ \A r \in Symbols : r # s => log'[r] = log[r]
  BY Published, Typed DEF LogInv
<1>2. \A i \in 1..n : \A m \in 0..(log[s][i].seq - 1) :
        \E j \in 1..(i - 1) : /\ log[s][j].session = log[s][i].session
                              /\ log[s][j].seq = m
  BY DEF LogInv, SeqsBelow
<1>3. \A i \in 1..n : log[s][i].seq \in Nat
  BY Entries DEF LogInv
<1>4. t.seq \in Nat
  BY ConsumerAssumption DEF Log!Tick
<1>5. \A m \in 0..(t.seq - 1) :
        \E j \in 1..n : log[s][j].session = t.session /\ log[s][j].seq = m
  <2> SUFFICES ASSUME NEW m \in 0..(t.seq - 1)
               PROVE  \E j \in 1..n : /\ log[s][j].session = t.session
                                      /\ log[s][j].seq = m
    OBVIOUS
  <2>1. ~Log!StartsSession(s, t)
    BY <1>4 DEF Log!StartsSession
  <2>2. n \in 1..n /\ log[s][n].session = t.session
    BY <2>1, <1>1, Typed
    DEF Log!Publish, Log!ContinuesSession, Log!RepeatsNewest, Log!Newest, LogInv,
        TypeOK
  <2>3. t.seq = log[s][n].seq + 1 \/ t.seq = log[s][n].seq
    BY <2>1
    DEF Log!Publish, Log!ContinuesSession, Log!RepeatsNewest, Log!Newest
  <2>4. CASE m = log[s][n].seq
    BY <2>2, <2>4
  <2>5. CASE m < log[s][n].seq
    <3>1. m \in 0..(log[s][n].seq - 1)
      BY <2>2, <2>5, <1>3
    <3>2. PICK j \in 1..(n - 1) : /\ log[s][j].session = log[s][n].session
                                  /\ log[s][j].seq = m
      BY <3>1, <2>2, <1>2
    <3> QED
      BY <3>2, <2>2, <1>1
  <2> QED
    BY <2>2, <2>3, <2>4, <2>5, <1>3, <1>4
<1> HIDE DEF n
<1>6. SeqsBelow(s)'
  <2> SUFFICES ASSUME NEW i \in 1..(n + 1), NEW m \in 0..(log'[s][i].seq - 1)
               PROVE  \E j \in 1..(i - 1) :
                        /\ log'[s][j].session = log'[s][i].session
                        /\ log'[s][j].seq = m
    BY <1>1 DEF SeqsBelow
  <2>1. CASE i \in 1..n
    <3>1. PICK j \in 1..(i - 1) : /\ log[s][j].session = log[s][i].session
                                  /\ log[s][j].seq = m
      BY <2>1, <1>1, <1>2
    <3>2. j \in 1..n
      BY <2>1, <1>1
    <3> QED
      BY <2>1, <3>1, <3>2, <1>1
  <2>2. CASE i = n + 1
    <3>1. PICK j \in 1..n : log[s][j].session = t.session /\ log[s][j].seq = m
      BY <2>2, <1>1, <1>5
    <3>2. j \in 1..(i - 1) /\ log'[s][j] = log[s][j] /\ log'[s][i] = t
      BY <2>2, <1>1
    <3> QED
      BY <3>1, <3>2
  <2> QED
    BY <1>1, <2>1, <2>2
<1>7. ASSUME NEW r \in Symbols, r # s PROVE SeqsBelow(r)'
  <2>1. log'[r] = log[r] /\ SeqsBelow(r)
    BY <1>1, <1>7 DEF LogInv
  <2> QED
    BY <2>1 DEF SeqsBelow
<1> QED
  BY <1>6, <1>7

-----------------------------------------------------------------------------
(* The actions, a stream at a time. *)

(* Nothing about the stream changes. *)
Untouched(s) ==
  /\ log'[s] = log[s] /\ start'[s] = start[s] /\ cursor'[s] = cursor[s]
  /\ seen'[s] = seen[s] /\ accepted'[s] = accepted[s]
  /\ alarmed'[s] = alarmed[s]

(* Handing a record on makes it the mark and the newest accepted. *)
LEMMA Advanced ==
  ASSUME TypeOK, NEW s \in Symbols, NEW i \in 1..Len(log[s]),
         Advance(s, log[s][i])
  PROVE  LET k == Key(log[s][i]) IN
         /\ k \in Mark
         /\ seen' \in [Symbols -> Mark \cup {Unseen}]
         /\ accepted' \in [Symbols -> Seq(Mark)]
         /\ seen'[s] = k /\ seen'[s] # Unseen
         /\ Len(accepted'[s]) = Len(accepted[s]) + 1
         /\ \A j \in 1..Len(accepted[s]) : accepted'[s][j] = accepted[s][j]
         /\ accepted'[s][Len(accepted[s]) + 1] = k
         /\ Accepted(s)' = Accepted(s) \cup {k}
         /\ \A r \in Symbols : r # s =>
              seen'[r] = seen[r] /\ accepted'[r] = accepted[r]
<1> DEFINE k == Key(log[s][i])
           n == Len(accepted[s])
<1>1. k \in Mark
  BY Entries
<1>2. accepted[s] \in Seq(Mark) /\ n \in Nat
  BY Typed
<1>3. accepted'[s] = Append(accepted[s], k)
  BY DEF Advance, TypeOK
<1>4. Append(accepted[s], k) \in Seq(Mark)
  BY <1>1, <1>2
<1>5. accepted' \in [Symbols -> Seq(Mark)]
  BY <1>4 DEF Advance, TypeOK
<1>6. /\ seen' \in [Symbols -> Mark \cup {Unseen}]
      /\ seen'[s] = k /\ seen'[s] # Unseen
  BY <1>1, UnseenAssumption DEF Advance, TypeOK
<1>7. /\ Len(accepted'[s]) = n + 1
      /\ \A j \in 1..n : accepted'[s][j] = accepted[s][j]
      /\ accepted'[s][n + 1] = k
  BY <1>1, <1>2, <1>3
<1>8. \A r \in Symbols : r # s =>
        seen'[r] = seen[r] /\ accepted'[r] = accepted[r]
  BY DEF Advance, TypeOK
<1> HIDE DEF k, n
<1>9. Accepted(s)' = Accepted(s) \cup {k}
  <2>1. Accepted(s) = {accepted[s][j] : j \in 1..n}
    BY DEF Accepted, n
  <2>2. Accepted(s)' = {accepted'[s][j] : j \in 1..(n + 1)}
    BY <1>7 DEF Accepted
  <2> QED
    BY <2>1, <2>2, <1>2, <1>7
<1> QED
  BY <1>1, <1>5, <1>6, <1>7, <1>8, <1>9 DEF k, n

(* What holds of a stream still does. *)
LEMMA UntouchedKeeps ==
  ASSUME NEW s \in Symbols, Untouched(s)
  PROVE  /\ Handled(s) => Handled(s)'
         /\ InSession(s) => InSession(s)'
         /\ Counted(s) => Counted(s)'
<1>1. Accepted(s)' = Accepted(s)
  BY DEF Untouched, Accepted
<1>2. Lost(s)' = Lost(s)
  BY <1>1 DEF Lost
<1>3. \A k : Stored(s, k)' <=> Stored(s, k)
  BY DEF Untouched, Stored
<1>4. Handled(s) => Handled(s)'
  BY <1>1, <1>3 DEF Handled, Marked, Untouched
<1>5. InSession(s) => InSession(s)'
  BY <1>1 DEF InSession, Untouched
<1>6. Counted(s) => Counted(s)'
  BY <1>2 DEF Counted, Untouched
<1> QED
  BY <1>4, <1>5, <1>6

(* Two keys are one when their parts agree. *)
LEMMA KeysAgree ==
  ASSUME NEW a \in Mark, NEW b \in Mark, a.session = b.session, a.seq = b.seq
  PROVE  a = b
  BY DEF Mark

(* A tick published at or below the mark repeats the mark's own key. *)
LEMMA ProduceHandled ==
  ASSUME LogInv, NEW s \in Symbols, Handled(s),
         NEW t \in Log!Tick, Log!Publish(s, t), UNCHANGED consumer
  PROVE  Handled(s)'
<1> DEFINE n == Len(log[s])
<1>1. /\ n \in Nat /\ Len(log'[s]) = n + 1
      /\ \A i \in 1..n : log'[s][i] = log[s][i]
      /\ log'[s][n + 1] = t
      /\ \A i \in 1..n : log[s][i].session = t.session => log[s][i].seq <= t.seq
      /\ start[s] \in Nat /\ cursor[s] \in Nat /\ cursor[s] <= n
  BY Published, Typed DEF LogInv
<1>2. start' = start /\ cursor' = cursor /\ seen' = seen
      /\ accepted' = accepted /\ Accepted(s)' = Accepted(s)
  BY DEF consumer, Accepted
<1>3. \A k \in Accepted(s) : Stored(s, k)'
  <2> SUFFICES ASSUME NEW k \in Accepted(s) PROVE Stored(s, k)'
    OBVIOUS
  <2>1. PICK i \in 1..n : Key(log[s][i]) = k
    BY DEF Handled, Stored
  <2>2. i \in 1..(n + 1) /\ log'[s][i] = log[s][i]
    BY <1>1
  <2> QED
    BY <1>1, <2>1, <2>2 DEF Stored
<1>4. \A i \in (start[s] + 1)..cursor[s] : Key(log'[s][i]) \in Accepted(s)
  <2>1. \A i \in (start[s] + 1)..cursor[s] : log'[s][i] = log[s][i]
    BY <1>1
  <2> QED
    BY <2>1 DEF Handled
<1>5. ASSUME seen[s] # Unseen PROVE Marked(s)'
  <2>1. seen[s] \in Mark /\ Marked(s)
    BY <1>5, Typed DEF Handled, LogInv
  <2>2. PICK p \in 1..n : Key(log[s][p]) = seen[s]
    BY <2>1 DEF Handled, Marked, Stored
  <2>3. log[s][p].session = seen[s].session /\ log[s][p].seq = seen[s].seq
        /\ seen[s].seq \in Nat
    BY <2>2, Entries DEF LogInv
  <2>4. /\ t.seq \in Nat /\ Key(t) \in Mark
        /\ Key(t).session = t.session /\ Key(t).seq = t.seq
    BY ConsumerAssumption DEF Log!Tick, Key, Mark
  <2>5. (t.session = seen[s].session /\ t.seq <= seen[s].seq) => Key(t) = seen[s]
    <3> SUFFICES ASSUME t.session = seen[s].session, t.seq <= seen[s].seq
                 PROVE  Key(t) = seen[s]
      OBVIOUS
    <3>1. t.seq = seen[s].seq
      BY <1>1, <2>3, <2>4
    <3> QED
      BY <2>1, <2>4, <3>1, KeysAgree
  <2>6. ASSUME NEW i \in (start[s] + 1)..(n + 1),
               log'[s][i].session = seen[s].session,
               log'[s][i].seq <= seen[s].seq
        PROVE  Key(log'[s][i]) \in Accepted(s)
    <3>1. CASE i = n + 1
      BY <1>1, <2>1, <2>5, <2>6, <3>1 DEF Marked
    <3>2. CASE i \in (start[s] + 1)..n
      <4>1. log'[s][i] = log[s][i]
        BY <3>2, <1>1
      <4> QED
        BY <2>1, <2>6, <3>2, <4>1 DEF Marked
    <3> QED
      BY <1>1, <3>1, <3>2
  <2> QED
    BY <1>1, <1>2, <2>1, <2>6 DEF Marked
<1> QED
  BY <1>2, <1>3, <1>4, <1>5 DEF Handled

(* The entry read is accepted, or was already. *)
LEMMA ReadHandled ==
  ASSUME LogInv, NEW s \in Symbols, Handled(s), Read(s)
  PROVE  Handled(s)'
<1> DEFINE i0 == cursor[s] + 1
           t == log[s][i0]
<1>1. /\ i0 \in 1..Len(log[s]) /\ Len(log[s]) \in Nat
      /\ start[s] \in Nat /\ cursor[s] \in Nat
  BY Typed DEF LogInv, Read
<1>2. log' = log /\ start' = start /\ cursor'[s] = i0
  BY DEF Read, LogInv, TypeOK
<1>3. \A k : Stored(s, k)' <=> Stored(s, k)
  BY <1>2 DEF Stored
<1>4. Observe(s, t)
  BY DEF Read
<1>5. ASSUME Advance(s, t) PROVE Handled(s)'
  <2>1. /\ Key(t) \in Mark /\ seen'[s] = Key(t) /\ seen'[s] # Unseen
        /\ Accepted(s)' = Accepted(s) \cup {Key(t)}
    BY <1>1, <1>5, Advanced DEF LogInv
  <2>2. \A k \in Accepted(s)' : Stored(s, k)'
    BY <1>1, <1>3, <2>1 DEF Handled, Stored
  <2>3. \A i \in (start[s] + 1)..i0 : Key(log[s][i]) \in Accepted(s)'
    BY <1>1, <2>1 DEF Handled
  <2>4. ASSUME NEW i \in (start[s] + 1)..Len(log[s]),
               log[s][i].session = t.session, log[s][i].seq <= t.seq
        PROVE  Key(log[s][i]) \in Accepted(s)'
    <3>1. CASE i <= i0
      BY <1>1, <2>3, <3>1
    <3>2. CASE i > i0
      <4>1. i \in 1..Len(log[s])
        BY <1>1
      <4>2. log[s][i].seq >= t.seq
        BY <1>1, <2>4, <3>2, <4>1 DEF LogInv, Log!WellFormed, Log!OrderedInSession
      <4>3. log[s][i].seq = t.seq
        BY <1>1, <2>4, <4>1, <4>2, Entries DEF LogInv
      <4>4. Key(log[s][i]) = Key(t)
        BY <2>4, <4>3 DEF Key
      <4> QED
        BY <2>1, <4>4
    <3> QED
      BY <1>1, <3>1, <3>2
  <2>5. Key(t).session = t.session /\ Key(t).seq = t.seq
    BY DEF Key
  <2>6. Marked(s)'
    BY <1>2, <2>1, <2>4, <2>5 DEF Marked
  <2> QED
    BY <1>2, <2>1, <2>2, <2>3, <2>6 DEF Handled
<1>6. CASE Duplicate(s, t)
  <2>1. seen' = seen /\ accepted' = accepted /\ Accepted(s)' = Accepted(s)
        /\ seen[s] # Unseen
    BY <1>6 DEF Duplicate, Accepted
  <2>2. Marked(s) /\ Marked(s)'
    BY <1>2, <2>1 DEF Handled, Marked
  <2>3. ASSUME i0 >= start[s] + 1 PROVE Key(t) \in Accepted(s)
    <3>1. i0 \in (start[s] + 1)..Len(log[s])
      BY <1>1, <2>3
    <3>2. t.session = seen[s].session /\ t.seq <= seen[s].seq
      BY <1>6 DEF Duplicate
    <3> QED
      BY <2>2, <3>1, <3>2 DEF Marked
  <2>4. \A i \in (start[s] + 1)..i0 : Key(log[s][i]) \in Accepted(s)
    BY <1>1, <2>3 DEF Handled
  <2> QED
    BY <1>2, <1>3, <2>1, <2>2, <2>4 DEF Handled
<1>7. Advance(s, t) \/ Duplicate(s, t)
  BY <1>4 DEF Observe, First, SessionChange, NextOrGap
<1> QED
  BY <1>5, <1>6, <1>7

(* Going back, or trimming, leaves fewer entries to account for. *)
LEMMA MoveHandled ==
  ASSUME LogInv, NEW s \in Symbols, Handled(s), Replay(s) \/ Trim(s)
  PROVE  Handled(s)'
<1>1. /\ log' = log /\ seen' = seen /\ accepted' = accepted
      /\ Accepted(s)' = Accepted(s)
  BY DEF Replay, Trim, Accepted
<1>2. /\ Len(log[s]) \in Nat /\ start[s] \in Nat /\ cursor[s] \in Nat
      /\ start'[s] \in Nat /\ cursor'[s] \in Nat
      /\ start'[s] >= start[s]
      /\ cursor'[s] <= cursor[s] \/ cursor'[s] = start'[s]
  BY Typed DEF LogInv, TypeOK, Replay, Trim
<1>3. \A k : Stored(s, k)' <=> Stored(s, k)
  BY <1>1 DEF Stored
<1>4. Marked(s) => Marked(s)'
  BY <1>1, <1>2 DEF Marked
<1>5. \A i \in (start'[s] + 1)..cursor'[s] : i \in (start[s] + 1)..cursor[s]
  BY <1>2
<1> QED
  BY <1>1, <1>3, <1>4, <1>5 DEF Handled

(* A new tracker has nothing to account for. *)
LEMMA RestartFresh ==
  ASSUME LogInv, Restart, NEW s \in Symbols
  PROVE  /\ log' = log /\ seen'[s] = Unseen /\ accepted'[s] = <<>>
         /\ alarmed'[s] = 0 /\ Accepted(s)' = {} /\ Lost(s)' = {}
         /\ cursor'[s] = start'[s]
         /\ start'[s] \in Nat /\ cursor'[s] <= Len(log[s])
<1>1. log' = log /\ seen'[s] = Unseen /\ accepted'[s] = <<>> /\ alarmed'[s] = 0
  BY DEF Restart
<1>2. Accepted(s)' = {}
  BY <1>1 DEF Accepted
<1>3. Lost(s)' = {}
  BY <1>2 DEF Lost
<1>4. cursor'[s] = start'[s] /\ cursor'[s] \in Nat /\ cursor'[s] <= cursor[s]
  BY ConsumerAssumption DEF Restart
<1> QED
  BY <1>1, <1>2, <1>3, <1>4, Typed DEF LogInv

-----------------------------------------------------------------------------
(* The types, the log's shape and the seqs below its marks survive every step. *)
LEMMA TypeAndLogPreserved ==
  ASSUME LogInv, [Next]_vars
  PROVE  LogInv'
<1>1. CASE Produce
  <2>1. PICK s \in Symbols, t \in Log!Tick : Log!Publish(s, t)
    BY <1>1 DEF Produce
  <2>2. TypeOK'
    <3>1. /\ log' \in [Symbols -> Seq(Log!Tick)]
          /\ \A r \in Symbols : Len(log[r]) \in Nat /\ Len(log'[r]) >= Len(log[r])
      BY <2>1, Published, Typed DEF LogInv
    <3>2. \A r \in Symbols : Len(log'[r]) \in Nat
      BY <3>1
    <3>3. UNCHANGED consumer
      BY <1>1 DEF Produce
    <3>4. \A r \in Symbols : start[r] <= cursor[r] /\ cursor[r] <= Len(log'[r])
      BY <3>1, <3>2, Typed DEF LogInv
    <3> QED
      BY <3>1, <3>3, <3>4 DEF consumer, LogInv, TypeOK
  <2> QED
    BY <2>1, <2>2, Published, PublishSeqsBelow DEF LogInv
<1>2. ASSUME log' = log
      PROVE  Log!WellFormed' /\ \A s \in Symbols : SeqsBelow(s)'
  <2>1. Log!Gapless' /\ Log!SessionsContiguous'
    BY <1>2 DEF LogInv, Log!WellFormed, Log!Gapless, Log!SessionsContiguous
  <2>2. Log!OrderedInSession' /\ Log!KeyNamesOneTick'
    BY <1>2 DEF LogInv, Log!WellFormed, Log!OrderedInSession,
                Log!KeyNamesOneTick
  <2>3. \A s \in Symbols : SeqsBelow(s)'
    BY <1>2 DEF LogInv, SeqsBelow
  <2> QED
    BY <2>1, <2>2, <2>3 DEF Log!WellFormed
<1>3. ASSUME NEW s \in Symbols, Read(s) PROVE LogInv'
  <2> DEFINE t == log[s][cursor[s] + 1]
  <2>1. /\ cursor[s] + 1 \in 1..Len(log[s]) /\ Len(log[s]) \in Nat
        /\ log' = log /\ start' = start
        /\ cursor' = [cursor EXCEPT ![s] = @ + 1]
        /\ Observe(s, t)
    BY <1>3, Typed DEF LogInv, Read
  <2>2. seen' \in [Symbols -> Mark \cup {Unseen}]
        /\ accepted' \in [Symbols -> Seq(Mark)]
    <3>1. CASE Advance(s, t)
      BY <2>1, <3>1, Advanced DEF LogInv
    <3>2. CASE Duplicate(s, t)
      BY <3>2 DEF Duplicate, LogInv, TypeOK
    <3> QED
      BY <2>1, <3>1, <3>2 DEF Observe, First, SessionChange, NextOrGap
  <2>3. alarmed' \in [Symbols -> Nat]
    <3>1. CASE NextOrGap(s, t)
      <4>1. seen[s].seq \in Nat /\ t.seq \in Nat /\ t.seq > seen[s].seq
        BY <3>1, <2>1, Typed, Entries, ConsumerAssumption
        DEF NextOrGap, LogInv, Mark
      <4>2. alarmed[s] + (t.seq - seen[s].seq - 1) \in Nat
        BY <4>1, Typed DEF LogInv
      <4> QED
        BY <3>1, <4>2 DEF NextOrGap, LogInv, TypeOK
    <3>2. CASE alarmed' = alarmed
      BY <3>2 DEF LogInv, TypeOK
    <3> QED
      BY <2>1, <3>1, <3>2 DEF Observe, First, SessionChange, Duplicate
  <2>4. /\ cursor' \in [Symbols -> Nat]
        /\ \A r \in Symbols : start[r] <= cursor'[r] /\ cursor'[r] <= Len(log[r])
    BY <2>1, Typed DEF LogInv, TypeOK
  <2>5. TypeOK'
    BY <2>1, <2>2, <2>3, <2>4 DEF LogInv, TypeOK
  <2> QED
    BY <1>2, <2>1, <2>5 DEF LogInv
<1>4. ASSUME NEW s \in Symbols, Replay(s) \/ Trim(s) PROVE LogInv'
  <2>1. /\ start' \in [Symbols -> Nat] /\ cursor' \in [Symbols -> Nat]
        /\ start'[s] <= cursor'[s] /\ cursor'[s] <= Len(log[s])
        /\ \A r \in Symbols : r # s =>
             start'[r] = start[r] /\ cursor'[r] = cursor[r]
    <3>1. CASE Replay(s)
      <4>1. PICK j \in start[s]..(cursor[s] - 1) :
                   cursor' = [cursor EXCEPT ![s] = j]
        BY <3>1 DEF Replay
      <4>2. j \in Nat /\ start[s] <= j /\ j <= Len(log[s]) /\ start' = start
        BY <3>1, <4>1, Typed DEF LogInv, Replay
      <4> QED
        BY <4>1, <4>2 DEF LogInv, TypeOK
    <3>2. CASE Trim(s)
      <4>1. PICK k \in (start[s] + 1)..Len(log[s]) :
              /\ start' = [start EXCEPT ![s] = k]
              /\ cursor' = [cursor EXCEPT ![s] = IF @ >= k THEN @ ELSE k]
        BY <3>2 DEF Trim
      <4>2. k \in Nat /\ k <= Len(log[s]) /\ cursor[s] \in Nat
            /\ cursor[s] <= Len(log[s])
        BY <4>1, Typed DEF LogInv
      <4> QED
        BY <4>1, <4>2 DEF LogInv, TypeOK
    <3> QED
      BY <1>4, <3>1, <3>2
  <2>2. log' = log /\ seen' = seen /\ accepted' = accepted /\ alarmed' = alarmed
    BY <1>4 DEF Replay, Trim
  <2>3. TypeOK'
    BY <2>1, <2>2 DEF LogInv, TypeOK
  <2> QED
    BY <1>2, <2>2, <2>3 DEF LogInv
<1>5. CASE Restart
  <2>1. TypeOK'
    <3>1. seen' \in [Symbols -> Mark \cup {Unseen}] /\ alarmed' \in [Symbols -> Nat]
          /\ accepted' \in [Symbols -> Seq(Mark)] /\ log' = log
      BY <1>5 DEF Restart
    <3>2. cursor' \in [Symbols -> Nat] /\ start' = cursor'
      BY <1>5, ConsumerAssumption DEF Restart
    <3> QED
      BY <1>5, <3>1, <3>2, RestartFresh DEF LogInv, TypeOK
  <2> QED
    BY <1>2, <1>5, <2>1 DEF LogInv, Restart
<1>6. CASE UNCHANGED vars
  BY <1>2, <1>6 DEF vars, LogInv, TypeOK
<1> QED
  BY <1>1, <1>3, <1>4, <1>5, <1>6 DEF Next

(* A step of one stream's leaves the others alone. *)
LEMMA OthersUntouched ==
  ASSUME LogInv, NEW s \in Symbols, NEW r \in Symbols, r # s,
         Read(s) \/ Replay(s) \/ Trim(s)
  PROVE  Untouched(r)
<1>1. CASE Read(s)
  <2>1. log' = log /\ start' = start /\ cursor'[r] = cursor[r]
    BY <1>1 DEF Read, LogInv, TypeOK
  <2>2. seen'[r] = seen[r] /\ accepted'[r] = accepted[r] /\ alarmed'[r] = alarmed[r]
    BY <1>1 DEF Read, Observe, First, SessionChange, Duplicate, NextOrGap,
                Advance, LogInv, TypeOK
  <2> QED
    BY <2>1, <2>2 DEF Untouched
<1>2. CASE Replay(s) \/ Trim(s)
  BY <1>2 DEF Untouched, Replay, Trim, LogInv, TypeOK
<1> QED
  BY <1>1, <1>2

(* A tick published on one stream leaves the others as they are. *)
LEMMA OthersUnpublished ==
  ASSUME LogInv, NEW s \in Symbols, NEW r \in Symbols, r # s,
         NEW t \in Log!Tick, Log!Publish(s, t), UNCHANGED consumer
  PROVE  Untouched(r)
  BY Published DEF Untouched, consumer

(* So does what is known of the entries before the cursor. *)
LEMMA HandledPreserved ==
  ASSUME HandledInv, [Next]_vars
  PROVE  HandledInv'
<1>1. LogInv'
  BY TypeAndLogPreserved DEF HandledInv
<1> SUFFICES ASSUME NEW r \in Symbols PROVE Handled(r)'
  BY <1>1 DEF HandledInv
<1>2. LogInv /\ Handled(r)
  BY DEF HandledInv
<1>3. CASE Produce
  <2>1. PICK s \in Symbols, t \in Log!Tick : Log!Publish(s, t)
    BY <1>3 DEF Produce
  <2> QED
    BY <1>2, <1>3, <2>1, ProduceHandled, OthersUnpublished, UntouchedKeeps
    DEF Produce
<1>4. CASE Restart
  BY <1>2, <1>4, RestartFresh DEF Handled
<1>5. ASSUME NEW s \in Symbols, Read(s) \/ Replay(s) \/ Trim(s)
      PROVE  Handled(r)'
  BY <1>2, <1>5, ReadHandled, MoveHandled, OthersUntouched, UntouchedKeeps
<1>6. CASE UNCHANGED vars
  <2>1. Untouched(r)
    BY <1>6 DEF vars, Untouched
  <2> QED
    BY <1>2, <2>1, UntouchedKeeps
<1> QED
  BY <1>3, <1>4, <1>5, <1>6 DEF Next

(* Before anything is published there is nothing to have handled. *)
LEMMA InitHandled == Init => HandledInv
<1> SUFFICES ASSUME Init PROVE HandledInv
  OBVIOUS
<1>1. /\ log = [s \in Symbols |-> <<>>] /\ start = [s \in Symbols |-> 0]
      /\ cursor = [s \in Symbols |-> 0] /\ seen = [s \in Symbols |-> Unseen]
      /\ accepted = [s \in Symbols |-> <<>>] /\ alarmed = [s \in Symbols |-> 0]
  BY DEF Init, Log!Init
<1>2. TypeOK
  BY <1>1 DEF TypeOK
<1>3. Log!WellFormed /\ \A s \in Symbols : SeqsBelow(s)
  BY <1>1 DEF SeqsBelow, Log!WellFormed, Log!Gapless, Log!SessionsContiguous,
              Log!OrderedInSession, Log!KeyNamesOneTick
<1>4. \A s \in Symbols : Handled(s)
  BY <1>1 DEF Handled, Accepted
<1> QED
  BY <1>2, <1>3, <1>4 DEF HandledInv, LogInv

(* The variables keep their types for any streams. *)
THEOREM TrackerTypes == Spec => []TypeOK
<1>1. HandledInv /\ [Next]_vars => HandledInv'
  BY HandledPreserved
<1>2. HandledInv => TypeOK
  BY DEF HandledInv, LogInv
<1> QED
  BY <1>1, <1>2, InitHandled, PTL DEF Spec

(* Whatever is trimmed, repeated, replayed or restarted, a record between  *)
(* the start and the cursor was handed on: the mark never hides a new one. *)
THEOREM NothingIsDropped == Spec => []NothingDropped
<1>1. HandledInv /\ [Next]_vars => HandledInv'
  BY HandledPreserved
<1>2. HandledInv => NothingDropped
  BY DEF HandledInv, Handled, NothingDropped
<1> QED
  BY <1>1, <1>2, InitHandled, PTL DEF Spec

-----------------------------------------------------------------------------
(* Replays that stay inside a session.                                     *)

(* A session whose entries were accepted does not start again behind the   *)
(* mark's.                                                                 *)
LEMMA ProduceInSession ==
  ASSUME LogInv, NEW s \in Symbols, Handled(s), InSession(s),
         NEW t \in Log!Tick, Log!Publish(s, t), UNCHANGED consumer
  PROVE  InSession(s)'
<1> DEFINE n == Len(log[s])
<1>1. /\ n \in Nat /\ Len(log'[s]) = n + 1
      /\ \A i \in 1..n : log'[s][i] = log[s][i]
      /\ log'[s][n + 1] = t
      /\ \A i \in 1..n : log[s][i].session = t.session =>
           log[s][n].session = t.session
  BY Published, Typed DEF LogInv
<1>2. /\ cursor' = cursor /\ seen' = seen /\ accepted' = accepted
      /\ Accepted(s)' = Accepted(s)
  BY DEF consumer, Accepted
<1>3. ASSUME seen[s] # Unseen
      PROVE  \E i \in 1..(n + 1) :
               i <= cursor[s] + 1 /\ log'[s][i].session = seen[s].session
  <2>1. PICK i \in 1..n :
               i <= cursor[s] + 1 /\ log[s][i].session = seen[s].session
    BY <1>3 DEF InSession
  <2>2. i \in 1..(n + 1) /\ log'[s][i] = log[s][i]
    BY <1>1
  <2> QED
    BY <2>1, <2>2
<1>4. ASSUME seen[s] # Unseen,
             NEW i \in 1..(n + 1), NEW j \in 1..(n + 1), i < j,
             log'[s][i].session = seen[s].session,
             log'[s][j].session # seen[s].session,
             NEW k \in Accepted(s)
      PROVE  k.session # log'[s][j].session
  <2>1. i \in 1..n /\ log'[s][i] = log[s][i]
    <3>1. n \in Nat
      BY <1>1
    <3>2. i \in 1..n
      BY <1>4, <3>1
    <3> QED
      BY <1>1, <3>2
  <2>2. CASE j \in 1..n
    BY <1>1, <1>4, <2>1, <2>2 DEF InSession
  <2>3. CASE j = n + 1
    <3> SUFFICES ASSUME k.session = t.session PROVE FALSE
      BY <1>1, <2>3
    <3>1. PICK p \in 1..n : Key(log[s][p]) = k
      BY DEF Handled, Stored
    <3>2. log[s][n].session = t.session
      BY <1>1, <3>1, Entries DEF LogInv
    <3>3. i < n /\ n \in 1..n /\ log[s][n].session # seen[s].session
      BY <1>1, <1>4, <2>1, <2>3, <3>2
    <3>4. log[s][i].session = seen[s].session /\ i \in 1..n
      BY <1>4, <2>1
    <3>5. \A l, m \in 1..n :
            (/\ l < m
             /\ log[s][l].session = seen[s].session
             /\ log[s][m].session # seen[s].session)
              => \A a \in Accepted(s) : a.session # log[s][m].session
      BY <1>4 DEF InSession
    <3>6. k.session # log[s][n].session
      BY <3>3, <3>4, <3>5
    <3> QED
      BY <3>2, <3>6
  <2> QED
    BY <1>1, <2>2, <2>3
<1>5. \A i, j \in 1..Len(accepted[s]) : accepted[s][i] = accepted[s][j] => i = j
  BY DEF InSession
<1>6. seen[s] # Unseen => \A k \in Accepted(s) :
         k.session = seen[s].session => k.seq <= seen[s].seq
  BY DEF InSession
<1> QED
  BY <1>1, <1>2, <1>3, <1>4, <1>5, <1>6 DEF InSession

(* A key no record was accepted under is accepted once. *)
LEMMA AdvancedOnce ==
  ASSUME LogInv, NEW s \in Symbols, InSession(s), NEW i0 \in 1..Len(log[s]),
         Advance(s, log[s][i0]), Key(log[s][i0]) \notin Accepted(s)
  PROVE  (\A i, j \in 1..Len(accepted[s]) :
            accepted[s][i] = accepted[s][j] => i = j)'
<1> DEFINE n == Len(accepted[s])
           k == Key(log[s][i0])
<1>1. /\ n \in Nat /\ Len(accepted'[s]) = n + 1
      /\ \A j \in 1..n : accepted'[s][j] = accepted[s][j]
      /\ accepted'[s][n + 1] = k
  BY Typed, Advanced DEF LogInv
<1>2. \A j \in 1..n : accepted[s][j] # k
  BY DEF Accepted
<1>3. \A i, j \in 1..n : accepted[s][i] = accepted[s][j] => i = j
  BY DEF InSession
<1> HIDE DEF n, k
<1>4. \A i \in 1..(n + 1) : i \in 1..n \/ i = n + 1
  BY <1>1
<1>5. \A i, j \in 1..(n + 1) : accepted'[s][i] = accepted'[s][j] => i = j
  BY <1>1, <1>2, <1>3, <1>4
<1> QED
  BY <1>1, <1>5

(* A session change leaves the old session behind for good. *)
LEMMA ChangeInSession ==
  ASSUME LogInv, NEW s \in Symbols, Handled(s), InSession(s), Read(s),
         SessionChange(s, log[s][cursor[s] + 1])
  PROVE  /\ \A a \in Accepted(s) : a.session # log[s][cursor[s] + 1].session
         /\ \A i, j \in 1..Len(log[s]) :
              (/\ i < j
               /\ log[s][i].session = log[s][cursor[s] + 1].session
               /\ log[s][j].session # log[s][cursor[s] + 1].session)
                => \A a \in Accepted(s) : a.session # log[s][j].session
<1> DEFINE i0 == cursor[s] + 1
           t == log[s][i0]
<1>1. i0 \in 1..Len(log[s]) /\ Len(log[s]) \in Nat /\ cursor[s] \in Nat
  BY Typed DEF LogInv, Read
<1>2. seen[s] # Unseen /\ seen[s].session # t.session
  BY DEF SessionChange
<1>3. PICK i1 \in 1..Len(log[s]) :
             i1 <= i0 /\ log[s][i1].session = seen[s].session
  BY <1>2 DEF InSession
<1>4. i1 < i0
  BY <1>1, <1>2, <1>3
<1>5. \A i, j, l \in 1..Len(log[s]) :
        (i < j /\ j < l /\ log[s][i].session = log[s][l].session)
          => log[s][j].session = log[s][i].session
  BY DEF LogInv, Log!WellFormed, Log!SessionsContiguous
<1>6. \A i, j \in 1..Len(log[s]) :
        (/\ i < j
         /\ log[s][i].session = seen[s].session
         /\ log[s][j].session # seen[s].session)
          => \A a \in Accepted(s) : a.session # log[s][j].session
  BY <1>2 DEF InSession
<1> HIDE DEF i0, t
<1>7. \A a \in Accepted(s) : a.session # t.session
  BY <1>1, <1>2, <1>3, <1>4, <1>6 DEF t
<1>8. ASSUME NEW i \in 1..Len(log[s]), NEW j \in 1..Len(log[s]), i < j,
             log[s][i].session = t.session, log[s][j].session # t.session
      PROVE  \A a \in Accepted(s) : a.session # log[s][j].session
  <2>1. i # i1
    BY <1>2, <1>3, <1>8
  <2>2. ~(i < i1)
    BY <1>1, <1>2, <1>3, <1>4, <1>5, <1>8 DEF t
  <2>3. i1 < i
    BY <2>1, <2>2
  <2>4. log[s][j].session # seen[s].session
    BY <1>2, <1>3, <1>5, <1>8, <2>3
  <2>5. i1 < j
    BY <1>8, <2>3
  <2> QED
    BY <1>3, <1>6, <2>4, <2>5
<1> QED
  BY <1>7, <1>8 DEF i0, t

(* The entry read next is of the mark's session, or of one after it. *)
LEMMA ReadInSession ==
  ASSUME LogInv, NEW s \in Symbols, Handled(s), InSession(s), Read(s)
  PROVE  InSession(s)'
<1> DEFINE i0 == cursor[s] + 1
           t == log[s][i0]
<1>1. /\ i0 \in 1..Len(log[s]) /\ Len(log[s]) \in Nat /\ cursor[s] \in Nat
      /\ log' = log /\ cursor'[s] = i0
      /\ Observe(s, t)
  BY Typed DEF LogInv, Read, TypeOK
<1>2. t.seq \in Nat /\ Key(t).session = t.session /\ Key(t).seq = t.seq
  BY <1>1, Entries DEF LogInv
<1>3. ASSUME Advance(s, t),
             \A a \in Accepted(s) : a.session = t.session => a.seq < t.seq,
             \A i, j \in 1..Len(log[s]) :
               (/\ i < j
                /\ log[s][i].session = t.session
                /\ log[s][j].session # t.session)
                 => \A a \in Accepted(s) : a.session # log[s][j].session
      PROVE  InSession(s)'
  <2>1. seen'[s] = Key(t) /\ Accepted(s)' = Accepted(s) \cup {Key(t)}
    BY <1>1, <1>3, Advanced DEF LogInv
  <2>2. \A a \in Accepted(s) : a \in Mark /\ a.seq \in Nat
    BY Typed, ConsumerAssumption DEF LogInv, Mark
  <2>3. \A a \in Accepted(s)' : a.session = t.session => a.seq <= t.seq
    BY <1>2, <1>3, <2>1, <2>2
  <2>4. i0 <= i0 + 1 /\ log[s][i0].session = t.session
    BY <1>1
  <2>5. Key(t) \notin Accepted(s)
    BY <1>2, <1>3
  <2>6. (\A i, j \in 1..Len(accepted[s]) :
           accepted[s][i] = accepted[s][j] => i = j)'
    BY <1>1, <1>3, <2>5, AdvancedOnce
  <2>7. \A i, j \in 1..Len(log[s]) :
          (/\ i < j
           /\ log[s][i].session = t.session
           /\ log[s][j].session # t.session)
            => \A a \in Accepted(s)' : a.session # log[s][j].session
    BY <1>2, <1>3, <2>1
  <2> HIDE DEF i0, t
  <2> QED
    BY <1>1, <1>2, <2>1, <2>3, <2>4, <2>6, <2>7 DEF InSession, t
<1>4. CASE First(s, t)
  <2>1. Accepted(s) = {}
    BY <1>4 DEF First, Handled, Accepted
  <2> QED
    BY <1>3, <1>4, <2>1 DEF First
<1>5. CASE SessionChange(s, t)
  BY <1>3, <1>5, ChangeInSession DEF SessionChange
<1>6. CASE NextOrGap(s, t)
  <2>1. /\ seen[s] # Unseen /\ seen[s].session = t.session
        /\ t.seq > seen[s].seq /\ Advance(s, t)
    BY <1>6 DEF NextOrGap
  <2>2. \A a \in Accepted(s) : a.seq \in Nat
    BY Typed, ConsumerAssumption DEF LogInv, Mark
  <2>3. seen[s].seq \in Nat
    BY <2>1, <2>2 DEF Handled, Marked
  <2>4. \A a \in Accepted(s) : a.session = t.session => a.seq < t.seq
    BY <1>2, <2>1, <2>2, <2>3 DEF InSession
  <2>5. \A i, j \in 1..Len(log[s]) :
          (/\ i < j
           /\ log[s][i].session = t.session
           /\ log[s][j].session # t.session)
            => \A a \in Accepted(s) : a.session # log[s][j].session
    BY <2>1 DEF InSession
  <2> QED
    BY <1>3, <2>1, <2>4, <2>5
<1>7. CASE Duplicate(s, t)
  <2>1. seen' = seen /\ accepted' = accepted /\ Accepted(s)' = Accepted(s)
    BY <1>7 DEF Duplicate, Accepted
  <2>2. i0 <= i0 + 1 /\ log[s][i0].session = seen[s].session
    BY <1>1, <1>7 DEF Duplicate
  <2> HIDE DEF i0
  <2>3. log' = log /\ i0 \in 1..Len(log[s]) /\ i0 <= cursor'[s] + 1
    BY <1>1, <2>2
  <2>4. \E i \in 1..Len(log'[s]) :
          i <= cursor'[s] + 1 /\ log'[s][i].session = seen'[s].session
    BY <2>1, <2>2, <2>3
  <2> QED
    BY <2>1, <2>3, <2>4 DEF InSession
<1> QED
  BY <1>1, <1>4, <1>5, <1>6, <1>7 DEF Observe

(* A replay inside the session, or a trim, moves no mark. *)
LEMMA MoveInSession ==
  ASSUME LogInv, NEW s \in Symbols, InSession(s), Replay(s) \/ Trim(s),
         ~ReplayCrossesSessions
  PROVE  InSession(s)'
<1>1. /\ log' = log /\ seen' = seen /\ accepted' = accepted
      /\ Accepted(s)' = Accepted(s)
  BY DEF Replay, Trim, Accepted
<1>2. ASSUME seen[s] # Unseen
      PROVE  \E i \in 1..Len(log[s]) :
               i <= cursor'[s] + 1 /\ log[s][i].session = seen[s].session
  <2>1. CASE Replay(s)
    <3>1. PICK j \in start[s]..(cursor[s] - 1) :
                 /\ log[s][j + 1].session = seen[s].session
                 /\ cursor' = [cursor EXCEPT ![s] = j]
      BY <2>1 DEF Replay
    <3>2. j + 1 \in 1..Len(log[s]) /\ cursor'[s] = j /\ j + 1 <= j + 1
      BY <3>1, Typed DEF LogInv, TypeOK
    <3> QED
      BY <3>1, <3>2
  <2>2. CASE Trim(s)
    <3>1. cursor'[s] >= cursor[s] /\ cursor[s] \in Nat /\ cursor'[s] \in Nat
      BY <2>2, Typed DEF LogInv, TypeOK, Trim
    <3>2. PICK i \in 1..Len(log[s]) :
                 i <= cursor[s] + 1 /\ log[s][i].session = seen[s].session
      BY <1>2 DEF InSession
    <3> QED
      BY <3>1, <3>2, Typed DEF LogInv
  <2> QED
    BY <2>1, <2>2
<1> QED
  BY <1>1, <1>2 DEF InSession

(* Every step keeps what is accepted of a session up to its mark. *)
LEMMA SessionPreserved ==
  ASSUME SessionInv, [Next]_vars, ~ReplayCrossesSessions
  PROVE  SessionInv'
<1>1. HandledInv'
  BY HandledPreserved DEF SessionInv
<1> SUFFICES ASSUME NEW r \in Symbols PROVE InSession(r)'
  BY <1>1 DEF SessionInv
<1>2. LogInv /\ Handled(r) /\ InSession(r)
  BY DEF SessionInv, HandledInv
<1>3. CASE Produce
  <2>1. PICK s \in Symbols, t \in Log!Tick : Log!Publish(s, t)
    BY <1>3 DEF Produce
  <2> QED
    BY <1>2, <1>3, <2>1, ProduceInSession, OthersUnpublished, UntouchedKeeps
    DEF Produce
<1>4. CASE Restart
  BY <1>2, <1>4, RestartFresh DEF InSession
<1>5. ASSUME NEW s \in Symbols, Read(s) \/ Replay(s) \/ Trim(s)
      PROVE  InSession(r)'
  BY <1>2, <1>5, ReadInSession, MoveInSession, OthersUntouched, UntouchedKeeps
<1>6. CASE UNCHANGED vars
  <2>1. Untouched(r)
    BY <1>6 DEF vars, Untouched
  <2> QED
    BY <1>2, <2>1, UntouchedKeeps
<1> QED
  BY <1>3, <1>4, <1>5, <1>6 DEF Next

(* It holds of streams nobody has read. *)
LEMMA InitInSession == Init => SessionInv
<1>1. Init => HandledInv
  BY InitHandled
<1>2. ASSUME Init, NEW s \in Symbols PROVE InSession(s)
  BY <1>2 DEF Init, InSession
<1> QED
  BY <1>1, <1>2 DEF SessionInv

(* A record is handed on once, as long as replays stay inside a session.   *)
THEOREM NothingIsRepeated ==
  ASSUME ~ReplayCrossesSessions
  PROVE  Spec => []AcceptedOnce
<1>1. SessionInv /\ [Next]_vars => SessionInv'
  BY SessionPreserved
<1>2. SessionInv => AcceptedOnce
  BY DEF SessionInv, InSession, AcceptedOnce
<1> QED
  BY <1>1, <1>2, InitInSession, PTL DEF Spec

-----------------------------------------------------------------------------
(* What was lost.                                                          *)

(* It was stored, and is no longer there to be read. *)
LEMMA LostWasRemoved ==
  ASSUME LogInv, NEW s \in Symbols, Handled(s), InSession(s), NEW k \in Lost(s)
  PROVE  \E i \in 1..start[s] : Key(log[s][i]) = k
<1>1. k \in Mark /\ k \notin Accepted(s) /\ k.seq \in Nat
  BY ConsumerAssumption DEF Lost, Mark
<1>2. PICK b \in Accepted(s) : b.session = k.session /\ k.seq < b.seq
  BY DEF Lost
<1>3. PICK p \in 1..Len(log[s]) : Key(log[s][p]) = b
  BY DEF Handled, Stored
<1>4. log[s][p].session = k.session /\ log[s][p].seq = b.seq /\ b.seq \in Nat
  BY <1>2, <1>3, Entries DEF LogInv
<1>5. k.seq \in 0..(log[s][p].seq - 1)
  BY <1>1, <1>2, <1>4
<1>6. PICK i \in 1..(p - 1) : /\ log[s][i].session = log[s][p].session
                              /\ log[s][i].seq = k.seq
  BY <1>5 DEF LogInv, SeqsBelow
<1>7. /\ i \in 1..Len(log[s]) /\ Len(log[s]) \in Nat
      /\ start[s] \in Nat /\ cursor[s] \in Nat
  BY Typed DEF LogInv
<1>8. Key(log[s][i]) = k
  BY <1>1, <1>4, <1>6, <1>7, Entries, KeysAgree DEF LogInv
<1>9. seen[s] # Unseen /\ Marked(s)
  BY <1>2 DEF Handled, Accepted
<1>10. seen[s].seq \in Nat
  BY <1>9, Typed, ConsumerAssumption DEF Marked, LogInv, Mark
<1>11. ASSUME i > start[s] PROVE FALSE
  <2>1. i \in (start[s] + 1)..Len(log[s])
    BY <1>7, <1>11
  <2>2. CASE k.session = seen[s].session
    <3>1. k.seq <= seen[s].seq
      BY <1>1, <1>2, <1>4, <1>9, <1>10, <2>2 DEF InSession
    <3> QED
      BY <1>1, <1>4, <1>6, <1>8, <1>9, <2>1, <2>2, <3>1 DEF Marked
  <2>3. CASE k.session # seen[s].session
    <3>1. PICK i1 \in 1..Len(log[s]) :
                 i1 <= cursor[s] + 1 /\ log[s][i1].session = seen[s].session
      BY <1>9 DEF InSession
    <3>2. ~(i1 < i)
      BY <1>2, <1>4, <1>6, <1>7, <1>9, <2>3, <3>1 DEF InSession
    <3>3. i1 # i
      BY <1>4, <1>6, <2>3, <3>1
    <3>4. i \in (start[s] + 1)..cursor[s]
      BY <1>7, <2>1, <3>1, <3>2, <3>3
    <3> QED
      BY <1>1, <1>8, <3>4 DEF Handled
  <2> QED
    BY <2>2, <2>3
<1> QED
  BY <1>7, <1>8, <1>11

(* The loss alarm reports records that were published, and removed before  *)
(* they were read.                                                         *)
THEOREM LossesAreReal ==
  ASSUME ~ReplayCrossesSessions
  PROVE  Spec => []LossIsReal
<1>1. SessionInv /\ [Next]_vars => SessionInv'
  BY SessionPreserved
<1>2. SessionInv => LossIsReal
  BY LostWasRemoved DEF SessionInv, HandledInv, LossIsReal
<1> QED
  BY <1>1, <1>2, InitInSession, PTL DEF Spec

(* The keys of a session between two seqs. *)
Between(p, low, high) ==
  {[session |-> p, seq |-> m] : m \in (low + 1)..(high - 1)}

(* The records between two seqs of a session are as many as the seqs. *)
LEMMA BetweenCardinality ==
  ASSUME NEW p, NEW low \in Nat, NEW high \in Nat, low < high
  PROVE  /\ IsFiniteSet(Between(p, low, high))
         /\ Cardinality(Between(p, low, high)) = high - low - 1
<1> DEFINE I == (low + 1)..(high - 1)
           f == [m \in I |-> [session |-> p, seq |-> m]]
<1>1. IsFiniteSet(I) /\ Cardinality(I) = high - low - 1
  BY FS_Interval
<1>2. f \in Bijection(I, Between(p, low, high))
  BY DEF Bijection, Injection, Surjection, IsInjective, Between
<1>3. ExistsBijection(I, Between(p, low, high))
  BY <1>2 DEF ExistsBijection
<1> HIDE DEF I
<1> QED
  BY <1>1, <1>3, FS_Bijection

(* Nothing is lost by reading on, but for the keys a gap skips. *)
LEMMA LostGrows ==
  ASSUME LogInv, NEW s \in Symbols, Handled(s), InSession(s),
         NEW i0 \in 1..Len(log[s]), NextOrGap(s, log[s][i0])
  PROVE  LET new == Between(seen[s].session, seen[s].seq, log[s][i0].seq) IN
         Lost(s)' = Lost(s) \cup new /\ Lost(s) \cap new = {}
<1> DEFINE t == log[s][i0]
           k == Key(t)
           p == seen[s].session
           new == Between(p, seen[s].seq, t.seq)
<1>1. /\ seen[s] # Unseen /\ t.session = p /\ t.seq > seen[s].seq
      /\ Advance(s, t)
  BY DEF NextOrGap
<1>2. k \in Mark /\ k.session = p /\ k.seq = t.seq /\ t.seq \in Nat
      /\ p \in Sessions
  BY <1>1, Entries DEF LogInv
<1>3. Accepted(s)' = Accepted(s) \cup {k}
  BY <1>1, Advanced DEF LogInv
<1>4. seen[s] \in Accepted(s)
  BY <1>1 DEF Handled, Marked
<1>5. \A a \in Accepted(s) : a \in Mark /\ a.seq \in Nat
  BY Typed, ConsumerAssumption DEF LogInv, Mark
<1>6. \A a \in Accepted(s) : a.session = p => a.seq <= seen[s].seq
  BY <1>1 DEF InSession
<1>7. new = {x \in Mark : x.session = p /\ seen[s].seq < x.seq /\ x.seq < t.seq}
  <2>1. ASSUME NEW m \in (seen[s].seq + 1)..(t.seq - 1) PROVE m \in Seqs
    <3>1. m \in 0..(t.seq - 1)
      BY <2>1, <1>4, <1>5
    <3>2. PICK j \in 1..(i0 - 1) : log[s][j].seq = m
      BY <3>1 DEF LogInv, SeqsBelow
    <3>3. j \in 1..Len(log[s])
      BY Typed DEF LogInv
    <3> QED
      BY <3>2, <3>3, Entries DEF LogInv
  <2>2. ASSUME NEW x \in Mark, x.session = p, seen[s].seq < x.seq, x.seq < t.seq
        PROVE  x \in new
    <3>0. x.seq \in Nat /\ seen[s].seq \in Nat
      BY <1>4, <1>5, ConsumerAssumption DEF Mark
    <3>1. x.seq \in (seen[s].seq + 1)..(t.seq - 1)
      BY <1>2, <2>2, <3>0
    <3>2. x = [session |-> p, seq |-> x.seq]
      BY <2>2 DEF Mark
    <3> QED
      BY <3>1, <3>2 DEF Between
  <2>3. ASSUME NEW x \in new
        PROVE  x \in Mark /\ x.session = p /\ seen[s].seq < x.seq /\ x.seq < t.seq
    <3>1. PICK m \in (seen[s].seq + 1)..(t.seq - 1) : x = [session |-> p, seq |-> m]
      BY DEF Between
    <3> QED
      BY <1>2, <1>4, <1>5, <2>1, <3>1 DEF Mark
  <2> QED
    BY <2>2, <2>3
<1>8. \A x \in Mark : x.seq \in Nat
  BY ConsumerAssumption DEF Mark
<1>9. seen[s].seq \in Nat
  BY <1>4, <1>5
<1> HIDE DEF t, k, p, new
<1>10. \A x \in new : x \in Lost(s)'
  <2> SUFFICES ASSUME NEW x \in new PROVE x \in Lost(s)'
    OBVIOUS
  <2>1. x \in Mark /\ x.session = p /\ seen[s].seq < x.seq /\ x.seq < t.seq
    BY <1>7
  <2>2. x \notin Accepted(s)'
    BY <1>2, <1>3, <1>6, <1>8, <1>9, <2>1
  <2>3. seen[s] \in Accepted(s)' /\ k \in Accepted(s)' /\ seen[s].session = p
    BY <1>3, <1>4 DEF p
  <2> QED
    BY <1>2, <2>1, <2>2, <2>3 DEF Lost
<1>11. ASSUME NEW x \in Lost(s)
       PROVE  x \in Lost(s)' /\ x \notin new
  <2>1. PICK a \in Accepted(s), b \in Accepted(s) :
               /\ a.session = x.session /\ a.seq < x.seq
               /\ b.session = x.session /\ x.seq < b.seq
    BY DEF Lost
  <2>2. x \in Mark /\ x \notin Accepted(s)
    BY DEF Lost
  <2>3. x.session = p => x.seq < seen[s].seq
    BY <1>5, <1>6, <1>8, <1>9, <2>1, <2>2
  <2>4. x # k /\ x \notin new
    BY <1>1, <1>2, <1>7, <1>8, <1>9, <2>2, <2>3
  <2> QED
    BY <1>3, <2>1, <2>2, <2>4 DEF Lost
<1>12. ASSUME NEW x \in Lost(s)', x \notin new
       PROVE  x \in Lost(s)
  <2>1. PICK a \in Accepted(s)', b \in Accepted(s)' :
               /\ a.session = x.session /\ a.seq < x.seq
               /\ b.session = x.session /\ x.seq < b.seq
    BY DEF Lost
  <2>2. x \in Mark /\ x \notin Accepted(s)'
    BY DEF Lost
  <2>3. x.seq \in Nat /\ x \notin Accepted(s)
    BY <1>3, <1>8, <2>2
  <2>4. \A c \in Accepted(s)' : c.session = p => c.seq <= t.seq /\ c.seq \in Nat
    BY <1>1, <1>2, <1>3, <1>5, <1>6, <1>9
  <2>5. a \in Accepted(s)
    BY <1>2, <1>3, <2>1, <2>3, <2>4
  <2>6. CASE b \in Accepted(s)
    BY <2>1, <2>2, <2>3, <2>5, <2>6 DEF Lost
  <2>7. CASE b = k
    <3>1. x.session = p /\ x.seq < t.seq
      BY <1>2, <2>1, <2>7
    <3>2. x.seq <= seen[s].seq
      BY <1>7, <1>9, <2>2, <2>3, <3>1, <1>12
    <3>3. x.seq # seen[s].seq
      BY <1>4, <1>5, <2>2, <2>3, <3>1, KeysAgree DEF p
    <3>4. seen[s].session = x.session /\ x.seq < seen[s].seq
      BY <1>9, <2>3, <3>1, <3>2, <3>3 DEF p
    <3> QED
      BY <1>4, <2>1, <2>2, <2>3, <2>5, <3>4 DEF Lost
  <2> QED
    BY <1>3, <2>1, <2>6, <2>7
<1>13. Lost(s)' = Lost(s) \cup new /\ Lost(s) \cap new = {}
  BY <1>10, <1>11, <1>12
<1> QED
  BY <1>13 DEF t, p, new

(* Reading an entry alarms for the records it shows to be lost, once. *)
LEMMA ReadCounted ==
  ASSUME LogInv, NEW s \in Symbols, Handled(s), InSession(s), Counted(s), Read(s)
  PROVE  Counted(s)'
<1> DEFINE t == log[s][cursor[s] + 1]
<1>1. cursor[s] + 1 \in 1..Len(log[s]) /\ Observe(s, t)
  BY Typed DEF LogInv, Read
<1>2. Key(t) \in Mark /\ Key(t).session = t.session /\ Key(t).seq = t.seq
  BY <1>1, Entries DEF LogInv
<1>3. \A a \in Accepted(s) : a.seq \in Nat
  BY Typed, ConsumerAssumption DEF LogInv, Mark
<1>4. CASE First(s, t) \/ SessionChange(s, t)
  <2>1. Advance(s, t) /\ alarmed' = alarmed
    BY <1>4 DEF First, SessionChange
  <2>2. Accepted(s)' = Accepted(s) \cup {Key(t)}
    BY <1>1, <2>1, Advanced DEF LogInv
  <2>3. \A a \in Accepted(s) : a.session # t.session
    <3>1. CASE First(s, t)
      BY <3>1 DEF First, Handled, Accepted
    <3>2. CASE SessionChange(s, t)
      BY <3>2, ChangeInSession
    <3> QED
      BY <1>4, <3>1, <3>2
  <2>4. Key(t).seq \in Nat
    BY <1>2, ConsumerAssumption DEF Mark
  <2> HIDE DEF t
  <2>5. ASSUME NEW x \in Mark PROVE x \in Lost(s)' <=> x \in Lost(s)
    <3>1. \A a \in Accepted(s)', b \in Accepted(s)' :
            (/\ a.session = x.session /\ b.session = x.session
             /\ a.seq < x.seq /\ x.seq < b.seq)
              => a \in Accepted(s) /\ b \in Accepted(s)
      <4> SUFFICES ASSUME NEW a \in Accepted(s)', NEW b \in Accepted(s)',
                          a.session = x.session, b.session = x.session,
                          a.seq < x.seq, x.seq < b.seq
                   PROVE  a \in Accepted(s) /\ b \in Accepted(s)
        OBVIOUS
      <4>1. x.seq \in Nat /\ a.seq \in Nat /\ b.seq \in Nat
        BY <1>3, <2>2, <2>4, ConsumerAssumption DEF Mark
      <4>2. a # b
        BY <4>1
      <4> QED
        BY <1>2, <2>2, <2>3, <4>2
    <3>2. (\E a \in Accepted(s), b \in Accepted(s) :
             /\ a.session = x.session /\ b.session = x.session
             /\ a.seq < x.seq /\ x.seq < b.seq)
            => x # Key(t)
      BY <1>2, <2>3
    <3> QED
      BY <2>2, <3>1, <3>2 DEF Lost
  <2>6. Lost(s)' = Lost(s)
    BY <2>5 DEF Lost
  <2> QED
    BY <2>1, <2>6 DEF Counted
<1>5. CASE Duplicate(s, t)
  <2>1. Lost(s)' = Lost(s) /\ alarmed' = alarmed
    BY <1>5 DEF Duplicate, Lost, Accepted
  <2> QED
    BY <2>1 DEF Counted
<1>6. CASE NextOrGap(s, t)
  <2> DEFINE new == Between(seen[s].session, seen[s].seq, t.seq)
  <2>1. Lost(s)' = Lost(s) \cup new /\ Lost(s) \cap new = {}
    BY <1>1, <1>6, LostGrows
  <2>2. seen[s].seq \in Nat /\ t.seq \in Nat /\ seen[s].seq < t.seq
    BY <1>1, <1>3, <1>6, Entries DEF NextOrGap, Handled, Marked, LogInv
  <2>3. IsFiniteSet(new) /\ Cardinality(new) = t.seq - seen[s].seq - 1
    BY <2>2, BetweenCardinality
  <2>4. IsFiniteSet(Lost(s)) /\ alarmed[s] = Cardinality(Lost(s))
    BY DEF Counted
  <2> HIDE DEF new
  <2>5. /\ IsFiniteSet(Lost(s) \cup new)
        /\ Cardinality(Lost(s) \cup new) = Cardinality(Lost(s)) + Cardinality(new)
    <3>1. Cardinality(Lost(s) \cap new) = 0
      BY <2>1, FS_EmptySet
    <3>2. Cardinality(Lost(s)) \in Nat /\ Cardinality(new) \in Nat
      BY <2>3, <2>4, FS_CardinalityType
    <3>3. /\ IsFiniteSet(Lost(s) \cup new)
          /\ Cardinality(Lost(s) \cup new) =
               Cardinality(Lost(s)) + Cardinality(new)
                 - Cardinality(Lost(s) \cap new)
      BY <2>3, <2>4, FS_Union
    <3> QED
      BY <3>1, <3>2, <3>3
  <2>6. alarmed'[s] = alarmed[s] + (t.seq - seen[s].seq - 1)
    BY <1>6 DEF NextOrGap, LogInv, TypeOK
  <2> QED
    BY <2>1, <2>3, <2>4, <2>5, <2>6 DEF Counted
<1> QED
  BY <1>1, <1>4, <1>5, <1>6 DEF Observe

(* And no other step changes what is lost or what was alarmed. *)
LEMMA AlarmPreserved ==
  ASSUME AlarmInv, [Next]_vars, ~ReplayCrossesSessions
  PROVE  AlarmInv'
<1>1. SessionInv'
  BY SessionPreserved DEF AlarmInv
<1> SUFFICES ASSUME NEW r \in Symbols PROVE Counted(r)'
  BY <1>1 DEF AlarmInv
<1>2. LogInv /\ Handled(r) /\ InSession(r) /\ Counted(r)
  BY DEF AlarmInv, SessionInv, HandledInv
<1>3. ASSUME accepted' = accepted, alarmed' = alarmed PROVE Counted(r)'
  <2>1. Accepted(r)' = Accepted(r)
    BY <1>3 DEF Accepted
  <2>2. Lost(r)' = Lost(r)
    BY <2>1 DEF Lost
  <2> QED
    BY <1>2, <1>3, <2>2 DEF Counted
<1>4. CASE Produce
  BY <1>3, <1>4 DEF Produce, consumer
<1>5. CASE Restart
  BY <1>2, <1>5, RestartFresh, FS_EmptySet DEF Counted
<1>6. ASSUME NEW s \in Symbols, Read(s) PROVE Counted(r)'
  BY <1>2, <1>6, ReadCounted, OthersUntouched, UntouchedKeeps
<1>7. ASSUME NEW s \in Symbols, Replay(s) \/ Trim(s) PROVE Counted(r)'
  BY <1>3, <1>7 DEF Replay, Trim
<1>8. CASE UNCHANGED vars
  BY <1>3, <1>8 DEF vars
<1> QED
  BY <1>4, <1>5, <1>6, <1>7, <1>8 DEF Next

(* The alarm counts the lost records, each of them once and nothing else.  *)
THEOREM AlarmCountsLosses ==
  ASSUME ~ReplayCrossesSessions
  PROVE  Spec => []AlarmIsExact
<1>1. Init => AlarmInv
  <2>1. ASSUME Init, NEW s \in Symbols PROVE Counted(s)
    <3>1. accepted[s] = <<>> /\ alarmed[s] = 0
      BY <2>1 DEF Init
    <3>2. Lost(s) = {}
      BY <3>1 DEF Lost, Accepted
    <3> QED
      BY <3>1, <3>2, FS_EmptySet DEF Counted
  <2> QED
    BY <2>1, InitInSession DEF AlarmInv
<1>2. AlarmInv /\ [Next]_vars => AlarmInv'
  BY AlarmPreserved
<1>3. AlarmInv => AlarmIsExact
  BY DEF AlarmInv, Counted, AlarmIsExact
<1> QED
  BY <1>1, <1>2, <1>3, PTL DEF Spec
=============================================================================
