---------------------------- MODULE TickLogProofs ----------------------------
(* A log that grows only as TickLog lets it is well formed, for any number *)
(* of symbols, sessions and ticks.                                         *)
EXTENDS TickLog, TLAPS

(* What publishing t on s does to the log, entry by entry. *)
LEMMA PublishEntries ==
  ASSUME TypeOK, NEW s \in Symbols, NEW t \in Tick, Publish(s, t)
  PROVE  /\ log' \in [Symbols -> Seq(Tick)]
         /\ \A r \in Symbols : r # s => log'[r] = log[r]
         /\ Len(log'[s]) = Len(log[s]) + 1
         /\ \A i \in 1..Len(log[s]) : log'[s][i] = log[s][i]
         /\ log'[s][Len(log[s]) + 1] = t
         /\ Len(log[s]) \in Nat
<1>1. log' = [log EXCEPT ![s] = Append(@, t)]
  BY DEF Publish
<1>2. log[s] \in Seq(Tick)
  BY DEF TypeOK
<1>3. log'[s] = Append(log[s], t)
  BY <1>1 DEF TypeOK
<1>4. Append(log[s], t) \in Seq(Tick)
  BY <1>2
<1>5. log' \in [Symbols -> Seq(Tick)]
  BY <1>1, <1>4 DEF TypeOK
<1>6. \A r \in Symbols : r # s => log'[r] = log[r]
  BY <1>1 DEF TypeOK
<1>7. Len(log[s]) \in Nat /\ Len(log'[s]) = Len(log[s]) + 1
  BY <1>2, <1>3
<1>8. \A i \in 1..Len(log[s]) : log'[s][i] = log[s][i]
  BY <1>2, <1>3
<1>9. log'[s][Len(log[s]) + 1] = t
  BY <1>2, <1>3
<1> QED
  BY <1>5, <1>6, <1>7, <1>8, <1>9

(* Every entry of a typed log is a tick with numbers in it. *)
LEMMA EntryNumbers ==
  ASSUME NumbersAreNatural, TypeOK, NEW s \in Symbols, NEW i \in 1..Len(log[s])
  PROVE  /\ log[s][i] \in Tick
         /\ log[s][i].seq \in Nat
         /\ log[s][i].recv \in Nat
<1>1. log[s] \in Seq(Tick)
  BY DEF TypeOK
<1>2. log[s][i] \in Tick
  BY <1>1
<1> QED
  BY <1>2 DEF NumbersAreNatural, Tick

(* In a well-formed log a tick that may be published next is at least the  *)
(* tick of its session, and equal in key only to a copy of itself.         *)
LEMMA NextTickIsNewest ==
  ASSUME NumbersAreNatural, TypeOK, WellFormed,
         NEW s \in Symbols, NEW t \in Tick, Publish(s, t),
         NEW i \in 1..Len(log[s]), log[s][i].session = t.session
  PROVE  /\ Newest(s).session = t.session
         /\ log[s][i].seq <= t.seq
         /\ log[s][i].recv <= t.recv
         /\ log[s][i].seq = t.seq => log[s][i] = t
<1> DEFINE n == Len(log[s])
<1>1. n \in Nat /\ n \in 1..n /\ i <= n
  BY DEF TypeOK
<1>2. ~StartsSession(s, t)
  BY DEF StartsSession, SessionsIn
<1>3. ContinuesSession(s, t) \/ RepeatsNewest(s, t)
  BY <1>2 DEF Publish
<1>4. Newest(s).session = t.session
  BY <1>3 DEF ContinuesSession, RepeatsNewest
<1>5. /\ log[s][i].seq \in Nat /\ log[s][i].recv \in Nat
      /\ Newest(s).seq \in Nat /\ Newest(s).recv \in Nat
      /\ t.seq \in Nat /\ t.recv \in Nat
  BY <1>1, EntryNumbers DEF NumbersAreNatural, Newest, Tick
<1>6. log[s][i].seq <= Newest(s).seq /\ log[s][i].recv <= Newest(s).recv
  <2>1. CASE i = n
    BY <2>1, <1>5 DEF Newest
  <2>2. CASE i < n
    BY <2>2, <1>1, <1>4 DEF WellFormed, OrderedInSession, Newest
  <2> QED
    BY <1>1, <2>1, <2>2
<1>7. CASE ContinuesSession(s, t)
  <2>1. t.seq = Newest(s).seq + 1 /\ t.recv >= Newest(s).recv
    BY <1>7 DEF ContinuesSession
  <2> QED
    BY <2>1, <1>4, <1>5, <1>6
<1>8. CASE RepeatsNewest(s, t)
  <2>1. log[s][i].seq = t.seq => log[s][i] = t
    BY <1>1, <1>4, <1>8 DEF RepeatsNewest, WellFormed, KeyNamesOneTick, Newest
  <2> QED
    BY <2>1, <1>4, <1>6, <1>8 DEF RepeatsNewest
<1> QED
  BY <1>3, <1>7, <1>8

LEMMA InitWellFormed == Init => TypeOK /\ WellFormed
BY DEF Init, TypeOK, WellFormed, Gapless, SessionsContiguous,
       OrderedInSession, KeyNamesOneTick

(* Publishing a tick keeps every part of well-formedness. *)
LEMMA PublishWellFormed ==
  ASSUME NumbersAreNatural, TypeOK, WellFormed,
         NEW s \in Symbols, NEW t \in Tick, Publish(s, t)
  PROVE  TypeOK' /\ WellFormed'
<1> DEFINE n == Len(log[s])
<1>1. TypeOK'
  BY PublishEntries DEF TypeOK
<1>2. /\ n \in Nat /\ Len(log'[s]) = n + 1
      /\ \A i \in 1..n : log'[s][i] = log[s][i]
      /\ log'[s][n + 1] = t
      /\ \A r \in Symbols : r # s => log'[r] = log[r]
  BY PublishEntries
<1>3. \A i \in 1..n : log[s][i].session = t.session =>
         /\ Newest(s).session = t.session
         /\ log[s][i].seq <= t.seq
         /\ log[s][i].recv <= t.recv
         /\ log[s][i].seq = t.seq => log[s][i] = t
  BY NextTickIsNewest
<1>4. t.seq \in Nat /\ t.recv \in Nat
  BY DEF NumbersAreNatural, Tick
<1> HIDE DEF n
<1>5. Gapless'
  <2> SUFFICES ASSUME NEW r \in Symbols, NEW i \in 1..Len(log'[r]),
                      log'[r][i].seq > 0
               PROVE  \E j \in 1..(i-1) :
                         /\ log'[r][j].session = log'[r][i].session
                         /\ log'[r][j].seq = log'[r][i].seq - 1
    BY DEF Gapless
  <2>1. CASE r # s
    <3>1. log'[r] = log[r]
      BY <2>1, <1>2
    <3> QED
      BY <3>1 DEF WellFormed, Gapless
  <2>2. CASE r = s /\ i \in 1..n
    <3>1. PICK j \in 1..(i-1) : /\ log[s][j].session = log[s][i].session
                                /\ log[s][j].seq = log[s][i].seq - 1
      BY <2>2, <1>2 DEF WellFormed, Gapless, n
    <3>2. j \in 1..n
      BY <3>1, <2>2, <1>2
    <3>3. log'[r][j] = log[s][j] /\ log'[r][i] = log[s][i]
      BY <3>2, <2>2, <1>2
    <3> QED
      BY <3>1, <3>3
  <2>3. CASE r = s /\ i = n + 1
    <3>1. t.seq > 0 /\ log'[r][i] = t
      BY <2>3, <1>2
    <3>2. ContinuesSession(s, t) \/ RepeatsNewest(s, t)
      BY <3>1, <1>4 DEF Publish, StartsSession
    <3>3. n \in 1..n /\ n \in Nat
      BY <3>2, <1>2 DEF ContinuesSession, RepeatsNewest, n, TypeOK
    <3>4. CASE ContinuesSession(s, t)
      <4>0. log[s][n].seq \in Nat
        BY <3>3, EntryNumbers DEF n
      <4>1. Newest(s).seq \in Nat
        BY <4>0 DEF Newest, n
      <4>2. log'[s][n].session = t.session /\ log'[s][n].seq = t.seq - 1
        <5>1. log'[s][n] = Newest(s)
          BY <3>3, <1>2 DEF Newest, n
        <5>2. t.session = Newest(s).session /\ t.seq = Newest(s).seq + 1
          BY <3>4 DEF ContinuesSession
        <5> QED
          BY <4>1, <5>1, <5>2
      <4> QED
        BY <4>2, <3>1, <3>3, <2>3
    <3>5. CASE RepeatsNewest(s, t)
      <4>1. PICK j \in 1..(n-1) : /\ log[s][j].session = t.session
                                  /\ log[s][j].seq = t.seq - 1
        BY <3>1, <3>3, <3>5 DEF RepeatsNewest, Newest, WellFormed, Gapless, n
      <4>2. j \in 1..n /\ j \in 1..(i-1)
        BY <4>1, <3>3, <2>3
      <4> QED
        BY <4>1, <4>2, <3>1, <2>3, <1>2
    <3> QED
      BY <3>2, <3>4, <3>5
  <2>4. r = s => i \in 1..n \/ i = n + 1
    <3> SUFFICES ASSUME r = s PROVE i \in 1..n \/ i = n + 1
      OBVIOUS
    <3>1. i \in 1..(n + 1) /\ n \in Nat
      BY <1>2
    <3> QED
      BY <3>1
  <2> QED
    BY <2>1, <2>2, <2>3, <2>4
<1>6. SessionsContiguous'
  <2> SUFFICES ASSUME NEW r \in Symbols, NEW i \in 1..Len(log'[r]),
                      NEW j \in 1..Len(log'[r]), NEW k \in 1..Len(log'[r]),
                      i < j, j < k, log'[r][i].session = log'[r][k].session
               PROVE  log'[r][j].session = log'[r][i].session
    BY DEF SessionsContiguous
  <2>0. \A a, b, c \in 1..Len(log[r]) :
           (a < b /\ b < c /\ log[r][a].session = log[r][c].session)
             => log[r][b].session = log[r][a].session
    BY DEF WellFormed, SessionsContiguous
  <2>1. CASE r # s
    <3>1. log'[r] = log[r]
      BY <2>1, <1>2
    <3> QED
      BY <3>1, <2>0
  <2>2. CASE r = s /\ k \in 1..n
    <3>1. i \in 1..n /\ j \in 1..n
      BY <2>2, <1>2
    <3>2. /\ log'[r][i] = log[r][i] /\ log'[r][j] = log[r][j]
          /\ log'[r][k] = log[r][k]
      BY <3>1, <2>2, <1>2
    <3> QED
      BY <3>1, <3>2, <2>0, <2>2 DEF n
  <2>3. CASE r = s /\ k = n + 1
    <3>1. i \in 1..n /\ j \in 1..n /\ n \in 1..n
      BY <2>3, <1>2
    <3>2. log[s][i].session = t.session /\ log[s][n].session = t.session
      BY <3>1, <2>3, <1>2, <1>3 DEF Newest, n
    <3>3. log[s][j].session = log[s][i].session
      <4>1. CASE j = n
        BY <4>1, <3>2
      <4>2. CASE j < n
        BY <4>2, <3>1, <3>2 DEF WellFormed, SessionsContiguous, n
      <4> QED
        BY <3>1, <4>1, <4>2, <1>2
    <3> QED
      BY <3>1, <3>3, <2>3, <1>2
  <2> QED
    BY <2>1, <2>2, <2>3, <1>2
<1>7. OrderedInSession'
  <2> SUFFICES ASSUME NEW r \in Symbols, NEW i \in 1..Len(log'[r]),
                      NEW j \in 1..Len(log'[r]),
                      i < j, log'[r][i].session = log'[r][j].session
               PROVE  /\ log'[r][i].seq <= log'[r][j].seq
                      /\ log'[r][i].recv <= log'[r][j].recv
    BY DEF OrderedInSession
  <2>1. CASE r # s
    <3>1. log'[r] = log[r]
      BY <2>1, <1>2
    <3> QED
      BY <3>1 DEF WellFormed, OrderedInSession
  <2>2. CASE r = s /\ j \in 1..n
    <3>1. i \in 1..n
      BY <2>2, <1>2
    <3>2. log'[r][i] = log[r][i] /\ log'[r][j] = log[r][j]
      BY <3>1, <2>2, <1>2
    <3> QED
      BY <3>1, <3>2, <2>2 DEF WellFormed, OrderedInSession, n
  <2>3. CASE r = s /\ j = n + 1
    BY <2>3, <1>2, <1>3
  <2> QED
    BY <2>1, <2>2, <2>3, <1>2
<1>8. KeyNamesOneTick'
  <2> SUFFICES ASSUME NEW r \in Symbols, NEW i \in 1..Len(log'[r]),
                      NEW j \in 1..Len(log'[r]),
                      log'[r][i].session = log'[r][j].session,
                      log'[r][i].seq = log'[r][j].seq
               PROVE  log'[r][i] = log'[r][j]
    BY DEF KeyNamesOneTick
  <2>1. CASE r # s
    <3>1. log'[r] = log[r]
      BY <2>1, <1>2
    <3> QED
      BY <3>1 DEF WellFormed, KeyNamesOneTick
  <2>2. CASE r = s /\ i \in 1..n /\ j \in 1..n
    <3>1. log'[r][i] = log[r][i] /\ log'[r][j] = log[r][j]
      BY <2>2, <1>2
    <3> QED
      BY <3>1, <2>2 DEF WellFormed, KeyNamesOneTick, n
  <2>3. CASE r = s /\ i \in 1..n /\ j = n + 1
    BY <2>3, <1>2, <1>3
  <2>4. CASE r = s /\ i = n + 1 /\ j \in 1..n
    BY <2>4, <1>2, <1>3
  <2>5. CASE r = s /\ i = n + 1 /\ j = n + 1
    BY <2>5
  <2> QED
    BY <2>1, <2>2, <2>3, <2>4, <2>5, <1>2
<1> QED
  BY <1>1, <1>5, <1>6, <1>7, <1>8 DEF WellFormed

(* Whatever is published, in whatever order over the symbols, every        *)
(* reachable log is well formed: FeedSession's promise (session.py), which *)
(* the consumer's high-water mark (delivery.py) relies on.                 *)
THEOREM LogWellFormed ==
  ASSUME NumbersAreNatural
  PROVE  Spec => [](TypeOK /\ WellFormed)
<1>1. Init => TypeOK /\ WellFormed
  BY InitWellFormed
<1>2. (TypeOK /\ WellFormed) /\ [Next]_log => (TypeOK /\ WellFormed)'
  <2>1. ASSUME TypeOK, WellFormed, Next PROVE (TypeOK /\ WellFormed)'
    BY <2>1, PublishWellFormed DEF Next
  <2>2. ASSUME TypeOK, WellFormed, UNCHANGED log PROVE (TypeOK /\ WellFormed)'
    <3>1. log' = log
      BY <2>2
    <3>2. TypeOK'
      BY <3>1, <2>2 DEF TypeOK
    <3>3. Gapless' /\ SessionsContiguous'
      BY <3>1, <2>2 DEF WellFormed, Gapless, SessionsContiguous
    <3>4. OrderedInSession' /\ KeyNamesOneTick'
      BY <3>1, <2>2 DEF WellFormed, OrderedInSession, KeyNamesOneTick
    <3> QED
      BY <3>2, <3>3, <3>4 DEF WellFormed
  <2> QED
    BY <2>1, <2>2
<1> QED
  BY <1>1, <1>2, PTL DEF Spec
=============================================================================
