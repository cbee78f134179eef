-------------------------- MODULE FeedAdapterProofs --------------------------
(***************************************************************************)
(* The feed adapter's safety, for any set of symbols, any number of        *)
(* restarts, ticks and client retries, and any wall clock; and what a      *)
(* consumer of its streams may rely on.                                    *)
(***************************************************************************)
EXTENDS FeedDelivery, TLAPS

(* A symbol whose task, session and stream a step leaves alone keeps its   *)
(* part of the invariant.                                                  *)
LEMMA Untouched ==
  ASSUME NEW s \in Symbols, SymbolInv(s),
         session' = session, task'[s] = task[s], nextSeq'[s] = nextSeq[s],
         published'[s] = published[s], lastRecv'[s] = lastRecv[s],
         pending'[s] = pending[s], wire'[s] = wire[s], stream'[s] = stream[s]
  PROVE  SymbolInv(s)'
BY DEF SymbolInv, SessionsOpened, BetweenTicks, WhilePublishing, Accounted,
       Issued, Stored, Log!SessionsIn, Log!Newest, Log!StartsSession,
       Log!ContinuesSession, Log!RepeatsNewest

(* Without a task a symbol's part of the invariant only bounds sessions. *)
LEMMA Taskless ==
  ASSUME NEW s \in Symbols, SessionsOpened(s)', task'[s] = "none"
  PROVE  SymbolInv(s)'
BY DEF SymbolInv, BetweenTicks, WhilePublishing, Accounted

TaskStates == {"none", "created", "publishing", "sleeping", "done", "failed"}

(* Fresh locals are typed. *)
LEMMA FreshTyped ==
  ASSUME NEW state \in [Symbols -> TaskStates], FreshTasks(state)
  PROVE  /\ task' \in [Symbols -> TaskStates]
         /\ nextSeq' \in [Symbols -> 0..SeqBound]
         /\ published' \in [Symbols -> 0..SeqBound]
         /\ lastRecv' \in [Symbols -> Times]
         /\ pending' \in [Symbols -> Tick \cup {NoTick}]
         /\ attempt' \in [Symbols -> 0..Retries]
         /\ wire' \in [Symbols -> {"idle", "sent", "applied"}]
<1>1. 0 \in 0..SeqBound /\ 0 \in 0..Retries /\ 0 \in Times
  BY ConstantsAssumption DEF Times
<1>2. nextSeq' \in [Symbols -> 0..SeqBound]
  BY <1>1 DEF FreshTasks
<1>3. published' \in [Symbols -> 0..SeqBound]
  BY <1>1 DEF FreshTasks
<1>4. lastRecv' \in [Symbols -> Times]
  BY <1>1 DEF FreshTasks
<1>5. attempt' \in [Symbols -> 0..Retries]
  BY <1>1 DEF FreshTasks
<1>6. pending' \in [Symbols -> Tick \cup {NoTick}]
  BY DEF FreshTasks
<1>7. wire' \in [Symbols -> {"idle", "sent", "applied"}]
  BY DEF FreshTasks
<1> QED
  BY <1>2, <1>3, <1>4, <1>5, <1>6, <1>7 DEF FreshTasks

LEMMA InitIInv == Init => IInv
<1> SUFFICES ASSUME Init PROVE IInv
  OBVIOUS
<1>1. TypeOK
  <2>1. 0 \in 0..SeqBound /\ 0 \in 0..Retries /\ 0 \in Times
        /\ 0 \in 0..MaxSessions
    BY ConstantsAssumption DEF Times
  <2>2. stream \in [Symbols -> Seq(Tick)]
    BY DEF Init
  <2>3. pending \in [Symbols -> Tick \cup {NoTick}]
    BY DEF Init
  <2>4. /\ nextSeq \in [Symbols -> 0..SeqBound]
        /\ published \in [Symbols -> 0..SeqBound]
        /\ lastRecv \in [Symbols -> Times]
        /\ attempt \in [Symbols -> 0..Retries]
    BY <2>1 DEF Init
  <2>5. /\ task \in [Symbols -> TaskStates]
        /\ wire \in [Symbols -> {"idle", "sent", "applied"}]
    BY DEF Init, NoTasks, TaskStates
  <2> QED
    BY <2>1, <2>2, <2>3, <2>4, <2>5 DEF Init, TypeOK, TaskStates
<1>2. MainInv
  BY DEF Init, MainInv, NoTasks
<1>3. ASSUME NEW s \in Symbols PROVE SymbolInv(s)
  BY DEF Init, NoTasks, SymbolInv, SessionsOpened, BetweenTicks,
         WhilePublishing, Accounted
<1> QED
  BY <1>1, <1>2, <1>3 DEF IInv

-----------------------------------------------------------------------------
(* Steps of the main coroutine that touch no task.                         *)
LEMMA QuietSteps ==
  ASSUME IInv,
         \/ Start \/ Terminate \/ PingOk \/ PingFails \/ RetryPing
         \/ LoadRaises \/ GatherReturns \/ GatherRaises
  PROVE  IInv'
<1> USE DEF Start, Terminate, PingOk, PingFails, RetryPing, LoadRaises,
            GatherReturns, GatherRaises
<1>1. UNCHANGED <<session, taskVars, clock, stream>>
  OBVIOUS
<1>2. TypeOK'
  BY <1>1 DEF IInv, TypeOK, taskVars, Dependencies
<1>3. MainInv'
  BY <1>1 DEF IInv, MainInv, TypeOK, taskVars, NoTasks, Dependencies
<1>4. ASSUME NEW s \in Symbols PROVE SymbolInv(s)'
  BY <1>1, Untouched DEF IInv, taskVars
<1> QED
  BY <1>2, <1>3, <1>4 DEF IInv

(* The process is gone: what remains is the streams. *)
LEMMA GoneSteps ==
  ASSUME IInv, Crash \/ Exit
  PROVE  IInv'
<1>1. /\ FreshTasks(NoTasks)
      /\ phase' = "down" /\ stop' = FALSE /\ ready' = {}
      /\ exit' \in {exit, "killed"}
      /\ UNCHANGED <<session, clock, stream>>
  BY DEF Crash, Exit
<1>2. TypeOK'
  <2>1. NoTasks \in [Symbols -> TaskStates]
    BY DEF NoTasks, TaskStates
  <2> QED
    BY <2>1, <1>1, FreshTyped DEF IInv, TypeOK, TaskStates
<1>3. MainInv'
  BY <1>1 DEF IInv, MainInv, FreshTasks, NoTasks
<1>4. ASSUME NEW s \in Symbols PROVE SymbolInv(s)'
  <2>1. SessionsOpened(s)'
    BY <1>1 DEF IInv, SymbolInv, SessionsOpened
  <2> QED
    BY <2>1, <1>1, Taskless DEF FreshTasks, NoTasks
<1> QED
  BY <1>2, <1>3, <1>4 DEF IInv

(* A new session is one no stream holds. *)
LEMMA LoadStep ==
  ASSUME IInv, LoadOk
  PROVE  IInv'
<1>1. PICK selected \in SUBSET Symbols :
        FreshTasks([s \in Symbols |->
                      IF s \in selected THEN "created" ELSE "none"])
  BY ConstantsAssumption DEF LoadOk
<1>2. /\ phase = "loading" /\ phase' = "feeding" /\ session' = session + 1
      /\ session < MaxSessions /\ ready' = ready \cup {"calibration"}
      /\ UNCHANGED <<stop, exit, clock, stream>>
  BY DEF LoadOk
<1>3. session \in Nat /\ session' \in 0..MaxSessions
  BY <1>2, ConstantsAssumption DEF IInv, TypeOK
<1>4. TypeOK'
  <2>1. [s \in Symbols |-> IF s \in selected THEN "created" ELSE "none"]
          \in [Symbols -> TaskStates]
    BY DEF TaskStates
  <2>2. ready' \subseteq Dependencies
    BY <1>2 DEF IInv, TypeOK, Dependencies
  <2> QED
    BY <2>1, <2>2, <1>1, <1>2, <1>3, FreshTyped DEF IInv, TypeOK, TaskStates
<1>5. MainInv'
  <2>1. ready' = Dependencies
    BY <1>2 DEF IInv, MainInv, TypeOK, Dependencies
  <2>2. session' > 0 /\ exit' = "none"
    BY <1>2, <1>3 DEF IInv, MainInv
  <2> QED
    BY <2>1, <2>2, <1>2 DEF MainInv, Dependencies
<1>6. ASSUME NEW s \in Symbols PROVE SymbolInv(s)'
  <2>1. ASSUME NEW i \in 1..Len(stream[s])
        PROVE  stream[s][i].session \in Nat /\ stream[s][i].session < session'
    <3>1. stream[s][i] \in Tick
      BY DEF IInv, TypeOK
    <3>2. stream[s][i].session <= session
      BY DEF IInv, SymbolInv, SessionsOpened
    <3> QED
      BY <3>1, <3>2, <1>2, <1>3, ConstantsAssumption DEF Tick, Sessions
  <2>2. SessionsOpened(s)'
    BY <1>2, <1>3, <2>1 DEF SessionsOpened
  <2>3. session' \notin Log!SessionsIn(s)'
    BY <1>2, <1>3, <2>1 DEF Log!SessionsIn
  <2>4. /\ task'[s] \in {"created", "none"} /\ nextSeq'[s] = 0
        /\ published'[s] = 0
    BY <1>1 DEF FreshTasks
  <2>5. Accounted(s)'
    BY <2>4 DEF Accounted, Issued
  <2> QED
    BY <2>2, <2>3, <2>4, <2>5 DEF SymbolInv, BetweenTicks, WhilePublishing
<1> QED
  BY <1>4, <1>5, <1>6 DEF IInv

-----------------------------------------------------------------------------
(* Steps of one symbol's task.  In each, the other symbols are untouched,  *)
(* and MainInv only depends on which tasks exist.                          *)

(* A task that exists runs in an open session of a ready process. *)
LEMMA LiveTask ==
  ASSUME IInv, NEW s \in Symbols, task[s] # "none"
  PROVE  /\ session > 0 /\ session \in Sessions
         /\ ready = Dependencies
         /\ phase \in {"feeding", "closing"}
<1>1. task # NoTasks
  BY DEF NoTasks
<1> QED
  BY <1>1, ConstantsAssumption DEF IInv, MainInv, TypeOK, Sessions

LEMMA TaskStepMain ==
  ASSUME IInv, NEW s \in Symbols, NEW state \in TaskStates, state # "none",
         task[s] \in {"created", "sleeping", "publishing"},
         task' = [task EXCEPT ![s] = state],
         UNCHANGED <<phase, ready, exit, session>>
  PROVE  MainInv'
<1>1. /\ session > 0 /\ ready = Dependencies /\ phase \in {"feeding", "closing"}
  BY LiveTask
<1>2. ~(phase = "closing" /\ exit = "clean")
  BY DEF IInv, MainInv
<1> QED
  BY <1>1, <1>2 DEF IInv, MainInv

(* The loop is left, or the task fails, between two ticks or in one: what  *)
(* it stored stays stored.                                                 *)
LEMMA EndStep ==
  ASSUME IInv, NEW s \in Symbols, LeaveLoop(s) \/ GenerateRaises(s)
  PROVE  IInv'
<1>1. /\ Awake(s)
      /\ UNCHANGED <<phase, stop, ready, exit, session, published, lastRecv,
                     attempt, clock, stream>>
      /\ pending' \in [Symbols -> Tick \cup {NoTick}]
      /\ wire' \in [Symbols -> {"idle", "sent", "applied"}]
      /\ \A r \in Symbols : r # s => /\ pending'[r] = pending[r]
                                    /\ wire'[r] = wire[r]
                                    /\ nextSeq'[r] = nextSeq[r]
  BY DEF LeaveLoop, GenerateRaises, TakeSeq, Fails, IInv, TypeOK
<1>2. PICK state \in {"done", "failed"} :
        /\ task' = [task EXCEPT ![s] = state]
        /\ nextSeq'[s] = nextSeq[s] \/ (state = "failed" /\ nextSeq'[s] = nextSeq[s] + 1)
  BY DEF LeaveLoop, GenerateRaises, TakeSeq, Fails, IInv, TypeOK
<1>3. nextSeq' \in [Symbols -> 0..SeqBound]
  <2>1. nextSeq \in [Symbols -> 0..SeqBound] /\ SeqBound \in Nat
    BY ConstantsAssumption DEF IInv, TypeOK
  <2>2. CASE UNCHANGED nextSeq
    BY <2>1, <2>2
  <2>3. CASE nextSeq[s] < SeqBound /\ nextSeq' = [nextSeq EXCEPT ![s] = @ + 1]
    <3>1. nextSeq[s] + 1 \in 0..SeqBound
      BY <2>1, <2>3
    <3> QED
      BY <2>1, <2>3, <3>1
  <2> QED
    BY <2>2, <2>3 DEF LeaveLoop, GenerateRaises, TakeSeq
<1>4. TypeOK'
  BY <1>1, <1>2, <1>3 DEF IInv, TypeOK
<1>5. MainInv'
  BY <1>1, <1>2, TaskStepMain DEF Awake, TaskStates
<1>6. SymbolInv(s)'
  <2>1. task'[s] \in {"done", "failed"} /\ task'[s] = state
    BY <1>2 DEF IInv, TypeOK
  <2>2. SessionsOpened(s)'
    BY <1>1 DEF IInv, SymbolInv, SessionsOpened
  <2>3. Issued(s) \subseteq Stored(s) /\ published[s] = nextSeq[s]
    BY <1>1 DEF IInv, SymbolInv, Accounted, Awake
  <2>4. Stored(s)' = Stored(s)
    BY <1>1 DEF Stored
  <2>5. nextSeq[s] \in Nat
    BY ConstantsAssumption DEF IInv, TypeOK
  <2>6. Accounted(s)'
    <3>1. CASE nextSeq'[s] = nextSeq[s]
      BY <3>1, <2>1, <2>3, <2>4, <1>1 DEF Accounted, Issued
    <3>2. CASE state = "failed" /\ nextSeq'[s] = nextSeq[s] + 1
      BY <3>2, <2>1, <2>3, <2>4, <2>5, <1>1 DEF Accounted, Issued
    <3> QED
      BY <3>1, <3>2, <1>2
  <2> QED
    BY <2>1, <2>2, <2>6 DEF SymbolInv, BetweenTicks, WhilePublishing
<1>7. ASSUME NEW r \in Symbols, r # s PROVE SymbolInv(r)'
  <2>1. task'[r] = task[r]
    BY <1>2, <1>7 DEF IInv, TypeOK
  <2> QED
    BY <2>1, <1>1, <1>7, Untouched DEF IInv
<1> QED
  BY <1>4, <1>5, <1>6, <1>7 DEF IInv

(* The new tick is the next of its session, or the first of a session the  *)
(* stream does not hold.                                                   *)
LEMMA GenerateStep ==
  ASSUME IInv, NEW s \in Symbols, Generate(s)
  PROVE  IInv'
<1>1. /\ Awake(s) /\ nextSeq[s] < SeqBound
      /\ nextSeq' = [nextSeq EXCEPT ![s] = @ + 1]
      /\ task' = [task EXCEPT ![s] = "publishing"]
      /\ attempt' = [attempt EXCEPT ![s] = 0]
      /\ wire' = [wire EXCEPT ![s] = "sent"]
      /\ pending' = [pending EXCEPT ![s] = [session |-> session,
                                            seq     |-> nextSeq[s],
                                            recv    |-> lastRecv'[s]]]
      /\ UNCHANGED <<phase, stop, ready, exit, session, published, stream>>
  BY DEF Generate, TakeSeq
<1>2. PICK now \in Times : /\ clock' = now
                           /\ lastRecv' = [lastRecv EXCEPT ![s] = Stamp(s, now)]
  BY DEF Generate, TakeSeq
<1>3. /\ session > 0 /\ session \in Sessions
  BY <1>1, LiveTask DEF Awake
<1>4. /\ nextSeq \in [Symbols -> 0..SeqBound] /\ SeqBound \in Nat
      /\ nextSeq[s] \in Seqs /\ nextSeq[s] + 1 \in 0..SeqBound
  BY <1>1, ConstantsAssumption DEF IInv, TypeOK, Seqs
<1>5. /\ lastRecv' \in [Symbols -> Times] /\ lastRecv'[s] \in Times
      /\ lastRecv'[s] >= lastRecv[s]
      /\ \A r \in Symbols : r # s => lastRecv'[r] = lastRecv[r]
  <2>1. lastRecv \in [Symbols -> Times] /\ Times \subseteq Nat
    BY ConstantsAssumption DEF IInv, TypeOK, Times
  <2>2. Stamp(s, now) \in Times /\ Stamp(s, now) >= lastRecv[s]
    <3>1. now \in Times /\ lastRecv[s] \in Times
      BY <2>1
    <3>2. now \in Nat /\ lastRecv[s] \in Nat
      BY <2>1, <3>1
    <3> QED
      BY <3>1, <3>2 DEF Stamp
  <2> QED
    BY <1>2, <2>1, <2>2
<1> DEFINE t == [session |-> session, seq |-> nextSeq[s], recv |-> lastRecv'[s]]
<1>6. t \in Tick
  BY <1>3, <1>4, <1>5 DEF Tick
<1>7. TypeOK'
  <2>1. pending' \in [Symbols -> Tick \cup {NoTick}]
    BY <1>1, <1>6 DEF IInv, TypeOK
  <2>2. nextSeq' \in [Symbols -> 0..SeqBound]
    BY <1>1, <1>4
  <2>3. attempt' \in [Symbols -> 0..Retries]
    BY <1>1, ConstantsAssumption DEF IInv, TypeOK
  <2> QED
    BY <1>1, <1>2, <1>5, <2>1, <2>2, <2>3 DEF IInv, TypeOK
<1>8. MainInv'
  BY <1>1, TaskStepMain DEF Awake, TaskStates
<1>9. SymbolInv(s)'
  <2>1. /\ task'[s] = "publishing" /\ wire'[s] = "sent" /\ pending'[s] = t
        /\ nextSeq'[s] = nextSeq[s] + 1 /\ stream'[s] = stream[s]
        /\ published'[s] = published[s] /\ session' = session
    BY <1>1 DEF IInv, TypeOK
  <2>2. /\ Issued(s) \subseteq Stored(s) /\ published[s] = nextSeq[s]
        /\ SessionsOpened(s) /\ BetweenTicks(s)
        /\ task[s] \in {"created", "sleeping"}
    BY <1>1 DEF IInv, SymbolInv, Accounted, Awake
  <2>3. Log!StartsSession(s, t) \/ Log!ContinuesSession(s, t)
    <3>1. CASE nextSeq[s] = 0
      BY <3>1, <2>2 DEF BetweenTicks, Log!StartsSession
    <3>2. CASE nextSeq[s] # 0
      BY <3>2, <2>2, <1>4, <1>5 DEF BetweenTicks, Log!ContinuesSession
    <3> QED
      BY <3>1, <3>2
  <2>4. (Log!StartsSession(s, pending[s]) \/ Log!ContinuesSession(s, pending[s]))'
    BY <2>1, <2>3 DEF Log!StartsSession, Log!ContinuesSession,
                      Log!SessionsIn, Log!Newest
  <2>5. WhilePublishing(s)'
    BY <2>1, <2>2, <2>4, <1>4, <1>6 DEF WhilePublishing, Seqs
  <2>6. Accounted(s)'
    <3>1. Stored(s)' = Stored(s)
      BY <2>1 DEF Stored
    <3>2. Issued(s)' \ {nextSeq'[s] - 1} = Issued(s)
      BY <2>1, <1>4 DEF Issued, Seqs
    <3> QED
      BY <3>1, <3>2, <2>1, <2>2 DEF Accounted
  <2>7. SessionsOpened(s)' /\ BetweenTicks(s)'
    BY <2>1, <2>2 DEF SessionsOpened, BetweenTicks
  <2> QED
    BY <2>5, <2>6, <2>7 DEF SymbolInv
<1>10. ASSUME NEW r \in Symbols, r # s PROVE SymbolInv(r)'
  <2>1. /\ task'[r] = task[r] /\ nextSeq'[r] = nextSeq[r]
        /\ pending'[r] = pending[r] /\ wire'[r] = wire[r]
        /\ lastRecv'[r] = lastRecv[r]
    BY <1>1, <1>5, <1>10 DEF IInv, TypeOK
  <2> QED
    BY <2>1, <1>1, <1>10, Untouched DEF IInv
<1> QED
  BY <1>7, <1>8, <1>9, <1>10 DEF IInv

(* The bus stores the pending tick: what the log allows, and what accounts *)
(* for the last seq taken.                                                 *)
LEMMA AppendStep ==
  ASSUME IInv, NEW s \in Symbols, BusAppends(s)
  PROVE  IInv' /\ pending[s] \in Log!Tick /\ Log!Publish(s, pending[s])
<1>1. /\ task[s] = "publishing" /\ wire[s] = "sent"
      /\ stream' = [stream EXCEPT ![s] = Append(@, pending[s])]
      /\ wire' = [wire EXCEPT ![s] = "applied"]
      /\ UNCHANGED <<phase, stop, ready, exit, session, nextSeq, task,
                     published, lastRecv, pending, attempt, clock>>
  BY DEF BusAppends
<1>2. /\ pending[s] \in Tick /\ pending[s].session = session
      /\ pending[s].seq = nextSeq[s] - 1 /\ pending[s].recv = lastRecv[s]
      /\ nextSeq[s] > 0 /\ published[s] = nextSeq[s] - 1
      /\ \/ Log!StartsSession(s, pending[s])
         \/ Log!ContinuesSession(s, pending[s])
         \/ Log!RepeatsNewest(s, pending[s])
      /\ Issued(s) \ {nextSeq[s] - 1} \subseteq Stored(s)
      /\ SessionsOpened(s)
  BY <1>1 DEF IInv, SymbolInv, WhilePublishing, Accounted
<1>3. pending[s] \in Log!Tick /\ Log!Publish(s, pending[s])
  BY <1>1, <1>2 DEF Log!Publish, Log!Tick, Tick
<1>4. /\ stream[s] \in Seq(Tick) /\ Len(stream[s]) \in Nat
      /\ stream'[s] = Append(stream[s], pending[s])
      /\ \A r \in Symbols : r # s => stream'[r] = stream[r]
      /\ stream' \in [Symbols -> Seq(Tick)]
  <2>1. stream \in [Symbols -> Seq(Tick)]
    BY DEF IInv, TypeOK
  <2>2. Append(stream[s], pending[s]) \in Seq(Tick)
    BY <2>1, <1>2
  <2> QED
    BY <1>1, <2>1, <2>2
<1> DEFINE n == Len(stream[s])
<1>5. /\ Len(stream'[s]) = n + 1 /\ stream'[s][n + 1] = pending[s]
      /\ \A i \in 1..n : stream'[s][i] = stream[s][i]
  BY <1>4
<1>6. TypeOK'
  BY <1>1, <1>4 DEF IInv, TypeOK
<1>7. MainInv'
  BY <1>1 DEF IInv, MainInv
<1>8. SymbolInv(s)'
  <2>1. /\ task'[s] = "publishing" /\ wire'[s] = "applied"
        /\ pending'[s] = pending[s] /\ nextSeq'[s] = nextSeq[s]
        /\ session' = session
    BY <1>1 DEF IInv, TypeOK
  <2>2. session \in Nat /\ nextSeq[s] \in Nat
    BY ConstantsAssumption DEF IInv, TypeOK
  <2>3. SessionsOpened(s)'
    BY <1>2, <1>4, <1>5, <2>1, <2>2 DEF SessionsOpened
  <2>4. stream'[s] # <<>>
    BY <1>4, <1>5
  <2>5. Log!RepeatsNewest(s, pending[s])'
    BY <1>5, <2>1, <2>4 DEF Log!RepeatsNewest, Log!Newest
  <2>6. Stored(s) \cup {nextSeq[s] - 1} \subseteq Stored(s)'
    <3>1. Stored(s) \subseteq Stored(s)'
      BY <1>4, <1>5, <2>1 DEF Stored
    <3>2. nextSeq[s] - 1 \in Stored(s)'
      <4>1. n + 1 \in 1..Len(stream'[s])
        BY <1>4, <1>5
      <4> QED
        BY <4>1, <1>2, <1>5, <2>1 DEF Stored
    <3> QED
      BY <3>1, <3>2
  <2>7. Issued(s)' \subseteq Stored(s)'
    BY <2>1, <2>6, <1>2 DEF Issued
  <2>8. WhilePublishing(s)'
    BY <1>1, <1>2, <2>1, <2>5, <2>7 DEF WhilePublishing
  <2>9. Accounted(s)'
    BY <2>1, <2>7 DEF Accounted
  <2>10. BetweenTicks(s)'
    BY <2>1 DEF BetweenTicks
  <2> QED
    BY <2>3, <2>8, <2>9, <2>10 DEF SymbolInv
<1>9. ASSUME NEW r \in Symbols, r # s PROVE SymbolInv(r)'
  <2>1. wire'[r] = wire[r] /\ stream'[r] = stream[r]
    BY <1>1, <1>4, <1>9 DEF IInv, TypeOK
  <2> QED
    BY <2>1, <1>1, Untouched DEF IInv
<1> QED
  BY <1>3, <1>6, <1>7, <1>8, <1>9 DEF IInv

(* publish returns for a tick the bus holds. *)
LEMMA ReturnStep ==
  ASSUME IInv, NEW s \in Symbols, PublishReturns(s)
  PROVE  IInv'
<1>1. /\ task[s] = "publishing" /\ wire[s] = "applied"
      /\ published' = [published EXCEPT ![s] = @ + 1]
      /\ pending' = [pending EXCEPT ![s] = NoTick]
      /\ wire' = [wire EXCEPT ![s] = "idle"]
      /\ UNCHANGED <<phase, stop, ready, exit, session, nextSeq, lastRecv,
                     attempt, clock, stream>>
  BY DEF PublishReturns, Fails
<1>2. PICK state \in {"sleeping", "done", "failed"} :
        task' = [task EXCEPT ![s] = state]
  BY DEF PublishReturns, Fails
<1>3. /\ pending[s].session = session /\ pending[s].seq = nextSeq[s] - 1
      /\ pending[s].recv = lastRecv[s]
      /\ nextSeq[s] > 0 /\ published[s] = nextSeq[s] - 1
      /\ Log!RepeatsNewest(s, pending[s])
      /\ Issued(s) \subseteq Stored(s) /\ SessionsOpened(s)
  BY <1>1 DEF IInv, SymbolInv, WhilePublishing
<1>4. nextSeq[s] \in 0..SeqBound /\ SeqBound \in Nat
  BY ConstantsAssumption DEF IInv, TypeOK
<1>5. TypeOK'
  <2>1. published' \in [Symbols -> 0..SeqBound]
    BY <1>1, <1>3, <1>4 DEF IInv, TypeOK
  <2> QED
    BY <1>1, <1>2, <2>1 DEF IInv, TypeOK
<1>6. MainInv'
  BY <1>1, <1>2, TaskStepMain DEF TaskStates
<1>7. SymbolInv(s)'
  <2>1. /\ task'[s] = state /\ published'[s] = nextSeq[s]
        /\ nextSeq'[s] = nextSeq[s] /\ session' = session
        /\ stream'[s] = stream[s] /\ lastRecv'[s] = lastRecv[s]
    BY <1>1, <1>2, <1>3, <1>4 DEF IInv, TypeOK
  <2>2. SessionsOpened(s)'
    BY <1>3, <2>1 DEF SessionsOpened
  <2>3. BetweenTicks(s)'
    BY <1>3, <1>4, <2>1
    DEF BetweenTicks, Log!RepeatsNewest, Log!Newest, Log!SessionsIn
  <2>4. Accounted(s)'
    BY <1>3, <2>1 DEF Accounted, Issued, Stored
  <2> QED
    BY <2>1, <2>2, <2>3, <2>4 DEF SymbolInv, WhilePublishing
<1>8. ASSUME NEW r \in Symbols, r # s PROVE SymbolInv(r)'
  <2>1. /\ task'[r] = task[r] /\ published'[r] = published[r]
        /\ pending'[r] = pending[r] /\ wire'[r] = wire[r]
    BY <1>1, <1>2, <1>8 DEF IInv, TypeOK
  <2> QED
    BY <2>1, <1>1, Untouched DEF IInv
<1> QED
  BY <1>5, <1>6, <1>7, <1>8 DEF IInv

(* A publication that fails leaves at most the last seq unaccounted for. *)
LEMMA PublishFails ==
  ASSUME IInv, NEW s \in Symbols, task[s] = "publishing",
         Fails(s), UNCHANGED <<nextSeq, published>>
  PROVE  IInv'
<1>1. /\ task' = [task EXCEPT ![s] = "failed"]
      /\ pending' = [pending EXCEPT ![s] = NoTick]
      /\ wire' = [wire EXCEPT ![s] = "idle"]
      /\ UNCHANGED <<phase, stop, ready, exit, session, nextSeq, published,
                     lastRecv, attempt, clock, stream>>
  BY DEF Fails
<1>2. TypeOK'
  BY <1>1 DEF IInv, TypeOK
<1>3. MainInv'
  BY <1>1, TaskStepMain DEF TaskStates
<1>4. SymbolInv(s)'
  <2>1. task'[s] = "failed"
    BY <1>1 DEF IInv, TypeOK
  <2> QED
    BY <1>1, <2>1 DEF IInv, SymbolInv, SessionsOpened, BetweenTicks,
                      WhilePublishing, Accounted, Issued, Stored
<1>5. ASSUME NEW r \in Symbols, r # s PROVE SymbolInv(r)'
  <2>1. task'[r] = task[r] /\ pending'[r] = pending[r] /\ wire'[r] = wire[r]
    BY <1>1, <1>5 DEF IInv, TypeOK
  <2> QED
    BY <2>1, <1>1, Untouched DEF IInv
<1> QED
  BY <1>2, <1>3, <1>4, <1>5 DEF IInv

(* A command sent again finds the stream ready for it, or holding it. *)
LEMMA RetryStep ==
  ASSUME IInv, NEW s \in Symbols, ConnectionBreaks(s), attempt[s] < Retries
  PROVE  IInv'
<1>1. /\ task[s] = "publishing"
      /\ attempt' = [attempt EXCEPT ![s] = @ + 1]
      /\ wire' = [wire EXCEPT ![s] = "sent"]
      /\ UNCHANGED <<phase, stop, ready, exit, session, nextSeq, task,
                     published, lastRecv, pending, clock, stream>>
  BY ConstantsAssumption DEF ConnectionBreaks
<1>2. TypeOK'
  <2>1. attempt' \in [Symbols -> 0..Retries]
    BY <1>1, ConstantsAssumption DEF IInv, TypeOK
  <2> QED
    BY <1>1, <2>1 DEF IInv, TypeOK
<1>3. MainInv'
  BY <1>1 DEF IInv, MainInv
<1>4. SymbolInv(s)'
  <2>1. wire'[s] = "sent"
    BY <1>1 DEF IInv, TypeOK
  <2>2. WhilePublishing(s)'
    BY <1>1, <2>1 DEF IInv, SymbolInv, WhilePublishing, Log!StartsSession,
         Log!ContinuesSession, Log!RepeatsNewest, Log!Newest, Log!SessionsIn
  <2> QED
    BY <1>1, <2>2 DEF IInv, SymbolInv, SessionsOpened, BetweenTicks,
                      Accounted, Issued, Stored
<1>5. ASSUME NEW r \in Symbols, r # s PROVE SymbolInv(r)'
  <2>1. wire'[r] = wire[r]
    BY <1>1, <1>5 DEF IInv, TypeOK
  <2> QED
    BY <2>1, <1>1, Untouched DEF IInv
<1> QED
  BY <1>2, <1>3, <1>4, <1>5 DEF IInv

LEMMA SymbolSteps ==
  ASSUME IInv, NEW s \in Symbols, TaskStep(s) \/ BusStep(s)
  PROVE  IInv'
<1>1. CASE TaskStep(s)
  BY <1>1, EndStep, GenerateStep DEF TaskStep
<1>2. CASE BusAppends(s) \/ PublishReturns(s)
  BY <1>2, AppendStep, ReturnStep
<1>3. CASE ConnectionBreaks(s)
  BY <1>3, RetryStep, PublishFails DEF ConnectionBreaks
<1>4. CASE BusRejects(s)
  BY <1>4, PublishFails DEF BusRejects
<1> QED
  BY <1>1, <1>2, <1>3, <1>4 DEF BusStep

LEMMA NextIInv == IInv /\ [Next]_vars => IInv'
<1> SUFFICES ASSUME IInv, [Next]_vars PROVE IInv'
  OBVIOUS
<1>1. CASE Start \/ Terminate \/ Crash \/ MainStep
  BY <1>1, QuietSteps, GoneSteps, LoadStep DEF MainStep
<1>2. CASE \E s \in Symbols : TaskStep(s) \/ BusStep(s)
  BY <1>2, SymbolSteps
<1>3. CASE UNCHANGED vars
  <2>1. TypeOK' /\ MainInv'
    BY <1>3 DEF IInv, TypeOK, MainInv, vars, taskVars
  <2>2. ASSUME NEW s \in Symbols PROVE SymbolInv(s)'
    BY <1>3, Untouched DEF IInv, vars, taskVars
  <2> QED
    BY <2>1, <2>2 DEF IInv
<1> QED
  BY <1>1, <1>2, <1>3 DEF Next

LEMMA Invariance == Spec => []IInv
BY InitIInv, NextIInv, PTL DEF Spec

-----------------------------------------------------------------------------
(* Every variable keeps its type, for every value of the constants. *)
THEOREM TypeCorrect == Spec => []TypeOK
<1>1. IInv => TypeOK
  BY DEF IInv
<1> QED
  BY <1>1, Invariance, PTL

(* A seq taken from the session reaches the bus before the task moves on   *)
(* (generator.py, _run_symbol), however often the client repeats commands  *)
(* and the process restarts.                                               *)
THEOREM SeqsAccountedFor == Spec => []IssuedAreStored
<1>1. IInv => IssuedAreStored
  BY DEF IInv, SymbolInv, IssuedAreStored
<1> QED
  BY <1>1, Invariance, PTL

(* A run whose gather returned lost nothing that any symbol took a seq for *)
(* (__main__.py, _run_service).                                            *)
THEOREM CleanExitIsLossless == Spec => []CleanExitLosesNothing
<1>1. IInv => CleanExitLosesNothing
  BY DEF IInv, MainInv, SymbolInv, Accounted, CleanExitLosesNothing
<1> QED
  BY <1>1, Invariance, PTL

(* What grows a stream is a task of a process that reported itself ready   *)
(* (__main__.py, the order of mark_connected and run_synthetic_feed).      *)
THEOREM ReadyBeforePublishing == Spec => PublishesOnlyWhenReady
<1> DEFINE Ok == \A s \in Symbols : stream'[s] # stream[s] =>
                    /\ ready = Dependencies
                    /\ session > 0 /\ task[s] # "none"
<1>1. IInv /\ [Next]_vars => [Ok]_vars
  <2> SUFFICES ASSUME IInv, Next, NEW r \in Symbols, stream'[r] # stream[r]
               PROVE  ready = Dependencies /\ session > 0 /\ task[r] # "none"
    OBVIOUS
  <2>1. PICK s \in Symbols : BusAppends(s)
    BY DEF Next, MainStep, TaskStep, BusStep, Start, Terminate, Crash, PingOk,
           PingFails, RetryPing, LoadOk, LoadRaises, GatherReturns,
           GatherRaises, Exit, LeaveLoop, Generate, GenerateRaises, TakeSeq, Fails,
           PublishReturns, ConnectionBreaks, BusRejects
  <2>2. r = s
    BY <2>1 DEF BusAppends, IInv, TypeOK
  <2>3. task[r] # "none"
    BY <2>1, <2>2 DEF BusAppends
  <2> QED
    BY <2>3, LiveTask
<1> QED
  BY <1>1, Invariance, PTL DEF Spec, PublishesOnlyWhenReady

-----------------------------------------------------------------------------
(* What a step of one symbol's task leaves of the others. *)
LEMMA OthersRest ==
  ASSUME IInv, NEW s \in Symbols, NEW r \in Symbols, r # s,
         TaskStep(s) \/ BusStep(s)
  PROVE  /\ task'[r] = task[r] /\ nextSeq'[r] = nextSeq[r]
         /\ published'[r] = published[r] /\ lastRecv'[r] = lastRecv[r]
         /\ pending'[r] = pending[r] /\ attempt'[r] = attempt[r]
         /\ wire'[r] = wire[r] /\ stream'[r] = stream[r]
         /\ session' = session /\ stop' = stop /\ phase' = phase
<1>1. CASE TaskStep(s)
  BY <1>1 DEF IInv, TypeOK, TaskStep, LeaveLoop, Generate, GenerateRaises,
              TakeSeq, Fails
<1>2. CASE BusStep(s)
  BY <1>2 DEF IInv, TypeOK, BusStep, BusAppends, PublishReturns,
              ConnectionBreaks, BusRejects, Fails
<1> QED
  BY <1>1, <1>2

(* Where there is a task, the main coroutine either leaves tasks, locals,  *)
(* streams and clock alone, or ends them all.                              *)
LEMMA MainLeavesTasks ==
  ASSUME IInv, Start \/ Terminate \/ Crash \/ (MainStep /\ ~LoadOk),
         NEW s \in Symbols, task'[s] # "none"
  PROVE  /\ UNCHANGED <<session, taskVars, clock, stream>>
         /\ stop => stop'
<1>1. ~Crash /\ ~Exit
  BY DEF Crash, Exit, FreshTasks, NoTasks
<1>2. CASE Start
  BY <1>2 DEF Start, taskVars, IInv, MainInv, NoTasks
<1> QED
  BY <1>1, <1>2 DEF Terminate, MainStep, PingOk, PingFails, RetryPing,
                    LoadRaises, GatherReturns, GatherRaises

-----------------------------------------------------------------------------
(* Runs with a maximum.                                                    *)

(* A task never publishes past the maximum, only a stop ends it before     *)
(* that, and its stream holds no seq of the session that was not taken.    *)
BoundedInv(s) ==
  (task[s] # "none" /\ MaxTicks[session] # Unlimited) =>
    /\ task[s] \in {"created", "sleeping", "done"} =>
         published[s] <= MaxTicks[session]
    /\ task[s] = "publishing" => published[s] < MaxTicks[session]
    /\ task[s] = "done" => stop \/ published[s] = MaxTicks[session]
    /\ \A i \in 1..Len(stream[s]) :
         stream[s][i].session = session => stream[s][i].seq < nextSeq[s]

LEMMA BoundedFrame ==
  ASSUME NEW s \in Symbols, BoundedInv(s), stop => stop', session' = session,
         task'[s] = task[s], nextSeq'[s] = nextSeq[s],
         published'[s] = published[s], stream'[s] = stream[s]
  PROVE  BoundedInv(s)'
BY DEF BoundedInv

(* The tasks of a new session have published nothing. *)
LEMMA LoadBounded ==
  ASSUME IInv, LoadOk, NEW s \in Symbols
  PROVE  BoundedInv(s)'
<1>1. /\ session' = session + 1 /\ session' \in 1..MaxSessions
      /\ session \in Nat /\ stream' = stream
  BY ConstantsAssumption DEF LoadOk, IInv, TypeOK
<1>2. task'[s] \in {"created", "none"} /\ published'[s] = 0
  BY DEF LoadOk, FreshTasks
<1>3. MaxTicks[session'] # Unlimited => 0 <= MaxTicks[session']
  BY <1>1, ConstantsAssumption
<1>4. ASSUME NEW i \in 1..Len(stream[s]) PROVE stream[s][i].session # session'
  <2>1. stream[s][i] \in Tick /\ stream[s][i].session <= session
    BY DEF IInv, TypeOK, SymbolInv, SessionsOpened
  <2>2. stream[s][i].session \in Nat
    BY <2>1, ConstantsAssumption DEF Tick, Sessions
  <2> QED
    BY <1>1, <2>1, <2>2
<1> QED
  BY <1>1, <1>2, <1>3, <1>4 DEF BoundedInv

(* The task's own steps. *)
LEMMA OwnStepBounded ==
  ASSUME IInv, NEW s \in Symbols, BoundedInv(s), TaskStep(s) \/ BusStep(s)
  PROVE  BoundedInv(s)'
<1> SUFFICES ASSUME MaxTicks[session] # Unlimited PROVE BoundedInv(s)'
  BY DEF BoundedInv, TaskStep, LeaveLoop, Generate, GenerateRaises, Fails,
         BusStep, BusAppends, PublishReturns, ConnectionBreaks, BusRejects
<1>1. task[s] # "none"
  BY DEF TaskStep, BusStep, LeaveLoop, Generate, GenerateRaises, Awake,
         BusAppends, PublishReturns, ConnectionBreaks, BusRejects
<1>2. /\ session \in 1..MaxSessions /\ MaxTicks[session] \in Nat
      /\ published[s] \in Nat /\ nextSeq[s] \in Nat
      /\ Len(stream[s]) \in Nat
  <2>1. session \in 1..MaxSessions
    BY <1>1, LiveTask DEF Sessions
  <2> QED
    BY <2>1, ConstantsAssumption DEF IInv, TypeOK
<1>3. \A i \in 1..Len(stream[s]) :
        /\ stream[s][i].seq \in Int
        /\ stream[s][i].session = session => stream[s][i].seq < nextSeq[s]
  <2>1. \A i \in 1..Len(stream[s]) : stream[s][i] \in Tick
    BY DEF IInv, TypeOK
  <2> QED
    BY <1>1, <2>1 DEF BoundedInv, Tick, Seqs
<1>4. CASE LeaveLoop(s)
  <2>1. /\ task'[s] = "done"
        /\ UNCHANGED <<stop, session, published, nextSeq, stream>>
    BY <1>4 DEF LeaveLoop, IInv, TypeOK
  <2>2. stop \/ ~(published[s] < MaxTicks[session])
    BY <1>4 DEF LeaveLoop, LoopCondition, WantsTicks
  <2>3. published[s] <= MaxTicks[session]
    BY <1>4 DEF LeaveLoop, Awake, BoundedInv
  <2> QED
    BY <1>2, <1>3, <2>1, <2>2, <2>3 DEF BoundedInv
<1>5. CASE Generate(s)
  <2>1. /\ task'[s] = "publishing" /\ nextSeq'[s] = nextSeq[s] + 1
        /\ UNCHANGED <<session, published, stream>>
    BY <1>5 DEF Generate, TakeSeq, IInv, TypeOK
  <2>2. published[s] < MaxTicks[session]
    BY <1>5 DEF Generate, LoopCondition, WantsTicks
  <2> QED
    BY <1>2, <1>3, <2>1, <2>2 DEF BoundedInv
<1>6. CASE Fails(s) /\ (nextSeq'[s] = nextSeq[s] \/ nextSeq'[s] = nextSeq[s] + 1)
  <2>1. task'[s] = "failed" /\ UNCHANGED <<session, stream>>
    BY <1>6 DEF Fails, IInv, TypeOK
  <2> QED
    BY <1>2, <1>3, <1>6, <2>1 DEF BoundedInv
<1>7. CASE BusAppends(s)
  <2>1. /\ task[s] = "publishing" /\ task' = task
        /\ UNCHANGED <<session, published, nextSeq>>
        /\ stream'[s] = Append(stream[s], pending[s])
    BY <1>7 DEF BusAppends, IInv, TypeOK
  <2>2. pending[s].seq < nextSeq[s] /\ pending[s] \in Tick
    BY <1>2, <2>1 DEF IInv, SymbolInv, WhilePublishing
  <2>3. stream[s] \in Seq(Tick)
    BY DEF IInv, TypeOK
  <2>4. \A i \in 1..Len(stream'[s]) :
          stream'[s][i] = pending[s] \/
            (i \in 1..Len(stream[s]) /\ stream'[s][i] = stream[s][i])
    BY <2>1, <2>2, <2>3
  <2>5. published[s] < MaxTicks[session]
    BY <1>1, <2>1 DEF BoundedInv
  <2> QED
    BY <1>3, <2>1, <2>2, <2>4, <2>5 DEF BoundedInv
<1>8. CASE PublishReturns(s) /\ ~Fails(s)
  <2>1. /\ task[s] = "publishing" /\ published'[s] = published[s] + 1
        /\ UNCHANGED <<session, nextSeq, stream>>
        /\ task'[s] = IF published'[s] < MaxTicks[session]
                      THEN "sleeping" ELSE "done"
    BY <1>8 DEF PublishReturns, WantsTicks, IInv, TypeOK
  <2>2. published[s] < MaxTicks[session]
    BY <1>1, <2>1 DEF BoundedInv
  <2> QED
    BY <1>2, <1>3, <2>1, <2>2 DEF BoundedInv
<1>9. CASE ConnectionBreaks(s) /\ ~Fails(s)
  BY <1>9, BoundedFrame DEF ConnectionBreaks
<1> QED
  <2>1. GenerateRaises(s) => <1>6!1
    BY DEF GenerateRaises, TakeSeq, IInv, TypeOK
  <2>2. (BusRejects(s) \/ (PublishReturns(s) /\ Fails(s))
           \/ (ConnectionBreaks(s) /\ Fails(s))) => nextSeq'[s] = nextSeq[s]
    BY DEF BusRejects, PublishReturns, ConnectionBreaks
  <2>3. BusRejects(s) => Fails(s)
    BY DEF BusRejects
  <2> QED
    BY <1>4, <1>5, <1>6, <1>7, <1>8, <1>9, <2>1, <2>2, <2>3
    DEF TaskStep, BusStep

LEMMA BoundedPreserved ==
  ASSUME IInv, NEW s \in Symbols, BoundedInv(s), [Next]_vars
  PROVE  BoundedInv(s)'
<1>1. CASE task'[s] = "none"
  BY <1>1 DEF BoundedInv
<1>2. CASE LoadOk
  BY <1>2, LoadBounded
<1>3. CASE /\ Start \/ Terminate \/ Crash \/ (MainStep /\ ~LoadOk)
           /\ task'[s] # "none"
  BY <1>3, MainLeavesTasks, BoundedFrame DEF taskVars
<1>4. CASE TaskStep(s) \/ BusStep(s)
  BY <1>4, OwnStepBounded
<1>5. ASSUME NEW q \in Symbols, q # s, TaskStep(q) \/ BusStep(q)
      PROVE  BoundedInv(s)'
  BY <1>5, OthersRest, BoundedFrame
<1>6. CASE UNCHANGED vars
  BY <1>6, BoundedFrame DEF vars, taskVars
<1> QED
  BY <1>1, <1>2, <1>3, <1>4, <1>5, <1>6 DEF Next, MainStep

(* A run with a maximum that nobody stopped and that ends cleanly has      *)
(* published exactly that many ticks of each of its symbols: "each symbol   *)
(* has published `max_ticks_per_symbol` ticks" (generator.py).             *)
THEOREM BoundedRunsAreComplete == Spec => []BoundedRunComplete
<1> DEFINE Inv == IInv /\ \A s \in Symbols : BoundedInv(s)
<1>1. Init => Inv
  BY InitIInv DEF Init, NoTasks, BoundedInv
<1>2. Inv /\ [Next]_vars => Inv'
  BY NextIInv, BoundedPreserved
<1>3. Inv => BoundedRunComplete
  <2> SUFFICES ASSUME Inv, phase = "closing", exit = "clean", ~stop,
                      NEW s \in Symbols, task[s] # "none",
                      MaxTicks[session] # Unlimited
               PROVE  Stored(s) = 0..(MaxTicks[session] - 1)
    BY DEF BoundedRunComplete
  <2>1. task[s] = "done"
    BY DEF IInv, MainInv
  <2>2. /\ published[s] = MaxTicks[session] /\ published[s] = nextSeq[s]
        /\ Issued(s) \subseteq Stored(s)
    BY <2>1 DEF BoundedInv, IInv, SymbolInv, Accounted
  <2>3. \A i \in 1..Len(stream[s]) :
          stream[s][i].seq \in Nat /\
            (stream[s][i].session = session => stream[s][i].seq < nextSeq[s])
    <3>1. \A i \in 1..Len(stream[s]) : stream[s][i] \in Tick
      BY DEF IInv, TypeOK
    <3>2. Seqs \subseteq Nat
      BY DEF Seqs
    <3> QED
      BY <3>1, <3>2 DEF BoundedInv, Tick
  <2>4. nextSeq[s] \in Nat
    BY ConstantsAssumption DEF IInv, TypeOK
  <2>5. Stored(s) \subseteq Issued(s)
    BY <2>3, <2>4 DEF Stored, Issued
  <2> QED
    BY <2>2, <2>5 DEF Issued
<1> QED
  BY <1>1, <1>2, <1>3, PTL DEF Spec

-----------------------------------------------------------------------------
(* A signalled process winds down.                                         *)

LEMMA MainWindsDown ==
  ASSUME IInv, stop, phase # "down", Terminate \/ Crash \/ MainStep
  PROVE  PhasesLeft' < PhasesLeft
<1>1. \/ phase' = "down"
      \/ phase = "pinging" /\ phase' \in {"backoff", "closing"}
      \/ phase = "backoff" /\ phase' = "closing"
      \/ phase = "loading" /\ phase' \in {"feeding", "closing"}
      \/ phase = "feeding" /\ phase' = "closing"
  BY DEF Terminate, Crash, MainStep, PingOk, PingFails, RetryPing, LoadOk,
         LoadRaises, GatherReturns, GatherRaises, Exit
<1>2. phase \in {"pinging", "backoff", "loading", "feeding", "closing"}
  BY DEF IInv, TypeOK
<1> QED
  BY <1>1, <1>2 DEF PhasesLeft

(* No tick is started, so the task is one answer nearer to its end, or one *)
(* repetition; and a repetition takes back less than it costs.             *)
LEMMA TaskWindsDown ==
  ASSUME IInv, stop, NEW s \in Symbols, TaskStep(s) \/ BusStep(s)
  PROVE  TaskLeft(s)' < TaskLeft(s)
<1>1. /\ Retries \in Nat /\ attempt[s] \in 0..Retries
      /\ Retries - attempt[s] \in Nat
  BY ConstantsAssumption DEF IInv, TypeOK
<1>2. CASE LeaveLoop(s)
  <2>1. task[s] \in {"created", "sleeping"} /\ task'[s] = "done"
    BY <1>2 DEF LeaveLoop, Awake, IInv, TypeOK
  <2> QED
    BY <2>1 DEF TaskLeft
<1>3. ~Generate(s) /\ ~GenerateRaises(s)
  BY DEF Generate, GenerateRaises, LoopCondition
<1>4. CASE task[s] = "publishing" /\ task'[s] \in {"sleeping", "done", "failed"}
  <2>1. TaskLeft(s)' \in {0, 1}
    BY <1>4 DEF TaskLeft
  <2>2. TaskLeft(s) \in Nat /\ TaskLeft(s) >= 2
    BY <1>1, <1>4 DEF TaskLeft
  <2> QED
    BY <2>1, <2>2
<1>5. CASE BusAppends(s)
  <2>1. /\ task[s] = "publishing" /\ wire[s] = "sent"
        /\ task'[s] = "publishing" /\ wire'[s] = "applied"
        /\ attempt'[s] = attempt[s]
    BY <1>5 DEF BusAppends, IInv, TypeOK
  <2> QED
    BY <2>1, <1>1 DEF TaskLeft
<1>6. CASE ConnectionBreaks(s) /\ attempt[s] < Retries
  <2>1. /\ task[s] = "publishing" /\ task'[s] = "publishing"
        /\ wire'[s] = "sent" /\ attempt'[s] = attempt[s] + 1
    <3>1. /\ attempt' = [attempt EXCEPT ![s] = @ + 1]
          /\ wire' = [wire EXCEPT ![s] = "sent"]
          /\ task[s] = "publishing" /\ task' = task
      <4>1. attempt[s] # Retries
        BY <1>1, <1>6
      <4> QED
        BY <1>6, <4>1, Zenon DEF ConnectionBreaks
    <3> QED
      BY <3>1 DEF IInv, TypeOK
  <2> QED
    BY <2>1, <1>1 DEF TaskLeft
<1>7. CASE PublishReturns(s)
  BY <1>4, <1>7 DEF PublishReturns, Fails, IInv, TypeOK
<1>8. CASE ConnectionBreaks(s) /\ ~(attempt[s] < Retries)
  BY <1>4, <1>8 DEF ConnectionBreaks, Fails, IInv, TypeOK
<1>9. CASE BusRejects(s)
  BY <1>4, <1>9 DEF BusRejects, Fails, IInv, TypeOK
<1> QED
  BY <1>2, <1>3, <1>5, <1>6, <1>7, <1>8, <1>9 DEF TaskStep, BusStep

(* The shutdown event is cleared with the process. *)
LEMMA DownIsUnsignalled ==
  ASSUME IInv, phase = "down" => ~stop, [Next]_vars
  PROVE  phase' = "down" => ~stop'
<1>1. CASE Start \/ Crash \/ Exit
  BY <1>1 DEF Start, Crash, Exit
<1>2. CASE Terminate \/ UNCHANGED vars
  BY <1>2 DEF Terminate, vars
<1>3. CASE MainStep /\ ~Exit
  BY <1>3 DEF MainStep, PingOk, PingFails, RetryPing, LoadOk, LoadRaises,
              GatherReturns, GatherRaises
<1>4. ASSUME NEW s \in Symbols, TaskStep(s) \/ BusStep(s)
      PROVE  phase' = phase /\ stop' = stop
  BY <1>4 DEF TaskStep, BusStep, LeaveLoop, Generate, GenerateRaises,
     BusAppends, PublishReturns, ConnectionBreaks, BusRejects, Fails
<1> QED
  BY <1>1, <1>2, <1>3, <1>4 DEF Next

(* Once it was signalled the process only winds down: no step of it, taken *)
(* by whichever coroutine, fails to bring its end nearer (__main__.py, the *)
(* stop checks of _run_service; generator.py, the loop of _run_symbol; the *)
(* client's bounded repetition of a command).                              *)
THEOREM StoppingWindsDown == Spec => StopWindsDown
<1> DEFINE Inv == IInv /\ (phase = "down" => ~stop)
           Nearer(s) == /\ TaskLeft(s)' < TaskLeft(s)
                        /\ \A r \in Symbols \ {s} : TaskLeft(r)' = TaskLeft(r)
           Ok == stop => \/ PhasesLeft' < PhasesLeft
                         \/ phase' = phase /\ \E s \in Symbols : Nearer(s)
<1>1. Init => Inv
  BY InitIInv DEF Init
<1>2. Inv /\ [Next]_vars => Inv'
  BY NextIInv, DownIsUnsignalled
<1>3. Inv /\ [Next]_vars => [Ok]_vars
  <2> SUFFICES ASSUME Inv, Next, stop PROVE Ok
    OBVIOUS
  <2>1. phase # "down" /\ ~Start
    BY DEF Start
  <2>2. CASE Terminate \/ Crash \/ MainStep
    BY <2>1, <2>2, MainWindsDown
  <2>3. ASSUME NEW s \in Symbols, TaskStep(s) \/ BusStep(s)
        PROVE  Ok
    <3>1. TaskLeft(s)' < TaskLeft(s)
      BY <2>3, TaskWindsDown
    <3>2. \A r \in Symbols \ {s} : TaskLeft(r)' = TaskLeft(r)
      BY <2>3, OthersRest DEF TaskLeft
    <3>3. phase' = phase
      BY <2>3 DEF TaskStep, BusStep, LeaveLoop, Generate, GenerateRaises,
         BusAppends, PublishReturns, ConnectionBreaks, BusRejects, Fails
    <3> QED
      BY <3>1, <3>2, <3>3
  <2> QED
    BY <2>1, <2>2, <2>3 DEF Next
<1> QED
  BY <1>1, <1>2, <1>3, PTL DEF Spec, StopWindsDown

-----------------------------------------------------------------------------
(* A wall clock that is not set back.                                      *)

(* The last reading is at least what has been stamped before it, and the   *)
(* stamp in hand at least what the stream holds.                           *)
RecvInv(s) ==
  /\ lastRecv[s] <= clock
  /\ \A i \in 1..Len(stream[s]) : stream[s][i].recv <= clock
  /\ \A i, j \in 1..Len(stream[s]) :
       i < j => stream[s][i].recv <= stream[s][j].recv
  /\ task[s] = "publishing" =>
       \A i \in 1..Len(stream[s]) : stream[s][i].recv <= lastRecv[s]

LEMMA StampsAreNumbers ==
  ASSUME IInv, NEW s \in Symbols
  PROVE  /\ clock \in Nat /\ lastRecv[s] \in Nat
         /\ Len(stream[s]) \in Nat
         /\ \A i \in 1..Len(stream[s]) : stream[s][i].recv \in Nat
<1>1. Times \subseteq Nat
  BY DEF Times
<1>2. /\ Len(stream[s]) \in Nat
      /\ \A i \in 1..Len(stream[s]) : stream[s][i] \in Tick
  BY DEF IInv, TypeOK
<1>3. \A i \in 1..Len(stream[s]) : stream[s][i].recv \in Nat
  BY <1>1, <1>2 DEF Tick
<1>4. clock \in Nat /\ lastRecv[s] \in Nat
  BY <1>1 DEF IInv, TypeOK
<1> QED
  BY <1>2, <1>3, <1>4

(* The clock moves, and the symbol's task, stamp and stream do not. *)
LEMMA RecvFrame ==
  ASSUME IInv, NEW s \in Symbols, RecvInv(s), IInv', clock <= clock',
         lastRecv'[s] = lastRecv[s], stream'[s] = stream[s],
         task'[s] = "publishing" => task[s] = "publishing"
  PROVE  RecvInv(s)'
<1>1. clock \in Nat /\ clock' \in Nat
  BY StampsAreNumbers DEF IInv, TypeOK, Times
<1>2. \A x \in Nat : x <= clock => x <= clock'
  BY <1>1
<1> QED
  BY <1>2, StampsAreNumbers DEF RecvInv

(* The reading is later than every stamp there is, and becomes the stamp. *)
LEMMA GenerateRecv ==
  ASSUME IInv, NEW s \in Symbols, RecvInv(s), Generate(s), ~ClockStepsBack
  PROVE  RecvInv(s)'
<1>1. clock' \in Nat /\ clock <= clock'
  BY DEF Generate, Times
<1>2. lastRecv'[s] = clock'
  BY <1>1, StampsAreNumbers DEF Generate, Stamp, RecvInv, IInv, TypeOK
<1>3. stream' = stream
  BY DEF Generate
<1>4. \A x \in Nat : x <= clock => x <= clock'
  BY <1>1, StampsAreNumbers
<1> QED
  BY <1>1, <1>2, <1>3, <1>4, StampsAreNumbers DEF RecvInv

(* The tick stored carries the stamp in hand. *)
LEMMA AppendRecv ==
  ASSUME IInv, NEW s \in Symbols, RecvInv(s), BusAppends(s)
  PROVE  RecvInv(s)'
<1> DEFINE n == Len(stream[s])
<1>1. /\ pending[s] \in Tick /\ pending[s].recv = lastRecv[s]
      /\ task[s] = "publishing"
  BY DEF BusAppends, IInv, SymbolInv, WhilePublishing
<1>2. /\ stream[s] \in Seq(Tick)
      /\ stream'[s] = Append(stream[s], pending[s])
      /\ UNCHANGED <<clock, lastRecv>>
  BY DEF BusAppends, IInv, TypeOK
<1>3. /\ n \in Nat /\ Len(stream'[s]) = n + 1
      /\ \A i \in 1..n : stream'[s][i] = stream[s][i]
      /\ stream'[s][n + 1].recv = lastRecv[s]
  BY <1>1, <1>2
<1>4. \A i \in 1..n : stream[s][i].recv <= lastRecv[s]
  BY <1>1 DEF RecvInv
<1>5. \A i \in 1..(n + 1) :
        stream'[s][i].recv <= clock /\ stream'[s][i].recv <= lastRecv[s]
  <2>1. ASSUME NEW i \in 1..n
        PROVE  stream'[s][i].recv <= clock /\ stream'[s][i].recv <= lastRecv[s]
    BY <1>3, <1>4, <2>1 DEF RecvInv
  <2>2. lastRecv[s] <= clock /\ lastRecv[s] <= lastRecv[s]
    BY StampsAreNumbers DEF RecvInv
  <2> QED
    BY <1>3, <2>1, <2>2
<1>6. ASSUME NEW i \in 1..(n + 1), NEW j \in 1..(n + 1), i < j
      PROVE  stream'[s][i].recv <= stream'[s][j].recv
  <2>1. i \in 1..n
    BY <1>3, <1>6
  <2>2. CASE j \in 1..n
    BY <1>3, <1>6, <2>1, <2>2 DEF RecvInv
  <2>3. CASE j = n + 1
    BY <1>3, <1>5, <2>3
  <2> QED
    BY <1>3, <2>2, <2>3
<1>7. lastRecv[s] <= clock
  BY DEF RecvInv
<1> QED
  BY <1>2, <1>3, <1>5, <1>6, <1>7 DEF RecvInv

(* Fresh tasks start from no stamp. *)
LEMMA FreshRecv ==
  ASSUME IInv, NEW s \in Symbols, RecvInv(s), LoadOk \/ Crash \/ Exit
  PROVE  RecvInv(s)'
<1>1. /\ lastRecv'[s] = 0 /\ task'[s] # "publishing"
      /\ UNCHANGED <<clock, stream>>
  BY DEF LoadOk, Crash, Exit, FreshTasks, NoTasks
<1>2. 0 <= clock
  BY StampsAreNumbers
<1> QED
  BY <1>1, <1>2 DEF RecvInv

LEMMA RecvPreserved ==
  ASSUME IInv, NEW s \in Symbols, RecvInv(s), [Next]_vars, ~ClockStepsBack
  PROVE  RecvInv(s)'
<1>1. IInv' /\ clock <= clock
  BY NextIInv, StampsAreNumbers
<1>2. CASE LoadOk \/ Crash \/ Exit
  BY <1>2, FreshRecv
<1>3. CASE \/ Start \/ Terminate \/ PingOk \/ PingFails \/ RetryPing
           \/ LoadRaises \/ GatherReturns \/ GatherRaises
  <2>1. UNCHANGED <<taskVars, clock, stream>>
    BY <1>3 DEF Start, Terminate, PingOk, PingFails, RetryPing, LoadRaises,
                GatherReturns, GatherRaises
  <2> QED
    BY <1>1, <2>1, RecvFrame DEF taskVars
<1>4. CASE Generate(s)
  BY <1>4, GenerateRecv
<1>5. CASE BusAppends(s)
  BY <1>5, AppendRecv
<1>6. CASE \/ LeaveLoop(s) \/ GenerateRaises(s) \/ PublishReturns(s)
           \/ ConnectionBreaks(s) \/ BusRejects(s)
  <2>1. /\ UNCHANGED <<lastRecv, clock, stream>>
        /\ task'[s] = "publishing" => task[s] = "publishing"
    BY <1>6 DEF LeaveLoop, GenerateRaises, PublishReturns, ConnectionBreaks,
                BusRejects, Fails, IInv, TypeOK
  <2> QED
    BY <1>1, <2>1, RecvFrame
<1>7. ASSUME NEW q \in Symbols, q # s, TaskStep(q) \/ BusStep(q)
      PROVE  RecvInv(s)'
  <2>1. clock <= clock'
    BY <1>1, <1>7 DEF TaskStep, BusStep, LeaveLoop, Generate, GenerateRaises,
      BusAppends, PublishReturns, ConnectionBreaks, BusRejects, Fails
  <2> QED
    BY <1>1, <1>7, <2>1, OthersRest, RecvFrame
<1>8. CASE UNCHANGED vars
  BY <1>1, <1>8, RecvFrame DEF vars, taskVars
<1> QED
  BY <1>2, <1>3, <1>4, <1>5, <1>6, <1>7, <1>8
  DEF Next, MainStep, TaskStep, BusStep

(* When the wall clock is not set back, recv_ts never decreases on a       *)
(* stream, across restarts and sessions ("monotonic non-decreasing per     *)
(* (provider, symbol)", contracts/wire/tick.schema.json).                  *)
THEOREM RecvIsMonotonic == ~ClockStepsBack /\ Spec => []RecvNeverGoesBack
<1> SUFFICES ASSUME ~ClockStepsBack PROVE Spec => []RecvNeverGoesBack
  OBVIOUS
<1> DEFINE Inv == IInv /\ \A s \in Symbols : RecvInv(s)
<1>1. Init => Inv
  BY InitIInv DEF Init, NoTasks, RecvInv
<1>2. Inv /\ [Next]_vars => Inv'
  BY NextIInv, RecvPreserved
<1>3. Inv => RecvNeverGoesBack
  BY DEF RecvInv, RecvNeverGoesBack, Log!RecvNeverGoesBack
<1> QED
  BY <1>1, <1>2, <1>3, PTL DEF Spec

-----------------------------------------------------------------------------
LEMMA StepsExtendLog == IInv /\ [Next]_vars => [Log!Next]_stream
<1> SUFFICES ASSUME IInv, Next, stream' # stream PROVE Log!Next
  BY DEF vars
<1>1. PICK s \in Symbols : BusAppends(s)
  BY DEF Next, MainStep, TaskStep, BusStep, Start, Terminate, Crash, PingOk,
         PingFails, RetryPing, LoadOk, LoadRaises, GatherReturns,
         GatherRaises, Exit, LeaveLoop, Generate, GenerateRaises, TakeSeq, Fails,
         PublishReturns, ConnectionBreaks, BusRejects
<1> QED
  BY <1>1, AppendStep DEF Log!Next

(* The adapter implements the tick log: every step of it either leaves the *)
(* streams alone, or stores the next tick of a session, the first tick of  *)
(* a new one, or the newest tick again.                                    *)
THEOREM Refinement == Spec => RefinesTickLog
<1>1. Init => Log!Init
  BY DEF Init, Log!Init
<1> QED
  BY <1>1, StepsExtendLog, Invariance, PTL DEF Spec, RefinesTickLog, Log!Spec

LogTheorems == INSTANCE TickLogProofs WITH log <- stream

(* Hence the streams are well formed whatever crashes, restarts, retries   *)
(* and clock steps happen.                                                 *)
THEOREM StreamsWellFormed == Spec => []StreamWellFormed
<1>1. Seqs \subseteq Nat /\ Times \subseteq Nat
  BY ConstantsAssumption DEF Seqs, Times
<1>2. LogTheorems!Spec => [](LogTheorems!TypeOK /\ LogTheorems!WellFormed)
  BY <1>1, LogTheorems!LogWellFormed DEF LogTheorems!NumbersAreNatural
<1>3. Log!Init => LogTheorems!Init
  BY DEF Log!Init, LogTheorems!Init
<1>4. [Log!Next]_stream => [LogTheorems!Next]_stream
  BY DEF Log!Next, Log!Publish, Log!Tick, Log!StartsSession, Log!SessionsIn,
         Log!ContinuesSession, Log!RepeatsNewest, Log!Newest,
         LogTheorems!Next, LogTheorems!Publish, LogTheorems!Tick,
         LogTheorems!StartsSession, LogTheorems!SessionsIn,
         LogTheorems!ContinuesSession, LogTheorems!RepeatsNewest,
         LogTheorems!Newest
<1>5. LogTheorems!WellFormed => Log!WellFormed
  BY DEF Log!WellFormed, Log!Gapless, Log!SessionsContiguous,
         Log!OrderedInSession, Log!KeyNamesOneTick,
         LogTheorems!WellFormed, LogTheorems!Gapless,
         LogTheorems!SessionsContiguous, LogTheorems!OrderedInSession,
         LogTheorems!KeyNamesOneTick
<1> QED
  BY <1>2, <1>3, <1>4, <1>5, Refinement, PTL
  DEF RefinesTickLog, StreamWellFormed, Log!Spec, LogTheorems!Spec

-----------------------------------------------------------------------------
(* How often one tick can be on its stream.                                *)

(* Two entries further apart than the client repeats a command are not     *)
(* copies of each other; hence there are at most Retries + 1 of any tick.  *)
CopiesBounded ==
  \A s \in Symbols : \A i, j \in 1..Len(stream[s]) :
     i + Retries < j => stream[s][i] # stream[s][j]

Applied(s) == IF wire[s] = "applied" THEN 1 ELSE 0

(* While a tick is published, its copies are among the newest entries, one *)
(* for each time its command was on the wire.                              *)
CopiesInv(s) ==
  /\ \A i, j \in 1..Len(stream[s]) :
       i + Retries < j => stream[s][i] # stream[s][j]
  /\ task[s] = "publishing" =>
       \A i \in 1..Len(stream[s]) :
          i <= Len(stream[s]) - attempt[s] - Applied(s)
            => stream[s][i] # pending[s]

LEMMA CopiesFrame ==
  ASSUME NEW s \in Symbols, CopiesInv(s), stream'[s] = stream[s],
         task'[s] = "publishing" =>
           /\ task[s] = "publishing" /\ pending'[s] = pending[s]
           /\ attempt'[s] = attempt[s] /\ wire'[s] = wire[s]
  PROVE  CopiesInv(s)'
BY DEF CopiesInv, Applied

(* No entry carries the seq that was just taken. *)
LEMMA GenerateIsNew ==
  ASSUME IInv, StreamWellFormed, NEW s \in Symbols, Generate(s),
         NEW i \in 1..Len(stream[s])
  PROVE  stream[s][i] # pending'[s]
<1>1. /\ pending'[s].session = session /\ pending'[s].seq = nextSeq[s]
      /\ task[s] \in {"created", "sleeping"}
  BY DEF Generate, Awake, IInv, TypeOK
<1>2. BetweenTicks(s)
  BY DEF IInv, SymbolInv
<1>3. CASE nextSeq[s] = 0
  <2>1. session \notin Log!SessionsIn(s)
    BY <1>1, <1>2, <1>3 DEF BetweenTicks
  <2>2. stream[s][i].session # session
    BY <2>1 DEF Log!SessionsIn
  <2> QED
    BY <1>1, <2>2
<1>4. CASE nextSeq[s] # 0
  <2> DEFINE n == Len(stream[s])
  <2>1. /\ stream[s][n].session = session /\ stream[s][n].seq = nextSeq[s] - 1
    BY <1>1, <1>2, <1>4 DEF BetweenTicks, Log!Newest
  <2>2. n \in Nat /\ i \in 1..n /\ n \in 1..n
    BY DEF IInv, TypeOK
  <2>3. nextSeq[s] \in Nat /\ stream[s][i].seq \in Nat
    <3>1. stream[s][i] \in Tick /\ nextSeq[s] \in 0..SeqBound
      BY DEF IInv, TypeOK
    <3>2. Seqs \subseteq Nat
      BY DEF Seqs
    <3>3. stream[s][i].seq \in Nat
      BY <3>1, <3>2 DEF Tick
    <3>4. nextSeq[s] \in Nat
      BY <3>1, ConstantsAssumption
    <3> QED
      BY <3>3, <3>4
  <2>4. stream[s][i].session = session => stream[s][i].seq <= nextSeq[s] - 1
    <3>1. CASE i = n
      BY <2>1, <2>3, <3>1
    <3>2. CASE i # n
      <4>1. i < n
        BY <2>2, <3>2
      <4> QED
        BY <2>1, <2>2, <4>1
        DEF StreamWellFormed, Log!WellFormed, Log!OrderedInSession
    <3> QED
      BY <3>1, <3>2
  <2>5. stream[s][i].session = session => stream[s][i].seq # nextSeq[s]
    BY <2>3, <2>4
  <2> QED
    BY <1>1, <2>5
<1> QED
  BY <1>3, <1>4

LEMMA GenerateCopies ==
  ASSUME IInv, StreamWellFormed, NEW s \in Symbols, CopiesInv(s), Generate(s)
  PROVE  CopiesInv(s)'
<1>1. stream' = stream
  BY DEF Generate
<1> QED
  BY <1>1, GenerateIsNew DEF CopiesInv

(* The bus stores one more copy than the command was repeated before. *)
LEMMA AppendCopies ==
  ASSUME IInv, NEW s \in Symbols, CopiesInv(s), BusAppends(s)
  PROVE  CopiesInv(s)'
<1> DEFINE n == Len(stream[s])
<1>1. /\ task[s] = "publishing" /\ wire[s] = "sent"
      /\ wire' = [wire EXCEPT ![s] = "applied"]
      /\ stream' = [stream EXCEPT ![s] = Append(@, pending[s])]
      /\ UNCHANGED <<task, pending, attempt>>
  BY DEF BusAppends
<1>2. pending[s] \in Tick
  BY <1>1 DEF IInv, SymbolInv, WhilePublishing
<1>3. /\ stream[s] \in Seq(Tick) /\ wire'[s] = "applied"
      /\ stream'[s] = Append(stream[s], pending[s])
  BY <1>1 DEF IInv, TypeOK
<1>4. /\ n \in Nat /\ Len(stream'[s]) = n + 1
      /\ \A i \in 1..n : stream'[s][i] = stream[s][i]
      /\ stream'[s][n + 1] = pending[s]
  BY <1>2, <1>3
<1>5. /\ Retries \in Nat /\ attempt[s] \in Nat /\ attempt[s] <= Retries
      /\ attempt'[s] = attempt[s] /\ pending'[s] = pending[s]
  BY <1>1, ConstantsAssumption DEF IInv, TypeOK
<1>6. Applied(s) = 0 /\ Applied(s)' = 1
  BY <1>1, <1>3 DEF Applied
<1>7. ASSUME NEW i \in 1..n, i <= n - attempt[s]
      PROVE  stream[s][i] # pending[s]
  BY <1>1, <1>4, <1>5, <1>6, <1>7 DEF CopiesInv
<1>8. ASSUME NEW i \in 1..(n + 1), NEW j \in 1..(n + 1), i + Retries < j
      PROVE  stream'[s][i] # stream'[s][j]
  <2>1. i \in 1..n
    BY <1>4, <1>5, <1>8
  <2>2. CASE j \in 1..n
    BY <1>4, <1>8, <2>1, <2>2 DEF CopiesInv
  <2>3. CASE j = n + 1
    <3>1. i <= n - attempt[s]
      BY <1>4, <1>5, <1>8, <2>3
    <3> QED
      BY <1>4, <1>7, <2>1, <2>3, <3>1
  <2> QED
    BY <1>4, <2>2, <2>3
<1>9. ASSUME NEW i \in 1..Len(stream'[s]),
             i <= Len(stream'[s]) - attempt'[s] - Applied(s)'
      PROVE  stream'[s][i] # pending'[s]
  <2>1. i \in 1..n /\ i <= n - attempt[s]
    BY <1>4, <1>5, <1>6, <1>9
  <2> QED
    BY <1>4, <1>5, <1>7, <2>1
<1>10. \A i, j \in 1..Len(stream'[s]) :
         i + Retries < j => stream'[s][i] # stream'[s][j]
  BY <1>4, <1>8
<1> QED
  BY <1>9, <1>10 DEF CopiesInv

LEMMA RetryCopies ==
  ASSUME IInv, NEW s \in Symbols, CopiesInv(s), ConnectionBreaks(s),
         attempt[s] < Retries
  PROVE  CopiesInv(s)'
<1>1. /\ Retries \in Nat /\ attempt[s] \in Nat /\ Len(stream[s]) \in Nat
      /\ attempt[s] # Retries
  BY ConstantsAssumption DEF IInv, TypeOK
<1>2. /\ task[s] = "publishing"
      /\ attempt' = [attempt EXCEPT ![s] = @ + 1]
      /\ wire' = [wire EXCEPT ![s] = "sent"]
      /\ UNCHANGED <<task, pending, stream>>
  BY <1>1, Zenon DEF ConnectionBreaks
<1>3. attempt'[s] = attempt[s] + 1 /\ wire'[s] = "sent"
  BY <1>2 DEF IInv, TypeOK
<1>4. Applied(s) \in {0, 1} /\ Applied(s)' = 0
  BY <1>3 DEF Applied
<1>5. ASSUME NEW i \in 1..Len(stream[s]),
             i <= Len(stream[s]) - (attempt[s] + 1) - 0
      PROVE  i <= Len(stream[s]) - attempt[s] - Applied(s)
  BY <1>1, <1>4, <1>5
<1> QED
  BY <1>2, <1>3, <1>4, <1>5 DEF CopiesInv

LEMMA CopiesPreserved ==
  ASSUME IInv, StreamWellFormed, NEW s \in Symbols, CopiesInv(s), [Next]_vars
  PROVE  CopiesInv(s)'
<1>1. CASE LoadOk \/ Crash \/ Exit
  <2>1. task'[s] # "publishing" /\ stream' = stream
    BY <1>1 DEF LoadOk, Crash, Exit, FreshTasks, NoTasks
  <2> QED
    BY <2>1, CopiesFrame
<1>2. CASE \/ Start \/ Terminate \/ PingOk \/ PingFails \/ RetryPing
           \/ LoadRaises \/ GatherReturns \/ GatherRaises
           \/ UNCHANGED vars
  <2>1. UNCHANGED <<taskVars, stream>>
    BY <1>2 DEF Start, Terminate, PingOk, PingFails, RetryPing, LoadRaises,
                GatherReturns, GatherRaises, vars
  <2> QED
    BY <2>1, CopiesFrame DEF taskVars
<1>3. CASE Generate(s)
  BY <1>3, GenerateCopies
<1>4. CASE BusAppends(s)
  BY <1>4, AppendCopies
<1>5. CASE ConnectionBreaks(s) /\ attempt[s] < Retries
  BY <1>5, RetryCopies
<1>6. CASE \/ LeaveLoop(s) \/ GenerateRaises(s) \/ PublishReturns(s)
           \/ BusRejects(s)
           \/ ConnectionBreaks(s) /\ ~(attempt[s] < Retries)
  <2>1. task'[s] # "publishing" /\ stream' = stream
    BY <1>6 DEF LeaveLoop, GenerateRaises, PublishReturns, ConnectionBreaks,
                BusRejects, Fails, IInv, TypeOK
  <2> QED
    BY <2>1, CopiesFrame
<1>7. ASSUME NEW q \in Symbols, q # s, TaskStep(q) \/ BusStep(q)
      PROVE  CopiesInv(s)'
  BY <1>7, OthersRest, CopiesFrame
<1> QED
  BY <1>1, <1>2, <1>3, <1>4, <1>5, <1>6, <1>7
  DEF Next, MainStep, TaskStep, BusStep

(* However often connections break, and whatever the clock does, the bus   *)
(* holds no more copies of a tick than the client may send of its command. *)
THEOREM CopiesAreBounded == Spec => []CopiesBounded
<1> DEFINE Inv == \A s \in Symbols : CopiesInv(s)
<1>1. Init => Inv
  <2> SUFFICES ASSUME Init, NEW s \in Symbols PROVE CopiesInv(s)
    OBVIOUS
  <2>1. Len(stream[s]) = 0 /\ task[s] # "publishing"
    BY DEF Init, NoTasks
  <2> QED
    BY <2>1 DEF CopiesInv
<1>2. IInv /\ StreamWellFormed /\ Inv /\ [Next]_vars => Inv'
  BY CopiesPreserved
<1>3. Inv => CopiesBounded
  BY DEF CopiesInv, CopiesBounded
<1> QED
  BY <1>1, <1>2, <1>3, Invariance, StreamsWellFormed, PTL DEF Spec

-----------------------------------------------------------------------------
(* A consumer of the adapter's streams.                                    *)

(* To the consumer, a step of the adapter publishes one tick, as TickLog   *)
(* allows, or is none.                                                     *)
LEMMA AdapterProduces ==
  ASSUME DeliveryAssumption, IInv, IInv', AdapterStep
  PROVE  Consumer!Produce \/ UNCHANGED <<stream, consumerVars>>
<1> SUFFICES ASSUME stream' # stream
             PROVE  Consumer!Produce
  BY DEF AdapterStep
<1>1. PICK s \in Symbols, t \in Log!Tick : Log!Publish(s, t)
  BY StepsExtendLog DEF AdapterStep, Log!Next
<1>2. Len(stream[s]) < MaxLength
  <2>1. Len(stream'[s]) = Len(stream[s]) + 1 /\ Len(stream[s]) \in Nat
    BY <1>1 DEF IInv, TypeOK, Log!Publish, Log!Tick, Tick
  <2> QED
    BY <2>1 DEF AdapterStep, DeliveryAssumption, Consumer!ConsumerAssumption
<1>3. t \in Consumer!Log!Tick /\ Consumer!Log!Publish(s, t)
  BY <1>1 DEF Log!Tick, Consumer!Log!Tick, Log!Publish, Consumer!Log!Publish,
     Log!StartsSession, Log!SessionsIn, Log!ContinuesSession,
     Log!RepeatsNewest, Log!Newest, Consumer!Log!StartsSession,
     Consumer!Log!SessionsIn, Consumer!Log!ContinuesSession,
     Consumer!Log!RepeatsNewest, Consumer!Log!Newest
<1> QED
  BY <1>2, <1>3
  DEF Consumer!Produce, AdapterStep, Consumer!consumer, consumerVars

LEMMA DeliveryStep ==
  ASSUME DeliveryAssumption, IInv, IInv', [DeliveryNext]_deliveryVars
  PROVE  [Consumer!Next]_Consumer!vars
<1>1. CASE AdapterStep
  BY <1>1, AdapterProduces DEF Consumer!Next, Consumer!vars, consumerVars
<1>2. CASE ConsumerStep
  BY <1>2 DEF ConsumerStep, Consumer!Next
<1>3. CASE UNCHANGED deliveryVars
  BY <1>3 DEF deliveryVars, vars, consumerVars, Consumer!vars
<1> QED
  BY <1>1, <1>2, <1>3 DEF DeliveryNext

(* What a consumer of the adapter sees is what DeliveryTracker's consumer  *)
(* sees: its assumption on the producer is discharged.                     *)
THEOREM DeliveryRefinement ==
  ASSUME DeliveryAssumption PROVE DeliverySpec => Consumer!Spec
<1>1. DeliveryInit => Init /\ Consumer!Init
  BY DEF DeliveryInit
<1>2. [DeliveryNext]_deliveryVars => [Next]_vars
  BY DEF DeliveryNext, AdapterStep, ConsumerStep, deliveryVars
<1>3. IInv /\ IInv' /\ [DeliveryNext]_deliveryVars
        => [Consumer!Next]_Consumer!vars
  BY DeliveryStep
<1> QED
  BY <1>1, <1>2, <1>3, Invariance, PTL DEF DeliverySpec, Spec, Consumer!Spec

Tracked == INSTANCE DeliveryTrackerProofs WITH log <- stream

(* The same definitions, by either name. *)
LEMMA SameConsumer ==
  /\ Consumer!Init <=> Tracked!Init
  /\ [Consumer!Next]_Consumer!vars <=> [Tracked!Next]_Tracked!vars
<1>1. Consumer!Init <=> Tracked!Init
  BY DEF Consumer!Init, Tracked!Init, Consumer!Log!Init, Tracked!Log!Init
<1>2. Consumer!vars = Tracked!vars /\ Consumer!consumer = Tracked!consumer
  BY DEF Consumer!vars, Tracked!vars, Consumer!consumer, Tracked!consumer
<1>3. Consumer!Produce <=> Tracked!Produce
  BY DEF Consumer!Produce, Tracked!Produce, Consumer!consumer,
         Tracked!consumer, Consumer!Log!Tick, Tracked!Log!Tick,
         Consumer!Log!Publish, Tracked!Log!Publish, Consumer!Log!StartsSession,
         Tracked!Log!StartsSession, Consumer!Log!SessionsIn,
         Tracked!Log!SessionsIn, Consumer!Log!ContinuesSession,
         Tracked!Log!ContinuesSession, Consumer!Log!RepeatsNewest,
         Tracked!Log!RepeatsNewest, Consumer!Log!Newest, Tracked!Log!Newest
<1>4. Consumer!Restart <=> Tracked!Restart
  BY DEF Consumer!Restart, Tracked!Restart
<1>5. ASSUME NEW s \in Symbols
      PROVE  /\ Consumer!Read(s) <=> Tracked!Read(s)
             /\ Consumer!Replay(s) <=> Tracked!Replay(s)
             /\ Consumer!Trim(s) <=> Tracked!Trim(s)
  BY DEF Consumer!Read, Tracked!Read, Consumer!Replay, Tracked!Replay,
         Consumer!Trim, Tracked!Trim, Consumer!Observe, Tracked!Observe,
         Consumer!First, Tracked!First, Consumer!SessionChange,
         Tracked!SessionChange, Consumer!Duplicate, Tracked!Duplicate,
         Consumer!NextOrGap, Tracked!NextOrGap, Consumer!Advance,
         Tracked!Advance, Consumer!Key, Tracked!Key
<1>6. UNCHANGED Consumer!vars <=> UNCHANGED Tracked!vars
  BY DEF Consumer!vars, Tracked!vars
<1> QED
  BY <1>1, <1>3, <1>4, <1>5, <1>6 DEF Consumer!Next, Tracked!Next

LEMMA SamePromises ==
  /\ Tracked!NothingDropped => Consumer!NothingDropped
  /\ Tracked!AcceptedOnce => Consumer!AcceptedOnce
  /\ Tracked!AlarmIsExact => Consumer!AlarmIsExact
  /\ Tracked!LossIsReal => Consumer!LossIsReal
<1>1. Tracked!NothingDropped => Consumer!NothingDropped
  BY DEF Consumer!NothingDropped, Tracked!NothingDropped,
         Consumer!Accepted, Tracked!Accepted, Consumer!Key, Tracked!Key
<1>2. Tracked!AcceptedOnce => Consumer!AcceptedOnce
  BY DEF Consumer!AcceptedOnce, Tracked!AcceptedOnce
<1>3. \A s \in Symbols : Tracked!Lost(s) = Consumer!Lost(s)
  BY DEF Consumer!Lost, Tracked!Lost, Consumer!Accepted, Tracked!Accepted,
         Consumer!Mark, Tracked!Mark
<1>4. Tracked!AlarmIsExact => Consumer!AlarmIsExact
  BY <1>3 DEF Consumer!AlarmIsExact, Tracked!AlarmIsExact,
              Consumer!Cardinality, Tracked!Cardinality
<1>5. Tracked!LossIsReal => Consumer!LossIsReal
  BY <1>3 DEF Consumer!LossIsReal, Tracked!LossIsReal, Consumer!Key,
              Tracked!Key
<1> QED
  BY <1>1, <1>2, <1>4, <1>5

LEMMA TrackerTheorems ==
  ASSUME DeliveryAssumption
  PROVE  /\ DeliverySpec => Tracked!Spec
         /\ Tracked!ConsumerAssumption /\ Tracked!UnseenAssumption
<1>1. Tracked!ConsumerAssumption /\ Tracked!UnseenAssumption
  BY DEF DeliveryAssumption, Consumer!ConsumerAssumption, Tracked!ConsumerAssumption,
         Consumer!UnseenAssumption, Tracked!UnseenAssumption, Consumer!Mark,
         Tracked!Mark
<1>2. Consumer!Spec => Tracked!Spec
  BY SameConsumer, PTL DEF Consumer!Spec, Tracked!Spec
<1> QED
  BY <1>1, <1>2, DeliveryRefinement, PTL

(* The tracker over the adapter's own streams, whatever the adapter's      *)
(* restarts, repeated commands and clock and the consumer's restarts and   *)
(* replays: no tick the consumer has not been given is called a duplicate. *)
THEOREM NoTickIsDropped ==
  ASSUME DeliveryAssumption PROVE DeliverySpec => []Consumer!NothingDropped
<1>1. Tracked!Spec => []Tracked!NothingDropped
  BY TrackerTheorems, Tracked!NothingIsDropped, PTL
<1> QED
  BY <1>1, TrackerTheorems, SamePromises, PTL

(* And when replays stay inside a session: no tick is handed on twice, and *)
(* the alarms count exactly the ticks trimmed before they were read, so no *)
(* crash, restart or repeated command of the adapter is taken for a loss.  *)
THEOREM LossesAreCounted ==
  ASSUME DeliveryAssumption, ~ReplayCrossesSessions
  PROVE  DeliverySpec => [](/\ HandedOnOnce
                            /\ Consumer!AlarmIsExact
                            /\ Consumer!LossIsReal)
<1>1. Tracked!Spec => []Tracked!AcceptedOnce
  BY TrackerTheorems, Tracked!NothingIsRepeated, PTL
<1>2. Tracked!Spec => []Tracked!AlarmIsExact
  BY TrackerTheorems, Tracked!AlarmCountsLosses, PTL
<1>3. Tracked!Spec => []Tracked!LossIsReal
  BY TrackerTheorems, Tracked!LossesAreReal, PTL
<1>4. Consumer!AcceptedOnce => HandedOnOnce
  BY DEF HandedOnOnce
<1> QED
  BY <1>1, <1>2, <1>3, <1>4, TrackerTheorems, SamePromises, PTL
=============================================================================
