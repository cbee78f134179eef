----------------------------- MODULE FeedAdapter -----------------------------
(***************************************************************************)
(* The synthetic feed adapter: the process that pings Redis, loads the     *)
(* calibration, and runs one generation task per symbol, each publishing   *)
(* to its own stream until a signal stops them or one of them fails.       *)
(*                                                                         *)
(* One action is what the event loop runs between two awaits.  The Redis   *)
(* client and server are external: a command on the wire is applied at     *)
(* most once per attempt, and the client retries a lost connection, so a   *)
(* command whose reply was lost is applied again.                          *)
(***************************************************************************)
EXTENDS Integers, Sequences

CONSTANTS
  Symbols,         \* symbols the calibration store may hold
  Requested,       \* the `symbols` argument of each feed: a set, or AllStored
  AllStored,
  MaxTicks,        \* each feed's `max_ticks_per_symbol`: a number, or Unlimited
  Unlimited,
  Retries,         \* how often the client repeats a command
  ClockStepsBack,  \* may the wall clock be set back between two readings?
  NoTick,          \* no tick in hand
  MaxSessions,     \* bound: feeds started
  SeqBound,        \* bound: ticks generated per symbol and session
  MaxClock         \* bound: wall-clock readings

ASSUME ConstantsAssumption ==
  /\ \A n \in 1..MaxSessions :
       /\ Requested[n] # AllStored =>
            (Requested[n] \subseteq Symbols /\ Requested[n] # {})
       /\ MaxTicks[n] # Unlimited => MaxTicks[n] \in Nat
  /\ Retries \in Nat /\ MaxSessions \in Nat /\ SeqBound \in Nat
  /\ MaxClock \in Nat
  /\ ClockStepsBack \in BOOLEAN

Sessions == 1..MaxSessions
Seqs     == 0..(SeqBound - 1)
Times    == 0..MaxClock
Tick     == [session : Sessions, seq : Seqs, recv : Times]

ASSUME NoTickAssumption == NoTick \notin Tick

Dependencies == {"redis", "calibration"}

VARIABLES
  phase,      \* where the main coroutine is
  stop,       \* the shutdown event
  ready,      \* dependencies `/ready` reports connected
  exit,       \* how the run ended, or is ending
  session,    \* the current FeedSession, numbered by construction
  nextSeq,    \* FeedSession's counter, per symbol
  task,       \* what each symbol's task is doing
  published,  \* `published`, local to each task
  lastRecv,   \* `last_recv_ts`, local to each task
  pending,    \* the tick each task awaits the publication of
  attempt,    \* repetitions of the pending command so far
  wire,       \* the pending command as the bus sees it
  clock,      \* the last reading of the wall clock
  stream      \* the raw-tick streams, which survive the process

taskVars == <<nextSeq, task, published, lastRecv, pending, attempt, wire>>
vars == <<phase, stop, ready, exit, session, taskVars, clock, stream>>

TypeOK ==
  /\ phase \in {"down", "pinging", "backoff", "loading", "feeding", "closing"}
  /\ stop \in BOOLEAN
  /\ ready \subseteq Dependencies
  /\ exit \in {"none", "clean", "error", "killed"}
  /\ session \in 0..MaxSessions
  /\ nextSeq \in [Symbols -> 0..SeqBound]
  /\ task \in [Symbols -> {"none", "created", "publishing", "sleeping",
                           "done", "failed"}]
  /\ published \in [Symbols -> 0..SeqBound]
  /\ lastRecv \in [Symbols -> Times]
  /\ pending \in [Symbols -> Tick \cup {NoTick}]
  /\ attempt \in [Symbols -> 0..Retries]
  /\ wire \in [Symbols -> {"idle", "sent", "applied"}]
  /\ clock \in Times
  /\ stream \in [Symbols -> Seq(Tick)]

-----------------------------------------------------------------------------
(* Mutant: the counters of the last feed live on in the next. *)
FreshTasks_SeqsKept(state) ==
  /\ task'      = state
  /\ published' = [s \in Symbols |-> 0]
  /\ lastRecv'  = [s \in Symbols |-> 0]
  /\ pending'   = [s \in Symbols |-> NoTick]
  /\ attempt'   = [s \in Symbols |-> 0]
  /\ wire'      = [s \in Symbols |-> "idle"]
  /\ UNCHANGED nextSeq

(* Every task in the given state, with fresh locals and nothing in flight. *)
FreshTasks(state) ==
  /\ task'      = state
  /\ nextSeq'   = [s \in Symbols |-> 0]
  /\ published' = [s \in Symbols |-> 0]
  /\ lastRecv'  = [s \in Symbols |-> 0]
  /\ pending'   = [s \in Symbols |-> NoTick]
  /\ attempt'   = [s \in Symbols |-> 0]
  /\ wire'      = [s \in Symbols |-> "idle"]

NoTasks == [s \in Symbols |-> "none"]

Init ==
  /\ phase = "down" /\ stop = FALSE /\ ready = {} /\ exit = "none"
  /\ session = 0
  /\ task = NoTasks
  /\ nextSeq = [s \in Symbols |-> 0]
  /\ published = [s \in Symbols |-> 0]
  /\ lastRecv = [s \in Symbols |-> 0]
  /\ pending = [s \in Symbols |-> NoTick]
  /\ attempt = [s \in Symbols |-> 0]
  /\ wire = [s \in Symbols |-> "idle"]
  /\ clock = 0
  /\ stream = [s \in Symbols |-> <<>>]

-----------------------------------------------------------------------------
(* The container runtime starts, signals and kills the process.            *)

(* A fresh process: no stop, nothing connected, awaiting the first ping. *)
Start ==
  /\ phase = "down"
  /\ phase' = "pinging"
  /\ stop' = FALSE /\ ready' = {} /\ exit' = "none"
  /\ UNCHANGED <<session, taskVars, clock, stream>>

Terminate ==
  /\ phase # "down" /\ ~stop
  /\ stop' = TRUE
  /\ UNCHANGED <<phase, ready, exit, session, taskVars, clock, stream>>

(* The process disappears; a command the bus has not applied goes with it. *)
Crash ==
  /\ phase # "down"
  /\ phase' = "down" /\ exit' = "killed" /\ stop' = FALSE /\ ready' = {}
  /\ FreshTasks(NoTasks)
  /\ UNCHANGED <<session, clock, stream>>

-----------------------------------------------------------------------------
(* wait_for_redis                                                          *)

(* Mutant: the connection is not marked. *)
PingOk_Unmarked ==
  /\ phase = "pinging"
  /\ phase' = IF stop THEN "closing" ELSE "loading"
  /\ exit'  = IF stop THEN "clean" ELSE exit
  /\ UNCHANGED <<ready, stop, session, taskVars, clock, stream>>

(* The ping's own success is recorded even if a stop arrived meanwhile. *)
PingOk ==
  /\ phase = "pinging"
  /\ ready' = ready \cup {"redis"}
  /\ phase' = IF stop THEN "closing" ELSE "loading"
  /\ exit'  = IF stop THEN "clean" ELSE exit
  /\ UNCHANGED <<stop, session, taskVars, clock, stream>>

PingFails ==
  /\ phase = "pinging"
  /\ phase' = "backoff"
  /\ UNCHANGED <<stop, ready, exit, session, taskVars, clock, stream>>

(* Mutant: the loop sleeps again without another ping. *)
RetryPing_SleepsOn ==
  /\ phase = "backoff" /\ stop
  /\ phase' = "closing" /\ exit' = "clean"
  /\ UNCHANGED <<stop, ready, session, taskVars, clock, stream>>

(* Mutant: the loop does not look at `stop`. *)
RetryPing_PingsOn ==
  /\ phase = "backoff"
  /\ phase' = "pinging"
  /\ UNCHANGED <<stop, ready, exit, session, taskVars, clock, stream>>

(* The retry sleep ends, and the loop looks at `stop` again. *)
RetryPing ==
  /\ phase = "backoff"
  /\ phase' = IF stop THEN "closing" ELSE "pinging"
  /\ exit'  = IF stop THEN "clean" ELSE exit
  /\ UNCHANGED <<stop, ready, session, taskVars, clock, stream>>

-----------------------------------------------------------------------------
(* load, the check of the requested symbols, and the start of the feed.    *)
(* `stop` is not looked at here: the tasks find it set.                    *)
LoadOk ==
  /\ phase = "loading"
  /\ session < MaxSessions
  /\ \E calibrated \in SUBSET Symbols \ {{}} :
       LET requested == Requested[session + 1]
           selected  == IF requested = AllStored THEN calibrated ELSE requested
       IN /\ selected \subseteq calibrated
          /\ FreshTasks([s \in Symbols |->
                           IF s \in selected THEN "created" ELSE "none"])
  /\ session' = session + 1
  /\ ready' = ready \cup {"calibration"}
  /\ phase' = "feeding"
  /\ UNCHANGED <<stop, exit, clock, stream>>

(* No usable calibration, a requested symbol without one, or Redis gone. *)
LoadRaises ==
  /\ phase = "loading"
  /\ phase' = "closing" /\ exit' = "error"
  /\ UNCHANGED <<stop, ready, session, taskVars, clock, stream>>

-----------------------------------------------------------------------------
(* _run_symbol                                                             *)

(* Mutant: publish is not awaited. *)
Awake_NotAwaiting(s) == task[s] \in {"created", "publishing", "sleeping"}

Awake(s) == task[s] \in {"created", "sleeping"}

(* Mutant: one tick too many. *)
WantsTicks_OneMore(n) ==
  MaxTicks[session] # Unlimited => n <= MaxTicks[session]

WantsTicks(n) ==
  MaxTicks[session] # Unlimited => n < MaxTicks[session]

(* Mutant: only the number of ticks ends the loop. *)
LoopCondition_IgnoresStop(s) == WantsTicks(published[s])

LoopCondition(s) == ~stop /\ WantsTicks(published[s])

LeaveLoop(s) ==
  /\ Awake(s) /\ ~LoopCondition(s)
  /\ task' = [task EXCEPT ![s] = "done"]
  /\ UNCHANGED <<phase, stop, ready, exit, session, nextSeq, published,
                 lastRecv, pending, attempt, wire, clock, stream>>

(* Mutants: the reading as it is; never the same stamp twice; a stamp      *)
(* counted from the start of the process, as a monotonic clock would.      *)
Stamp_NotClamped(s, now) == now
Stamp_Strict(s, now)     == IF now > lastRecv[s] THEN now ELSE lastRecv[s] + 1
Stamp_SinceStart(s, now) == lastRecv[s] + (now - clock)

(* The receive time: the reading, unless it went back since the last tick. *)
Stamp(s, now) == IF now >= lastRecv[s] THEN now ELSE lastRecv[s]

(* FeedSession.next_seq. *)
TakeSeq(s) ==
  /\ nextSeq[s] < SeqBound
  /\ nextSeq' = [nextSeq EXCEPT ![s] = @ + 1]

(* Draw a quote, stamp it, take the next seq, and start publishing. *)
Generate(s) ==
  /\ Awake(s) /\ LoopCondition(s)
  /\ \E now \in Times :
       /\ ClockStepsBack \/ now >= clock
       /\ clock' = now
       /\ lastRecv' = [lastRecv EXCEPT ![s] = Stamp(s, now)]
  /\ TakeSeq(s)
  /\ pending' = [pending EXCEPT ![s] = [session |-> session,
                                        seq     |-> nextSeq[s],
                                        recv    |-> lastRecv'[s]]]
  /\ task' = [task EXCEPT ![s] = "publishing"]
  /\ attempt' = [attempt EXCEPT ![s] = 0]
  /\ wire' = [wire EXCEPT ![s] = "sent"]
  /\ UNCHANGED <<phase, stop, ready, exit, session, published, stream>>

(* The task ends in an exception, its publication unresolved if it had one. *)
Fails(s) ==
  /\ task' = [task EXCEPT ![s] = "failed"]
  /\ pending' = [pending EXCEPT ![s] = NoTick]
  /\ wire' = [wire EXCEPT ![s] = "idle"]
  /\ UNCHANGED <<phase, stop, ready, exit, session, lastRecv, attempt,
                 clock, stream>>

(* Sampling or rounding raises before the seq is taken; validating the     *)
(* tick or naming its stream raises after.                                 *)
GenerateRaises(s) ==
  /\ Awake(s) /\ LoopCondition(s)
  /\ UNCHANGED nextSeq \/ TakeSeq(s)
  /\ Fails(s)
  /\ UNCHANGED published

-----------------------------------------------------------------------------
(* The XADD of the pending tick.                                           *)

BusAppends(s) ==
  /\ task[s] = "publishing" /\ wire[s] = "sent"
  /\ stream' = [stream EXCEPT ![s] = Append(@, pending[s])]
  /\ wire' = [wire EXCEPT ![s] = "applied"]
  /\ UNCHANGED <<phase, stop, ready, exit, session, nextSeq, task, published,
                 lastRecv, pending, attempt, clock>>

(* publish returns: count it, then sleep, unless it was the last one asked *)
(* for.                                                                    *)
PublishReturns(s) ==
  /\ task[s] = "publishing" /\ wire[s] = "applied"
  /\ published' = [published EXCEPT ![s] = @ + 1]
  /\ \/ /\ task' = [task EXCEPT ![s] = IF WantsTicks(published'[s])
                                       THEN "sleeping" ELSE "done"]
        /\ pending' = [pending EXCEPT ![s] = NoTick]
        /\ wire' = [wire EXCEPT ![s] = "idle"]
        /\ UNCHANGED <<phase, stop, ready, exit, session, lastRecv, attempt,
                       clock, stream>>
     \/ /\ WantsTicks(published'[s])
        /\ Fails(s)                    \* drawing the next interval raises
  /\ UNCHANGED nextSeq

(* The connection breaks before the reply is read. *)
ConnectionBreaks(s) ==
  /\ task[s] = "publishing"
  /\ \/ /\ attempt[s] < Retries
        /\ attempt' = [attempt EXCEPT ![s] = @ + 1]
        /\ wire' = [wire EXCEPT ![s] = "sent"]
        /\ UNCHANGED <<phase, stop, ready, exit, session, nextSeq, task,
                       published, lastRecv, pending, clock, stream>>
     \/ /\ attempt[s] = Retries
        /\ Fails(s)
        /\ UNCHANGED <<nextSeq, published>>

(* The bus refuses the command with an error reply. *)
BusRejects(s) ==
  /\ task[s] = "publishing" /\ wire[s] = "sent"
  /\ Fails(s)
  /\ UNCHANGED <<nextSeq, published>>

-----------------------------------------------------------------------------
(* gather, the finally clause, and asyncio.run                             *)

(* Mutant: return_exceptions=True. *)
GatherReturns_TakesFailures ==
  /\ phase = "feeding"
  /\ \A s \in Symbols : task[s] \in {"none", "done", "failed"}
  /\ phase' = "closing" /\ exit' = "clean"
  /\ UNCHANGED <<stop, ready, session, taskVars, clock, stream>>

GatherReturns ==
  /\ phase = "feeding"
  /\ \A s \in Symbols : task[s] \in {"none", "done"}
  /\ phase' = "closing" /\ exit' = "clean"
  /\ UNCHANGED <<stop, ready, session, taskVars, clock, stream>>

(* Mutant: the failure waits until every task has ended. *)
GatherRaises_WaitsForAll ==
  /\ phase = "feeding"
  /\ \A s \in Symbols : task[s] \in {"none", "done", "failed"}
  /\ \E s \in Symbols : task[s] = "failed"
  /\ phase' = "closing" /\ exit' = "error"
  /\ UNCHANGED <<stop, ready, session, taskVars, clock, stream>>

(* The first failure reaches the main coroutine; the other tasks run on. *)
GatherRaises ==
  /\ phase = "feeding"
  /\ \E s \in Symbols : task[s] = "failed"
  /\ phase' = "closing" /\ exit' = "error"
  /\ UNCHANGED <<stop, ready, session, taskVars, clock, stream>>

(* aclose is done, the runtime server stopped, leftover tasks cancelled. *)
Exit ==
  /\ phase = "closing"
  /\ phase' = "down" /\ stop' = FALSE /\ ready' = {}
  /\ FreshTasks(NoTasks)
  /\ UNCHANGED <<exit, session, clock, stream>>

-----------------------------------------------------------------------------
MainStep ==
  \/ PingOk \/ PingFails \/ RetryPing
  \/ LoadOk \/ LoadRaises
  \/ GatherReturns \/ GatherRaises \/ Exit

TaskStep(s) == LeaveLoop(s) \/ Generate(s) \/ GenerateRaises(s)

BusStep(s) ==
  BusAppends(s) \/ PublishReturns(s) \/ ConnectionBreaks(s) \/ BusRejects(s)

Next ==
  \/ Start \/ Terminate \/ Crash
  \/ MainStep
  \/ \E s \in Symbols : TaskStep(s) \/ BusStep(s)

Spec == Init /\ [][Next]_vars

(* The event loop runs whatever is ready, every await ends (in an error if *)
(* in nothing else), and nothing obliges the process to be started,        *)
(* signalled or killed.                                                    *)
Fairness ==
  /\ WF_vars(PingOk \/ PingFails)
  /\ WF_vars(RetryPing)
  /\ WF_vars(LoadOk \/ LoadRaises)
  /\ WF_vars(GatherReturns)
  /\ WF_vars(GatherRaises)
  /\ WF_vars(Exit)
  /\ \A s \in Symbols :
       /\ WF_vars(LeaveLoop(s) \/ Generate(s))
       /\ WF_vars(PublishReturns(s) \/ ConnectionBreaks(s) \/ BusRejects(s))

FairSpec == Spec /\ Fairness

-----------------------------------------------------------------------------
(* What the streams look like to a consumer.                               *)
Log == INSTANCE TickLog WITH log <- stream

(* Whatever crashes, retries and clock steps happen, a session's ticks are *)
(* contiguous and gapless on their stream, in order, and a key (session,   *)
(* seq) never names two ticks: what FeedSession promises (session.py) and  *)
(* what DeliveryTracker's high-water mark relies on.                       *)
StreamWellFormed == Log!WellFormed

(* The adapter implements the log its consumers are written against.       *)
RefinesTickLog == Log!Spec

(* recv_ts never goes back on a stream, across restarts too: the contract  *)
(* of Tick.recv_ts (contracts/wire/tick.schema.json).                      *)
RecvNeverGoesBack == Log!RecvNeverGoesBack

(* The seqs of the current session that the stream of s holds. *)
Stored(s) ==
  {stream[s][i].seq :
     i \in {j \in 1..Len(stream[s]) : stream[s][j].session = session}}

Issued(s) == 0..(nextSeq[s] - 1)

(* A seq once taken from the session is on the bus by the time the task    *)
(* moves on: only the last one can be missing, and only while its publish  *)
(* is pending or after the task failed.  `published` counts the others.    *)
Accounted(s) ==
  /\ task[s] \in {"created", "sleeping", "done"} =>
       Issued(s) \subseteq Stored(s) /\ published[s] = nextSeq[s]
  /\ task[s] \in {"publishing", "failed"} =>
       Issued(s) \ {nextSeq[s] - 1} \subseteq Stored(s)

IssuedAreStored == \A s \in Symbols : Accounted(s)

(* A run that ends without an error has lost nothing: every seq any symbol *)
(* took is on its stream.                                                  *)
CleanExitLosesNothing ==
  (phase = "closing" /\ exit = "clean") =>
    \A s \in Symbols : task[s] # "none" => Issued(s) \subseteq Stored(s)

(* Nothing is published by a process that does not report itself ready, or *)
(* for a symbol no task was created for.                                   *)
PublishesOnlyWhenReady ==
  [][\A s \in Symbols : stream'[s] # stream[s] =>
       /\ ready = Dependencies
       /\ session > 0 /\ task[s] # "none"]_vars

(* A bounded run that nobody stopped ends with exactly the ticks asked for. *)
BoundedRunComplete ==
  (phase = "closing" /\ exit = "clean" /\ ~stop) =>
    \A s \in Symbols : (task[s] # "none" /\ MaxTicks[session] # Unlimited) =>
      Stored(s) = 0..(MaxTicks[session] - 1)

-----------------------------------------------------------------------------
(* The inductive invariant behind the safety properties.                   *)

(* Which tasks and which readiness each phase of the main coroutine allows. *)
MainInv ==
  /\ phase \notin {"feeding", "closing"} => task = NoTasks
  /\ phase = "loading" => "redis" \in ready
  /\ task # NoTasks => session > 0 /\ ready = Dependencies
  /\ (phase = "closing" /\ exit = "clean") =>
       \A s \in Symbols : task[s] \in {"none", "done"}
  /\ phase \in {"pinging", "backoff", "loading", "feeding"} => exit = "none"

(* No stream holds a session that has not been opened yet. *)
SessionsOpened(s) ==
  \A i \in 1..Len(stream[s]) : stream[s][i].session <= session

(* Between two ticks the session's newest tick, if any, is the last one    *)
(* the task took a seq for.                                                *)
BetweenTicks(s) ==
  task[s] \in {"created", "sleeping"} =>
    IF nextSeq[s] = 0
    THEN session \notin Log!SessionsIn(s)
    ELSE /\ stream[s] # <<>>
         /\ Log!Newest(s).session = session
         /\ Log!Newest(s).seq = nextSeq[s] - 1
         /\ Log!Newest(s).recv = lastRecv[s]

(* The tick in hand is the one the last seq was taken for; its command     *)
(* finds the stream ready for it, or holding it already.                   *)
WhilePublishing(s) ==
  task[s] = "publishing" =>
    /\ pending[s] \in Tick
    /\ pending[s].session = session
    /\ pending[s].seq = nextSeq[s] - 1
    /\ pending[s].recv = lastRecv[s]
    /\ nextSeq[s] > 0 /\ published[s] = nextSeq[s] - 1
    /\ wire[s] \in {"sent", "applied"}
    /\ wire[s] = "applied" =>
         Log!RepeatsNewest(s, pending[s]) /\ Issued(s) \subseteq Stored(s)
    /\ wire[s] = "sent" =>
         \/ Log!StartsSession(s, pending[s])
         \/ Log!ContinuesSession(s, pending[s])
         \/ Log!RepeatsNewest(s, pending[s])

SymbolInv(s) ==
  SessionsOpened(s) /\ BetweenTicks(s) /\ WhilePublishing(s) /\ Accounted(s)

IInv == TypeOK /\ MainInv /\ \A s \in Symbols : SymbolInv(s)

-----------------------------------------------------------------------------
(* A shutdown signal ends the process, whatever it was doing. *)
StopLeadsToExit == (stop /\ phase # "down") ~> (phase = "down")

(* A symbol whose task failed takes the process down: the feed never goes  *)
(* on silently without it.                                                 *)
FailureLeadsToExit ==
  (\E s \in Symbols : task[s] = "failed") ~> (phase = "down")

(* A start waits for Redis and no longer: if Redis answers when it is      *)
(* pinged again and again, the process gets past its pings.                *)
RedisIsReached ==
  SF_vars(PingOk) =>
    ((phase = "pinging") ~> (phase \notin {"pinging", "backoff"}))

(* How far the process still has to go once it was signalled, phase by     *)
(* phase and task by task.                                                 *)
PhasesLeft ==
  CASE phase = "pinging" -> 5
    [] phase = "backoff" -> 4
    [] phase = "loading" -> 3
    [] phase = "feeding" -> 2
    [] phase = "closing" -> 1
    [] phase = "down"    -> 0

TaskLeft(s) ==
  CASE task[s] \in {"none", "done", "failed"} -> 0
    [] task[s] \in {"created", "sleeping"}    -> 1
    [] task[s] = "publishing" ->
         2 + 2 * (Retries - attempt[s]) + (IF wire[s] = "sent" THEN 1 ELSE 0)

(* A signalled process only winds down: whatever it does next brings its   *)
(* end nearer, in the main coroutine or in one task, and none starts a     *)
(* tick, pings again after a failure or repeats a command without end.     *)
StopWindsDown ==
  [][stop =>
       \/ PhasesLeft' < PhasesLeft
       \/ /\ phase' = phase
          /\ \E s \in Symbols :
               /\ TaskLeft(s)' < TaskLeft(s)
               /\ \A r \in Symbols \ {s} : TaskLeft(r)' = TaskLeft(r)]_vars
=============================================================================
