------------------------- MODULE CalibrationSeeder -------------------------
(***************************************************************************)
(* seed.sh: ping, pipe the script into the scratch database, flush that,   *)
(* and pipe the script into the live one if no reply was an `(error)`.     *)
(*                                                                         *)
(* redis-cli and Redis are external.  A command redis-cli cannot deliver   *)
(* is reported on stderr only and the next one is tried on a new           *)
(* connection, which knows nothing of the transaction the old one queued.  *)
(* What the scratch database holds is not represented: the script empties  *)
(* its keyspace first and nothing else reads it.                           *)
(***************************************************************************)
EXTENDS CalibrationKeyspace

CONSTANTS
  NoScript,    \* the seeder has not run yet
  MaxSeeds,    \* bound: seeder runs
  MaxOutages   \* bound: connections lost

ASSUME SeederAssumption ==
  NoScript \notin Scripts /\ MaxSeeds \in Nat /\ MaxOutages \in Nat

VARIABLES
  step,       \* where seed.sh is
  script,     \* the script it applies
  todo,       \* commands of the piped run not yet sent
  txn,        \* the connection's transaction
  queued,     \* commands queued in it
  marked,     \* an `(error)` in the run's output
  reachable,  \* does Redis accept connections?
  disturbed,  \* has the connection been lost since this seeder started?
  seeds,      \* seeder runs so far
  outages     \* connections lost so far

run == <<todo, txn, queued, marked>>
seederVars == <<step, script, run, reachable, disturbed, seeds, outages>>

Multi  == <<"MULTI">>
Delete == <<"EVAL">>
Exec   == <<"EXEC">>

Commands == {Multi, Delete, Exec} \cup Keys

Ended == {"idle", "seeded", "failed", "killed"}

SeederTypeOK ==
  /\ live \in [Keys -> Scripts \cup {Absent}]
  /\ step \in Ended \cup {"pinging", "dry", "flushing", "live"}
  /\ script \in Scripts \cup {NoScript}
  /\ todo \in Seq(Commands)
  /\ txn \in {"none", "open", "aborted"}
  /\ queued \subseteq Commands
  /\ marked \in BOOLEAN
  /\ reachable \in BOOLEAN
  /\ disturbed \in BOOLEAN
  /\ seeds \in 0..MaxSeeds
  /\ outages \in 0..MaxOutages

NothingSent == txn = "none" /\ queued = {} /\ marked = FALSE

SeederInit ==
  /\ live = Empty
  /\ step = "idle" /\ script = NoScript
  /\ todo = <<>> /\ NothingSent
  /\ reachable = TRUE /\ disturbed = FALSE
  /\ seeds = 0 /\ outages = 0

-----------------------------------------------------------------------------
(* Begin a piped run, over a connection of its own. *)
Pipe(where) ==
  /\ step' = where
  /\ todo' = <<Multi, Delete>> \o Lines[script] \o <<Exec>>
  /\ txn' = "none" /\ queued' = {} /\ marked' = FALSE

(* The effect of executing a set of commands of the script: a command that *)
(* fails leaves its key as the delete left it.                             *)
Executed(cs) ==
  [k \in Keys |->
     IF k \in cs /\ ~Flawed(script, {"queueing", "executing"}, k) THEN script
     ELSE IF Delete \in cs THEN Absent ELSE live[k]]

(* Only the run against the live database changes it. *)
Apply(cs) == live' = IF step = "live" THEN Executed(cs) ELSE live

(* The next line of the script goes to redis-cli. *)
Sending == todo # <<>> /\ todo' = Tail(todo)

(* Redis receives a command over a connection in transaction state t with  *)
(* the commands q queued.                                                  *)
Receives(c, t, q) ==
  \/ /\ c = Multi
     /\ txn' = "open" /\ queued' = {}
     /\ UNCHANGED <<marked, live>>
  \/ /\ c = Exec /\ t = "open"
     /\ Apply(q)
     /\ marked' = (marked \/ \E k \in q : Flawed(script, {"executing"}, k))
     /\ txn' = "none" /\ queued' = {}
  \/ /\ c = Exec /\ t # "open"     \* EXECABORT, or EXEC without MULTI
     /\ marked' = TRUE
     /\ txn' = "none" /\ queued' = {}
     /\ UNCHANGED live
  \/ /\ c \notin {Multi, Exec} /\ t # "none"
     /\ IF Flawed(script, {"queueing"}, c)
        THEN txn' = "aborted" /\ marked' = TRUE
        ELSE txn' = t /\ UNCHANGED marked
     /\ queued' = q \cup {c}
     /\ UNCHANGED live
  \/ /\ c \notin {Multi, Exec} /\ t = "none"
     /\ Apply({c})
     /\ marked' = (marked \/ Flawed(script, {"queueing", "executing"}, c))
     /\ txn' = "none" /\ queued' = {}

-----------------------------------------------------------------------------
(* The seeder container starts; the script in it may be a new one. *)
StartSeeder(s) ==
  /\ step \in Ended /\ seeds < MaxSeeds
  /\ step' = "pinging" /\ script' = s
  /\ disturbed' = FALSE
  /\ seeds' = seeds + 1
  /\ UNCHANGED <<live, run, reachable, outages>>

PingAnswered ==
  /\ step = "pinging" /\ reachable
  /\ Pipe("dry")
  /\ UNCHANGED <<live, script, reachable, disturbed, seeds, outages>>

PingUnanswered ==
  /\ step = "pinging" /\ ~reachable
  /\ step' = "failed"
  /\ UNCHANGED <<live, script, run, reachable, disturbed, seeds, outages>>

(* One line of the piped script is sent and answered. *)
Send ==
  /\ step \in {"dry", "live"} /\ reachable
  /\ Sending
  /\ Receives(Head(todo), txn, queued)
  /\ UNCHANGED <<step, script, reachable, disturbed, seeds, outages>>

(* "Could not connect" goes to stderr, unmarked, and the line is gone. *)
Undelivered ==
  /\ step \in {"dry", "live"} /\ ~reachable
  /\ Sending
  /\ txn' = "none" /\ queued' = {}
  /\ UNCHANGED <<live, step, script, marked, reachable, disturbed, seeds,
                 outages>>

(* FLUSHDB, given as an argument, fails the seeder if Redis is gone; then  *)
(* the dry run's output decides.                                           *)
DryRunDone ==
  /\ step = "dry" /\ todo = <<>>
  /\ step' = "flushing"
  /\ UNCHANGED <<live, script, run, reachable, disturbed, seeds, outages>>

(* Mutant: the dry run's errors are not looked at. *)
FlushScratch_IgnoresDryRun ==
  /\ step = "flushing"
  /\ IF ~reachable THEN step' = "failed" /\ UNCHANGED run ELSE Pipe("live")
  /\ UNCHANGED <<live, script, reachable, disturbed, seeds, outages>>

FlushScratch ==
  /\ step = "flushing"
  /\ IF marked \/ ~reachable
     THEN step' = "failed" /\ UNCHANGED run
     ELSE Pipe("live")
  /\ UNCHANGED <<live, script, reachable, disturbed, seeds, outages>>

LiveRunDone ==
  /\ step = "live" /\ todo = <<>>
  /\ step' = IF marked THEN "failed" ELSE "seeded"
  /\ UNCHANGED <<live, script, run, reachable, disturbed, seeds, outages>>

-----------------------------------------------------------------------------
(* The container is killed; Redis forgets what its connection had queued. *)
KillSeeder ==
  /\ step \notin Ended
  /\ step' = "killed"
  /\ todo' = <<>> /\ txn' = "none" /\ queued' = {}
  /\ UNCHANGED <<live, script, marked, reachable, disturbed, seeds, outages>>

(* The connection is lost between two commands, for a moment or for longer.*)
LoseConnection ==
  /\ reachable /\ outages < MaxOutages
  /\ outages' = outages + 1
  /\ txn' = "none" /\ queued' = {}
  /\ reachable' \in BOOLEAN
  /\ disturbed' = TRUE
  /\ UNCHANGED <<live, step, script, todo, marked, seeds>>

(* EXEC ran but its reply was lost: redis-cli sends EXEC again.            *)
LoseExecReply ==
  /\ step \in {"dry", "live"} /\ reachable /\ outages < MaxOutages
  /\ todo = <<Exec>> /\ txn = "open"
  /\ outages' = outages + 1
  /\ Apply(queued)
  /\ txn' = "none" /\ queued' = {}
  /\ reachable' \in BOOLEAN
  /\ disturbed' = TRUE
  /\ UNCHANGED <<step, script, todo, marked, seeds>>

Reconnect ==
  /\ ~reachable
  /\ reachable' = TRUE
  /\ UNCHANGED <<live, step, script, run, disturbed, seeds, outages>>

SeederNext ==
  \/ \E s \in Scripts : StartSeeder(s)
  \/ PingAnswered \/ PingUnanswered
  \/ Send \/ Undelivered
  \/ DryRunDone \/ FlushScratch \/ LiveRunDone
  \/ KillSeeder
  \/ LoseConnection \/ LoseExecReply \/ Reconnect
=============================================================================
