---------------------------- MODULE RuntimeServer ----------------------------
(***************************************************************************)
(* The runtime endpoints of a service: the event loop marks dependencies   *)
(* and starts and stops the server; one daemon thread per connection reads *)
(* requests and answers them, /ready from a snapshot taken under the lock. *)
(*                                                                         *)
(* One action is what a thread does between two points where another can   *)
(* be seen to run.  The standard library's server and the clients are      *)
(* external.                                                               *)
(***************************************************************************)
EXTENDS Integers

CONSTANTS
  Dependencies,  \* the names Readiness was built with
  Connections,   \* bound: connections clients open, each once
  MaxRequests,   \* bound: requests sent over one connection
  Nobody         \* the lock's holder when it is free

ASSUME ServerAssumption == MaxRequests \in Nat /\ Nobody \notin Connections

Paths    == {"/health", "/ready", "/metrics", "unknown"}
Statuses == {200, 404, 500, 503}
NoPath   == "none"
NoStatus == 0

VARIABLES
  connected,  \* Readiness: the dependencies marked connected
  lock,       \* the thread inside `snapshot`, if any
  server,     \* the RuntimeServer, as its owner sees it
  thread,     \* what each connection's thread is doing
  request,    \* the path it was asked for
  unread,     \* dependencies its snapshot has still to copy
  down,       \* dependencies its snapshot copied as not connected
  answer,     \* the status it is sending
  owed,       \* does a client still wait for the answer?
  asked,      \* requests received over the open connection
  seen        \* history: the verdicts that were true since the request came

snapshotVars == <<lock, unread, down>>
handlerVars  == <<thread, request, snapshotVars, answer, owed, asked>>
vars == <<connected, server, handlerVars, seen>>

TypeOK ==
  /\ connected \subseteq Dependencies
  /\ lock \in Connections \cup {Nobody}
  /\ server \in {"stopped", "serving", "stopping"}
  /\ thread \in [Connections -> {"none", "waiting", "idle", "routing", "copying",
                                 "sending", "closed"}]
  /\ request \in [Connections -> Paths \cup {NoPath}]
  /\ unread \in [Connections -> SUBSET Dependencies]
  /\ down \in [Connections -> SUBSET Dependencies]
  /\ answer \in [Connections -> Statuses \cup {NoStatus}]
  /\ owed \in [Connections -> BOOLEAN]
  /\ asked \in [Connections -> 0..MaxRequests]
  /\ seen \in [Connections -> SUBSET {"ready", "not ready"}]

(* Every name starts disconnected; nothing listens. *)
Init ==
  /\ connected = {}
  /\ lock = Nobody
  /\ server = "stopped"
  /\ thread = [c \in Connections |-> "none"]
  /\ request = [c \in Connections |-> NoPath]
  /\ unread = [c \in Connections |-> {}]
  /\ down = [c \in Connections |-> {}]
  /\ answer = [c \in Connections |-> NoStatus]
  /\ owed = [c \in Connections |-> FALSE]
  /\ asked = [c \in Connections |-> 0]
  /\ seen = [c \in Connections |-> {}]

-----------------------------------------------------------------------------
(* The service's event loop.                                               *)

Verdict == IF connected = Dependencies THEN "ready" ELSE "not ready"

Handling(c) == thread[c] \in {"routing", "copying"}

(* Mutants: a misspelt name is tracked too; written without the lock. *)
Set_AnyName(d, up) ==
  /\ lock = Nobody
  /\ connected' = connected \cup {"misspelt"}
  /\ seen' = [c \in Connections |->
                IF Handling(c) THEN seen[c] \cup {Verdict'} ELSE seen[c]]
  /\ UNCHANGED <<server, handlerVars>>

Set_Unlocked(d, up) ==
  /\ connected' = IF up THEN connected \cup {d} ELSE connected \ {d}
  /\ seen' = [c \in Connections |->
                IF Handling(c) THEN seen[c] \cup {Verdict'} ELSE seen[c]]
  /\ UNCHANGED <<server, handlerVars>>

(* mark_connected and mark_disconnected. *)
Set(d, up) ==
  /\ lock = Nobody
  /\ connected' = IF up THEN connected \cup {d} ELSE connected \ {d}
  /\ seen' = [c \in Connections |->
                IF Handling(c) THEN seen[c] \cup {Verdict'} ELSE seen[c]]
  /\ UNCHANGED <<server, handlerVars>>

(* The port is bound; a clash raises and changes nothing. *)
Start ==
  /\ server = "stopped"
  /\ server' = "serving"
  /\ UNCHANGED <<connected, handlerVars, seen>>

(* stop asks the serve loop to end and waits for it. *)
Stop ==
  /\ server = "serving"
  /\ server' = "stopping"
  /\ UNCHANGED <<connected, handlerVars, seen>>

(* The loop has ended and the port is released, with whoever waited on it; *)
(* the connections' threads are not waited for.                            *)
Stopped ==
  /\ server = "stopping"
  /\ server' = "stopped"
  /\ thread' = [c \in Connections |->
                  IF thread[c] = "waiting" THEN "closed" ELSE thread[c]]
  /\ UNCHANGED <<connected, request, snapshotVars, answer, owed, asked,
                 seen>>

-----------------------------------------------------------------------------
(* The clients, and the library's serve loop.                              *)

Connect(c) ==
  /\ thread[c] = "none" /\ server # "stopped"
  /\ thread' = [thread EXCEPT ![c] = "waiting"]
  /\ UNCHANGED <<connected, server, request, snapshotVars, answer, owed, asked,
                 seen>>

Accept(c) ==
  /\ thread[c] = "waiting" /\ server # "stopped"
  /\ thread' = [thread EXCEPT ![c] = "idle"]
  /\ UNCHANGED <<connected, server, request, snapshotVars, answer, owed, asked,
                 seen>>

Request(c, path) ==
  /\ thread[c] = "idle" /\ asked[c] < MaxRequests
  /\ thread' = [thread EXCEPT ![c] = "routing"]
  /\ request' = [request EXCEPT ![c] = path]
  /\ owed' = [owed EXCEPT ![c] = TRUE]
  /\ asked' = [asked EXCEPT ![c] = @ + 1]
  /\ seen' = [seen EXCEPT ![c] = {Verdict}]
  /\ UNCHANGED <<connected, server, snapshotVars, answer>>

(* The client hangs up, or stops reading, in the middle of a request. *)
HangUp(c) ==
  /\ owed[c]
  /\ owed' = [owed EXCEPT ![c] = FALSE]
  /\ UNCHANGED <<connected, server, thread, request, snapshotVars, answer, asked,
                 seen>>

-----------------------------------------------------------------------------
(* A connection's thread.                                                  *)

(* Mutant: only a connection that has not sent a byte is given up. *)
Close_KeepsAlive(c) ==
  /\ thread[c] = "idle" /\ asked[c] = 0
  /\ thread' = [thread EXCEPT ![c] = "closed"]
  /\ UNCHANGED <<connected, server, request, snapshotVars, answer, owed, asked,
                 seen>>

(* Between two requests the client closes, or is quiet for the timeout. *)
Close(c) ==
  /\ thread[c] = "idle"
  /\ thread' = [thread EXCEPT ![c] = "closed"]
  /\ asked' = [asked EXCEPT ![c] = 0]
  /\ UNCHANGED <<connected, server, request, snapshotVars, answer, owed, seen>>

Answer(c, status) ==
  /\ thread' = [thread EXCEPT ![c] = "sending"]
  /\ answer' = [answer EXCEPT ![c] = status]
  /\ UNCHANGED <<connected, server, request, owed, asked, seen>>

(* What each route but /ready may answer: rendering the metrics can raise. *)
Outcomes == {<<"/health", 200>>, <<"/metrics", 200>>, <<"/metrics", 500>>,
             <<"unknown", 404>>}

(* Mutant: what the route raises is not caught. *)
Route_Uncaught(c) ==
  /\ thread[c] = "routing"
  /\ \E status \in Statuses :
       /\ <<request[c], status>> \in Outcomes
       /\ IF status # 500 THEN Answer(c, status)
          ELSE /\ thread' = [thread EXCEPT ![c] = "closed"]
               /\ UNCHANGED <<connected, server, request, answer, owed, asked, seen>>
  /\ UNCHANGED snapshotVars

Route(c) ==
  /\ thread[c] = "routing"
  /\ \E status \in Statuses :
       <<request[c], status>> \in Outcomes /\ Answer(c, status)
  /\ UNCHANGED snapshotVars

(* snapshot: take the lock, copy one dependency at a time, let it go. *)
TakeLock(c) ==
  /\ thread[c] = "routing" /\ request[c] = "/ready"
  /\ lock = Nobody
  /\ lock' = c
  /\ thread' = [thread EXCEPT ![c] = "copying"]
  /\ unread' = [unread EXCEPT ![c] = Dependencies]
  /\ UNCHANGED <<connected, server, request, down, answer, owed, asked, seen>>

Copy(c, d) ==
  /\ thread[c] = "copying" /\ d \in unread[c]
  /\ unread' = [unread EXCEPT ![c] = @ \ {d}]
  /\ down' = [down EXCEPT ![c] = @ \cup ({d} \ connected)]
  /\ UNCHANGED <<connected, lock, server, thread, request, answer, owed, asked,
                 seen>>

(* Mutant: the lock is kept. *)
AnswerReady_KeepsLock(c) ==
  /\ thread[c] = "copying" /\ unread[c] = {}
  /\ Answer(c, IF down[c] = {} THEN 200 ELSE 503)
  /\ down' = [down EXCEPT ![c] = {}]
  /\ UNCHANGED <<lock, unread>>

AnswerReady(c) ==
  /\ thread[c] = "copying" /\ unread[c] = {}
  /\ lock' = Nobody
  /\ Answer(c, IF down[c] = {} THEN 200 ELSE 503)
  /\ down' = [down EXCEPT ![c] = {}]
  /\ UNCHANGED unread

(* The answer is read and the connection kept; a client that has hung up   *)
(* is noticed by the write or by the next read.                            *)
Send(c) ==
  /\ thread[c] = "sending"
  /\ IF owed[c]
     THEN thread' = [thread EXCEPT ![c] = "idle"] /\ UNCHANGED asked
     ELSE /\ thread' = [thread EXCEPT ![c] = "closed"]
          /\ asked' = [asked EXCEPT ![c] = 0]
  /\ owed' = [owed EXCEPT ![c] = FALSE]
  /\ request' = [request EXCEPT ![c] = NoPath]
  /\ answer' = [answer EXCEPT ![c] = NoStatus]
  /\ seen' = [seen EXCEPT ![c] = {}]
  /\ UNCHANGED <<connected, server, snapshotVars>>

-----------------------------------------------------------------------------
Handle(c) ==
  \/ Route(c) \/ TakeLock(c) \/ AnswerReady(c) \/ Send(c)
  \/ \E d \in Dependencies : Copy(c, d)

Next ==
  \/ \E d \in Dependencies, up \in BOOLEAN : Set(d, up)
  \/ Start \/ Stop \/ Stopped
  \/ \E c \in Connections :
       \/ Connect(c) \/ Accept(c) \/ HangUp(c)
       \/ \E path \in Paths : Request(c, path)
       \/ Handle(c) \/ Close(c)

(* Threads run, the serve loop polls, and a connection's timeout runs out; *)
(* nobody has to start the server, stop it, connect or ask.                *)
Fairness ==
  /\ WF_vars(Stopped)
  /\ \A c \in Connections :
       WF_vars(Accept(c)) /\ WF_vars(Handle(c)) /\ WF_vars(Close(c))

Spec == Init /\ [][Next]_vars

FairSpec == Spec /\ Fairness

-----------------------------------------------------------------------------
AnswerIsTrue(c) ==
  (thread[c] = "sending" /\ request[c] = "/ready") =>
    (IF answer[c] = 200 THEN "ready" ELSE "not ready") \in seen[c]

(* What /ready says was true at some moment while it was being asked, of   *)
(* all the dependencies at once: it "can't report a torn view" (snapshot). *)
ReadyWasTrue == \A c \in Connections : AnswerIsTrue(c)

(* A client that stays gets an answer to each of its requests, whatever    *)
(* the route did: no empty socket (_respond).                              *)
EveryRequestAnswered ==
  \A c \in Connections :
    thread[c] \in {"idle", "closed"} => ~owed[c]

-----------------------------------------------------------------------------
(* The inductive invariant behind the two.                                 *)

Busy == {"routing", "copying", "sending"}

(* Whoever copies holds the lock, and nobody else does. *)
LockIsHeld == \A c \in Connections : thread[c] = "copying" <=> lock = c

(* While a request is handled the present verdict is among those seen; a   *)
(* snapshot agrees with the present on every dependency copied so far.     *)
CopiesPresent(c) ==
  /\ Handling(c) => Verdict \in seen[c]
  /\ thread[c] = "copying" => down[c] = Dependencies \ (unread[c] \cup connected)
  /\ thread[c] # "copying" => down[c] = {}

OwesWhileBusy(c) == owed[c] => thread[c] \in Busy

IInv ==
  /\ TypeOK
  /\ LockIsHeld
  /\ \A c \in Connections : CopiesPresent(c) /\ OwesWhileBusy(c)
  /\ ReadyWasTrue

-----------------------------------------------------------------------------
(* A client that goes quiet holds no thread, however it went quiet and     *)
(* whether or not the server was stopped meanwhile.                        *)
QuietConnectionsEnd ==
  \A c \in Connections : (thread[c] = "waiting") ~> (thread[c] = "closed")

(* The event loop can always mark a dependency again: no handler keeps the *)
(* lock from it.                                                           *)
LoopIsNotLockedOut == (lock # Nobody) ~> (lock = Nobody)
=============================================================================
