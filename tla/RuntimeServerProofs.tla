------------------------- MODULE RuntimeServerProofs -------------------------
(* The safety of the runtime server, for any dependencies and connections. *)
EXTENDS RuntimeServer, TLAPS

LEMMA InitEstablishes == Init => IInv
<1> SUFFICES ASSUME Init PROVE IInv
  OBVIOUS
<1>1. TypeOK
  BY ServerAssumption DEF Init, TypeOK, NoPath, NoStatus
<1>2. LockIsHeld
  BY ServerAssumption DEF Init, LockIsHeld
<1>3. ASSUME NEW c \in Connections PROVE CopiesPresent(c) /\ OwesWhileBusy(c)
  BY DEF Init, CopiesPresent, OwesWhileBusy, Handling
<1>4. ReadyWasTrue
  BY DEF Init, ReadyWasTrue, AnswerIsTrue
<1> QED
  BY <1>1, <1>2, <1>3, <1>4 DEF IInv

(* A mark is made while nobody copies, and every handler has seen it. *)
LEMMA SetPreserves ==
  ASSUME IInv, NEW d \in Dependencies, NEW up \in BOOLEAN, Set(d, up)
  PROVE  IInv'
<1>1. /\ lock = Nobody /\ UNCHANGED <<server, handlerVars>>
      /\ seen' = [c \in Connections |->
                    IF Handling(c) THEN seen[c] \cup {Verdict'} ELSE seen[c]]
  BY DEF Set
<1>2. TypeOK'
  <2>1. connected' \subseteq Dependencies
    BY DEF Set, IInv, TypeOK
  <2>2. seen' \in [Connections -> SUBSET {"ready", "not ready"}]
    BY <1>1 DEF IInv, TypeOK, Verdict
  <2> QED
    BY <1>1, <2>1, <2>2 DEF IInv, TypeOK, handlerVars, snapshotVars
<1>3. LockIsHeld'
  BY <1>1 DEF IInv, LockIsHeld, handlerVars, snapshotVars
<1>4. \A c \in Connections : thread[c] # "copying"
  BY <1>1, ServerAssumption DEF IInv, LockIsHeld
<1>5. ASSUME NEW c \in Connections PROVE (CopiesPresent(c) /\ OwesWhileBusy(c))'
  BY <1>1, <1>4 DEF IInv, CopiesPresent, OwesWhileBusy, Handling, handlerVars,
                    snapshotVars
<1>6. ReadyWasTrue'
  BY <1>1 DEF IInv, ReadyWasTrue, AnswerIsTrue, handlerVars, snapshotVars
<1> QED
  BY <1>2, <1>3, <1>5, <1>6 DEF IInv

(* The owner's other calls touch no thread that has started. *)
LEMMA OwnerPreserves ==
  ASSUME IInv, Start \/ Stop \/ Stopped
  PROVE  IInv'
<1>1. /\ UNCHANGED <<connected, request, snapshotVars, answer, owed, asked, seen>>
      /\ server' \in {"stopped", "serving", "stopping"}
      /\ thread' \in [Connections -> {"none", "waiting", "idle", "routing",
                                      "copying", "sending", "closed"}]
      /\ \A c \in Connections :
           thread'[c] = thread[c] \/ (thread[c] = "waiting" /\ thread'[c] = "closed")
  BY DEF Start, Stop, Stopped, handlerVars, snapshotVars, IInv, TypeOK
<1>2. TypeOK'
  BY <1>1 DEF IInv, TypeOK, snapshotVars
<1>3. LockIsHeld'
  BY <1>1 DEF IInv, LockIsHeld, snapshotVars
<1>4. ASSUME NEW c \in Connections PROVE (CopiesPresent(c) /\ OwesWhileBusy(c))'
  <2>1. Verdict' = Verdict
    BY <1>1 DEF Verdict
  <2> QED
    BY <1>1, <2>1 DEF IInv, CopiesPresent, OwesWhileBusy, Handling, Busy, snapshotVars
<1>5. ReadyWasTrue'
  BY <1>1 DEF IInv, ReadyWasTrue, AnswerIsTrue, snapshotVars
<1> QED
  BY <1>2, <1>3, <1>4, <1>5 DEF IInv

(* What a step of one connection leaves alone of the others. *)
OthersUntouched(c) ==
  \A e \in Connections \ {c} :
    /\ thread'[e] = thread[e] /\ request'[e] = request[e]
    /\ unread'[e] = unread[e] /\ down'[e] = down[e]
    /\ answer'[e] = answer[e] /\ owed'[e] = owed[e] /\ seen'[e] = seen[e]

(* It is enough to look at the connection that moved. *)
LEMMA OneConnection ==
  ASSUME IInv, NEW c \in Connections, OthersUntouched(c), connected' = connected,
         TypeOK', LockIsHeld', CopiesPresent(c)', OwesWhileBusy(c)', AnswerIsTrue(c)'
  PROVE  IInv'
<1>1. ASSUME NEW e \in Connections, e # c
      PROVE  (CopiesPresent(e) /\ OwesWhileBusy(e))'
  <2>1. CopiesPresent(e) /\ OwesWhileBusy(e)
    BY DEF IInv
  <2>2. Verdict' = Verdict
    BY DEF Verdict
  <2> QED
    BY <1>1, <2>1, <2>2 DEF OthersUntouched, CopiesPresent, OwesWhileBusy, Handling
<1>2. \A e \in Connections : (CopiesPresent(e) /\ OwesWhileBusy(e))'
  BY <1>1
<1>3. ASSUME NEW e \in Connections PROVE AnswerIsTrue(e)'
  <2>1. CASE e = c
    BY <2>1
  <2>2. CASE e # c
    <3>1. AnswerIsTrue(e)
      BY DEF IInv, ReadyWasTrue
    <3>2. /\ thread'[e] = thread[e] /\ request'[e] = request[e]
          /\ answer'[e] = answer[e] /\ seen'[e] = seen[e]
      BY <2>2 DEF OthersUntouched
    <3> QED
      BY <3>1, <3>2 DEF AnswerIsTrue
  <2> QED
    BY <2>1, <2>2
<1> QED
  BY <1>2, <1>3 DEF IInv, ReadyWasTrue

(* Connections come, hang up and end. *)
LEMMA ClientPreserves ==
  ASSUME IInv, NEW c \in Connections,
         Connect(c) \/ Accept(c) \/ HangUp(c) \/ Close(c)
  PROVE  IInv'
<1>1. /\ UNCHANGED <<connected, server, request, snapshotVars, answer, seen>>
      /\ \/ thread' = thread
         \/ /\ thread[c] \in {"none", "waiting", "idle"}
            /\ \E state \in {"waiting", "idle", "closed"} :
                 thread' = [thread EXCEPT ![c] = state]
      /\ owed' = owed \/ owed' = [owed EXCEPT ![c] = FALSE]
      /\ asked' = asked \/ asked' = [asked EXCEPT ![c] = 0]
  BY DEF Connect, Accept, HangUp, Close
<1>2. /\ OthersUntouched(c)
      /\ thread[c] = "copying" <=> thread'[c] = "copying"
      /\ thread[c] = "sending" <=> thread'[c] = "sending"
      /\ thread[c] = "routing" <=> thread'[c] = "routing"
      /\ owed'[c] => owed[c]
  BY <1>1 DEF OthersUntouched, snapshotVars, IInv, TypeOK
<1>3. TypeOK'
  <2>1. thread' \in [Connections -> {"none", "waiting", "idle", "routing",
                                    "copying", "sending", "closed"}]
    BY <1>1 DEF IInv, TypeOK
  <2>2. owed' \in [Connections -> BOOLEAN]
    BY <1>1 DEF IInv, TypeOK
  <2>3. asked' \in [Connections -> 0..MaxRequests]
    <3>1. asked \in [Connections -> 0..MaxRequests]
      BY DEF IInv, TypeOK
    <3>2. 0 \in 0..MaxRequests
      BY ServerAssumption
    <3> QED
      BY <1>1, <3>1, <3>2
  <2> QED
    BY <1>1, <2>1, <2>2, <2>3 DEF IInv, TypeOK, snapshotVars
<1>4. LockIsHeld'
  BY <1>1, <1>2 DEF IInv, LockIsHeld, snapshotVars, OthersUntouched
<1>5. CopiesPresent(c)' /\ OwesWhileBusy(c)'
  <2>1. Verdict' = Verdict
    BY <1>1 DEF Verdict
  <2> QED
    BY <1>1, <1>2, <2>1 DEF IInv, CopiesPresent, OwesWhileBusy, Handling, Busy,
                            snapshotVars
<1>6. AnswerIsTrue(c)'
  BY <1>1, <1>2 DEF IInv, ReadyWasTrue, AnswerIsTrue
<1> QED
  BY <1>1, <1>2, <1>3, <1>4, <1>5, <1>6, OneConnection

LEMMA RequestPreserves ==
  ASSUME IInv, NEW c \in Connections, NEW path \in Paths, Request(c, path)
  PROVE  IInv'
<1>1. /\ UNCHANGED <<connected, server, snapshotVars, answer>>
      /\ thread[c] = "idle" /\ thread'[c] = "routing" /\ seen'[c] = {Verdict}
      /\ OthersUntouched(c)
  BY DEF Request, OthersUntouched, snapshotVars, IInv, TypeOK
<1>2. TypeOK'
  <2>1. /\ thread' \in [Connections -> {"none", "waiting", "idle", "routing",
                                        "copying", "sending", "closed"}]
        /\ request' \in [Connections -> Paths \cup {NoPath}]
        /\ owed' \in [Connections -> BOOLEAN]
    BY DEF Request, IInv, TypeOK
  <2>2. asked' \in [Connections -> 0..MaxRequests]
    <3>1. /\ asked \in [Connections -> 0..MaxRequests]
          /\ asked[c] < MaxRequests /\ asked' = [asked EXCEPT ![c] = @ + 1]
      BY DEF Request, IInv, TypeOK
    <3>2. asked[c] + 1 \in 0..MaxRequests
      BY <3>1, ServerAssumption
    <3> QED
      BY <3>1, <3>2
  <2>3. seen' \in [Connections -> SUBSET {"ready", "not ready"}]
    BY DEF Request, IInv, TypeOK, Verdict
  <2> QED
    BY <1>1, <2>1, <2>2, <2>3 DEF IInv, TypeOK, snapshotVars
<1>3. LockIsHeld'
  BY <1>1 DEF IInv, LockIsHeld, snapshotVars, OthersUntouched
<1>4. CopiesPresent(c)' /\ OwesWhileBusy(c)'
  <2>1. Verdict' = Verdict
    BY <1>1 DEF Verdict
  <2> QED
    BY <1>1, <2>1 DEF IInv, CopiesPresent, OwesWhileBusy, Handling, Busy,
                      snapshotVars
<1>9. AnswerIsTrue(c)'
  BY <1>1 DEF AnswerIsTrue
<1> QED
  BY <1>1, <1>2, <1>3, <1>4, <1>9, OneConnection

(* The routes that need no snapshot. *)
LEMMA RoutePreserves ==
  ASSUME IInv, NEW c \in Connections, Route(c)
  PROVE  IInv'
<1>1. /\ thread[c] = "routing" /\ request[c] # "/ready"
      /\ UNCHANGED <<connected, server, request, snapshotVars, owed, asked, seen>>
      /\ thread' = [thread EXCEPT ![c] = "sending"]
  BY DEF Route, Answer, Outcomes
<1>2. PICK status \in Statuses : answer' = [answer EXCEPT ![c] = status]
  BY DEF Route, Answer
<1>3. TypeOK'
  BY <1>1, <1>2 DEF IInv, TypeOK, snapshotVars
<1>4. thread'[c] = "sending" /\ OthersUntouched(c)
  BY <1>1, <1>2 DEF IInv, TypeOK, snapshotVars, OthersUntouched
<1>5. LockIsHeld'
  BY <1>1, <1>4 DEF IInv, LockIsHeld, snapshotVars, OthersUntouched
<1>6. CopiesPresent(c)' /\ OwesWhileBusy(c)'
  BY <1>1, <1>4 DEF IInv, CopiesPresent, OwesWhileBusy, Handling, Busy, snapshotVars
<1>9. AnswerIsTrue(c)'
  BY <1>1 DEF AnswerIsTrue
<1> QED
  BY <1>1, <1>3, <1>4, <1>5, <1>6, <1>9, OneConnection

LEMMA TakeLockPreserves ==
  ASSUME IInv, NEW c \in Connections, TakeLock(c)
  PROVE  IInv'
<1>1. /\ thread[c] = "routing" /\ lock = Nobody /\ lock' = c
      /\ thread'[c] = "copying" /\ unread'[c] = Dependencies
      /\ UNCHANGED <<connected, server, request, down, answer, owed, asked, seen>>
      /\ OthersUntouched(c)
  BY DEF TakeLock, IInv, TypeOK, OthersUntouched
<1>2. TypeOK'
  BY DEF TakeLock, IInv, TypeOK
<1>3. LockIsHeld'
  BY <1>1, ServerAssumption DEF IInv, LockIsHeld, OthersUntouched
<1>4. CopiesPresent(c)' /\ OwesWhileBusy(c)'
  <2>1. Verdict \in seen[c] /\ down[c] = {}
    BY <1>1 DEF IInv, CopiesPresent, Handling
  <2>2. Verdict' = Verdict
    BY <1>1 DEF Verdict
  <2> QED
    BY <1>1, <2>1, <2>2 DEF CopiesPresent, OwesWhileBusy, Handling, Busy
<1>9. AnswerIsTrue(c)'
  BY <1>1 DEF AnswerIsTrue
<1> QED
  BY <1>1, <1>2, <1>3, <1>4, <1>9, OneConnection

LEMMA CopyPreserves ==
  ASSUME IInv, NEW c \in Connections, NEW d \in Dependencies, Copy(c, d)
  PROVE  IInv'
<1>1. /\ thread[c] = "copying" /\ d \in unread[c]
      /\ unread'[c] = unread[c] \ {d}
      /\ down'[c] = down[c] \cup ({d} \ connected)
      /\ UNCHANGED <<connected, lock, server, thread, request, answer, owed, asked,
                     seen>>
      /\ OthersUntouched(c)
  BY DEF Copy, IInv, TypeOK, OthersUntouched
<1>2. TypeOK'
  BY DEF Copy, IInv, TypeOK
<1>3. LockIsHeld'
  BY <1>1 DEF IInv, LockIsHeld
<1>4. CopiesPresent(c)' /\ OwesWhileBusy(c)'
  <2>1. /\ Verdict \in seen[c]
        /\ down[c] = Dependencies \ (unread[c] \cup connected)
        /\ owed[c] => thread[c] \in Busy
    BY <1>1 DEF IInv, CopiesPresent, OwesWhileBusy, Handling
  <2>2. down'[c] = Dependencies \ (unread'[c] \cup connected')
    BY <1>1, <2>1
  <2>3. Verdict' = Verdict
    BY <1>1 DEF Verdict
  <2> QED
    BY <1>1, <2>1, <2>2, <2>3 DEF CopiesPresent, OwesWhileBusy, Handling
<1>9. AnswerIsTrue(c)'
  BY <1>1 DEF AnswerIsTrue
<1> QED
  BY <1>1, <1>2, <1>3, <1>4, <1>9, OneConnection

(* Nothing copied as down means everything is connected now, as the lock   *)
(* is still held: the verdict sent is the present one.                     *)
LEMMA AnswerReadyPreserves ==
  ASSUME IInv, NEW c \in Connections, AnswerReady(c)
  PROVE  IInv'
<1>1. /\ thread[c] = "copying" /\ unread[c] = {} /\ lock' = Nobody
      /\ thread'[c] = "sending" /\ down'[c] = {}
      /\ answer'[c] = IF down[c] = {} THEN 200 ELSE 503
      /\ UNCHANGED <<connected, server, unread, request, owed, asked, seen>>
      /\ OthersUntouched(c)
  <2>1. /\ thread \in [Connections -> {"none", "waiting", "idle", "routing",
                                      "copying", "sending", "closed"}]
        /\ down \in [Connections -> SUBSET Dependencies]
        /\ answer \in [Connections -> Statuses \cup {NoStatus}]
    BY DEF IInv, TypeOK
  <2> QED
    BY <2>1 DEF AnswerReady, Answer, OthersUntouched
<1>2. TypeOK'
  <2>1. answer' \in [Connections -> Statuses \cup {NoStatus}]
    <3>1. PICK status \in {200, 503} : answer' = [answer EXCEPT ![c] = status]
      <4>1. answer' = [answer EXCEPT ![c] = IF down[c] = {} THEN 200 ELSE 503]
        BY DEF AnswerReady, Answer
      <4>2. CASE down[c] = {}
        BY <4>1, <4>2
      <4>3. CASE down[c] # {}
        BY <4>1, <4>3
      <4> QED
        BY <4>2, <4>3
    <3>2. status \in Statuses
      BY DEF Statuses
    <3> QED
      BY <3>1, <3>2 DEF IInv, TypeOK
  <2>2. /\ thread' \in [Connections -> {"none", "waiting", "idle", "routing",
                                        "copying", "sending", "closed"}]
        /\ down' \in [Connections -> SUBSET Dependencies]
    BY DEF AnswerReady, Answer, IInv, TypeOK
  <2> QED
    BY <1>1, <2>1, <2>2 DEF IInv, TypeOK
<1>3. LockIsHeld'
  BY <1>1, ServerAssumption DEF IInv, LockIsHeld, OthersUntouched
<1>4. CopiesPresent(c)' /\ OwesWhileBusy(c)'
  BY <1>1 DEF CopiesPresent, OwesWhileBusy, Handling, Busy
<1>5. (IF answer'[c] = 200 THEN "ready" ELSE "not ready") = Verdict
  <2>1. /\ down[c] = Dependencies \ (unread[c] \cup connected)
        /\ connected \subseteq Dependencies
    BY <1>1 DEF IInv, TypeOK, CopiesPresent
  <2>2. down[c] = {} <=> connected = Dependencies
    <3>1. \A d : d \in down[c] <=> d \in Dependencies /\ d \notin connected
      BY <1>1, <2>1
    <3>2. ASSUME down[c] = {} PROVE connected = Dependencies
      BY <2>1, <3>1, <3>2
    <3>3. ASSUME connected = Dependencies PROVE down[c] = {}
      BY <3>1, <3>3
    <3> QED
      BY <3>2, <3>3
  <2>3. CASE down[c] = {}
    BY <1>1, <2>2, <2>3 DEF Verdict
  <2>4. CASE down[c] # {}
    <3>1. answer'[c] = 503
      BY <1>1, <2>4
    <3> QED
      BY <3>1, <2>2, <2>4 DEF Verdict
  <2> QED
    BY <2>3, <2>4
<1>6. Verdict \in seen'[c]
  BY <1>1 DEF IInv, CopiesPresent, Handling
<1>7. AnswerIsTrue(c)'
  BY <1>5, <1>6 DEF AnswerIsTrue
<1> QED
  BY <1>1, <1>2, <1>3, <1>4, <1>7, OneConnection

LEMMA SendPreserves ==
  ASSUME IInv, NEW c \in Connections, Send(c)
  PROVE  IInv'
<1>1. /\ thread[c] = "sending" /\ thread'[c] \in {"idle", "closed"}
      /\ owed'[c] = FALSE
      /\ UNCHANGED <<connected, server, snapshotVars>>
      /\ OthersUntouched(c)
  BY DEF Send, IInv, TypeOK, OthersUntouched, snapshotVars
<1>2. TypeOK'
  <2>1. /\ thread' \in [Connections -> {"none", "waiting", "idle", "routing",
                                        "copying", "sending", "closed"}]
        /\ asked' \in [Connections -> 0..MaxRequests]
    <3>1. CASE owed[c]
      BY <3>1 DEF Send, IInv, TypeOK
    <3>2. CASE ~owed[c]
      <4>1. asked \in [Connections -> 0..MaxRequests]
        BY DEF IInv, TypeOK
      <4>2. 0 \in 0..MaxRequests
        BY ServerAssumption
      <4> QED
        BY <3>2, <4>1, <4>2 DEF Send, IInv, TypeOK
    <3> QED
      BY <3>1, <3>2
  <2>2. /\ request' \in [Connections -> Paths \cup {NoPath}]
        /\ answer' \in [Connections -> Statuses \cup {NoStatus}]
        /\ owed' \in [Connections -> BOOLEAN]
        /\ seen' \in [Connections -> SUBSET {"ready", "not ready"}]
    BY DEF Send, IInv, TypeOK
  <2> QED
    BY <1>1, <2>1, <2>2 DEF IInv, TypeOK, snapshotVars
<1>3. LockIsHeld'
  BY <1>1 DEF IInv, LockIsHeld, OthersUntouched, snapshotVars
<1>4. CopiesPresent(c)' /\ OwesWhileBusy(c)'
  BY <1>1 DEF IInv, CopiesPresent, OwesWhileBusy, Handling, snapshotVars
<1>9. AnswerIsTrue(c)'
  BY <1>1 DEF AnswerIsTrue
<1> QED
  BY <1>1, <1>2, <1>3, <1>4, <1>9, OneConnection

LEMMA NextPreserves == IInv /\ [Next]_vars => IInv'
<1> SUFFICES ASSUME IInv, [Next]_vars PROVE IInv'
  OBVIOUS
<1>1. CASE \E d \in Dependencies, up \in BOOLEAN : Set(d, up)
  BY <1>1, SetPreserves
<1>2. CASE Start \/ Stop \/ Stopped
  BY <1>2, OwnerPreserves
<1>3. ASSUME NEW c \in Connections, Connect(c) \/ Accept(c) \/ HangUp(c) \/ Close(c)
      PROVE  IInv'
  BY <1>3, ClientPreserves
<1>4. ASSUME NEW c \in Connections, NEW path \in Paths, Request(c, path)
      PROVE  IInv'
  BY <1>4, RequestPreserves
<1>5. ASSUME NEW c \in Connections, Handle(c) PROVE IInv'
  BY <1>5, RoutePreserves, TakeLockPreserves, AnswerReadyPreserves, SendPreserves,
     CopyPreserves DEF Handle
<1>6. CASE UNCHANGED vars
  BY <1>6 DEF vars, handlerVars, snapshotVars, IInv, TypeOK, LockIsHeld, Verdict,
              CopiesPresent, OwesWhileBusy, Handling, ReadyWasTrue,
              AnswerIsTrue
<1> QED
  BY <1>1, <1>2, <1>3, <1>4, <1>5, <1>6 DEF Next

(* The types, for any dependencies and connections. *)
THEOREM ServerTypes == Spec => []TypeOK
<1>1. IInv => TypeOK
  BY DEF IInv
<1> QED
  BY <1>1, InitEstablishes, NextPreserves, PTL DEF Spec

(* What /ready answers was true of all dependencies at once while it was   *)
(* asked: Readiness.snapshot, its lock, and the marks of the event loop.   *)
THEOREM ReadyTellsTheTruth == Spec => []ReadyWasTrue
<1>1. IInv => ReadyWasTrue
  BY DEF IInv
<1> QED
  BY <1>1, InitEstablishes, NextPreserves, PTL DEF Spec

(* Every request of a client that stays is answered (_respond). *)
THEOREM RequestsAnswered == Spec => []EveryRequestAnswered
<1>1. IInv => EveryRequestAnswered
  BY DEF IInv, OwesWhileBusy, Busy, EveryRequestAnswered
<1> QED
  BY <1>1, InitEstablishes, NextPreserves, PTL DEF Spec

-----------------------------------------------------------------------------
(* While a thread is inside `snapshot` no step of anybody marks a          *)
(* dependency or takes the lock from it before it has copied them all, and *)
(* every step of its own copies one more or lets the lock go.              *)
SnapshotEnds(c) ==
  lock = c =>
    /\ connected' = connected
    /\ \/ lock' = c /\ unread'[c] \subseteq unread[c]
       \/ lock' = Nobody /\ unread[c] = {}
    /\ Handle(c) => lock' = Nobody \/ unread'[c] # unread[c]

LEMMA HolderCopies ==
  ASSUME IInv, NEW c \in Connections, lock = c, Handle(c)
  PROVE  SnapshotEnds(c)
<1>1. thread[c] = "copying"
  BY DEF IInv, LockIsHeld
<1>2. CASE AnswerReady(c)
  BY <1>2 DEF AnswerReady, Answer, SnapshotEnds
<1>3. ASSUME NEW d \in Dependencies, Copy(c, d)
      PROVE  SnapshotEnds(c)
  <2>1. /\ d \in unread[c] /\ unread'[c] = unread[c] \ {d}
        /\ UNCHANGED <<connected, lock>>
    BY <1>3 DEF Copy, IInv, TypeOK
  <2> QED
    BY <2>1 DEF SnapshotEnds
<1> QED
  BY <1>1, <1>2, <1>3 DEF Handle, Route, TakeLock, Send

LEMMA OthersWait ==
  ASSUME IInv, NEW c \in Connections, lock = c, [Next]_vars, ~Handle(c)
  PROVE  SnapshotEnds(c)
<1>1. c # Nobody /\ thread[c] = "copying"
  BY ServerAssumption DEF IInv, LockIsHeld
<1>2. SUFFICES UNCHANGED connected /\ UNCHANGED lock /\ unread'[c] = unread[c]
  BY DEF SnapshotEnds
<1>3. CASE \E d \in Dependencies, up \in BOOLEAN : Set(d, up)
  BY <1>1, <1>3 DEF Set
<1>4. CASE \/ Start \/ Stop \/ Stopped \/ UNCHANGED vars
  BY <1>4 DEF Start, Stop, Stopped, vars, handlerVars, snapshotVars
<1>5. ASSUME NEW r \in Connections,
             \/ Connect(r) \/ Accept(r) \/ HangUp(r) \/ Close(r)
             \/ \E path \in Paths : Request(r, path)
      PROVE  UNCHANGED <<connected, lock, unread>>
  BY <1>5 DEF Connect, Accept, HangUp, Close, Request, snapshotVars
<1>6. ASSUME NEW r \in Connections, r # c, Handle(r)
      PROVE  UNCHANGED connected /\ UNCHANGED lock /\ unread'[c] = unread[c]
  <2>1. thread[r] # "copying"
    BY <1>6 DEF IInv, LockIsHeld
  <2> QED
    BY <1>1, <1>6, <2>1 DEF Handle, Route, TakeLock, AnswerReady, Send, Copy,
       Answer, snapshotVars
<1> QED
  BY <1>3, <1>4, <1>5, <1>6 DEF Next

(* The event loop waits for the lock no longer than one thread takes to    *)
(* copy the dependencies, and what is copied does not move meanwhile:      *)
(* "read atomically so `/ready` can't report a torn view" (snapshot).      *)
THEOREM SnapshotsAreShort ==
  Spec => [][\A c \in Connections : SnapshotEnds(c)]_vars
<1>1. IInv /\ [Next]_vars => [\A c \in Connections : SnapshotEnds(c)]_vars
  <2> SUFFICES ASSUME IInv, [Next]_vars, NEW c \in Connections
               PROVE  SnapshotEnds(c)
    OBVIOUS
  <2>1. CASE lock # c
    BY <2>1 DEF SnapshotEnds
  <2>2. CASE lock = c
    BY <2>2, HolderCopies, OthersWait
  <2> QED
    BY <2>1, <2>2
<1> QED
  BY <1>1, InitEstablishes, NextPreserves, PTL DEF Spec
=============================================================================
