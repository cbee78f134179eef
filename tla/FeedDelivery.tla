---------------------------- MODULE FeedDelivery ----------------------------
(***************************************************************************)
(* The adapter and a consumer of its streams, composed: DeliveryTracker    *)
(* with the streams the adapter writes in place of those TickLog allows.   *)
(***************************************************************************)
EXTENDS FeedAdapter

CONSTANTS
  Unseen,                 \* no mark for a stream yet
  ReplayCrossesSessions,  \* may a replay go back past a session change?
  MaxLength               \* bound: entries per stream

VARIABLES start, cursor, seen, accepted, alarmed  \* DeliveryTracker's

Consumer == INSTANCE DeliveryTracker WITH log <- stream

DeliveryAssumption == Consumer!ConsumerAssumption /\ Consumer!UnseenAssumption

consumerVars == <<start, cursor, seen, accepted, alarmed>>
deliveryVars == <<vars, consumerVars>>

DeliveryInit == Init /\ Consumer!Init

-----------------------------------------------------------------------------
(* The adapter moves; what it publishes is there to be read. *)
AdapterStep ==
  /\ Next
  /\ \A s \in Symbols : Len(stream'[s]) <= MaxLength
  /\ UNCHANGED consumerVars

(* The consumer reads, goes back or starts again, or a stream is trimmed. *)
ConsumerStep ==
  /\ \/ Consumer!Restart
     \/ \E s \in Symbols :
          Consumer!Read(s) \/ Consumer!Replay(s) \/ Consumer!Trim(s)
  /\ UNCHANGED vars

DeliveryNext == AdapterStep \/ ConsumerStep

DeliverySpec == DeliveryInit /\ [][DeliveryNext]_deliveryVars

-----------------------------------------------------------------------------
(* No tick of the adapter is handed on twice ("it treats the second        *)
(* occurrence as a duplicate", the data contract), over restarts and       *)
(* repeated commands of the adapter and replays of the consumer.           *)
HandedOnOnce == Consumer!AcceptedOnce
=============================================================================
