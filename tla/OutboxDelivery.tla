--------------------------- MODULE OutboxDelivery ----------------------------
(***************************************************************************)
(* What a transactional outbox promises its writer: an event, once         *)
(* published, is handled at least once, and it leaves the outbox only      *)
(* after it has been handled.  It may be handled again, even after it has  *)
(* left.                                                                   *)
(***************************************************************************)
EXTENDS Naturals

VARIABLES published,   \* how many events have been written; they are 1..published
          handled,     \* those handled at least once
          acked        \* those marked as processed

vars == <<published, handled, acked>>

Init == published = 0 /\ handled = {} /\ acked = {}

Publish == published' = published + 1 /\ UNCHANGED <<handled, acked>>

Handle(e) == handled' = handled \cup {e} /\ UNCHANGED <<published, acked>>

Ack(e) ==
  /\ e \in handled \ acked
  /\ acked' = acked \cup {e}
  /\ UNCHANGED <<published, handled>>

Next == Publish \/ \E e \in 1..published : Handle(e) \/ Ack(e)

Spec == Init /\ [][Next]_vars
=============================================================================
