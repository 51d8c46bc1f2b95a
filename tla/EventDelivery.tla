--------------------------- MODULE EventDelivery ---------------------------
(***************************************************************************)
(* What the event stream of a Codex run promises.  Events are stored under *)
(* numbers, each number once and for ever, in any order.  A reader sees    *)
(* only what is stored, may see it again or out of order and may miss an   *)
(* event, but the newest one always reaches it in the end.                 *)
(***************************************************************************)
EXTENDS Naturals

VARIABLES
  open, \* whether anybody reads the stream
  log,  \* the stored events: a number and its writer
  seen  \* the numbers the reader has received

Newest(events) ==
  {e.sequence : e \in {x \in events : \A y \in events : y.sequence <= x.sequence}}

vars == <<open, log, seen>>

Init == open \in BOOLEAN /\ log = {} /\ seen = {}

Store ==
  /\ \E e \in log' : e \notin log /\ log' = log \cup {e}
                     /\ \A f \in log : f.sequence # e.sequence
  /\ UNCHANGED <<open, seen>>

Receives(numbers) ==
  /\ open
  /\ numbers \subseteq {e.sequence : e \in log}
  /\ seen' = seen \cup numbers
  /\ UNCHANGED <<open, log>>

Deliver == \E numbers \in SUBSET {e.sequence : e \in log} : Receives(numbers)

DeliverNewest == ~(Newest(log) \subseteq seen) /\ Deliver /\ Newest(log) \subseteq seen'

Next == Store \/ Deliver

Spec == Init /\ [][Next]_vars /\ WF_vars(DeliverNewest)
=============================================================================
