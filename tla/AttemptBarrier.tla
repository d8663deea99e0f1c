--------------------------- MODULE AttemptBarrier ---------------------------
(* What a background attempt is promised about the calls it submits to the   *)
(* service loop: an attempt ends only when none of them is still active.     *)
(* ServiceBridge shows how the loop keeps the promise.                       *)
CONSTANT Call

VARIABLES open,       \* an attempt is running or closing
          active      \* calls submitted and not settled, cleanup included

BarrierInit == open = TRUE /\ active = {}

Submit(c) == open /\ c \notin active /\ active' = active \cup {c} /\ UNCHANGED open

Settle(c) == c \in active /\ active' = active \ {c} /\ UNCHANGED open

\* a call that settles may have submitted another one in its last step
Relay(c, d) == open /\ c \in active /\ active' = (active \ {c}) \cup {d} /\ UNCHANGED open

End == open /\ active = {} /\ open' = FALSE /\ UNCHANGED active

Begin == ~open /\ open' = TRUE /\ UNCHANGED active

BarrierNext == \/ End \/ Begin
               \/ \E c \in Call : Submit(c) \/ Settle(c) \/ \E d \in Call \ active : Relay(c, d)

BarrierSpec == BarrierInit /\ [][BarrierNext]_<<open, active>>
=============================================================================
