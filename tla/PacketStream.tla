---------------------------- MODULE PacketStream ----------------------------
(***************************************************************************)
(* What PubHandler promises: a lidar's packets become frames without loss, *)
(* repetition or reordering.  Each frame is a prefix of what has arrived   *)
(* and was not in a frame yet.                                             *)
(***************************************************************************)
EXTENDS Sequences

CONSTANTS Lidars, Packets

VARIABLES
  pending,  \* by lidar: the packets that are in no frame yet
  out       \* by lidar: the frame the last step published, or <<>>

NoFrame == [l \in Lidars |-> <<>>]

Init == pending = NoFrame /\ out = NoFrame

Arrive(l, p) ==
  /\ pending' = [pending EXCEPT ![l] = Append(@, p)]
  /\ out' = NoFrame

Publish ==
  /\ out' # NoFrame
  /\ \A l \in Lidars : pending[l] = out'[l] \o pending'[l]

Quiet == out' = NoFrame /\ UNCHANGED pending

Next == Publish \/ Quiet \/ \E l \in Lidars, p \in Packets : Arrive(l, p)

Spec == Init /\ [][Next]_<<pending, out>>
=============================================================================
