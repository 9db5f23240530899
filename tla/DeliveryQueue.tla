---------------------------- MODULE DeliveryQueue ----------------------------
(***************************************************************************)
(* What an inbox promises: a message is accepted once, however often its   *)
(* sender repeats it; it is taken by one lane at a time and may be taken   *)
(* again until it is handled; who handles it is the lane that took it      *)
(* last, and a handled message stays handled.                              *)
(***************************************************************************)
CONSTANTS Message, Lane, Logical(_), Nobody

VARIABLES
  status,  \* "unsent", "pending", "claimed" or "handled"
  holder   \* the lane that took the message last and still has it

vars == <<status, holder>>

Init ==
  /\ status = [m \in Message |-> "unsent"]
  /\ holder = [m \in Message |-> Nobody]

\* The sender's content has not been accepted under this or another id.
Accept(m) ==
  /\ \A n \in Message : Logical(n) = Logical(m) => status[n] = "unsent"
  /\ status' = [status EXCEPT ![m] = "pending"]
  /\ UNCHANGED holder

Take(m, lane) ==
  /\ status[m] \in {"pending", "claimed"}
  /\ status' = [status EXCEPT ![m] = "claimed"]
  /\ holder' = [holder EXCEPT ![m] = lane]

Return(m) ==
  /\ status[m] = "claimed"
  /\ status' = [status EXCEPT ![m] = "pending"]
  /\ holder' = [holder EXCEPT ![m] = Nobody]

Finish(m, lane) ==
  /\ status[m] = "claimed"
  /\ holder[m] = lane
  /\ status' = [status EXCEPT ![m] = "handled"]
  /\ UNCHANGED holder

Next ==
  \E m \in Message :
    \/ Accept(m)
    \/ Return(m)
    \/ \E lane \in Lane : Take(m, lane) \/ Finish(m, lane)

Spec == Init /\ [][Next]_vars
===============================================================================
