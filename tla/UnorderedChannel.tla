-------------------------- MODULE UnorderedChannel --------------------------
(***************************************************************************)
(* What the two processes may rely on between them: a message that was     *)
(* sent is handled at most once, in no particular order, and only the end  *)
(* of the sending process loses messages.                                  *)
(***************************************************************************)
CONSTANT Messages

VARIABLES
  pending,  \* sent and not yet handled
  gone      \* handled or lost

Init == pending = {} /\ gone = {}

Send(m) ==
  /\ m \notin pending \cup gone
  /\ pending' = pending \cup {m} /\ UNCHANGED gone

Receive(m) ==
  /\ m \in pending
  /\ pending' = pending \ {m} /\ gone' = gone \cup {m}

Lose(lost) ==
  /\ lost \subseteq pending
  /\ pending' = pending \ lost /\ gone' = gone \cup lost

Next ==
  \/ \E m \in Messages : Send(m) \/ Receive(m)
  \/ \E lost \in SUBSET pending : Lose(lost)

Spec == Init /\ [][Next]_<<pending, gone>>
=============================================================================
