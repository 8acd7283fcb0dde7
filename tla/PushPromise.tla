----------------------------- MODULE PushPromise -----------------------------
(***************************************************************************)
(* What the push service promises.  A note is a highlighted chat message   *)
(* for one user.  When it arrives it is offered to some of his device      *)
(* tokens, and every offer is settled exactly once: either the device      *)
(* acknowledges it over its websocket, or it is handed to the push agent.  *)
(* Settled means settled: nothing is pushed twice, nothing acknowledged is *)
(* pushed, and as long as the process is up nothing is forgotten.          *)
(***************************************************************************)
CONSTANTS Notes, Tokens

VARIABLES
  fate,   \* what became of a note on a token
  up      \* the process is running

vars == <<fate, up>>

Init ==
  /\ fate = [n \in Notes |-> [t \in Tokens |-> "none"]]
  /\ up = TRUE

(* The tokens T change from one fate to another for the note n. *)
Turn(n, T, from, to) ==
  /\ up
  /\ \A t \in T : fate[n][t] = from
  /\ fate' = [fate EXCEPT ![n] =
                [t \in Tokens |-> IF t \in T THEN to ELSE fate[n][t]]]
  /\ UNCHANGED up

Offer(n, T) == Turn(n, T, "none", "pending")
Acknowledge(n, t) == Turn(n, {t}, "pending", "acked")
Push(n, T) == Turn(n, T, "pending", "pushed")

Fail == up /\ up' = FALSE /\ UNCHANGED fate

Next ==
  \/ \E n \in Notes, T \in SUBSET Tokens : Offer(n, T) \/ Push(n, T)
  \/ \E n \in Notes, t \in Tokens : Acknowledge(n, t)
  \/ Fail

Spec == Init /\ [][Next]_vars

Settled(n, t) == fate[n][t] \in {"acked", "pushed"}

(* Every offer is settled in the end, unless the process stops. *)
Kept ==
  \A n \in Notes, t \in Tokens :
    fate[n][t] = "pending" ~> (Settled(n, t) \/ ~up)
=============================================================================
