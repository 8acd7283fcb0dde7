---------------------------- MODULE ZmqTransport ----------------------------
(***************************************************************************)
(* One direction of the ZmqMessenger pair: the channel Send of the one     *)
(* process, the goroutine that empties it into the socket, the goroutine   *)
(* of the other process that fills Recv from it, and the workers that take *)
(* from Recv.  Up to the workers messages keep their order; each worker    *)
(* then takes its own time.                                                *)
(*                                                                         *)
(* The sockets are external: they deliver in order and lose what the       *)
(* sending process had not got rid of when it ends.                        *)
(***************************************************************************)
EXTENDS Naturals, Sequences, Functions

CONSTANTS
  Workers,  \* goroutines of ZmqMessenger.Worker (4 in the code)
  SendCap,  \* capacity of ZmqMessenger.Send (256 in the code)
  RecvCap,  \* capacity of ZmqMessenger.Recv (256 in the code)
  NoMsg     \* not a message

ASSUME CapAssumption == SendCap \in Nat \ {0} /\ RecvCap \in Nat \ {0}

VARIABLES
  sendq,  \* ZmqMessenger.Send of the sender
  wire,   \* the sockets
  recvq,  \* ZmqMessenger.Recv of the receiver
  held,   \* the message a worker handles
  gone    \* history: messages handled or lost

transport == <<sendq, wire, recvq, held, gone>>

Pending ==
  Range(sendq) \cup Range(wire) \cup Range(recvq)
    \cup ({held[w] : w \in Workers} \ {NoMsg})

TransportType(Messages) ==
  /\ sendq \in Seq(Messages) /\ Len(sendq) <= SendCap
  /\ wire \in Seq(Messages)
  /\ recvq \in Seq(Messages) /\ Len(recvq) <= RecvCap
  /\ held \in [Workers -> Messages \cup {NoMsg}]
  /\ gone \subseteq Messages

TransportInit ==
  /\ sendq = <<>> /\ wire = <<>> /\ recvq = <<>>
  /\ held = [w \in Workers |-> NoMsg] /\ gone = {}

(* zm.Send <- m *)
Send(m) ==
  /\ Len(sendq) < SendCap
  /\ sendq' = Append(sendq, m)
  /\ UNCHANGED <<wire, recvq, held, gone>>

Sender ==
  /\ sendq # <<>>
  /\ wire' = Append(wire, Head(sendq)) /\ sendq' = Tail(sendq)
  /\ UNCHANGED <<recvq, held, gone>>

(* Defect: the receiver does not take the message off the socket when Recv *)
(* has room at once.                                                       *)
ReceiverTwice ==
  /\ wire # <<>> /\ Len(recvq) < RecvCap
  /\ recvq' = Append(recvq, Head(wire))
  /\ UNCHANGED <<sendq, wire, held, gone>>

Receiver ==
  /\ wire # <<>> /\ Len(recvq) < RecvCap
  /\ recvq' = Append(recvq, Head(wire)) /\ wire' = Tail(wire)
  /\ UNCHANGED <<sendq, held, gone>>

Take(w) ==
  /\ held[w] = NoMsg /\ recvq # <<>>
  /\ held' = [held EXCEPT ![w] = Head(recvq)] /\ recvq' = Tail(recvq)
  /\ UNCHANGED <<sendq, wire, gone>>

(* The handler has returned. *)
Return(w) ==
  /\ held[w] # NoMsg
  /\ held' = [held EXCEPT ![w] = NoMsg] /\ gone' = gone \cup {held[w]}
  /\ UNCHANGED <<sendq, wire, recvq>>

(* The sending process ends; the first k messages are with the receiver. *)
SenderDies ==
  \E k \in 0..Len(wire) :
    /\ sendq' = <<>> /\ wire' = SubSeq(wire, 1, k)
    /\ gone' = gone \cup Range(sendq) \cup (Range(wire) \ Range(wire'))
    /\ UNCHANGED <<recvq, held>>
=============================================================================
