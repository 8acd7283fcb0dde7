------------------------- MODULE ZmqTransportProofs -------------------------
(***************************************************************************)
(* Proofs about ZmqTransport, for any set of messages, any number of       *)
(* workers and any capacities: what each step of the transport does to the *)
(* set of pending messages.                                                *)
(***************************************************************************)
EXTENDS ZmqTransport, QueueLemmas

Holding == {held[w] : w \in Workers} \ {NoMsg}

(* A message is in one place at a time, and once.                          *)
EachOnce ==
  /\ IsInjective(sendq) /\ IsInjective(wire) /\ IsInjective(recvq)
  /\ \A v, w \in Workers : held[v] = held[w] /\ held[v] # NoMsg => v = w
  /\ Range(sendq) \cap (Range(wire) \cup Range(recvq) \cup Holding) = {}
  /\ Range(wire) \cap (Range(recvq) \cup Holding) = {}
  /\ Range(recvq) \cap Holding = {}
  /\ gone \cap Pending = {}

-----------------------------------------------------------------------------
(* Steps of the transport.  The messages are those of M.                   *)

(* What is with the workers, after one of them has taken a message and     *)
(* after one has come back.                                                *)
LEMMA HoldMore ==
  ASSUME NEW M, NoMsg \notin M, held \in [Workers -> M \cup {NoMsg}],
         NEW w \in Workers, held[w] = NoMsg, NEW m \in M,
         held' = [held EXCEPT ![w] = m]
  PROVE  Holding' = Holding \cup {m} /\ held' \in [Workers -> M \cup {NoMsg}]
BY DEF Holding

LEMMA HoldLess ==
  ASSUME NEW M, NoMsg \notin M, held \in [Workers -> M \cup {NoMsg}],
         \A u, v \in Workers : held[u] = held[v] /\ held[u] # NoMsg => u = v,
         NEW w \in Workers, held[w] # NoMsg,
         held' = [held EXCEPT ![w] = NoMsg]
  PROVE  Holding' = Holding \ {held[w]} /\ held' \in [Workers -> M \cup {NoMsg}]
BY DEF Holding

LEMMA SendStep ==
  ASSUME NEW M, NoMsg \notin M, TransportType(M), EachOnce,
         NEW m \in M, m \notin Pending \cup gone, Send(m)
  PROVE  /\ TransportType(M)' /\ EachOnce'
         /\ Pending' = Pending \cup {m} /\ UNCHANGED gone
<1>1. /\ sendq' \in Seq(M) /\ Len(sendq') = Len(sendq) + 1
      /\ Range(sendq') = Range(sendq) \cup {m} /\ IsInjective(sendq')
  BY AppendElements DEF Send, TransportType, EachOnce, Pending
<1>2. Len(sendq') <= SendCap
  BY <1>1, LenProperties, CapAssumption DEF Send, TransportType
<1>3. UNCHANGED <<wire, recvq, held, gone, Holding>>
  BY DEF Send, Holding
<1>4. Pending' = Pending \cup {m}
  BY <1>1, <1>3 DEF Pending
<1>5. EachOnce'
  BY <1>1, <1>3, <1>4 DEF EachOnce, Pending, Holding
<1>6. TransportType(M)'
  BY <1>1, <1>2, <1>3 DEF TransportType
<1> QED BY <1>3, <1>4, <1>5, <1>6

(* A message that moves on stays pending. *)
LEMMA MoveStep ==
  ASSUME NEW M, NoMsg \notin M, TransportType(M), EachOnce,
         \/ Sender
         \/ Receiver
         \/ \E w \in Workers : Take(w)
  PROVE  /\ TransportType(M)' /\ EachOnce'
         /\ Pending' = Pending /\ UNCHANGED gone
<1> USE DEF TransportType
<1>1. CASE Sender
  <2>1. /\ Head(sendq) \in M /\ Head(sendq) \in Range(sendq)
        /\ sendq' \in Seq(M) /\ Len(sendq') <= Len(sendq) /\ IsInjective(sendq')
        /\ Range(sendq') = Range(sendq) \ {Head(sendq)}
    BY <1>1, TailElements DEF Sender, EachOnce
  <2>2. /\ wire' \in Seq(M) /\ IsInjective(wire')
        /\ Range(wire') = Range(wire) \cup {Head(sendq)}
    BY <1>1, <2>1, AppendElements DEF Sender, EachOnce
  <2>3. UNCHANGED <<recvq, held, gone, Holding>>
    BY <1>1 DEF Sender, Holding
  <2>4. Pending' = Pending
    BY <2>1, <2>2, <2>3 DEF Pending
  <2>5. EachOnce'
    BY <2>1, <2>2, <2>3, <2>4 DEF EachOnce
  <2>6. Len(sendq') <= SendCap
    BY <2>1, LenProperties, CapAssumption
  <2> QED BY <2>1, <2>2, <2>3, <2>4, <2>5, <2>6
<1>2. CASE Receiver
  <2>1. /\ Head(wire) \in M /\ Head(wire) \in Range(wire)
        /\ wire' \in Seq(M) /\ IsInjective(wire')
        /\ Range(wire') = Range(wire) \ {Head(wire)}
    BY <1>2, TailElements DEF Receiver, EachOnce
  <2>2. /\ recvq' \in Seq(M) /\ IsInjective(recvq') /\ Len(recvq') = Len(recvq) + 1
        /\ Range(recvq') = Range(recvq) \cup {Head(wire)}
    BY <1>2, <2>1, AppendElements DEF Receiver, EachOnce
  <2>3. UNCHANGED <<sendq, held, gone, Holding>>
    BY <1>2 DEF Receiver, Holding
  <2>4. Pending' = Pending
    BY <2>1, <2>2, <2>3 DEF Pending
  <2>5. EachOnce'
    BY <2>1, <2>2, <2>3, <2>4 DEF EachOnce
  <2>6. Len(recvq') <= RecvCap
    BY <1>2, <2>2, LenProperties, CapAssumption DEF Receiver
  <2> QED BY <2>1, <2>2, <2>3, <2>4, <2>5, <2>6
<1>3. ASSUME NEW w \in Workers, Take(w)
      PROVE  /\ TransportType(M)' /\ EachOnce'
             /\ Pending' = Pending /\ UNCHANGED gone
  <2>1. /\ Head(recvq) \in M /\ Head(recvq) \in Range(recvq)
        /\ recvq' \in Seq(M) /\ Len(recvq') <= Len(recvq) /\ IsInjective(recvq')
        /\ Range(recvq') = Range(recvq) \ {Head(recvq)}
    BY <1>3, TailElements DEF Take, EachOnce
  <2>2. /\ Holding' = Holding \cup {Head(recvq)}
        /\ held' \in [Workers -> M \cup {NoMsg}]
    BY <1>3, <2>1, HoldMore DEF Take
  <2>3. UNCHANGED <<sendq, wire, gone>>
    BY <1>3 DEF Take
  <2>4. Pending' = Pending
    BY <2>1, <2>2, <2>3 DEF Pending, Holding
  <2>5. \A u, v \in Workers : held'[u] = held'[v] /\ held'[u] # NoMsg => u = v
    <3>1. \A v \in Workers : held[v] # Head(recvq)
      BY <2>1 DEF EachOnce, Holding
    <3> QED BY <1>3, <3>1 DEF EachOnce, Take
  <2>6. EachOnce'
    BY <2>1, <2>2, <2>3, <2>4, <2>5 DEF EachOnce
  <2>7. Len(recvq') <= RecvCap
    BY <2>1, LenProperties, CapAssumption
  <2> QED BY <2>1, <2>2, <2>3, <2>4, <2>6, <2>7
<1> QED BY <1>1, <1>2, <1>3

LEMMA ReturnStep ==
  ASSUME NEW M, NoMsg \notin M, TransportType(M), EachOnce,
         NEW w \in Workers, Return(w)
  PROVE  /\ TransportType(M)' /\ EachOnce'
         /\ held[w] \in M /\ held[w] \in Pending
         /\ Pending' = Pending \ {held[w]} /\ gone' = gone \cup {held[w]}
<1>1. held[w] \in M /\ held[w] \in Holding
  BY DEF Return, TransportType, Holding
<1>2. /\ Holding' = Holding \ {held[w]}
      /\ held' \in [Workers -> M \cup {NoMsg}]
  BY HoldLess DEF Return, TransportType, EachOnce
<1>3. UNCHANGED <<sendq, wire, recvq>> /\ gone' = gone \cup {held[w]}
  BY DEF Return
<1>4. Pending' = Pending \ {held[w]} /\ held[w] \in Pending
  BY <1>1, <1>2, <1>3 DEF Pending, Holding, EachOnce
<1>5. \A u, v \in Workers : held'[u] = held'[v] /\ held'[u] # NoMsg => u = v
  BY DEF Return, EachOnce, TransportType
<1>6. EachOnce'
  BY <1>1, <1>2, <1>3, <1>4, <1>5 DEF EachOnce
<1>7. TransportType(M)'
  BY <1>1, <1>2, <1>3 DEF TransportType
<1> QED BY <1>1, <1>3, <1>4, <1>6, <1>7

(* The end of the sender loses a part of what is pending. *)
LEMMA DiesStep ==
  ASSUME NEW M, NoMsg \notin M, TransportType(M), EachOnce, SenderDies
  PROVE  /\ TransportType(M)' /\ EachOnce'
         /\ Pending' = Pending \ (gone' \ gone)
         /\ gone' \ gone \subseteq Pending /\ gone \subseteq gone'
<1> DEFINE lost == Range(sendq) \cup (Range(wire) \ Range(wire'))
<1>1. PICK k \in 0..Len(wire) : wire' = SubSeq(wire, 1, k)
  BY DEF SenderDies
<1>2. /\ wire' \in Seq(M) /\ IsInjective(wire')
      /\ Range(wire') \subseteq Range(wire)
  BY <1>1, PrefixElements DEF TransportType, EachOnce
<1>3. /\ sendq' = <<>> /\ gone' = gone \cup lost
      /\ UNCHANGED <<recvq, held, Holding>>
  BY DEF SenderDies, Holding
<1>4. Range(sendq') = {} /\ IsInjective(sendq')
  BY <1>3, NoElements
<1>5. lost \subseteq Pending /\ lost \cap gone = {}
  BY DEF Pending, EachOnce
<1>6. gone' \ gone = lost
  BY <1>3, <1>5
<1>7. Pending' = Pending \ lost
  BY <1>2, <1>3, <1>4 DEF Pending, EachOnce, Holding
<1>8. EachOnce'
  <2>1. gone' \cap Pending' = {}
    BY <1>3, <1>7 DEF EachOnce
  <2> QED BY <1>2, <1>3, <1>4, <2>1 DEF EachOnce
<1>9. TransportType(M)'
  <2>1. sendq' \in Seq(M) /\ Len(sendq') <= SendCap
    BY <1>3, EmptySeq, CapAssumption
  <2>2. gone' \subseteq M
    <3>1. \A q \in Seq(M) : Range(q) \subseteq M
      BY ElementOfSeq, LenProperties DEF Range
    <3> QED BY <1>3, <3>1 DEF TransportType
  <2> QED BY <1>2, <1>3, <2>1, <2>2 DEF TransportType
<1> QED BY <1>3, <1>5, <1>6, <1>7, <1>8, <1>9
=============================================================================
