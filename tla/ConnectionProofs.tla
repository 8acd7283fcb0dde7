-------------------------- MODULE ConnectionProofs --------------------------
(***************************************************************************)
(* Proofs about Connection, for any sequence of commands, any broadcasts,  *)
(* any number of workers and any capacities of the two channels.           *)
(***************************************************************************)
EXTENDS Connection, QueueLemmas, FiniteSetTheorems

-----------------------------------------------------------------------------
(* The inductive invariant. *)

(* A packet that is read and not yet handed over is the last one read.     *)
Reading ==
  /\ handed \subseteq 1..sent
  /\ reader = "handle" \/ receiver = "deliver"
       => packet = sent /\ packet \in Requests /\ packet \notin handed
  /\ reader \in {"start", "make", "handle"} => receiver = "none"

Writing ==
  /\ writer = "write" => writing \in Packets
  /\ writer \in {"off", "range"} => writing = NoPacket
  /\ \A r \in written : ~NotFound(r)

(* Before the reader waits for a packet nobody sends, and only the reader  *)
(* lets cm close the channel.                                              *)
Early ==
  reader \in {"start", "make"} =>
    /\ writer \in {"off", "range"} /\ stoprecv = "nil"
    /\ send = <<>> /\ job = <<>> /\ InHand = {} /\ pushing = {} /\ handed = {}

Closing ==
  /\ closed <=> cm = "done"
  /\ cm # "idle" => reader = "ended"
  /\ reader \notin {"start", "make"} => stoprecv # "nil"
  /\ stoprecv = "full" => writer = "ended"

(* The packet at the writer, the places of a packet, and that it is in one.*)
AtWriter == {writing} \ {NoPacket}

Once ==
  /\ IsInjective(job) /\ IsInjective(send)
  /\ \A v, w \in Workers : hand[v] = hand[w] /\ hand[v] # NoPacket => v = w
  /\ Queued \cap (InHand \cup pushing \cup Buffered \cup AtWriter \cup written \cup dropped) = {}
  /\ InHand \cap (pushing \cup Buffered \cup AtWriter \cup written \cup dropped) = {}
  /\ pushing \cap (Buffered \cup AtWriter \cup written \cup dropped) = {}
  /\ Buffered \cap (AtWriter \cup written \cup dropped) = {}
  /\ AtWriter \cap (written \cup dropped) = {}
  /\ written \cap dropped = {}
  /\ Queued \cup InHand \cup pushing \cup Buffered \cup AtWriter \cup written \cup dropped
       = handed \cup pushed

ConnInv == TypeOK /\ Reading /\ Writing /\ Early /\ Closing /\ Once

places == <<job, hand, send, pushing, writing, written, dropped, handed, pushed>>

LEMMA ConstFacts ==
  /\ NoPacket \notin Packets /\ Requests \subseteq Packets /\ Broadcasts \subseteq Packets
  /\ Requests = 1..Len(Command) /\ Len(Command) \in Nat
  /\ Requests \cap Broadcasts = {}
  /\ SendCap \in Nat /\ JobCap \in Nat
  BY PacketAssumption, CapAssumption, LenProperties DEF Requests, Packets

LEMMA OnceStays ==
  ASSUME Once, UNCHANGED places PROVE Once'
  BY DEF Once, places, IsInjective, Queued, InHand, Buffered, AtWriter, Range

LEMMA ConnInit == Init => ConnInv
<1> SUFFICES ASSUME Init PROVE ConnInv
  OBVIOUS
<1>1. /\ send = <<>> /\ job = <<>> /\ pushing = {} /\ handed = {} /\ pushed = {}
      /\ written = {} /\ dropped = {} /\ writing = NoPacket
      /\ hand = [w \in Workers |-> NoPacket]
  BY DEF Init
<1>2. InHand = {} /\ AtWriter = {}
  BY <1>1 DEF InHand, AtWriter
<1>3. Queued = {} /\ Buffered = {} /\ IsInjective(job) /\ IsInjective(send)
  BY <1>1, NoElements DEF Queued, Buffered
<1>4. Once
  BY <1>1, <1>2, <1>3 DEF Once
<1>5. <<>> \in Seq(Packets) /\ <<>> \in Seq(Requests) /\ Len(<<>>) = 0
  BY EmptySeq
<1>6. TypeOK
  <2>1. /\ send \in Seq(Packets) /\ Len(send) <= SendCap
        /\ job \in Seq(Requests) /\ Len(job) <= JobCap
        /\ hand \in [Workers -> Requests \cup {NoPacket}]
        /\ sent \in 0..Len(Command)
    BY <1>1, <1>5, ConstFacts DEF Init
  <2> QED BY <1>1, <2>1 DEF Init, TypeOK
<1>7. Reading /\ Writing /\ Closing
  BY DEF Init, Reading, Writing, Closing
<1>8. Early
  BY <1>1, <1>2 DEF Init, Early
<1> QED BY <1>4, <1>6, <1>7, <1>8 DEF ConnInv

-----------------------------------------------------------------------------
(* Reader, receiver and cm. *)

LEMMA LoopStep ==
  ASSUME ConnInv,
         \/ Accept \/ MakeChannels \/ ReadPacket \/ ReadFails \/ TakePacket
         \/ KeepAliveTimeout \/ StopReceived \/ Stopped
         \/ ReaderCloses \/ Unregister \/ CmClose
  PROVE  ConnInv'
<1> USE ConstFacts DEF ConnInv
<1>1. UNCHANGED places
  BY DEF Accept, MakeChannels, ReadPacket, ReadFails, TakePacket,
         KeepAliveTimeout, StopReceived, Stopped, LeaveLoop, ReaderCloses,
         Unregister, CmClose, places, mux, write, read
<1>2. Once'
  BY <1>1, OnceStays
<1>3. CASE ReadPacket
  <2>1. packet' = sent + 1 /\ sent' = sent + 1 /\ packet' \in Requests
    BY <1>3 DEF ReadPacket, TypeOK
  <2>2. handed' \subseteq 1..sent' /\ packet' \notin handed'
    BY <1>1, <2>1 DEF Reading, TypeOK, places
  <2>3. TypeOK'
    BY <1>3, <2>1 DEF ReadPacket, TypeOK, sockets, write, mux
  <2>4. Reading' /\ Writing' /\ Closing'
    BY <1>3, <2>1, <2>2 DEF ReadPacket, Reading, Writing, Closing, sockets, write
  <2>5. Early'
    BY <1>3 DEF ReadPacket, Early, Reading, InHand, sockets, write, mux
  <2> QED BY <1>2, <2>3, <2>4, <2>5
<1> USE <1>2 DEF TypeOK, Reading, Writing, Early, Closing, InHand
<1>4. CASE Accept
  BY <1>4 DEF Accept, sockets, write, mux
<1>5. CASE MakeChannels
  BY <1>5 DEF MakeChannels, Turn, write, mux
<1>6. CASE ReadFails
  BY <1>6 DEF ReadFails, write, mux
<1>7. CASE TakePacket
  BY <1>7 DEF TakePacket, sockets, write, mux
<1>8. CASE KeepAliveTimeout
  BY <1>8 DEF KeepAliveTimeout, LeaveLoop, write, mux
<1>9. CASE StopReceived
  BY <1>9 DEF StopReceived, LeaveLoop, write, mux
<1>10. CASE Stopped
  BY <1>10 DEF Stopped, LeaveLoop, write, mux
<1>11. CASE ReaderCloses
  BY <1>11 DEF ReaderCloses, write, mux
<1>12. CASE Unregister
  BY <1>12 DEF Unregister, sockets, write, mux
<1>13. CASE CmClose
  BY <1>13 DEF CmClose, sockets, read, write, mux
<1> QED BY <1>3, <1>4, <1>5, <1>6, <1>7, <1>8, <1>9, <1>10, <1>11, <1>12, <1>13

LEMMA HandleStep ==
  ASSUME ConnInv, Handle PROVE ConnInv'
<1> USE ConstFacts DEF ConnInv
<1>1. /\ reader = "handle" /\ reader' = "wait" /\ receiver' = "read"
      /\ packet \in Requests /\ packet = sent /\ packet \notin handed
      /\ UNCHANGED <<sockets, packet, sent, left, write, hand, send, closed, cm,
                     pushing, pushed, dropped>>
  BY DEF Handle, Turn, Reading
<1>2. CASE UNCHANGED <<job, handed>>
  <2>1. Once'
    BY <1>1, <1>2, OnceStays DEF places, write
  <2> QED BY <1>1, <1>2, <2>1 DEF TypeOK, Reading, Writing, Early, Closing,
          sockets, write
<1>3. CASE /\ Len(job) < JobCap /\ job' = Append(job, packet)
           /\ handed' = handed \cup {packet}
  <2>1. packet \notin handed \cup pushed
    BY <1>1 DEF TypeOK
  <2>2. /\ job' \in Seq(Requests) /\ Len(job') = Len(job) + 1
        /\ Queued' = Queued \cup {packet} /\ IsInjective(job')
    BY <1>1, <1>3, <2>1, AppendElements DEF TypeOK, Once, Queued
  <2>3. Len(job') <= JobCap
    BY <1>3, <2>2, LenProperties DEF TypeOK
  <2>4. InHand' = InHand /\ AtWriter' = AtWriter /\ Buffered' = Buffered
    BY <1>1 DEF InHand, AtWriter, Buffered, write
  <2>5. Once'
    BY <1>1, <1>3, <2>1, <2>2, <2>4 DEF Once, write
  <2>6. TypeOK'
    BY <1>1, <1>3, <2>2, <2>3 DEF TypeOK, sockets, write
  <2>7. Reading'
    BY <1>1, <1>3 DEF Reading, TypeOK
  <2>8. Writing' /\ Early' /\ Closing'
    BY <1>1, <1>3 DEF Writing, Early, Closing, sockets, write
  <2> QED BY <2>5, <2>6, <2>7, <2>8
<1> QED BY <1>2, <1>3 DEF Handle

-----------------------------------------------------------------------------
(* The writer. *)

LEMMA WriterInv ==
  ASSUME ConnInv, WriterStep PROVE ConnInv'
<1> USE ConstFacts DEF ConnInv
<1>1. CASE TakeNext
  <2>1. /\ writer = "range" /\ send # <<>> /\ writing = NoPacket
        /\ writing' = Head(send) /\ send' = Tail(send) /\ writer' = "write"
        /\ UNCHANGED <<sockets, read, written, mux, closed, cm, pushing, pushed, dropped>>
    BY <1>1 DEF TakeNext, Writing
  <2>2. /\ Head(send) \in Packets /\ Head(send) \in Buffered
        /\ send' \in Seq(Packets) /\ Len(send') <= Len(send) /\ IsInjective(send')
        /\ Buffered' = Buffered \ {Head(send)}
    BY <2>1, TailElements DEF TypeOK, Once, Buffered
  <2>3. Len(send') <= SendCap
    BY <2>2, LenProperties DEF TypeOK
  <2>4. AtWriter = {} /\ AtWriter' = {Head(send)} /\ InHand' = InHand /\ Queued' = Queued
    BY <2>1, <2>2 DEF AtWriter, InHand, Queued, mux
  <2>5. Once'
    BY <2>1, <2>2, <2>4 DEF Once, mux, read
  <2>6. TypeOK'
    BY <2>1, <2>2, <2>3 DEF TypeOK, sockets, read, mux
  <2>7. Reading' /\ Writing' /\ Closing'
    BY <2>1, <2>2 DEF Reading, Writing, Closing, sockets, read, mux
  <2>8. Early'
    BY <2>1 DEF Early, read
  <2> QED BY <2>5, <2>6, <2>7, <2>8
<1>2. CASE Write
  <2>1. /\ writing \in Packets /\ AtWriter = {writing} /\ AtWriter' = {}
        /\ written' = written \cup {writing} /\ ~NotFound(writing)
        /\ UNCHANGED <<sockets, read, mux, send, closed, cm, pushing, pushed, dropped>>
    BY <1>2 DEF Write, Writing, AtWriter
  <2>2. InHand' = InHand /\ Queued' = Queued /\ Buffered' = Buffered
    BY <2>1 DEF InHand, Queued, Buffered, mux
  <2>3. Once'
    BY <2>1, <2>2 DEF Once, mux
  <2>4. TypeOK' /\ Reading' /\ Closing' /\ Early'
    BY <1>2, <2>1, <2>2 DEF Write, TypeOK, Reading, Closing, Early, sockets, read, mux
  <2>5. Writing'
    BY <1>2, <2>1 DEF Write, Writing, NotFound
  <2> QED BY <2>3, <2>4, <2>5
<1>3. CASE NoNext \/ WriteFails \/ WriterCloses \/ Signal
  <2>1. UNCHANGED places
    BY <1>3 DEF NoNext, WriteFails, WriterCloses, Signal, places, mux
  <2>2. Once'
    BY <2>1, OnceStays
  <2> USE <2>2 DEF TypeOK, Reading, Writing, Early, Closing, InHand, mux
  <2>3. CASE NoNext
    BY <2>3 DEF NoNext, sockets, read
  <2>4. CASE WriteFails
    BY <2>4 DEF WriteFails, sockets, read
  <2>5. CASE WriterCloses
    BY <2>5 DEF WriterCloses, read
  <2>6. CASE Signal
    BY <2>6 DEF Signal, read
  <2> QED BY <1>3, <2>3, <2>4, <2>5, <2>6
<1> QED BY <1>1, <1>2, <1>3 DEF WriterStep

-----------------------------------------------------------------------------
(* Workers and broadcasts. *)

LEMMA TakeJobStep ==
  ASSUME ConnInv, NEW w \in Workers, TakeJob(w) PROVE ConnInv'
<1> USE ConstFacts DEF ConnInv
<1>1. /\ hand[w] = NoPacket /\ job # <<>>
      /\ hand' = [hand EXCEPT ![w] = Head(job)] /\ job' = Tail(job)
      /\ UNCHANGED <<sockets, read, write, handed, send, closed, cm, pushing,
                     pushed, dropped>>
  BY DEF TakeJob
<1>2. /\ Head(job) \in Requests /\ Head(job) \in Queued
      /\ job' \in Seq(Requests) /\ Len(job') <= Len(job) /\ IsInjective(job')
      /\ Queued' = Queued \ {Head(job)}
  BY <1>1, TailElements DEF TypeOK, Once, Queued
<1>3. Len(job') <= JobCap
  BY <1>2, LenProperties DEF TypeOK
<1>4. InHand' = InHand \cup {Head(job)}
  BY <1>1, <1>2 DEF TypeOK, InHand
<1>5. \A u, v \in Workers : hand'[u] = hand'[v] /\ hand'[u] # NoPacket => u = v
  <2>1. \A v \in Workers : hand[v] # Head(job)
    BY <1>2 DEF Once, InHand
  <2> QED BY <1>1, <2>1 DEF Once, TypeOK
<1>6. AtWriter' = AtWriter /\ Buffered' = Buffered
  BY <1>1 DEF AtWriter, Buffered, write
<1>7. Once'
  BY <1>1, <1>2, <1>4, <1>5, <1>6 DEF Once, write
<1>8. TypeOK'
  BY <1>1, <1>2, <1>3 DEF TypeOK, sockets, read, write
<1>9. Reading' /\ Writing' /\ Closing'
  BY <1>1 DEF Reading, Writing, Closing, sockets, read, write
<1>10. Early'
  BY <1>1 DEF Early, read
<1> QED BY <1>7, <1>8, <1>9, <1>10

LEMMA BroadcastStep ==
  ASSUME ConnInv, NEW b \in Broadcasts, Broadcast(b) PROVE ConnInv'
<1> USE ConstFacts DEF ConnInv
<1>1. /\ handed # {} /\ b \notin pushed
      /\ pushing' = pushing \cup {b} /\ pushed' = pushed \cup {b}
      /\ UNCHANGED <<sockets, read, write, mux, send, closed, cm, dropped>>
  BY DEF Broadcast
<1>2. UNCHANGED <<AtWriter, Buffered, InHand, Queued>>
  BY <1>1 DEF AtWriter, Buffered, InHand, Queued, write, mux
<1>3. b \notin handed \cup pushed
  BY <1>1 DEF TypeOK
<1>4. Once'
  BY <1>1, <1>2, <1>3 DEF Once, write, mux
<1>5. TypeOK' /\ Writing'
  BY <1>1 DEF TypeOK, Writing, sockets, read, write, mux
<1>6. Reading' /\ Early' /\ Closing'
  BY <1>1 DEF Reading, Early, Closing, sockets, read, mux, write
<1> QED BY <1>4, <1>5, <1>6

(* The packet leaves the goroutine that had it. *)
LEMMA Released ==
  ASSUME ConnInv, NEW p \in Packets, Release(p)
  PROVE  /\ hand' \in [Workers -> Requests \cup {NoPacket}]
         /\ \A u, v \in Workers : hand'[u] = hand'[v] /\ hand'[u] # NoPacket => u = v
         /\ InHand' = InHand \ {p} /\ pushing' = pushing \ {p}
         /\ UNCHANGED <<sockets, read, write, job, handed, closed, cm, pushed>>
         /\ UNCHANGED <<AtWriter, Queued>>
<1> USE ConstFacts DEF ConnInv, TypeOK
<1>1. /\ hand' = [w \in Workers |-> IF hand[w] = p THEN NoPacket ELSE hand[w]]
      /\ pushing' = pushing \ {p}
      /\ UNCHANGED <<sockets, read, write, job, handed, closed, cm, pushed>>
  BY DEF Release
<1>2. /\ hand' \in [Workers -> Requests \cup {NoPacket}]
      /\ \A u, v \in Workers : hand'[u] = hand'[v] /\ hand'[u] # NoPacket => u = v
  BY <1>1 DEF Once
<1>3. InHand' = InHand \ {p}
  BY <1>1 DEF InHand
<1>4. UNCHANGED <<AtWriter, Queued>>
  BY <1>1 DEF AtWriter, Queued, write
<1> QED BY <1>1, <1>2, <1>3, <1>4

LEMMA SenderInv ==
  ASSUME ConnInv, NEW p \in Packets, SenderStep(p) PROVE ConnInv'
<1> USE ConstFacts DEF ConnInv
<1>1. p \in InHand \cup pushing /\ Release(p)
  BY DEF SenderStep, Put, Drop, Panic, NoAnswer, Senders
<1>2. /\ hand' \in [Workers -> Requests \cup {NoPacket}]
      /\ \A u, v \in Workers : hand'[u] = hand'[v] /\ hand'[u] # NoPacket => u = v
      /\ InHand' = InHand \ {p} /\ pushing' = pushing \ {p}
      /\ UNCHANGED <<sockets, read, write, job, handed, closed, cm, pushed>>
      /\ UNCHANGED <<AtWriter, Queued>>
  BY <1>1, Released
<1>3. CASE Put(p)
  <2>1. Len(send) < SendCap /\ send' = Append(send, p) /\ dropped' = dropped
    BY <1>3 DEF Put
  <2>2. p \notin Buffered
    BY <1>1 DEF Once
  <2>3. /\ send' \in Seq(Packets) /\ Len(send') = Len(send) + 1
        /\ Buffered' = Buffered \cup {p} /\ IsInjective(send')
    BY <2>1, <2>2, AppendElements DEF TypeOK, Once, Buffered
  <2>4. Len(send') <= SendCap
    BY <2>1, <2>3, LenProperties DEF TypeOK
  <2>5. Once'
    BY <1>1, <1>2, <2>1, <2>3 DEF Once, write
  <2>6. TypeOK'
    BY <1>2, <2>1, <2>3, <2>4 DEF TypeOK, sockets, read, write
  <2>7. Reading' /\ Writing' /\ Closing'
    BY <1>2 DEF Reading, Writing, Closing, sockets, read, write
  <2>8. Early'
    BY <1>1, <1>2 DEF Early, read
  <2> QED BY <2>5, <2>6, <2>7, <2>8
<1>4. CASE Drop(p) \/ Panic(p) \/ NoAnswer(p)
  <2>1. dropped' = dropped \cup {p} /\ send' = send /\ Buffered' = Buffered
    BY <1>4 DEF Drop, Panic, NoAnswer, Buffered
  <2>2. Once'
    BY <1>1, <1>2, <2>1 DEF Once, write
  <2>3. TypeOK'
    BY <1>2, <2>1 DEF TypeOK, sockets, read, write
  <2>4. Reading' /\ Writing' /\ Closing'
    BY <1>2 DEF Reading, Writing, Closing, sockets, read, write
  <2>5. Early'
    BY <1>1, <1>2 DEF Early, read
  <2> QED BY <2>2, <2>3, <2>4, <2>5
<1> QED BY <1>3, <1>4 DEF SenderStep

LEMMA ConnStep == ConnInv /\ [Next]_vars => ConnInv'
<1> SUFFICES ASSUME ConnInv, [Next]_vars PROVE ConnInv'
  OBVIOUS
<1>1. CASE Next
  BY <1>1, LoopStep, HandleStep, WriterInv, TakeJobStep, BroadcastStep, SenderInv
     DEF Next, ReceiverStep, ReaderStep
<1>2. CASE UNCHANGED vars
  <2>1. Once'
    BY <1>2, OnceStays DEF ConnInv, vars, places, read, write, mux
  <2> QED BY <1>2, <2>1 DEF ConnInv, TypeOK, Reading, Writing, Early, Closing,
          InHand, vars, sockets, read, write, mux
<1> QED BY <1>1, <1>2

LEMMA ConnInvariant == Spec => []ConnInv
  BY ConnInit, ConnStep, PTL DEF Spec

-----------------------------------------------------------------------------
(* No channel holds more than its capacity, and workers have requests only *)
(* (packet_handler.go:70-89, connection.go:263).                           *)
THEOREM TypeCorrect == Spec => []TypeOK
<1>1. ConnInv => TypeOK
  BY DEF ConnInv
<1> QED BY <1>1, ConnInvariant, PTL

(* The writer's last statement finds stoprecv made and empty               *)
(* (connection.go:286, 328).                                               *)
THEOREM WriterIsNotHeld == Spec => []SignalNeverWaits
<1>1. ConnInv => SignalNeverWaits
  BY DEF ConnInv, TypeOK, Early, Closing, SignalNeverWaits
<1> QED BY <1>1, ConnInvariant, PTL

(* A request handed to the mux, or its answer, is in exactly one place     *)
(* (packet_handler.go:76, connection.go:277, 322, 346).                    *)
THEOREM AnswersAreUnique == Spec => []EveryAnswerOnce
<1>1. ConnInv => EveryAnswerOnce
  <2> SUFFICES ASSUME ConnInv, NEW r \in handed PROVE Cardinality(Places(r)) = 1
    BY DEF EveryAnswerOnce
  <2> USE DEF ConnInv
  <2> DEFINE inJob  == {<<"job", i>> : i \in {j \in DOMAIN job : job[j] = r}}
             inHand == {<<"worker", w>> : w \in {v \in Workers : hand[v] = r}}
             inSend == {<<"send", i>> : i \in {j \in DOMAIN send : send[j] = r}}
             atW    == {x \in {<<"writing">>} : writing = r}
             inW    == {x \in {<<"written">>} : r \in written}
             inD    == {x \in {<<"dropped">>} : r \in dropped}
  <2>1. Places(r) = inJob \cup inHand \cup inSend \cup atW \cup inW \cup inD
    BY DEF Places
  <2>2. r \in Requests /\ r # NoPacket /\ r \notin pushing
    BY ConstFacts DEF TypeOK
  <2>3. /\ r \notin Queued => inJob = {}
        /\ r \in Queued => \E x : inJob = {x}
    <3>1. ASSUME NEW i \in DOMAIN job, job[i] = r PROVE inJob = {<<"job", i>>}
      <4>1. {j \in DOMAIN job : job[j] = r} = {i}
        BY <3>1 DEF Once, IsInjective
      <4> QED BY <4>1
    <3> QED BY <3>1 DEF Queued, Range
  <2>4. /\ r \notin InHand => inHand = {}
        /\ r \in InHand => \E x : inHand = {x}
    <3>1. ASSUME NEW w \in Workers, hand[w] = r PROVE inHand = {<<"worker", w>>}
      <4>1. {v \in Workers : hand[v] = r} = {w}
        BY <2>2, <3>1 DEF Once
      <4> QED BY <4>1
    <3> QED BY <2>2, <3>1 DEF InHand
  <2>5. /\ r \notin Buffered => inSend = {}
        /\ r \in Buffered => \E x : inSend = {x}
    <3>1. ASSUME NEW i \in DOMAIN send, send[i] = r PROVE inSend = {<<"send", i>>}
      <4>1. {j \in DOMAIN send : send[j] = r} = {i}
        BY <3>1 DEF Once, IsInjective
      <4> QED BY <4>1
    <3> QED BY <3>1 DEF Buffered, Range
  <2>6. /\ r \notin AtWriter => atW = {}
        /\ r \in AtWriter => \E x : atW = {x}
    BY <2>2 DEF AtWriter
  <2>7. /\ r \notin written => inW = {}
        /\ r \in written => \E x : inW = {x}
    OBVIOUS
  <2>8. /\ r \notin dropped => inD = {}
        /\ r \in dropped => \E x : inD = {x}
    OBVIOUS
  <2> HIDE DEF inJob, inHand, inSend, atW, inW, inD
  <2>9. \E x : Places(r) = {x}
    BY <2>1, <2>2, <2>3, <2>4, <2>5, <2>6, <2>7, <2>8 DEF Once
  <2> QED BY <2>9, FS_Singleton
<1> QED BY <1>1, ConnInvariant, PTL

(* A command without a handler ends the connection instead of being        *)
(* answered (packet_handler.go:92, connection.go:320-327).                 *)
THEOREM NotFoundEnds == Spec => []NotFoundIsLast
<1>1. ConnInv => NotFoundIsLast
  <2> SUFFICES ASSUME ConnInv, NEW r \in handed, NotFound(r),
                      r \notin Queued \cup InHand \cup Buffered \cup dropped
               PROVE  writer \in {"write", "close", "signal", "ended"}
    BY DEF NotFoundIsLast
  <2>1. r \notin pushing /\ r \notin written /\ r # NoPacket
    BY ConstFacts DEF ConnInv, TypeOK, Writing
  <2>2. writing = r
    BY <2>1 DEF ConnInv, Once, AtWriter
  <2> QED BY <2>1, <2>2 DEF ConnInv, TypeOK, Writing
<1> QED BY <1>1, ConnInvariant, PTL

(* Once the writer has gone, the buffer is full and every worker waits for *)
(* room in it, nothing changes that (connection.go:303,                    *)
(* packet_handler.go:76, 92).                                              *)
THEOREM StuckIsFinal == Spec => StuckForGood
<1>1. ConnInv /\ [Next]_vars => (Stuck => Stuck')
  <2> SUFFICES ASSUME ConnInv, [Next]_vars, Stuck PROVE Stuck'
    OBVIOUS
  <2> USE ConstFacts DEF ConnInv
  <2>1. /\ writer = "ended" /\ ~closed /\ Len(send) = SendCap
        /\ \A w \in Workers : NotFound(hand[w]) /\ hand[w] # NoPacket
        /\ reader = "handle" /\ ~Ignored(packet) /\ Len(job) = JobCap
        /\ receiver = "none" /\ cm = "idle"
    BY DEF Stuck, NotFound, Reading, Closing
  <2>2. ASSUME UNCHANGED <<writer, closed, send, hand, reader, packet, job>>
        PROVE  Stuck'
    BY <2>2 DEF Stuck, NotFound, Ignored
  <2>3. ~ReceiverStep /\ ~ReaderStep /\ ~CmClose /\ ~WriterStep
    BY <2>1 DEF ReceiverStep, ReadPacket, ReadFails, ReaderStep, Accept,
       MakeChannels, TakePacket, Handle, KeepAliveTimeout, StopReceived, Stopped,
       LeaveLoop, ReaderCloses, Unregister, CmClose, WriterStep, TakeNext, NoNext,
       Write, WriteFails, WriterCloses, Signal
  <2>4. \A w \in Workers : ~TakeJob(w)
    BY <2>1 DEF TakeJob
  <2>5. ASSUME NEW b \in Broadcasts, Broadcast(b) PROVE Stuck'
    BY <2>2, <2>5 DEF Broadcast, read, write, mux
  <2>6. ASSUME NEW p \in Packets, SenderStep(p) PROVE Stuck'
    <3>1. ~Put(p) /\ ~Panic(p)
      BY <2>1 DEF Put, Panic
    <3>2. ~NoAnswer(p)
      BY <2>1 DEF NoAnswer, InHand, NotFound, Handlers
    <3>3. Drop(p)
      BY <2>6, <3>1, <3>2 DEF SenderStep
    <3>4. \A w \in Workers : hand[w] # p
      BY <2>1, <3>3 DEF Drop
    <3>5. hand' = hand
      BY <3>3, <3>4 DEF Drop, Release, TypeOK
    <3> QED BY <2>2, <3>3, <3>5 DEF Drop, Release, read, write
  <2> QED BY <2>2, <2>3, <2>4, <2>5, <2>6 DEF Next, vars, read, write, mux
<1> QED BY <1>1, ConnInvariant, PTL DEF Spec, StuckForGood
=============================================================================
