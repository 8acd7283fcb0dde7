----------------------------- MODULE Connection -----------------------------
(***************************************************************************)
(* The life of one websocket connection and its use of the mux workers.    *)
(*                                                                         *)
(* wsHandler runs the reader, which starts one receiver for each packet it *)
(* waits for and hands requests to the mux; the writer empties c.send; the *)
(* workers of the mux and the goroutines of broadcasts fill it.  The       *)
(* connection manager closes c.send when the reader has left.              *)
(*                                                                         *)
(* Nobody waits for anybody by name: the goroutines meet on channels with  *)
(* room for a few packets, on a closed socket, and on timers.  Requests    *)
(* and broadcasts are packets with an identity and nothing else but the    *)
(* command; the registry and what handlers do are in UserRegistry.         *)
(***************************************************************************)
EXTENDS Naturals, Sequences, FiniteSets, Functions

CONSTANTS
  Command,     \* the commands (Packet.Cmd) of the packets the client may
               \* send, in the order in which it sends them
  Garbled,     \* the packets whose data does not fit the command
  Broadcasts,  \* packets um sends to the connection
  Workers,     \* goroutines of PacketMux.Worker (4 in the code)
  JobCap,      \* capacity of mux.job (256 in the code)
  SendCap,     \* capacity of c.send (256 in the code)
  NoPacket     \* not a packet

Requests == DOMAIN Command

ASSUME PacketAssumption ==
  /\ Command \in Seq(STRING)
  /\ Requests \cap Broadcasts = {}
  /\ NoPacket \notin Requests \cup Broadcasts
  /\ Garbled \subseteq Requests
ASSUME CapAssumption == JobCap \in Nat \ {0} /\ SendCap \in Nat \ {0}

VARIABLES
  ws,        \* the socket, as this process sees it: "open" or "closed"
  reader,    \* the goroutine of wsHandler, a select is "wait"
  receiver,  \* the goroutine of the current iteration, or the last one
  packet,    \* what the receiver read and the reader handles
  stop,      \* a value is in stop
  stoprecv,  \* "nil" until it is made, then "empty" or "full"
  writer,    \* the goroutine c.writer
  writing,   \* the packet it has taken
  send,      \* c.send
  closed,    \* c.send is closed
  cm,        \* "idle", "leaving": between um's part and the close, "done"
  job,       \* mux.job
  hand,      \* the packet of a worker's job, then of its answer
  pushing,   \* broadcasts whose go c.Send is under way
  (* history *)
  sent,      \* how many requests the receivers have read
  pushed,    \* broadcasts um has sent
  handed,    \* requests the reader has handed to the mux
  left,      \* why the reader left its loop
  written,   \* packets on their way to the client
  dropped    \* packets given up by Send, by the recover of a handler, and
             \* requests that get no answer

sockets == <<ws, stop, stoprecv>>
read    == <<reader, receiver, packet, sent, left>>
write   == <<writer, writing, written>>
mux     == <<job, hand, handed>>
vars == <<sockets, read, write, mux, send, closed, cm, pushing, pushed, dropped>>

Packets == Requests \cup Broadcasts

(* RegisterPacket: the commands with a request type. *)
ReqTypes ==
  {"register", "login", "getServers", "getInitLogs", "getPastLogs", "sendLog",
   "addServer", "addChannel", "joinPartChannel", "delServer", "delChannel",
   "editChannel", "pushLog", "setNotification", "ping"}

(* MakeDefaultPacketHandler: the commands with a handler. *)
Handlers ==
  {"register", "login", "getServers", "getInitLogs", "getPastLogs", "pushLog",
   "sendLog", "addServer", "addChannel", "setNotification", "joinPartChannel",
   "delChannel", "ping"}

(* A request the mux drops, and one that goes to NotFoundHandler. *)
Ignored(r)  == Command[r] \notin ReqTypes \/ r \in Garbled
NotFound(p) == p \in Requests /\ Command[p] \notin Handlers

InHand == {hand[w] : w \in Workers} \ {NoPacket}
Buffered == Range(send)
Queued == Range(job)

TypeOK ==
  /\ ws \in {"open", "closed"}
  /\ reader \in {"start", "make", "wait", "handle", "close", "leave", "ended"}
  /\ receiver \in {"none", "read", "deliver", "ended"}
  /\ packet \in Requests \cup {NoPacket}
  /\ stop \in BOOLEAN /\ stoprecv \in {"nil", "empty", "full"}
  /\ writer \in {"off", "range", "write", "close", "signal", "ended"}
  /\ writing \in Packets \cup {NoPacket}
  /\ send \in Seq(Packets) /\ Len(send) <= SendCap
  /\ closed \in BOOLEAN /\ cm \in {"idle", "leaving", "done"}
  /\ job \in Seq(Requests) /\ Len(job) <= JobCap
  /\ hand \in [Workers -> Requests \cup {NoPacket}]
  /\ pushing \subseteq Broadcasts
  /\ sent \in 0..Len(Command) /\ pushed \subseteq Broadcasts
  /\ handed \subseteq Requests
  /\ left \in {"no", "timeout", "stoprecv", "stop"}
  /\ written \subseteq Packets /\ dropped \subseteq Packets

Init ==
  /\ ws = "open" /\ stop = FALSE /\ stoprecv = "nil"
  /\ reader = "start" /\ receiver = "none" /\ packet = NoPacket
  /\ writer = "off" /\ writing = NoPacket
  /\ send = <<>> /\ closed = FALSE /\ cm = "idle"
  /\ job = <<>> /\ hand = [w \in Workers |-> NoPacket] /\ pushing = {}
  /\ sent = 0 /\ pushed = {} /\ handed = {} /\ left = "no"
  /\ written = {} /\ dropped = {}

-----------------------------------------------------------------------------
(* The reader and its receivers *)

(* wsHandler: the manager knows the connection and the writer runs before  *)
(* the reader has made stoprecv.                                           *)
Accept ==
  /\ reader = "start"
  /\ reader' = "make" /\ writer' = "range"
  /\ UNCHANGED <<sockets, receiver, packet, sent, left, writing, written, mux,
                 send, closed, cm, pushing, pushed, dropped>>

(* The next turn of the loop: a receiver for the next packet. *)
Turn == reader' = "wait" /\ receiver' = "read"

MakeChannels ==
  /\ reader = "make"
  /\ stoprecv' = "empty"
  /\ Turn
  /\ UNCHANGED <<ws, stop, packet, sent, left, write, mux, send, closed, cm,
                 pushing, pushed, dropped>>

(* Bytes that arrived before the socket was closed can still be read. *)
ReadPacket ==
  /\ receiver = "read" /\ sent < Len(Command)
  /\ receiver' = "deliver" /\ packet' = sent + 1 /\ sent' = sent + 1
  /\ UNCHANGED <<sockets, reader, left, write, mux, send, closed, cm, pushing,
                 pushed, dropped>>

(* The client went away, sent something that is not JSON, or ws is closed. *)
ReadFails ==
  /\ receiver = "read"
  /\ receiver' = "ended" /\ stop' = TRUE
  /\ UNCHANGED <<ws, stoprecv, reader, packet, sent, left, write, mux, send,
                 closed, cm, pushing, pushed, dropped>>

TakePacket ==
  /\ reader = "wait" /\ receiver = "deliver"
  /\ reader' = "handle" /\ receiver' = "none"
  /\ UNCHANGED <<sockets, packet, sent, left, write, mux, send, closed, cm,
                 pushing, pushed, dropped>>

(* Defect: nobody looks whether mux.job has room. *)
HandleWithoutRoom ==
  /\ reader = "handle"
  /\ job' = Append(job, packet) /\ handed' = handed \cup {packet}
  /\ Turn
  /\ UNCHANGED <<sockets, packet, sent, left, write, hand, send, closed, cm,
                 pushing, pushed, dropped>>

Handle ==
  /\ reader = "handle"
  /\ \/ /\ Ignored(packet)
        /\ UNCHANGED <<job, handed>>
     \/ /\ ~Ignored(packet) /\ Len(job) < JobCap
        /\ job' = Append(job, packet) /\ handed' = handed \cup {packet}
  /\ Turn
  /\ UNCHANGED <<sockets, packet, sent, left, write, hand, send, closed, cm,
                 pushing, pushed, dropped>>

(* Defect: one deadline for the whole turn, the handover to the mux        *)
(* included.                                                               *)
LeaveTurn(why) ==
  /\ reader \in {"wait", "handle"}
  /\ reader' = "close" /\ left' = why
  /\ UNCHANGED <<ws, receiver, packet, sent, write, mux, send, closed, cm,
                 pushing, pushed, dropped>>

LeaveLoop(why) ==
  /\ reader = "wait"
  /\ reader' = "close" /\ left' = why
  /\ UNCHANGED <<ws, receiver, packet, sent, write, mux, send, closed, cm,
                 pushing, pushed, dropped>>

(* Nothing but the receiver bounds the wait for a timer to fire: the       *)
(* packet may be there in the same instant.                                *)
KeepAliveTimeout == LeaveLoop("timeout") /\ UNCHANGED <<stop, stoprecv>>
StopReceived ==
  stoprecv = "full" /\ stoprecv' = "empty" /\ LeaveLoop("stoprecv") /\ UNCHANGED stop
Stopped == stop /\ stop' = FALSE /\ LeaveLoop("stop") /\ UNCHANGED stoprecv

ReaderCloses ==
  /\ reader = "close"
  /\ ws' = "closed" /\ reader' = "leave"
  /\ UNCHANGED <<stop, stoprecv, receiver, packet, sent, left, write, mux, send,
                 closed, cm, pushing, pushed, dropped>>

(* The deferred unregister: cm takes it, and um with cm its part. *)
Unregister ==
  /\ reader = "leave" /\ cm = "idle"
  /\ reader' = "ended" /\ cm' = "leaving"
  /\ UNCHANGED <<sockets, receiver, packet, sent, left, write, mux, send, closed,
                 pushing, pushed, dropped>>

CmClose ==
  /\ cm = "leaving"
  /\ closed' = TRUE /\ cm' = "done"
  /\ UNCHANGED <<sockets, read, write, mux, send, pushing, pushed, dropped>>

-----------------------------------------------------------------------------
(* The writer *)

TakeNext ==
  /\ writer = "range" /\ send # <<>>
  /\ writing' = Head(send) /\ send' = Tail(send) /\ writer' = "write"
  /\ UNCHANGED <<sockets, read, written, mux, closed, cm, pushing, pushed, dropped>>

NoNext ==
  /\ writer = "range" /\ send = <<>> /\ closed
  /\ writer' = "close"
  /\ UNCHANGED <<sockets, read, writing, written, mux, send, closed, cm, pushing,
                 pushed, dropped>>

(* Defect: the answer of NotFoundHandler is written like any other. *)
WriteAnything ==
  /\ writer = "write" /\ ws = "open"
  /\ written' = written \cup {writing}
  /\ writing' = NoPacket /\ writer' = "range"
  /\ UNCHANGED <<sockets, read, mux, send, closed, cm, pushing, pushed, dropped>>

(* NotFoundHandler does not pass through Send, which fills RawData; without *)
(* it the packet is no JSON text and is never written.                     *)
Write ==
  /\ writer = "write" /\ ws = "open" /\ ~NotFound(writing)
  /\ written' = written \cup {writing}
  /\ writing' = NoPacket /\ writer' = "range"
  /\ UNCHANGED <<sockets, read, mux, send, closed, cm, pushing, pushed, dropped>>

(* Defect: the error of a write is logged and the loop goes on, having told *)
(* the reader.                                                             *)
WriteFailsAgain ==
  /\ writer = "write"
  /\ writing' = NoPacket /\ writer' = "range" /\ stoprecv' = "full"
  /\ UNCHANGED <<ws, stop, read, written, mux, send, closed, cm, pushing, pushed,
                 dropped>>

(* A broken connection, ten seconds without progress, or no JSON text. *)
WriteFails ==
  /\ writer = "write"
  /\ writer' = "close"
  /\ UNCHANGED <<sockets, read, writing, written, mux, send, closed, cm, pushing,
                 pushed, dropped>>

WriterCloses ==
  /\ writer = "close"
  /\ ws' = "closed" /\ writer' = "signal"
  /\ UNCHANGED <<stop, stoprecv, read, writing, written, mux, send, closed, cm,
                 pushing, pushed, dropped>>

(* Defect: stoprecv has no room, the writer waits for the reader. *)
SignalUnbuffered ==
  /\ writer = "signal" /\ reader = "wait"
  /\ writer' = "ended" /\ reader' = "close" /\ left' = "stoprecv"
  /\ UNCHANGED <<sockets, receiver, packet, sent, writing, written, mux, send,
                 closed, cm, pushing, pushed, dropped>>

Signal ==
  /\ writer = "signal" /\ stoprecv = "empty"
  /\ stoprecv' = "full" /\ writer' = "ended"
  /\ UNCHANGED <<ws, stop, read, writing, written, mux, send, closed, cm, pushing,
                 pushed, dropped>>

-----------------------------------------------------------------------------
(* Those who send *)

TakeJob(w) ==
  /\ hand[w] = NoPacket /\ job # <<>>
  /\ hand' = [hand EXCEPT ![w] = Head(job)] /\ job' = Tail(job)
  /\ UNCHANGED <<sockets, read, write, handed, send, closed, cm, pushing, pushed,
                 dropped>>

(* um.run: go c.Send for a connection that a login has listed.  The login  *)
(* is what a worker does with a request, so the reader is in its loop.     *)
Broadcast(b) ==
  /\ \E r \in handed \ Queued : Command[r] = "login"
  /\ cm = "idle" /\ b \notin pushed
  /\ pushing' = pushing \cup {b} /\ pushed' = pushed \cup {b}
  /\ UNCHANGED <<sockets, read, write, mux, send, closed, cm, dropped>>

(* The goroutine with packet p is done with it. *)
Release(p) ==
  /\ hand' = [w \in Workers |-> IF hand[w] = p THEN NoPacket ELSE hand[w]]
  /\ pushing' = pushing \ {p}
  /\ UNCHANGED <<sockets, read, write, job, handed, closed, cm, pushed>>

Senders == InHand \cup pushing

(* Defect: the worker sends the answer and forgets that it is done. *)
PutAndKeep(p) ==
  /\ p \in Senders /\ ~closed /\ Len(send) < SendCap
  /\ send' = Append(send, p)
  /\ UNCHANGED <<sockets, read, write, mux, closed, cm, pushing, pushed, dropped>>

(* Send and NotFoundHandler: there is room. *)
Put(p) ==
  /\ p \in Senders /\ ~closed /\ Len(send) < SendCap
  /\ send' = Append(send, p) /\ UNCHANGED dropped
  /\ Release(p)

(* Defect: Send has no timer and waits like NotFoundHandler. *)
DropNever(p) == p \in Senders /\ FALSE

(* Send: no room for two seconds. *)
Drop(p) ==
  /\ p \in Senders /\ ~NotFound(p) /\ ~closed /\ Len(send) = SendCap
  /\ dropped' = dropped \cup {p} /\ UNCHANGED send
  /\ Release(p)

(* The panic of a send to a closed channel, recovered by Send or, for      *)
(* NotFoundHandler, by PacketHandlerFunc.Handle.                           *)
Panic(p) ==
  /\ p \in Senders /\ closed
  /\ dropped' = dropped \cup {p} /\ UNCHANGED send
  /\ Release(p)

(* The handler of pushLog only answers a client that is not logged in. *)
NoAnswer(p) ==
  /\ p \in InHand /\ Command[p] = "pushLog"
  /\ dropped' = dropped \cup {p} /\ UNCHANGED send
  /\ Release(p)

-----------------------------------------------------------------------------
ReceiverStep == ReadPacket \/ ReadFails
ReaderStep ==
  \/ Accept \/ MakeChannels \/ TakePacket \/ Handle
  \/ KeepAliveTimeout \/ StopReceived \/ Stopped
  \/ ReaderCloses \/ Unregister
WriterStep ==
  TakeNext \/ NoNext \/ Write \/ WriteFails \/ WriterCloses \/ Signal
SenderStep(p) == Put(p) \/ Drop(p) \/ Panic(p) \/ NoAnswer(p)

Next ==
  \/ ReceiverStep \/ ReaderStep \/ CmClose \/ WriterStep
  \/ \E w \in Workers : TakeJob(w)
  \/ \E b \in Broadcasts : Broadcast(b)
  \/ \E p \in Packets : SenderStep(p)

Spec == Init /\ [][Next]_vars

(* Goroutines that can run do, timers fire, a write ends within its        *)
(* deadline, and a read from a closed socket fails.  The client need not   *)
(* send anything, read anything or go away.                                *)
Fairness ==
  /\ WF_vars(ReaderStep) /\ WF_vars(WriterStep) /\ WF_vars(CmClose)
  /\ WF_vars(ws = "closed" /\ ReceiverStep)
  /\ \A w \in Workers : WF_vars(TakeJob(w))
  /\ \A p \in Packets : WF_vars(SenderStep(p))

LiveSpec == Spec /\ Fairness

-----------------------------------------------------------------------------
(* Properties *)

(* The writer's last statement (connection.go:328) finds stoprecv made and *)
(* empty, although the writer is started before the reader makes it        *)
(* (ws_server.go:58, connection.go:286): it never blocks there.            *)
SignalNeverWaits == writer = "signal" => stoprecv = "empty"

(* Where the answer to a request is. *)
Places(r) ==
  {<<"job", i>> : i \in {j \in DOMAIN job : job[j] = r}}
    \cup {<<"worker", w>> : w \in {v \in Workers : hand[v] = r}}
    \cup {<<"send", i>> : i \in {j \in DOMAIN send : send[j] = r}}
    \cup {x \in {<<"writing">>} : writing = r}
    \cup {x \in {<<"written">>} : r \in written}
    \cup {x \in {<<"dropped">>} : r \in dropped}

(* A request the reader handed over (packet_handler.go:76) is in exactly    *)
(* one place from then on, and its answer reaches the socket at most once, *)
(* whoever gives up first: Send after its two seconds, the writer after a  *)
(* failed write, or cm with close(c.send) (connection.go:277, 322, 346).   *)
EveryAnswerOnce == \A r \in handed : Cardinality(Places(r)) = 1

(* A command with a request type and without a handler is not answered     *)
(* with the status -404 of packet_handler.go:93 but ends the connection:   *)
(* the packet has no data, so the writer that takes it never comes back    *)
(* for another one (packet_handler.go:92, connection.go:320-327,           *)
(* json_packet.go:23).                                                     *)
NotFoundIsLast ==
  \A r \in handed :
    NotFound(r) =>
      \/ r \in Queued \cup InHand \cup Buffered \cup dropped
      \/ writer \in {"write", "close", "signal", "ended"}

(* The one way a connection does not end: the writer has gone, c.send is   *)
(* full, each worker waits for room in it without a limit                  *)
(* (packet_handler.go:92), and the reader, the only one who could have the *)
(* channel closed, waits for a worker to take a job (packet_handler.go:76).*)
Stuck ==
  /\ writer = "ended" /\ ~closed /\ Len(send) = SendCap
  /\ \A w \in Workers : NotFound(hand[w])
  /\ reader = "handle" /\ ~Ignored(packet) /\ Len(job) = JobCap

(* Nothing ends this wait: no timer runs in it, neither keepalive          *)
(* (connection.go:303) nor the two seconds of Send.                        *)
StuckForGood == [][Stuck => Stuck']_vars

(* Only a receiver that has read a packet nobody waits for any more stays  *)
(* behind (connection.go:297), and not if it was the receiver itself that  *)
(* stopped the reader.                                                     *)
Ended ==
  /\ reader = "ended" /\ writer = "ended" /\ closed
  /\ receiver = "ended" \/ (receiver = "deliver" /\ left # "stop")
  /\ job = <<>> /\ Senders = {}

(* When the reader has left its loop or the writer has closed the socket,  *)
(* every goroutine of the connection ends and the workers are free of it,  *)
(* unless it is stuck (connection.go:283-330, 277, packet_handler.go:92).  *)
ConnectionEnds ==
  (left # "no" \/ writer \in {"signal", "ended"}) ~> (Ended \/ Stuck)

(* A worker gets rid of every packet of the connection, whether the client *)
(* reads or not, unless it is stuck (packet_handler.go:79-96).             *)
WorkersComeFree ==
  \A w \in Workers : hand[w] # NoPacket ~> (hand[w] = NoPacket \/ Stuck)
=============================================================================
