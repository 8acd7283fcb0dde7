----------------------------- MODULE RelayClient -----------------------------
(***************************************************************************)
(* One IRC client of the relay: the session of one user with one server.   *)
(*                                                                         *)
(* Without a lock between them, these goroutines work on it: the workers   *)
(* of the zmq messenger run the requests of the user (ADD_SERVER,          *)
(* ADD_CHANNEL, DEL_CHANNEL, JOIN_PART_CHANNEL), the IRC library calls the *)
(* handlers of the lines that arrive, IRCClient.Connect dials and waits    *)
(* for the end of the session, IRCManager.run publishes the client, and at *)
(* the start of the process LoadDb replays what Redis holds.               *)
(*                                                                         *)
(* The IRC library and the server are external: commands and lines travel  *)
(* in order, lines are handled one at a time, and what is under way when   *)
(* the connection breaks may be lost.                                      *)
(***************************************************************************)
EXTENDS Naturals, Sequences, FiniteSets

CONSTANTS
  Chans,           \* channel names, as strings.ToLower leaves them
  Workers,         \* goroutines of ZmqMessenger.Worker (4 in the code)
  Loader,          \* the goroutine main, while it runs LoadDb
  ReconnectCount,  \* config.ReconnectCount
  RecvCap,         \* capacity of ZmqMessenger.Recv (256 in the code)
  MaxMsgs,         \* bound: messages the websocket server sends
  MaxSessions,     \* bound: connections the IRC server accepts
  MaxRestarts,     \* bound: times the process is started again
  NoChan           \* not a channel

ASSUME NameAssumption ==
  Loader \notin Workers /\ NoChan \notin Chans /\ IsFiniteSet(Chans)
ASSUME BoundAssumption ==
  /\ ReconnectCount \in Nat \ {0}
  /\ RecvCap \in Nat \ {0}
  /\ MaxMsgs \in Nat /\ MaxSessions \in Nat /\ MaxRestarts \in Nat

VARIABLES
  (* the process and what it shares *)
  status,     \* "up", or how the process ended
  client,     \* "absent", on its way through ircMgr.register, or "known"
  active,     \* serverInfo.Active
  chans,      \* the keys of client.channels
  asked,      \* those whose Channel.joined is set
  joined,     \* those whose Channel.info.Joined is set
  (* Redis *)
  server,     \* servers:<user> holds the server
  stored,     \* the members of channels:<user>
  (* goroutines *)
  recv,       \* ZmqMessenger.Recv
  wpc, wjob,  \* step and job of a worker
  wasked,     \* the channel.joined of the Channel it made
  todo,       \* channels LoadDb has still to add
  loading,    \* LoadDb: "servers", "channels", or "done"
  hpc, hchan, pActive,  \* step, channel and local of the line handler
  cpc, tryCount,        \* step and local of Connect
  (* the connection and the server *)
  net,        \* "down", "up", or "welcomed": the server sent 376
  inside,     \* channels the server has the user in
  out, in,    \* commands and lines under way
  (* bounds and history *)
  msgs, sessions, restarts,
  requested,  \* channels a JOIN was sent for in this session
  odd,        \* channels whose state left the rails, see Agreement
  late,       \* channels added while the session began or ended
  mixed       \* channels added and deleted at the same time

shared    == <<client, active, chans, asked, joined>>
redis     == <<server, stored>>
work      == <<recv, wpc, wjob, wasked>>
load      == <<todo, loading>>
handler   == <<hpc, hchan, pActive>>
connect   == <<cpc, tryCount>>
irc       == <<net, inside, out, in>>
bounds    == <<msgs, sessions, restarts>>
history   == <<requested, odd, late, mixed>>
vars == <<status, shared, redis, work, load, handler, connect, irc, bounds,
          history>>

Goroutines == Workers \cup {Loader}
Jobs ==
  [cmd : {"addServer"}, chan : {NoChan}]
    \cup [cmd : {"addChannel", "delChannel", "join", "part"}, chan : Chans]
Idle == [cmd |-> "none", chan |-> NoChan]
Commands == [cmd : {"JOIN", "PART"}, chan : Chans]
Lines ==
  [cmd : {"366", "PART"}, chan : Chans]
    \cup [cmd : {"376", "disconnected"}, chan : {NoChan}]

Up == status = "up"

TypeOK ==
  /\ status \in {"up", "killed", "nil"}
  /\ client \in {"absent", "handed", "known"}
  /\ active \in BOOLEAN
  /\ chans \subseteq Chans /\ asked \subseteq Chans /\ joined \subseteq Chans
  /\ server \in BOOLEAN /\ stored \subseteq Chans
  /\ recv \in Seq(Jobs) /\ Len(recv) <= RecvCap
  /\ wpc \in [Goroutines -> {"idle", "start", "insert", "join", "delete", "remove"}]
  /\ wjob \in [Goroutines -> Jobs \cup {Idle}]
  /\ wasked \in [Goroutines -> BOOLEAN]
  /\ todo \subseteq Chans /\ loading \in {"servers", "channels", "done"}
  /\ hpc \in {"idle", "activate", "reset", "report", "mark", "leave"}
  /\ hchan \in Chans \cup {NoChan} /\ pActive \in BOOLEAN
  /\ cpc \in {"off", "dial", "wait", "failed"} /\ tryCount \in 0..ReconnectCount
  /\ net \in {"down", "up", "welcomed"} /\ inside \subseteq Chans
  /\ out \in Seq(Commands) /\ in \in Seq(Lines)
  /\ msgs \in 0..MaxMsgs /\ sessions \in 0..MaxSessions /\ restarts \in 0..MaxRestarts
  /\ requested \subseteq Chans /\ odd \subseteq Chans
  /\ late \subseteq Chans /\ mixed \subseteq Chans

Init ==
  /\ status = "up"
  /\ client = "absent" /\ active = FALSE
  /\ chans = {} /\ asked = {} /\ joined = {}
  /\ server = FALSE /\ stored = {}
  /\ recv = <<>>
  /\ wpc = [g \in Goroutines |-> "idle"]
  /\ wjob = [g \in Goroutines |-> Idle]
  /\ wasked = [g \in Goroutines |-> FALSE]
  /\ todo = {} /\ loading = "done"
  /\ hpc = "idle" /\ hchan = NoChan /\ pActive = FALSE
  /\ cpc = "off" /\ tryCount = 0
  /\ net = "down" /\ inside = {} /\ out = <<>> /\ in = <<>>
  /\ msgs = 0 /\ sessions = 0 /\ restarts = 0
  /\ requested = {} /\ odd = {} /\ late = {} /\ mixed = {}

(* The process ends: what is not in Redis is gone. *)
Die(how) ==
  /\ status' = how
  /\ client' = "absent" /\ active' = FALSE
  /\ chans' = {} /\ asked' = {} /\ joined' = {}
  /\ recv' = <<>>
  /\ wpc' = [g \in Goroutines |-> "idle"]
  /\ wjob' = [g \in Goroutines |-> Idle]
  /\ wasked' = [g \in Goroutines |-> FALSE]
  /\ todo' = {} /\ loading' = "servers"
  /\ hpc' = "idle" /\ hchan' = NoChan /\ pActive' = FALSE
  /\ cpc' = "off" /\ tryCount' = 0
  /\ net' = "down" /\ inside' = {} /\ out' = <<>> /\ in' = <<>>
  /\ requested' = {} /\ odd' = {} /\ late' = {} /\ mixed' = {}
  /\ UNCHANGED <<redis, bounds>>

(* Somebody ends the process, LoadDb does after an error of Redis, or the  *)
(* runtime, which is free to when two goroutines access client.channels at *)
(* the same time.                                                          *)
Kill == Up /\ Die("killed")

(* conn.Join or conn.Part: the command is lost without a connection. *)
SendIRC(commands) ==
  out' = IF net = "down" THEN out ELSE out \o commands

-----------------------------------------------------------------------------
(* The websocket server and the receiver goroutine of the messenger *)

(* The server of a user is in Redis before its ADD_SERVER is sent; his     *)
(* other messages come later.                                              *)
Deliver(job) ==
  /\ Up
  /\ loading = "done"
  /\ msgs < MaxMsgs
  /\ Len(recv) < RecvCap
  /\ (job.cmd = "addServer") <=> ~server
  /\ server' = TRUE
  /\ msgs' = msgs + 1
  /\ recv' = Append(recv, job)
  /\ UNCHANGED <<status, shared, stored, wpc, wjob, wasked, load, handler,
                 connect, irc, sessions, restarts, history>>

-----------------------------------------------------------------------------
(* The workers *)

Return(g) ==
  /\ wpc' = [wpc EXCEPT ![g] = "idle"]
  /\ wjob' = [wjob EXCEPT ![g] = Idle]
  /\ wasked' = [wasked EXCEPT ![g] = FALSE]

TakeJob(w) ==
  /\ Up
  /\ wpc[w] = "idle"
  /\ recv # <<>>
  /\ recv' = Tail(recv)
  /\ wjob' = [wjob EXCEPT ![w] = Head(recv)]
  /\ wpc' = [wpc EXCEPT ![w] = "start"]
  /\ UNCHANGED <<status, shared, redis, wasked, load, handler, connect, irc,
                 bounds, history>>

(* ADD_SERVER: ircMgr.register <- NewClient(info) *)
AddServer(w) ==
  /\ Up
  /\ wpc[w] = "start"
  /\ wjob[w].cmd = "addServer"
  /\ client = "absent"
  /\ client' = "handed"
  /\ Return(w)
  /\ UNCHANGED <<status, active, chans, asked, joined, redis, recv, load,
                 handler, connect, irc, bounds, history>>

(* GetClientByMsg finds no client: the method called on it reads nil. *)
NilClient(g) ==
  /\ Up
  /\ wpc[g] = "start"
  /\ wjob[g].cmd # "addServer"
  /\ client # "known"
  /\ Die("nil")

(* Defect: an error of the save is only logged. *)
SaveOrGoOn(g) ==
  LET ch == wjob[g].chan
  IN  /\ Up
      /\ wpc[g] = "start"
      /\ wjob[g].cmd = "addChannel"
      /\ client = "known"
      /\ stored' \in {stored, stored \cup {ch}}
      /\ wasked' = [wasked EXCEPT ![g] = active]
      /\ wpc' = [wpc EXCEPT ![g] = "insert"]
      /\ UNCHANGED <<status, shared, server, recv, wjob, load, handler, connect,
                     irc, bounds, history>>

(* AddChannel: the new channel is saved, which may fail, and then          *)
(* channel.joined is taken from serverInfo.Active.                         *)
SaveChannel(g) ==
  LET ch == wjob[g].chan
  IN  /\ Up
      /\ wpc[g] = "start"
      /\ wjob[g].cmd = "addChannel"
      /\ client = "known"
      /\ \/ /\ stored' = stored \cup {ch}
            /\ wasked' = [wasked EXCEPT ![g] = active]
            /\ wpc' = [wpc EXCEPT ![g] = "insert"]
            /\ UNCHANGED wjob
         \/ Return(g) /\ stored' \in {stored, stored \cup {ch}}
      /\ UNCHANGED <<status, shared, server, recv, load, handler, connect, irc,
                     bounds, history>>

(* The handler of 366 has looked ch up.  When the map gets another Channel *)
(* for it, or none, the handler goes on with one nobody sees any more.     *)
Marking(ch) == hpc = "mark" /\ hchan = ch
Supersede(ch) == hchan' = IF Marking(ch) THEN NoChan ELSE hchan

(* c.channels[strings.ToLower(name)] = channel *)
InsertChannel(g) ==
  LET ch == wjob[g].chan
  IN  /\ Up
      /\ wpc[g] = "insert"
      /\ chans' = chans \cup {ch}
      /\ asked' = IF wasked[g] THEN asked \cup {ch} ELSE asked \ {ch}
      /\ joined' = joined \ {ch}
      /\ odd' = IF ch \in joined \/ Marking(ch) THEN odd \cup {ch} ELSE odd
      /\ Supersede(ch)
      /\ late' = IF hpc = "activate" \/ (wasked[g] /\ ~active)
                 THEN late \cup {ch} ELSE late
      /\ wpc' = [wpc EXCEPT ![g] = "join"]
      /\ UNCHANGED <<status, client, active, redis, recv, wjob, wasked, load,
                     hpc, pActive, connect, irc, bounds, requested, mixed>>

(* if c.serverInfo.Active { c.conn.Join(name) } *)
JoinNew(g) ==
  LET ch == wjob[g].chan
  IN  /\ Up
      /\ wpc[g] = "join"
      /\ IF active
         THEN /\ SendIRC(<<[cmd |-> "JOIN", chan |-> ch]>>)
              /\ requested' = requested \cup {ch}
         ELSE UNCHANGED <<out, requested>>
      /\ Return(g)
      /\ UNCHANGED <<status, shared, redis, recv, load, handler, connect,
                     net, inside, in, bounds, odd, late, mixed>>

(* JoinPartChannel: nothing to do for an unknown channel, one that is in   *)
(* the wanted state already, or without a session.                         *)
JoinPartChannel(w) ==
  LET ch == wjob[w].chan
      join == wjob[w].cmd = "join"
  IN  /\ Up
      /\ wpc[w] = "start"
      /\ wjob[w].cmd \in {"join", "part"}
      /\ client = "known"
      /\ IF ch \in chans /\ join # (ch \in joined) /\ active
         THEN /\ SendIRC(<<[cmd |-> IF join THEN "JOIN" ELSE "PART", chan |-> ch]>>)
              /\ requested' = IF join THEN requested \cup {ch} ELSE requested
         ELSE UNCHANGED <<out, requested>>
      /\ Return(w)
      /\ UNCHANGED <<status, shared, redis, recv, load, handler, connect,
                     net, inside, in, bounds, odd, late, mixed>>

(* DelChannel: a joined channel is refused. *)
CheckChannel(w) ==
  LET ch == wjob[w].chan
  IN  /\ Up
      /\ wpc[w] = "start"
      /\ wjob[w].cmd = "delChannel"
      /\ client = "known"
      /\ IF ch \notin chans \/ ch \in joined
         THEN Return(w)
         ELSE /\ wpc' = [wpc EXCEPT ![w] = "delete"]
              /\ UNCHANGED <<wjob, wasked>>
      /\ UNCHANGED <<status, shared, redis, recv, load, handler, connect, irc,
                     bounds, history>>

(* delete(c.channels, strings.ToLower(name)) *)
DeleteChannel(w) ==
  LET ch == wjob[w].chan
  IN  /\ Up
      /\ wpc[w] = "delete"
      /\ chans' = chans \ {ch}
      /\ asked' = asked \ {ch}
      /\ joined' = joined \ {ch}
      /\ odd' = IF Marking(ch) THEN odd \cup {ch} ELSE odd
      /\ Supersede(ch)
      /\ wpc' = [wpc EXCEPT ![w] = "remove"]
      /\ UNCHANGED <<status, client, active, redis, recv, wjob, wasked, load,
                     hpc, pActive, connect, irc, bounds, requested, late, mixed>>

(* RedisSliceRemove, which may fail; then the deletion is reported. *)
RemoveChannel(w) ==
  LET ch == wjob[w].chan
      adding == \E g \in Goroutines : g # w /\ wpc[g] = "insert" /\ wjob[g].chan = ch
  IN  /\ Up
      /\ wpc[w] = "remove"
      /\ stored' \in {stored, stored \ {ch}}
      /\ mixed' = IF ch \in chans \/ adding THEN mixed \cup {ch} ELSE mixed
      /\ Return(w)
      /\ UNCHANGED <<status, shared, server, recv, load, handler, connect, irc,
                     bounds, requested, odd, late>>

-----------------------------------------------------------------------------
(* IRCManager.run and IRCClient.Connect *)

(* im.clients[c.Id] = c; go c.Connect() *)
Register ==
  /\ Up
  /\ client = "handed"
  /\ client' = "known"
  /\ cpc' = "dial"
  /\ tryCount' = 0
  /\ UNCHANGED <<status, active, chans, asked, joined, redis, work, load,
                 handler, irc, bounds, history>>

(* Defect: one try more than configured. *)
TryOnceMore(count) ==
  /\ tryCount' = count + 1
  /\ cpc' = IF count < ReconnectCount THEN "dial" ELSE "failed"

(* for tryCount := ...; tryCount < config.ReconnectCount; tryCount++ *)
NextTry(count) ==
  /\ tryCount' = count + 1
  /\ cpc' = IF count + 1 < ReconnectCount THEN "dial" ELSE "failed"

DialFails ==
  /\ Up
  /\ cpc = "dial"
  /\ NextTry(tryCount)
  /\ UNCHANGED <<status, shared, redis, work, load, handler, irc, bounds, history>>

(* c.conn.Connect(addr), then <-c.disconnected *)
Dial ==
  /\ Up
  /\ cpc = "dial"
  /\ sessions < MaxSessions
  /\ sessions' = sessions + 1
  /\ net' = "up"
  /\ cpc' = "wait"
  /\ UNCHANGED <<status, shared, redis, work, load, handler, tryCount,
                 inside, out, in, msgs, restarts, history>>

-----------------------------------------------------------------------------
(* The server and the connection *)

(* The end of the message of the day.  A server without one never sends    *)
(* it.                                                                     *)
Welcome ==
  /\ Up
  /\ net = "up"
  /\ net' = "welcomed"
  /\ in' = Append(in, [cmd |-> "376", chan |-> NoChan])
  /\ UNCHANGED <<status, shared, redis, work, load, handler, connect,
                 inside, out, bounds, history>>

(* JOIN is answered by the list of names, or refused; JOIN of a channel    *)
(* the user is in and PART of one he is not in change nothing.             *)
Serve ==
  /\ Up
  /\ net = "welcomed"
  /\ out # <<>>
  /\ out' = Tail(out)
  /\ LET ch == Head(out).chan
     IN  \/ /\ Head(out).cmd = "JOIN" /\ ch \notin inside
            /\ inside' = inside \cup {ch}
            /\ in' = Append(in, [cmd |-> "366", chan |-> ch])
         \/ /\ Head(out).cmd = "JOIN"
            /\ UNCHANGED <<inside, in>>
         \/ /\ Head(out).cmd = "PART" /\ ch \in inside
            /\ inside' = inside \ {ch}
            /\ in' = Append(in, [cmd |-> "PART", chan |-> ch])
         \/ /\ Head(out).cmd = "PART" /\ ch \notin inside
            /\ UNCHANGED <<inside, in>>
  /\ UNCHANGED <<status, shared, redis, work, load, handler, connect, net,
                 bounds, history>>

(* An operator throws the user out: there is no handler for KICK. *)
Kick(ch) ==
  /\ Up
  /\ ch \in inside
  /\ inside' = inside \ {ch}
  /\ odd' = odd \cup {ch}
  /\ UNCHANGED <<status, shared, redis, work, load, handler, connect, net, out,
                 in, bounds, requested, late, mixed>>

(* The connection breaks; of the lines under way some are lost. *)
Break ==
  /\ Up
  /\ net # "down"
  /\ net' = "down"
  /\ inside' = {}
  /\ out' = <<>>
  /\ \E n \in 0..Len(in) :
       in' = Append(SubSeq(in, 1, n), [cmd |-> "disconnected", chan |-> NoChan])
  /\ UNCHANGED <<status, shared, redis, work, load, handler, connect, bounds,
                 history>>

-----------------------------------------------------------------------------
(* The handlers of NewClient *)

Takes(cmd) ==
  /\ Up
  /\ hpc = "idle"
  /\ in # <<>>
  /\ Head(in).cmd = cmd
  /\ in' = Tail(in)

(* The orders in which a range over a map may visit S. *)
Orders(S) ==
  {f \in [1..Cardinality(S) -> S] : \A x \in S : \E i \in DOMAIN f : f[i] = x}

(* "376": every channel not joined in this session is.  The status message *)
(* to the websocket server, which may block, is sent before Active is set. *)
JoinChannels ==
  /\ Takes("376")
  /\ asked' = asked \cup chans
  /\ requested' = requested \cup (chans \ asked)
  /\ \E order \in Orders(chans \ asked) :
       SendIRC([i \in DOMAIN order |-> [cmd |-> "JOIN", chan |-> order[i]]])
  /\ hpc' = "activate"
  /\ UNCHANGED <<status, client, active, chans, joined, redis, work, load,
                 hchan, pActive, connect, net, inside, bounds, odd, late, mixed>>

Activate ==
  /\ Up
  /\ hpc = "activate"
  /\ active' = TRUE
  /\ hpc' = "idle"
  /\ UNCHANGED <<status, client, chans, asked, joined, redis, work, load,
                 hchan, pActive, connect, irc, bounds, history>>

(* "disconnected": Active is cleared first, *)
Deactivate ==
  /\ Takes("disconnected")
  /\ pActive' = active
  /\ active' = FALSE
  /\ hpc' = "reset"
  /\ UNCHANGED <<status, client, chans, asked, joined, redis, work, load,
                 hchan, connect, net, inside, out, bounds, history>>

(* Defect: Channel.joined is not reset. *)
ResetInfoOnly ==
  /\ Up
  /\ hpc = "reset"
  /\ joined' = {}
  /\ requested' = {} /\ odd' = {} /\ late' = {}
  /\ hpc' = "report"
  /\ UNCHANGED <<status, client, active, chans, asked, redis, work, load, hchan,
                 pActive, connect, irc, bounds, mixed>>

(* then the channels, *)
ResetChannels ==
  /\ Up
  /\ hpc = "reset"
  /\ asked' = {} /\ joined' = {}
  /\ requested' = {} /\ odd' = {} /\ late' = {}
  /\ hpc' = "report"
  /\ UNCHANGED <<status, client, active, chans, redis, work, load, hchan,
                 pActive, connect, irc, bounds, mixed>>

(* Defect: the attempts of the last session count. *)
ReportWithoutReset ==
  /\ Up
  /\ hpc = "report"
  /\ cpc = "wait"
  /\ NextTry(tryCount)
  /\ hpc' = "idle"
  /\ pActive' = FALSE
  /\ UNCHANGED <<status, shared, redis, work, load, hchan, irc, bounds, history>>

(* and Connect is told: client.disconnected <- pActive *)
Report ==
  /\ Up
  /\ hpc = "report"
  /\ cpc = "wait"
  /\ NextTry(IF pActive THEN 0 ELSE tryCount)
  /\ hpc' = "idle"
  /\ pActive' = FALSE
  /\ UNCHANGED <<status, shared, redis, work, load, hchan, irc, bounds, history>>

(* Defect: a channel the map does not know is only logged. *)
IgnoreUnknown ==
  /\ Takes("366")
  /\ IF Head(in).chan \in chans
     THEN hpc' = "mark" /\ hchan' = Head(in).chan
     ELSE UNCHANGED <<hpc, hchan>>
  /\ UNCHANGED <<status, shared, redis, work, load, pActive, connect, net,
                 inside, out, bounds, history>>

(* "366": the channel is looked up; one the map does not know is parted. *)
EndOfNames ==
  /\ Takes("366")
  /\ hchan' = Head(in).chan
  /\ hpc' = IF Head(in).chan \in chans THEN "mark" ELSE "leave"
  /\ UNCHANGED <<status, shared, redis, work, load, pActive, connect, net,
                 inside, out, bounds, history>>

(* channel.info.Joined = true *)
MarkJoined ==
  /\ Up
  /\ hpc = "mark"
  /\ joined' = joined \cup ({hchan} \ {NoChan})
  /\ odd' = IF \E w \in Workers : wpc[w] = "delete" /\ wjob[w].chan = hchan
            THEN odd \cup {hchan} ELSE odd
  /\ hpc' = "idle" /\ hchan' = NoChan
  /\ UNCHANGED <<status, client, active, chans, asked, redis, work, load,
                 pActive, connect, irc, bounds, requested, late, mixed>>

(* Defect: the answer is JOIN. *)
JoinUnknown ==
  /\ Up
  /\ hpc = "leave"
  /\ SendIRC(<<[cmd |-> "JOIN", chan |-> hchan]>>)
  /\ hpc' = "idle" /\ hchan' = NoChan
  /\ UNCHANGED <<status, shared, redis, work, load, pActive, connect, net,
                 inside, in, bounds, history>>

(* conn.Part(line.Args[1], "Invalid Channel") *)
LeaveUnknown ==
  /\ Up
  /\ hpc = "leave"
  /\ SendIRC(<<[cmd |-> "PART", chan |-> hchan]>>)
  /\ hpc' = "idle" /\ hchan' = NoChan
  /\ UNCHANGED <<status, shared, redis, work, load, pActive, connect, net,
                 inside, in, bounds, history>>

(* "PART" of the user himself *)
Part ==
  /\ Takes("PART")
  /\ joined' = joined \ {Head(in).chan}
  /\ UNCHANGED <<status, client, active, chans, asked, redis, work, load,
                 handler, connect, net, inside, out, bounds, history>>

-----------------------------------------------------------------------------
(* The start of the process: LoadDb, with an empty Redis nothing to do *)

Restart ==
  /\ ~Up
  /\ restarts < MaxRestarts
  /\ restarts' = restarts + 1
  /\ status' = "up"
  /\ UNCHANGED <<shared, redis, work, load, handler, connect, irc, msgs,
                 sessions, history>>

(* Defect: only the channels are loaded. *)
LoadChannelsOnly ==
  /\ Up
  /\ loading = "servers"
  /\ todo' = stored
  /\ loading' = "channels"
  /\ UNCHANGED <<status, shared, redis, work, handler, connect, irc, bounds,
                 history>>

(* Every server in Redis becomes a client, *)
LoadServers ==
  /\ Up
  /\ loading = "servers"
  /\ client' = IF server THEN "handed" ELSE client
  /\ todo' = stored
  /\ loading' = "channels"
  /\ UNCHANGED <<status, active, chans, asked, joined, redis, work, handler,
                 connect, irc, bounds, history>>

(* every channel is added to it, *)
LoadChannel(ch) ==
  /\ Up
  /\ loading = "channels"
  /\ wpc[Loader] = "idle"
  /\ ch \in todo
  /\ todo' = todo \ {ch}
  /\ wjob' = [wjob EXCEPT ![Loader] = [cmd |-> "addChannel", chan |-> ch]]
  /\ wpc' = [wpc EXCEPT ![Loader] = "start"]
  /\ UNCHANGED <<status, shared, redis, recv, wasked, loading, handler, connect,
                 irc, bounds, history>>

(* and only then messages are received: zmqMgr.Start(). *)
Start ==
  /\ Up
  /\ loading = "channels"
  /\ wpc[Loader] = "idle" /\ todo = {}
  /\ loading' = "done"
  /\ UNCHANGED <<status, shared, redis, work, todo, handler, connect, irc,
                 bounds, history>>

-----------------------------------------------------------------------------
WorkerStep(w) ==
  \/ TakeJob(w)
  \/ AddServer(w)
  \/ NilClient(w)
  \/ SaveChannel(w) \/ InsertChannel(w) \/ JoinNew(w)
  \/ JoinPartChannel(w)
  \/ CheckChannel(w) \/ DeleteChannel(w) \/ RemoveChannel(w)

LoaderStep ==
  \/ LoadServers
  \/ \E ch \in Chans : LoadChannel(ch)
  \/ Start
  \/ NilClient(Loader)
  \/ SaveChannel(Loader) \/ InsertChannel(Loader) \/ JoinNew(Loader)

HandlerStep ==
  \/ JoinChannels \/ Activate
  \/ Deactivate \/ ResetChannels \/ Report
  \/ EndOfNames \/ MarkJoined \/ LeaveUnknown
  \/ Part

ConnectStep == Register \/ Dial \/ DialFails

ServerStep ==
  \/ Welcome
  \/ Serve
  \/ \E ch \in Chans : Kick(ch)
  \/ Break

Next ==
  \/ \E job \in Jobs : Deliver(job)
  \/ \E w \in Workers : WorkerStep(w)
  \/ LoaderStep
  \/ HandlerStep
  \/ ConnectStep
  \/ ServerStep
  \/ Kill
  \/ Restart

Spec == Init /\ [][Next]_vars

(* Handlers, Connect and the workers keep running and the server answers.  *)
(* Messages, kicks, broken connections, new sessions and the end of the    *)
(* process need not happen.                                                *)
Fairness ==
  /\ WF_vars(HandlerStep)
  /\ WF_vars(Serve)
  /\ \A w \in Workers : WF_vars(WorkerStep(w))

LiveSpec == Spec /\ Fairness

-----------------------------------------------------------------------------
(* Properties *)

(* Nothing is under way between the client and the server. *)
Settled ==
  /\ Up
  /\ net = "welcomed" /\ hpc = "idle" /\ in = <<>> /\ out = <<>>
  /\ \A g \in Goroutines : wpc[g] \in {"idle", "start"}

(* Once settled, client and server agree which channels the user is in,    *)
(* whatever joins, parts, deletions, refusals and sessions came before.    *)
(* Left out are the channels the code loses track of: one that was kicked, *)
(* one added again while it was joined, one deleted or added again while   *)
(* the handler of 366 was marking it (irc_client.go:180-191, 272-334).     *)
Agreement ==
  Settled => \A ch \in Chans \ odd : ch \in joined <=> ch \in inside

(* In a session that is active a JOIN was sent for every channel of the    *)
(* map, whether it was added before or after the 376, in this session or   *)
(* in an earlier one.  Left out are those whose AddChannel overlapped with *)
(* the 376 or disconnected handler, which may never be joined              *)
(* (irc_client.go:79-104, 291-295).                                        *)
JoinIsAsked ==
  Settled /\ active => chans \ late \subseteq requested

(* A channel of the map will be there after a restart: unless a deletion   *)
(* of the same name overlapped with its addition, it is in Redis, through  *)
(* failed saves, failed removals and crashes (irc_client.go:283-292,       *)
(* 324-330, relay_server.go:80-98).                                        *)
ListedIsStored ==
  chans \ mixed \subseteq stored

(* The relay only ends with a nil client while the registration of the     *)
(* client is still under way (relay_server.go:23-31, 76, 95-96).      *)
NilNeedsRegistration ==
  [][status = "up" /\ status' = "nil" =>
       client = "handed" \/ \E w \in Workers : wjob[w].cmd = "addServer"]_vars

(* A session that was active and broke is followed by another attempt to   *)
(* connect, however many attempts it had taken (irc_client.go:252-262).    *)
(* It takes a ReconnectCount of 2: with 1 the attempt is not made.         *)
Reconnects ==
  hpc = "report" /\ pActive ~> cpc = "dial" \/ ~Up

(* A channel the map does not hold does not keep the user: he is parted,   *)
(* unless it is added again, kicked or lost track of as in Agreement       *)
(* (irc_client.go:181-186).                                                *)
StrangerIsLeft ==
  \A ch \in Chans :
    ch \in inside \ chans ~> (ch \notin inside \/ ch \in chans \cup odd \/ ~Up)

(* "Cannot delete joined channel" (irc_client.go:321): the user is not in  *)
(* a channel that was deleted.  The code violates it.                      *)
DeletedChannelIsLeft == Settled => inside \subseteq chans
=============================================================================
