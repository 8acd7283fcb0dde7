------------------------------ MODULE History ------------------------------
(***************************************************************************)
(* The messages of one channel, from the two processes to one client.      *)
(*                                                                         *)
(* The relay stores a line it hears in the channel's log and announces it  *)
(* with CHAT over ZmqTransport; a worker of the other process broadcasts   *)
(* it to the user's connections.  A message of the user himself is         *)
(* broadcast by that process and given to the relay, which says and stores *)
(* it and announces nothing.  A client logs in, asks for the newest logs   *)
(* of the channels RedisList loads, and pages backwards from there.        *)
(*                                                                         *)
(* The client is external: it asks after its login was answered, and takes *)
(* the oldest log that a reply held for the end of what it knows.  The     *)
(* user is found by GetConnectedUser (module UserRegistry says when not).  *)
(***************************************************************************)
EXTENDS Integers, FiniteSets, Sequences, RedisList, ZmqTransport

CONSTANTS
  Theirs,  \* lines heard in the channel
  Own,     \* messages the user sends to it from another connection
  Chan,    \* the channel, one of Names
  Page,    \* logs in a reply (30 in the code unless the client says)
  None     \* no id

ASSUME HistoryAssumption ==
  /\ Chan \in Names /\ Page \in Nat \ {0}
  /\ IsFiniteSet(Theirs) /\ IsFiniteSet(Own) /\ Theirs \cap Own = {}
  /\ NoMsg \notin Theirs /\ None \notin Int

VARIABLES
  logid,   \* RedisNumber logid:<user>
  id,      \* IRCLog.LogId in the log of the channel
  logs,    \* messages in the log of the channel
  stage,   \* how far a message is in the relay
  spread,  \* own messages that were broadcast
  client,  \* the client's connection
  seen,    \* channels of the reply being made
  shown,   \* messages the client shows
  floor,   \* oldest id in its replies; None before the first
  missed   \* history: messages it was not sent after its first reply

store == <<logid, id, logs>>
view == <<client, seen, shown, floor, missed>>
vars == <<redisList, transport, store, stage, spread, view>>

Msgs == Theirs \cup Own
NumOf(S) == Cardinality(S)

(* Bound: the lines, own messages and operations on the list together. *)
Spoken == NumOf({m \in Msgs : stage[m] \notin {"new", "old"}})

TypeOK ==
  /\ ListType /\ TransportType(Theirs)
  /\ logid \in Nat
  /\ id \in [Msgs -> Nat \cup {None}]
  /\ logs \subseteq {m \in Msgs : id[m] # None}
  /\ stage \in [Msgs -> {"new", "old", "asked", "drawn", "written", "done"}]
  /\ spread \subseteq Own
  /\ client \in {"away", "listed", "asking"} /\ seen \subseteq Names
  /\ shown \subseteq Msgs /\ missed \subseteq Msgs /\ floor \in Nat \cup {None}

(* Some lines are in the log already. *)
Init ==
  /\ ListInit /\ TransportInit
  /\ \E old \in SUBSET Theirs :
       /\ logs = old /\ logid = NumOf(old)
       /\ id \in {f \in [Msgs -> 1..NumOf(old) \cup {None}] :
                   /\ \A m \in Msgs : f[m] = None <=> m \notin old
                   /\ \A m, n \in old : f[m] = f[n] => m = n}
       /\ stage = [m \in Msgs |-> IF m \in old THEN "old" ELSE "new"]
  /\ spread = {} /\ client = "away" /\ seen = {} /\ shown = {}
  /\ floor = None /\ missed = {}

-----------------------------------------------------------------------------
(* What the client shows. *)

Gets(S) == shown' = shown \cup S

(* After the first reply nothing but a push shows a new message. *)
Misses(S) == missed' = IF floor = None THEN missed ELSE missed \cup S

(* A connection in User.conns is sent the packet; Send gives up on a full  *)
(* buffer.                                                                 *)
Broadcast(m) ==
  \/ client # "away" /\ Gets({m}) /\ UNCHANGED missed
  \/ client # "away" /\ Misses({m}) /\ UNCHANGED shown
  \/ client = "away" /\ UNCHANGED <<shown, missed>>

-----------------------------------------------------------------------------
(* WriteChatLog, step by step. *)

Incr(m) == logid' = logid + 1 /\ id' = [id EXCEPT ![m] = logid + 1]

Reach(m, s) == stage' = [stage EXCEPT ![m] = s]

DrawId(m) ==
  /\ \/ Incr(m)
     \/ id' = [id EXCEPT ![m] = 0] /\ UNCHANGED logid
  /\ Reach(m, "drawn") /\ UNCHANGED logs

(* The result of ZADD is ignored. *)
WriteLog(m, next) ==
  /\ stage[m] = "drawn" /\ Reach(m, next)
  /\ logs' = logs \cup {m} \/ UNCHANGED logs
  /\ UNCHANGED <<logid, id>>

-----------------------------------------------------------------------------
(* A line: one handler at a time. *)

Hear(m) ==
  /\ boot # "down" /\ ops + Spoken < MaxOps
  /\ stage[m] = "new" /\ \A n \in Theirs : stage[n] \notin {"drawn", "written"}
  /\ DrawId(m)
  /\ UNCHANGED <<redisList, transport, spread, view>>

StoreLine(m) ==
  /\ WriteLog(m, "written")
  /\ UNCHANGED <<redisList, transport, spread, view>>

Announce(m) ==
  /\ stage[m] = "written" /\ Send(m) /\ Reach(m, "done")
  /\ UNCHANGED <<redisList, store, spread, view>>

(* The messengers carry it; the relay's starts when LoadDb is done. *)
Transfer ==
  /\ \/ boot = "up" /\ Sender
     \/ Receiver
     \/ \E w \in Workers : Take(w)
  /\ UNCHANGED <<redisList, store, stage, spread, view>>

(* The handler of CHAT, when its worker comes to the broadcast. *)
Chat(w) ==
  /\ Return(w) /\ Broadcast(held[w])
  /\ UNCHANGED <<redisList, store, stage, spread, client, seen, floor>>

-----------------------------------------------------------------------------
(* An own message: sendLog draws the id it answers and broadcasts, gives   *)
(* the message to the relay, and then broadcasts.                          *)

SendLog(m) ==
  /\ ops + Spoken < MaxOps /\ stage[m] = "new" /\ Reach(m, "asked")
  /\ logid' = logid + 1 \/ UNCHANGED logid
  /\ UNCHANGED <<redisList, transport, id, logs, spread, view>>

BroadcastOwn(m) ==
  /\ stage[m] # "new" /\ m \notin spread /\ spread' = spread \cup {m}
  /\ Broadcast(m)
  /\ UNCHANGED <<redisList, transport, store, stage, client, seen, floor>>

(* Defect: the relay stores the message without an id of its own. *)
SayUnnumbered(m) ==
  /\ boot = "up" /\ stage[m] = "asked" /\ Reach(m, "drawn")
  /\ UNCHANGED <<redisList, transport, store, spread, view>>

(* SEND_CHAT in a worker of the relay: IRCClient.SendLog. *)
SayOwn(m) ==
  /\ boot = "up" /\ stage[m] = "asked" /\ DrawId(m)
  /\ UNCHANGED <<redisList, transport, spread, view>>

(* Stored after the reply and broadcast before the login. *)
StoreOwn(m) ==
  /\ WriteLog(m, "done")
  /\ IF m \in spread \ shown THEN Misses({m}) ELSE UNCHANGED missed
  /\ UNCHANGED <<redisList, transport, spread, client, seen, shown, floor>>

-----------------------------------------------------------------------------
(* The client. *)

Oldest(S) == CHOOSE n \in {id[m] : m \in S} : \A m \in S : n <= id[m]

(* ZREVRANGEBYSCORE ... LIMIT 0 Page: the newest of a part of the log; the *)
(* order of logs with the same id is not looked at.                        *)
Newest(part) ==
  {S \in SUBSET part :
     /\ NumOf(S) = IF NumOf(part) < Page THEN NumOf(part) ELSE Page
     /\ \A m \in S, n \in part \ S : id[m] >= id[n]}

(* GetLastLogs: the id the client gives is tested the wrong way round, and *)
(* every log counts either way.                                            *)
GetLastLogs(lastLogId) ==
  Newest({m \in logs : lastLogId = -1 => id[m] > lastLogId})

(* Defect: the logs are read from the oldest on. *)
OldestLogs(lastLogId) ==
  LET part == {m \in logs : id[m] < lastLogId}
  IN {S \in SUBSET part :
        /\ NumOf(S) = IF NumOf(part) < Page THEN NumOf(part) ELSE Page
        /\ \A m \in S, n \in part \ S : id[m] <= id[n]}

GetPastLogs(lastLogId) == Newest({m \in logs : id[m] < lastLogId})

Reply(S) ==
  /\ Gets(S) /\ floor' = IF S = {} THEN 0 ELSE Oldest(S)
  /\ UNCHANGED missed

Login ==
  /\ client = "away" /\ client' = "listed"
  /\ UNCHANGED <<redisList, transport, store, stage, spread, seen, shown, floor, missed>>

(* getInitLogs: the channels first. *)
AskLogs ==
  /\ client = "listed" /\ floor = None
  /\ client' = "asking" /\ seen' = Load
  /\ UNCHANGED <<redisList, transport, store, stage, spread, shown, floor, missed>>

(* The logs then; the last id the client names is one it was shown, or     *)
(* none.                                                                   *)
InitLogs ==
  /\ client = "asking" /\ client' = "listed" /\ seen' = {}
  /\ IF Chan \in seen
     THEN \E last \in {-1} \cup {id[m] : m \in shown \cap logs} :
            \E S \in GetLastLogs(last) : Reply(S)
     ELSE UNCHANGED <<shown, floor, missed>>
  /\ UNCHANGED <<redisList, transport, store, stage, spread>>

PastLogs ==
  /\ client = "listed" /\ floor \notin {None, 0}
  /\ \E S \in GetPastLogs(floor) : Reply(S)
  /\ UNCHANGED <<redisList, transport, store, stage, spread, client, seen>>

Leave ==
  /\ client # "away" /\ client' = "away"
  /\ seen' = {} /\ shown' = {} /\ floor' = None /\ missed' = {}
  /\ UNCHANGED <<redisList, transport, store, stage, spread>>

-----------------------------------------------------------------------------
(* The relay ends; what it had in its hands is not taken up again, and the *)
(* announcements still in it do not arrive.                                *)

InHand(m) ==
  \/ m \in Theirs /\ stage[m] \in {"drawn", "written"}
  \/ m \in Own /\ stage[m] = "drawn"

Crash ==
  /\ boot # "down" /\ ops + Spoken < MaxOps /\ ListCrash /\ SenderDies
  /\ stage' \in {f \in [Msgs -> {"new", "old", "asked", "done"}] :
                  \A m \in Msgs :
                    IF InHand(m) THEN f[m] = "done"
                    ELSE \/ f[m] = stage[m]
                         \/ stage[m] = "asked" /\ f[m] = "done"}
  /\ Misses({m \in Theirs : stage[m] = "written"} \cup (gone' \ gone))
  /\ UNCHANGED <<store, spread, client, seen, shown, floor>>

ListWork ==
  /\ (\E p \in Procs : ListStep(p)) \/ LoadDb
  /\ ops' + Spoken <= MaxOps
  /\ UNCHANGED <<transport, store, stage, spread, view>>

Next ==
  \/ \E m \in Theirs : Hear(m) \/ StoreLine(m) \/ Announce(m)
  \/ \E m \in Own : SendLog(m) \/ BroadcastOwn(m) \/ SayOwn(m) \/ StoreOwn(m)
  \/ Transfer
  \/ \E w \in Workers : Chat(w)
  \/ Login \/ AskLogs \/ InitLogs \/ PastLogs \/ Leave
  \/ ListWork \/ Crash

Spec == Init /\ [][Next]_vars

-----------------------------------------------------------------------------
OnTheWay ==
  Pending \cup {m \in Theirs : stage[m] = "written"}
    \cup {m \in Own : stage[m] # "new" /\ m \notin spread}

(* From the oldest log of its replies on, the client shows every log of    *)
(* the channel or will be sent it, in whatever order lines are stored,     *)
(* announced and asked for, except what it was not sent after its first    *)
(* reply: a push given up on a full buffer, an announcement that died with *)
(* the relay, and a message of its own that was broadcast before its login *)
(* and stored after its reply.  irc_client.go:336-350,                     *)
(* irc_struct.go:76-144, connection.go:163-188.                            *)
NoGap ==
  floor # None =>
    \A m \in logs : id[m] > floor => m \in shown \cup OnTheWay \cup missed

(* Between the two processes a message is handled once at most, in no      *)
(* particular order, and lost only when its sender ends.                   *)
(* zmq_message.go:100-163.                                                 *)
Unordered == INSTANCE UnorderedChannel
               WITH Messages <- Theirs, pending <- Pending, gone <- gone

TransportIsUnordered == Unordered!Spec
=============================================================================
