---------------------------- MODULE ChannelView ----------------------------
(***************************************************************************)
(* What a channel contains, from the IRC server to the screen: the people  *)
(* in it according to the server; Channel.members and Channel.info of the  *)
(* relay, kept by the handlers of IRC lines; the copy in Redis; the deltas *)
(* on their way through the transport and the connection; and the view of  *)
(* a client that takes the copy from Redis (getServers) and then applies   *)
(* deltas.  The transport is what UnorderedChannel promises: pending is a  *)
(* set, and deltas differ in their number.                                 *)
(*                                                                         *)
(* The contents are one set: nicknames, "joined" when the user is in the   *)
(* channel, "topic" when the topic is the second of two.  A delta adds and *)
(* removes elements.  The IRC server and the client are external.          *)
(***************************************************************************)
EXTENDS Naturals, Sequences, FiniteSets

CONSTANTS
  Me,           \* the user's nickname
  Others,       \* other nicknames
  MaxLines,     \* bound: events in the channel
  MaxFaults,    \* bound: broken sessions, failed saves, restarts of the relay
  MaxLogins,    \* bound: connections of the client
  NoMsg         \* not a delta, an answer or an element

Nicks == {Me} \cup Others
Attrs == Nicks \cup {"joined", "topic"}

ASSUME NickAssumption ==
  /\ Me \notin Others /\ Nicks \cap {"joined", "topic"} = {}
  /\ IsFiniteSet(Others)
ASSUME BoundAssumption ==
  {MaxLines, MaxFaults, MaxLogins} \subseteq Nat

VARIABLES
  (* the IRC server and the session *)
  actual,   \* who is in the channel
  topic,    \* its topic: {} or {"topic"}
  session,  \* "up" or "down"
  lines,    \* IRC lines under way to the relay
  (* the relay: Channel.members, Channel.info, a delta about to be sent *)
  members, info, delta,
  stored,   \* Redis: the object channel:<user>:<server>:<name>
  pending,  \* deltas between the relay and the workers of the other process
  (* the websocket server and the client *)
  conn,     \* "off", or "on": um lists the connection
  flying,   \* packets between um and the client, by go c.Send
  reply,    \* the answer to getServers, from the load to the client
  view,     \* what the client shows
  (* bounds *)
  events, faults, logins,
  (* history *)
  clock,     \* counts the changes of the contents
  news,      \* when an element last changed
  quiet,     \* elements that changed and were in no delta since
  written,   \* the change at which the members last went into the info
  storedAt,  \* the change the stored copy of an element is from
  unsaved,   \* the last RedisSave failed
  ghosts,    \* members kept although a PART or QUIT may have been missed
  age,       \* the change the client's knowledge of an element is from
  disorder   \* elements the client learned of out of order, or not at all

server  == <<actual, topic, session, lines>>
relay   == <<members, info, delta>>
client  == <<conn, flying, reply, view>>
bounds  == <<events, faults, logins>>
kept    == <<clock, news, quiet, ghosts>>
saved   == <<stored, storedAt, unsaved, written>>
known   == <<age, disorder>>
unwritten == <<saved, faults>>
vars == <<server, relay, client, bounds, kept, saved, known, pending>>

Deltas == [n : Nat, plus : SUBSET Attrs, minus : SUBSET Attrs]
ASSUME NoMsgAssumption == NoMsg \notin Attrs \cup Deltas
NoView == {NoMsg}
About(m) == m.plus \cup m.minus

(* Channel.members with the fields of Channel.info that are not members. *)
Flags(i) == i \cap {"joined", "topic"}
Contents == members \cup Flags(info)

TypeOK ==
  /\ actual \subseteq Nicks /\ topic \subseteq {"topic"}
  /\ session \in {"up", "down"}
  /\ lines \in Seq([cmd : {"JOIN", "PART", "NICK", "TOPIC", "332", "353", "366",
                           "KICK", "disconnected"}, who : SUBSET Attrs, to : SUBSET Nicks])
  /\ members \subseteq Nicks /\ info \subseteq Attrs /\ stored \subseteq Attrs
  /\ delta \in Deltas \cup {NoMsg}
  /\ pending \subseteq Deltas
  /\ conn \in {"off", "on"} /\ flying \subseteq Deltas
  /\ reply \in [at : [Attrs -> 0..clock], contents : SUBSET Attrs, current : BOOLEAN] \cup {NoMsg}
  /\ view = NoView \/ view \subseteq Attrs
  /\ events \in 0..MaxLines /\ faults \in 0..MaxFaults /\ logins \in 0..MaxLogins
  /\ clock \in Nat /\ written \in 0..clock /\ storedAt \in [Attrs -> 0..clock] /\ unsaved \in BOOLEAN
  /\ news \in [Attrs -> 0..clock] /\ quiet \subseteq Attrs
  /\ ghosts \subseteq Nicks /\ disorder \subseteq Attrs
  /\ age \in [Attrs -> 0..clock]

(* The channel was added before the session was up; a JOIN is to come. *)
Init ==
  /\ actual \in SUBSET Others /\ topic = {} /\ session = "up" /\ lines = <<>>
  /\ members = {} /\ info = {} /\ delta = NoMsg /\ stored = {}
  /\ pending = {}
  /\ conn = "off" /\ flying = {} /\ reply = NoMsg /\ view = NoView
  /\ events = 0 /\ faults = 0 /\ logins = 0
  /\ clock = 0 /\ written = 0 /\ storedAt = [x \in Attrs |-> 0] /\ unsaved = FALSE
  /\ ghosts = {}
  /\ news = [x \in Attrs |-> 0] /\ quiet = {}
  /\ age = [x \in Attrs |-> 0] /\ disorder = {}

-----------------------------------------------------------------------------
(* The IRC server (external): the relay hears of a channel while it is in. *)

Line(cmd, who, to) == [cmd |-> cmd, who |-> who, to |-> to]

Hear(line) ==
  lines' = IF Me \in actual THEN Append(lines, line) ELSE lines

Event ==
  /\ events < MaxLines /\ events' = events + 1
  /\ UNCHANGED <<session, relay, client, faults, logins, kept, saved,
                 known, pending>>

OtherJoins(n) ==
  /\ n \in Others \ actual
  /\ actual' = actual \cup {n} /\ Hear(Line("JOIN", {n}, {}))
  /\ Event /\ UNCHANGED topic

(* PART and QUIT. *)
OtherLeaves(n) ==
  /\ n \in Others \cap actual
  /\ actual' = actual \ {n} /\ Hear(Line("PART", {n}, {}))
  /\ Event /\ UNCHANGED topic

OtherIsKicked(n) ==
  /\ n \in Others \cap actual
  /\ actual' = actual \ {n} /\ Hear(Line("KICK", {n}, {}))
  /\ Event /\ UNCHANGED topic

OtherRenames(n, to) ==
  /\ n \in Others \cap actual /\ to \in Others \ actual
  /\ actual' = (actual \ {n}) \cup {to} /\ Hear(Line("NICK", {n}, {to}))
  /\ Event /\ UNCHANGED topic

TopicChanges ==
  /\ topic' = {"topic"} \ topic /\ Hear(Line("TOPIC", topic', {}))
  /\ Event /\ UNCHANGED actual

(* The answer to a JOIN: topic and names are those of this moment. *)
IJoin ==
  /\ session = "up" /\ Me \notin actual
  /\ actual' = actual \cup {Me}
  /\ lines' = lines \o <<Line("332", topic, {}), Line("353", actual', {}),
                         Line("366", {}, {})>>
  /\ Event /\ UNCHANGED topic

ILeave ==
  /\ session = "up" /\ Me \in actual
  /\ actual' = actual \ {Me} /\ Hear(Line("PART", {Me}, {}))
  /\ Event /\ UNCHANGED topic

Fault == faults < MaxFaults /\ faults' = faults + 1

(* The connection breaks; lines that were under way may be lost. *)
Break ==
  /\ Fault
  /\ session = "up" /\ session' = "down"
  /\ actual' = actual \ {Me}
  /\ \E k \in 0..Len(lines) :
       lines' = SubSeq(lines, 1, k) \o <<Line("disconnected", {}, {})>>
  /\ UNCHANGED <<topic, relay, client, events, logins, kept, saved,
                 known, pending>>

(* IRCClient.Connect, when the disconnected handler has returned. *)
Reconnect ==
  /\ session = "down" /\ lines = <<>> /\ delta = NoMsg
  /\ session' = "up"
  /\ UNCHANGED <<actual, topic, lines, relay, client, bounds, kept, saved, known,
                 pending>>

-----------------------------------------------------------------------------
(* The relay: one line at a time *)

(* RedisSave of the info, whose error is dropped or logged. *)
Save ==
  /\ clock' = clock + 1
  /\ \/ /\ stored' = info' /\ unsaved' = FALSE
        /\ storedAt' = [x \in Attrs |-> IF x \in Nicks THEN written' ELSE clock']
        /\ UNCHANGED faults
     \/ Fault /\ unsaved' = TRUE /\ UNCHANGED <<stored, storedAt>>

(* The contents change. *)
Change ==
  /\ clock' = clock + 1
  /\ news' = [x \in Attrs |->
       IF (x \in Contents) # (x \in Contents') THEN clock' ELSE news[x]]

(* They change, and these elements go into no delta. *)
ChangeQuietly(elements) == Change /\ quiet' = quiet \cup elements

(* They change, and these go into the delta that zmqMgr.Send gets. *)
Announce(plus, minus) ==
  /\ Change /\ quiet' = quiet \ (plus \cup minus)
  /\ delta' = [n |-> clock', plus |-> plus, minus |-> minus]

Handle(cmd) ==
  /\ lines # <<>> /\ Head(lines).cmd = cmd /\ delta = NoMsg
  /\ lines' = Tail(lines)
  /\ UNCHANGED <<actual, topic, session, client, events, logins, known, pending>>

(* WriteChannelInfo(true): the members go into the info, and into Redis. *)
WriteMembers ==
  info' = members' \cup Flags(info) /\ written' = clock + 1 /\ Save

(* Defect: the delta of a JOIN is made before the member is written. *)
JoinUserUnwritten ==
  /\ Handle("JOIN")
  /\ UNCHANGED <<info, unwritten>>
  /\ members' = members \cup Head(lines).who
  /\ Announce(Head(lines).who, {})
  /\ ghosts' = ghosts \ Head(lines).who

JoinUser ==
  /\ Handle("JOIN")
  /\ members' = members \cup Head(lines).who /\ WriteMembers
  /\ Announce(Head(lines).who, {})
  /\ ghosts' = ghosts \ Head(lines).who

PartUser ==
  /\ Handle("PART") /\ Head(lines).who # {Me}
  /\ IF Head(lines).who \subseteq members
     THEN /\ members' = members \ Head(lines).who /\ WriteMembers
          /\ Announce({}, Head(lines).who)
     ELSE UNCHANGED <<relay, unwritten, clock, news, quiet>>
  /\ ghosts' = ghosts \ Head(lines).who

NickChange ==
  /\ Handle("NICK")
  /\ IF Head(lines).who \subseteq members
     THEN /\ members' = (members \ Head(lines).who) \cup Head(lines).to
          /\ WriteMembers
          /\ Announce(Head(lines).to, Head(lines).who)
     ELSE UNCHANGED <<relay, unwritten, clock, news, quiet>>
  /\ ghosts' = ghosts \ (Head(lines).who \cup Head(lines).to)

SetTopic ==
  /\ Handle("TOPIC")
  /\ UNCHANGED <<members, ghosts>>
  /\ info' = (info \ {"topic"}) \cup Head(lines).who /\ written' = written /\ Save
  /\ Announce(Head(lines).who, {"topic"} \ Head(lines).who)

(* Defect: the members are taken from the info instead of a new map. *)
PartFromInfo ==
  /\ Handle("PART") /\ Head(lines).who = {Me}
  /\ members' = info \ {"joined"} /\ info' = info \cap {"topic"}
  /\ written' = clock + 1 /\ Save
  /\ ChangeQuietly(members \cup {"joined"})
  /\ delta' = [n |-> clock', plus |-> {}, minus |-> {}]
  /\ ghosts' = {}

(* One's own PART: the delta has a key "Joined" that nobody reads, the     *)
(* field of the object is "joined", and nothing about the members.         *)
Part ==
  /\ Handle("PART") /\ Head(lines).who = {Me}
  /\ members' = {} /\ info' = info \cap {"topic"}
  /\ written' = clock + 1 /\ Save
  /\ ChangeQuietly(members \cup {"joined"})
  /\ delta' = [n |-> clock', plus |-> {}, minus |-> {}]
  /\ ghosts' = {}

(* 332: the topic, not yet written. *)
TopicReply ==
  /\ Handle("332")
  /\ UNCHANGED <<members, delta, unwritten, ghosts>>
  /\ info' = (info \ {"topic"}) \cup Head(lines).who
  /\ ChangeQuietly({"topic"})

(* Defect: a names list replaces a member for each name it adds. *)
NamesReplace ==
  /\ Handle("353")
  /\ UNCHANGED <<info, delta, unwritten>>
  /\ members' = Head(lines).who \ members
  /\ ChangeQuietly(Head(lines).who)
  /\ ghosts' = ghosts \ Head(lines).who

(* 353: names are only added. *)
NamesReply ==
  /\ Handle("353")
  /\ UNCHANGED <<info, delta, unwritten>>
  /\ members' = members \cup Head(lines).who
  /\ ChangeQuietly(Head(lines).who)
  /\ ghosts' = ghosts \ Head(lines).who

(* Defect: the delta of WriteChannelInfo is thrown away here, too. *)
EndOfNamesUnsent ==
  /\ Handle("366")
  /\ UNCHANGED <<members, ghosts, delta, quiet>>
  /\ info' = members \cup Flags(info) \cup {"joined"} /\ written' = clock + 1 /\ Save
  /\ Change

(* 366: everything is written and announced, but only what is there. *)
EndOfNames ==
  /\ Handle("366")
  /\ UNCHANGED <<members, ghosts>>
  /\ info' = members \cup Flags(info) \cup {"joined"} /\ written' = clock + 1 /\ Save
  /\ Announce(info', {"topic"} \ info')

(* WriteChannelInfo(false), whose delta is thrown away. *)
Disconnected ==
  /\ Handle("disconnected")
  /\ UNCHANGED <<members, delta>>
  /\ info' = info \ {"joined"} /\ written' = written /\ Save
  /\ ChangeQuietly({"joined"})
  /\ ghosts' = members

(* KICK has no handler. *)
NoHandler ==
  /\ Handle("KICK")
  /\ ghosts' = ghosts \cup Head(lines).who
  /\ UNCHANGED <<relay, unwritten, clock, news, quiet>>

SendDelta ==
  /\ delta # NoMsg
  /\ pending' = pending \cup {delta} /\ delta' = NoMsg
  /\ UNCHANGED <<server, members, info, client, bounds, kept, saved, known>>

(* The relay ends and starts again; LoadDb adds the channel afresh and     *)
(* writes it, empty.  Deltas that had not left it are lost.                *)
Restart ==
  /\ Fault
  /\ session' = "up" /\ actual' = actual \ {Me} /\ lines' = <<>>
  /\ members' = {} /\ info' = {} /\ delta' = NoMsg
  /\ ChangeQuietly(Contents)
  /\ stored' = {} /\ storedAt' = [x \in Attrs |-> clock'] /\ unsaved' = FALSE
  /\ written' = clock + 1 /\ ghosts' = {}
  /\ \E lost \in SUBSET pending :
       /\ pending' = pending \ lost
       /\ disorder' = disorder \cup UNION {About(m) : m \in lost \cup ({delta} \ {NoMsg})}
  /\ UNCHANGED <<topic, client, events, logins, age>>

-----------------------------------------------------------------------------
(* The websocket server and the client *)

(* The UPDATE_CHANNEL handler and um: go c.Send for a listed connection. *)
Broadcast(m) ==
  /\ m \in pending
  /\ pending' = pending \ {m}
  /\ flying' = IF conn = "on" THEN flying \cup {m} ELSE flying
  /\ UNCHANGED <<server, relay, conn, reply, view, bounds, kept, saved, known>>

Login ==
  /\ conn = "off" /\ logins < MaxLogins
  /\ conn' = "on" /\ logins' = logins + 1
  /\ disorder' = {} /\ age' = [x \in Attrs |-> 0]
  /\ UNCHANGED <<server, relay, flying, reply, view, events, faults,
                 kept, saved, pending>>

Logout ==
  /\ conn = "on"
  /\ conn' = "off" /\ flying' = {} /\ reply' = NoMsg /\ view' = NoView
  /\ UNCHANGED <<server, relay, bounds, kept, saved, known, pending>>

(* getServers: the channel as Redis has it. *)
GetServers ==
  /\ conn = "on" /\ reply = NoMsg /\ view = NoView
  /\ reply' = [at |-> storedAt, contents |-> stored, current |-> ~unsaved]
  /\ UNCHANGED <<server, relay, conn, flying, view, bounds, kept, saved, known,
                 pending>>

(* What the client has heard so far it had no channel to apply to. *)
ReceiveReply ==
  /\ reply # NoMsg
  /\ view' = reply.contents /\ reply' = NoMsg
  /\ age' = reply.at
  /\ disorder' = IF reply.current
                 THEN {x \in Attrs : x \in disorder \/ age[x] > reply.at[x]}
                 ELSE Attrs
  /\ UNCHANGED <<server, relay, conn, flying, bounds, kept, saved, pending>>

Receive(m) ==
  /\ m \in flying
  /\ flying' = flying \ {m}
  /\ view' = IF view = NoView THEN view ELSE (view \ m.minus) \cup m.plus
  /\ age' = [x \in Attrs |-> IF x \in About(m) /\ age[x] < m.n THEN m.n ELSE age[x]]
  /\ disorder' = disorder \cup {x \in About(m) : age[x] > m.n}
  /\ UNCHANGED <<server, relay, conn, reply, bounds, kept, saved, pending>>

(* Connection.Send gives up after two seconds. *)
Drop(m) ==
  /\ m \in flying
  /\ flying' = flying \ {m}
  /\ disorder' = disorder \cup About(m)
  /\ UNCHANGED <<server, relay, conn, reply, view, bounds, kept, saved, age,
                 pending>>

-----------------------------------------------------------------------------
ServerStep ==
  \/ \E n \in Others : OtherJoins(n) \/ OtherLeaves(n) \/ OtherIsKicked(n)
  \/ \E n, to \in Others : OtherRenames(n, to)
  \/ TopicChanges \/ IJoin \/ ILeave \/ Break \/ Reconnect
RelayStep ==
  \/ JoinUser \/ PartUser \/ NickChange \/ SetTopic \/ Part
  \/ TopicReply \/ NamesReply \/ EndOfNames \/ Disconnected \/ NoHandler
  \/ SendDelta
ClientStep ==
  \/ Login \/ Logout \/ GetServers \/ ReceiveReply
  \/ \E m \in flying : Receive(m) \/ Drop(m)

Next ==
  \/ ServerStep \/ RelayStep \/ Restart \/ ClientStep
  \/ \E m \in pending : Broadcast(m)

Spec == Init /\ [][Next]_vars

-----------------------------------------------------------------------------
(* Properties *)

Handled == lines = <<>> /\ delta = NoMsg

(* Once the lines of a session are handled, the relay has the topic of the *)
(* channel, and its members are the people in it and only those too many   *)
(* whose departure it cannot have heard of: a names list adds but never    *)
(* takes away (irc_client.go:168-178), members are kept over a disconnect  *)
(* (irc_client.go:99-103), and KICK has no handler.                        *)
ChannelIsTrue ==
  Handled /\ "joined" \in info =>
    /\ actual \subseteq members /\ members \subseteq actual \cup ghosts
    /\ info \cap {"topic"} = topic

(* Between two lines Redis has what the relay has, unless the last save    *)
(* failed; outside of a channel the members may lag behind, for a names    *)
(* list that broke off is not written (channel.go:14-85,                   *)
(* irc_client.go:99-103, 168-190).                                         *)
StoredIsCurrent ==
  Handled /\ ~unsaved =>
    /\ Flags(stored) = Flags(info)
    /\ "joined" \in info => stored = Contents

Settled ==
  /\ Handled /\ pending = {}
  /\ conn = "on" /\ flying = {} /\ reply = NoMsg /\ view # NoView

(* A client that logs in, then asks, then applies deltas misses nothing:   *)
(* when all is quiet it shows the contents, except for elements it learned *)
(* of out of order (zmq_message.go:154, user.go:196) and for changes that  *)
(* are in no delta: one's own PART (channel.go:78-85) and a lost session   *)
(* (irc_client.go:99-103), if they came after it asked.                    *)
ViewIsCurrent ==
  Settled =>
    \A x \in Attrs \ disorder :
      x \notin quiet \/ age[x] >= news[x] =>
        (x \in view <=> x \in Contents)
=============================================================================
