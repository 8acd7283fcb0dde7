---------------------------- MODULE PushDelivery ----------------------------
(***************************************************************************)
(* How a highlighted message reaches the devices of one user.              *)
(*                                                                         *)
(* A zmq worker loads the push tokens the user enabled, tries the          *)
(* websocket connections of his User object first and leaves the remaining *)
(* tokens to the push agent.  For every distinct token of a connection a   *)
(* timer is armed: an acknowledgement of the client stops it, its expiry   *)
(* hands the token to the agent after all.  The agent is a goroutine that  *)
(* reads a bounded channel and starts one goroutine per message for the    *)
(* request to Google; the answer may remove tokens of the user, and a      *)
(* failed request ends the process (the nil response is read).             *)
(*                                                                         *)
(* The message id of a packet is the number msgIdSeq had; here it is the   *)
(* pair of the note and the first connection the id was made for, which is *)
(* as unique.  Clients acknowledge ids they were sent.                     *)
(***************************************************************************)
EXTENDS Naturals, Sequences, FiniteSets

CONSTANTS
  Notes,      \* the highlighted messages that arrive, each once
  Conns,      \* websocket connections of the user
  Tokens,     \* push tokens of the user's devices
  GcmTokens,  \* those of Android devices; the others' pushes are not sent
  Workers,    \* goroutines of ZmqMessenger.Worker (4 in the code)
  PushCap,    \* capacity of push.Send (256 in the code)
  NoToken,    \* the empty push token
  NoNote,     \* the worker has no message
  Absent      \* not a connection of the User object

ASSUME TokenAssumption ==
  /\ GcmTokens \subseteq Tokens
  /\ NoToken \notin Tokens
  /\ Absent \notin Tokens \cup {NoToken}
ASSUME CapAssumption == PushCap \in Nat \ {0}

MsgIds == Notes \X Conns
Free == <<>>   \* nobody holds the lock across a step

VARIABLES
  tokens,   \* the Redis set tokens:<id>
  conns,    \* User.conns: the token of every connection
  waiting,  \* the key set of User.waitingTimer
  timer,    \* what the runtime timer of a message id does
  mtoken,   \* the token a message id stands for
  lock,     \* the timer callback that holds the lock of the User object
  queue,    \* push.Send
  gcm,      \* requests to Google under way
  wpc, wnote, wleft,  \* SendPushMessage of a worker: step, note, tokens left
  up,       \* the process is running
  (* history *)
  arrived,  \* notes that were taken from the relay
  offered,  \* pairs of a note and a token the server set out to reach
  acked,    \* pairs whose acknowledgement came in time
  pushed    \* how often a pair was handed to the agent

userVars   == <<tokens, conns>>
timerVars  == <<waiting, timer, mtoken, lock>>
agentVars  == <<queue, gcm>>
workerVars == <<wpc, wnote, wleft>>
vars == <<userVars, timerVars, agentVars, workerVars, up,
          arrived, offered, acked, pushed>>

PushMessages == [note : Notes, tokens : SUBSET Tokens]

TypeOK ==
  /\ tokens \subseteq Tokens
  /\ conns \in [Conns -> Tokens \cup {NoToken, Absent}]
  /\ waiting \subseteq MsgIds
  /\ timer \in [MsgIds -> {"off", "armed", "fired"}]
  /\ mtoken \in [MsgIds -> Tokens \cup {NoToken}]
  /\ lock \in MsgIds \cup {Free}
  /\ queue \in Seq(PushMessages) /\ Len(queue) <= PushCap
  /\ gcm \subseteq PushMessages
  /\ wpc \in [Workers -> {"idle", "websocket", "agent"}]
  /\ wnote \in [Workers -> Notes \cup {NoNote}]
  /\ wleft \in [Workers -> SUBSET Tokens]
  /\ up \in BOOLEAN
  /\ arrived \subseteq Notes
  /\ offered \subseteq Notes \X Tokens
  /\ acked \subseteq Notes \X Tokens
  /\ pushed \in [Notes \X Tokens -> Nat]

Init ==
  /\ tokens \in SUBSET Tokens
  /\ conns = [c \in Conns |-> Absent]
  /\ waiting = {}
  /\ timer = [m \in MsgIds |-> "off"]
  /\ mtoken = [m \in MsgIds |-> NoToken]
  /\ lock = Free
  /\ queue = <<>>
  /\ gcm = {}
  /\ wpc = [w \in Workers |-> "idle"]
  /\ wnote = [w \in Workers |-> NoNote]
  /\ wleft = [w \in Workers |-> {}]
  /\ up = TRUE
  /\ arrived = {}
  /\ offered = {}
  /\ acked = {}
  /\ pushed = [p \in Notes \X Tokens |-> 0]

-----------------------------------------------------------------------------
(* The connections and settings of the user *)

(* um lists a connection with the token its login gave, under the lock. *)
Connect(c, t) ==
  /\ up /\ lock = Free
  /\ conns[c] = Absent
  /\ conns' = [conns EXCEPT ![c] = t]
  /\ UNCHANGED <<tokens, timerVars, agentVars, workerVars, up,
                 arrived, offered, acked, pushed>>

Disconnect(c) ==
  /\ up /\ lock = Free
  /\ conns[c] # Absent
  /\ conns' = [conns EXCEPT ![c] = Absent]
  /\ UNCHANGED <<tokens, timerVars, agentVars, workerVars, up,
                 arrived, offered, acked, pushed>>

SetNotification(t, alert) ==
  /\ up
  /\ tokens' = IF alert THEN tokens \cup {t} ELSE tokens \ {t}
  /\ UNCHANGED <<conns, timerVars, agentVars, workerVars, up,
                 arrived, offered, acked, pushed>>

-----------------------------------------------------------------------------
(* UserManager.SendPushMessage, run by a zmq worker *)

Finish(w) ==
  /\ wpc' = [wpc EXCEPT ![w] = "idle"]
  /\ wnote' = [wnote EXCEPT ![w] = NoNote]
  /\ wleft' = [wleft EXCEPT ![w] = {}]

(* RedisSliceLoad of the tokens.  When it fails the note is given up. *)
LoadTokens(w, n) ==
  /\ up
  /\ wpc[w] = "idle"
  /\ n \notin arrived
  /\ arrived' = arrived \cup {n}
  /\ \/ /\ wpc' = [wpc EXCEPT ![w] = "websocket"]
        /\ wnote' = [wnote EXCEPT ![w] = n]
        /\ wleft' = [wleft EXCEPT ![w] = tokens]
        /\ offered' = offered \cup ({n} \X tokens)
     \/ UNCHANGED <<workerVars, offered>>
  /\ UNCHANGED <<userVars, timerVars, agentVars, up, acked, pushed>>

(* What is left goes to the agent, nothing left ends the handler. *)
Leave(w, rest) ==
  IF rest = {}
  THEN Finish(w)
  ELSE /\ wpc' = [wpc EXCEPT ![w] = "agent"]
       /\ wleft' = [wleft EXCEPT ![w] = rest]
       /\ UNCHANGED wnote

HeldTokens == {conns[c] : c \in Conns} \ {NoToken, Absent}

(* The first connection of every token the loop over User.conns meets. *)
FirstOfToken ==
  {first \in [HeldTokens -> Conns] : \A t \in HeldTokens : conns[first[t]] = t}

(* Defect: a timer for every connection, also of a token seen before. *)
TryEveryConnection(w) ==
  /\ up /\ lock = Free
  /\ wpc[w] = "websocket"
  /\ LET n == wnote[w]
         ids == {<<n, c>> : c \in {d \in Conns : conns[d] \in HeldTokens}}
     IN  /\ waiting' = waiting \cup ids
         /\ timer' = [m \in MsgIds |-> IF m \in ids THEN "armed" ELSE timer[m]]
         /\ mtoken' = [m \in MsgIds |->
                         IF m \in ids THEN conns[m[2]] ELSE mtoken[m]]
         /\ offered' = offered \cup ({n} \X HeldTokens)
  /\ Leave(w, wleft[w] \ HeldTokens)
  /\ UNCHANGED <<userVars, lock, agentVars, up, arrived, acked, pushed>>

(* User.SendPushMessage: the packet goes to every connection, a timer is   *)
(* armed for every distinct token, and these tokens are taken off the list.*)
TryWebsocket(w) ==
  /\ up /\ lock = Free
  /\ wpc[w] = "websocket"
  /\ \E first \in FirstOfToken :
       LET n == wnote[w]
           ids == {<<n, first[t]>> : t \in HeldTokens}
       IN  /\ waiting' = waiting \cup ids
           /\ timer' = [m \in MsgIds |-> IF m \in ids THEN "armed" ELSE timer[m]]
           /\ mtoken' = [m \in MsgIds |->
                           IF m \in ids THEN conns[m[2]] ELSE mtoken[m]]
           /\ offered' = offered \cup ({n} \X HeldTokens)
  /\ Leave(w, wleft[w] \ HeldTokens)
  /\ UNCHANGED <<userVars, lock, agentVars, up, arrived, acked, pushed>>

(* GetConnectedUser finds no User object. *)
NotConnected(w) ==
  /\ up
  /\ wpc[w] = "websocket"
  /\ Leave(w, wleft[w])
  /\ UNCHANGED <<userVars, timerVars, agentVars, up,
                 arrived, offered, acked, pushed>>

(* Defect: a full channel drops the message. *)
SendRestOrDrop(w) ==
  /\ up
  /\ wpc[w] = "agent"
  /\ queue' = IF Len(queue) < PushCap
              THEN Append(queue, [note |-> wnote[w], tokens |-> wleft[w]])
              ELSE queue
  /\ Finish(w)
  /\ UNCHANGED <<userVars, timerVars, gcm, up, arrived, offered, acked, pushed>>

(* manager.push.Send <- pushMessage *)
SendRest(w) ==
  /\ up
  /\ wpc[w] = "agent"
  /\ Len(queue) < PushCap
  /\ queue' = Append(queue, [note |-> wnote[w], tokens |-> wleft[w]])
  /\ Finish(w)
  /\ UNCHANGED <<userVars, timerVars, gcm, up, arrived, offered, acked, pushed>>

-----------------------------------------------------------------------------
(* The timers of User.SendPushMessage and User.AckPushMessage *)

(* PushResponseTimeout is over: the callback starts, without the lock. *)
Expire(m) ==
  /\ up
  /\ timer[m] = "armed"
  /\ timer' = [timer EXCEPT ![m] = "fired"]
  /\ UNCHANGED <<userVars, waiting, mtoken, lock, agentVars, workerVars, up,
                 arrived, offered, acked, pushed>>

(* Defect: the callback relies on Stop and does not look again. *)
CallbackWithoutRecheck(m) ==
  /\ up /\ lock = Free
  /\ timer[m] = "fired"
  /\ timer' = [timer EXCEPT ![m] = "off"]
  /\ waiting' = waiting \ {m}
  /\ lock' = m
  /\ UNCHANGED <<userVars, mtoken, agentVars, workerVars, up,
                 arrived, offered, acked, pushed>>

(* Defect: the callback does not wait for room in the channel. *)
CallbackSendUnbounded ==
  /\ up
  /\ lock # Free
  /\ queue' = Append(queue, [note |-> lock[1], tokens |-> {mtoken[lock]}])
  /\ lock' = Free
  /\ UNCHANGED <<userVars, waiting, timer, mtoken, gcm, workerVars, up,
                 arrived, offered, acked, pushed>>

(* The callback takes the lock and looks whether an acknowledgement was    *)
(* faster.  If not it keeps the lock until the agent's channel has room.   *)
Callback(m) ==
  /\ up /\ lock = Free
  /\ timer[m] = "fired"
  /\ timer' = [timer EXCEPT ![m] = "off"]
  /\ waiting' = waiting \ {m}
  /\ lock' = IF m \in waiting THEN m ELSE Free
  /\ UNCHANGED <<userVars, mtoken, agentVars, workerVars, up,
                 arrived, offered, acked, pushed>>

CallbackSend ==
  /\ up
  /\ lock # Free
  /\ Len(queue) < PushCap
  /\ queue' = Append(queue, [note |-> lock[1], tokens |-> {mtoken[lock]}])
  /\ lock' = Free
  /\ UNCHANGED <<userVars, waiting, timer, mtoken, gcm, workerVars, up,
                 arrived, offered, acked, pushed>>

(* Defect: the timer is stopped but the id stays in waitingTimer. *)
AckWithoutDelete(m) ==
  /\ up /\ lock = Free
  /\ m \in waiting
  /\ timer' = [timer EXCEPT ![m] = IF @ = "armed" THEN "off" ELSE @]
  /\ acked' = acked \cup {<<m[1], mtoken[m]>>}
  /\ UNCHANGED <<userVars, waiting, mtoken, lock, agentVars, workerVars, up,
                 arrived, offered, pushed>>

(* A pushLog packet with this message id.  One that comes too late, or     *)
(* again, changes nothing.                                                 *)
AckPushMessage(m) ==
  /\ up /\ lock = Free
  /\ m \in waiting
  /\ waiting' = waiting \ {m}
  /\ timer' = [timer EXCEPT ![m] = IF @ = "armed" THEN "off" ELSE @]
  /\ acked' = acked \cup {<<m[1], mtoken[m]>>}
  /\ UNCHANGED <<userVars, mtoken, lock, agentVars, workerVars, up,
                 arrived, offered, pushed>>

-----------------------------------------------------------------------------
(* PushManager *)

(* Defect: the agent looks the user up and takes his lock as well. *)
RunUnderLock ==
  /\ up /\ lock = Free
  /\ queue # <<>>
  /\ LET msg == Head(queue)
     IN  pushed' = [p \in Notes \X Tokens |->
                      IF p[1] = msg.note /\ p[2] \in msg.tokens
                      THEN pushed[p] + 1
                      ELSE pushed[p]]
  /\ queue' = Tail(queue)
  /\ UNCHANGED <<userVars, timerVars, gcm, workerVars, up,
                 arrived, offered, acked>>

(* PushManager.run: one goroutine for the Android tokens of a message. *)
Run ==
  /\ up
  /\ queue # <<>>
  /\ LET msg == Head(queue)
         android == msg.tokens \cap GcmTokens
     IN  /\ pushed' = [p \in Notes \X Tokens |->
                         IF p[1] = msg.note /\ p[2] \in msg.tokens
                         THEN pushed[p] + 1
                         ELSE pushed[p]]
         /\ gcm' = IF android = {}
                   THEN gcm
                   ELSE gcm \cup {[note |-> msg.note, tokens |-> android]}
  /\ queue' = Tail(queue)
  /\ UNCHANGED <<userVars, timerVars, workerVars, up, arrived, offered, acked>>

(* SendGCM: Google answers which tokens are not registered any more. *)
SendGCM(msg, unregistered) ==
  /\ up
  /\ gcm' = gcm \ {msg}
  /\ tokens' = tokens \ unregistered
  /\ UNCHANGED <<conns, timerVars, queue, workerVars, up,
                 arrived, offered, acked, pushed>>

(* SendGCM: the request fails and resp.Results is read of a nil resp. *)
SendGCMError ==
  /\ up
  /\ gcm # {}
  /\ up' = FALSE
  /\ UNCHANGED <<userVars, timerVars, agentVars, workerVars,
                 arrived, offered, acked, pushed>>

-----------------------------------------------------------------------------
UserStep ==
  \/ \E c \in Conns :
       \/ \E t \in Tokens \cup {NoToken} : Connect(c, t)
       \/ Disconnect(c)
  \/ \E t \in Tokens, alert \in BOOLEAN : SetNotification(t, alert)

WorkerStep(w) ==
  \/ \E n \in Notes : LoadTokens(w, n)
  \/ TryWebsocket(w)
  \/ NotConnected(w)
  \/ SendRest(w)

TimerStep ==
  \/ \E m \in MsgIds : Expire(m) \/ Callback(m) \/ AckPushMessage(m)
  \/ CallbackSend

AgentStep ==
  \/ Run
  \/ \E msg \in gcm : \E unregistered \in SUBSET msg.tokens :
       SendGCM(msg, unregistered)
  \/ SendGCMError

Next ==
  \/ UserStep
  \/ \E w \in Workers : WorkerStep(w)
  \/ TimerStep
  \/ AgentStep

Spec == Init /\ [][Next]_vars

(* Goroutines keep running, timers expire, a mutex and a channel serve     *)
(* those who wait in the order of their arrival.  Messages, connections,   *)
(* acknowledgements and failures may stop.                                 *)
Fairness ==
  /\ \A w \in Workers :
       /\ SF_vars(TryWebsocket(w) \/ NotConnected(w))
       /\ SF_vars(SendRest(w))
  /\ \A m \in MsgIds : WF_vars(Expire(m)) /\ SF_vars(Callback(m))
  /\ SF_vars(CallbackSend)
  /\ WF_vars(Run)

LiveSpec == Spec /\ Fairness

-----------------------------------------------------------------------------
(* Properties *)

(* The places where the pair of n and t can be while it is not settled. *)
Places(n, t) ==
  {<<"worker", w>> : w \in {v \in Workers : wnote[v] = n /\ t \in wleft[v]}}
    \cup {<<"timer", m>> : m \in {x \in waiting : x[1] = n /\ mtoken[x] = t}}
    \cup {<<"queue", i>> : i \in {j \in DOMAIN queue :
                                  queue[j].note = n /\ t \in queue[j].tokens}}
    \cup (IF lock # Free /\ lock[1] = n /\ mtoken[lock] = t
          THEN {<<"callback", lock>>} ELSE {})

(* No pair is lost, held twice, pushed twice or pushed after an accepted   *)
(* acknowledgement: whatever the worker, the timer, its callback, the      *)
(* client and the agent do, it is in one place until it is settled, and in *)
(* none after (user.go:52-79, 332-380, push_agent.go:22-40).               *)
Accounted ==
  \A n \in Notes, t \in Tokens :
    LET p == <<n, t>>
    IN  Cardinality(Places(n, t)) + pushed[p] + (IF p \in acked THEN 1 ELSE 0)
          = IF p \in offered THEN 1 ELSE 0

(* A message id that is waited for has a timer that will end the wait: it  *)
(* is armed, or its callback is on the way to the lock (user.go:361-376).  *)
WaitingHasTimer == \A m \in waiting : timer[m] # "off"

Fate(n, t) ==
  IF pushed[<<n, t>>] > 1 THEN "pushed twice"
  ELSE IF pushed[<<n, t>>] = 1 THEN "pushed"
  ELSE IF <<n, t>> \in acked THEN "acked"
  ELSE IF <<n, t>> \in offered THEN "pending"
  ELSE "none"

Promise == INSTANCE PushPromise
  WITH fate <- [n \in Notes |-> [t \in Tokens |-> Fate(n, t)]]

(* The delivery implements the promise: every offer changes its fate at    *)
(* most once, to acknowledged or to pushed.                                *)
PromiseSafe == Promise!Spec

(* Every offer is settled while the process is up: a client that never     *)
(* acknowledges, a full channel and the lock held meanwhile only delay it  *)
(* (user.go:78, 363-374).                                                  *)
PromiseKept == Promise!Kept

(* The callback that waits for the agent with the lock in its hand lets go *)
(* of it: um, which needs the lock to list or remove a connection, goes on *)
(* (user.go:364-373, 176-184).                                             *)
LockIsReleased == lock # Free ~> (lock = Free \/ ~up)
=============================================================================
