------------------------- MODULE PushDeliveryProofs -------------------------
(***************************************************************************)
(* Proofs about PushDelivery, for any sets of notes, connections, tokens   *)
(* and workers and any capacity of the agent's channel.                    *)
(***************************************************************************)
EXTENDS PushDelivery, SequenceTheorems, FiniteSetTheorems, TLAPS

(* A worker between two steps has a note in its hand. *)
NoteInHand == \A w \in Workers : wpc[w] # "idle" => wnote[w] \in Notes

(* Only message ids with a token are waited for, armed or sent. *)
IdsHaveTokens ==
  /\ \A m \in waiting : mtoken[m] \in Tokens
  /\ lock # Free => mtoken[lock] \in Tokens

TypeInv == TypeOK /\ NoteInHand /\ IdsHaveTokens

WorkerTypes ==
  /\ wpc \in [Workers -> {"idle", "websocket", "agent"}]
  /\ wnote \in [Workers -> Notes \cup {NoNote}]
  /\ wleft \in [Workers -> SUBSET Tokens]
  /\ NoteInHand

(* The three ways the locals of a worker change keep their types. *)
LEMMA WorkerUpdate ==
  ASSUME WorkerTypes, NEW w \in Workers,
         NEW pc \in {"idle", "websocket", "agent"},
         NEW note \in Notes \cup {NoNote}, NEW left \in SUBSET Tokens,
         pc # "idle" => note \in Notes,
         wpc' = [wpc EXCEPT ![w] = pc],
         wnote' = [wnote EXCEPT ![w] = note],
         wleft' = [wleft EXCEPT ![w] = left]
  PROVE  WorkerTypes'
<1>1. wleft' \in [Workers -> SUBSET Tokens]
  BY DEF WorkerTypes
<1>2. /\ wpc' \in [Workers -> {"idle", "websocket", "agent"}]
      /\ wnote' \in [Workers -> Notes \cup {NoNote}]
  BY DEF WorkerTypes
<1>3. NoteInHand'
  BY DEF WorkerTypes, NoteInHand
<1> QED BY <1>1, <1>2, <1>3 DEF WorkerTypes

LEMMA FinishTypes ==
  ASSUME WorkerTypes, NEW w \in Workers, Finish(w)
  PROVE  WorkerTypes'
BY WorkerUpdate DEF Finish

LEMMA LeaveTypes ==
  ASSUME WorkerTypes, NEW w \in Workers, wpc[w] # "idle",
         NEW rest \in SUBSET Tokens, Leave(w, rest)
  PROVE  WorkerTypes'
<1>1. CASE rest = {}
  BY <1>1, FinishTypes DEF Leave
<1>2. CASE rest # {}
  <2>1. wnote' = [wnote EXCEPT ![w] = wnote[w]] /\ wnote[w] \in Notes
    BY <1>2 DEF Leave, WorkerTypes, NoteInHand
  <2> QED BY <1>2, <2>1, WorkerUpdate DEF Leave
<1> QED BY <1>1, <1>2

LEMMA TypeInit == Init => TypeInv
  BY CapAssumption DEF Init, TypeInv, TypeOK, NoteInHand, IdsHaveTokens, Free

LEMMA TypeStep == TypeInv /\ [Next]_vars => TypeInv'
<1> SUFFICES ASSUME TypeInv, [Next]_vars PROVE TypeInv'
  OBVIOUS
<1> USE TokenAssumption, CapAssumption
    DEF TypeInv, TypeOK, NoteInHand, IdsHaveTokens
<1>1. CASE UserStep
  BY <1>1 DEF UserStep, Connect, Disconnect, SetNotification,
              timerVars, agentVars, workerVars
<1>2. ASSUME NEW w \in Workers, WorkerStep(w) PROVE TypeInv'
  <2>1. ASSUME NEW n \in Notes, LoadTokens(w, n) PROVE TypeInv'
    <3>1. {n} \X tokens \subseteq Notes \X Tokens
      OBVIOUS
    <3>2. arrived' \subseteq Notes /\ offered' \subseteq Notes \X Tokens
      BY <2>1, <3>1 DEF LoadTokens
    <3>3. WorkerTypes'
      <4>1. CASE UNCHANGED workerVars
        BY <4>1 DEF WorkerTypes, workerVars
      <4>2. CASE ~UNCHANGED workerVars
        BY <2>1, <4>2, WorkerUpdate, n \in Notes DEF LoadTokens, WorkerTypes
      <4> QED BY <4>1, <4>2
    <3> QED
      BY <2>1, <3>2, <3>3 DEF LoadTokens, WorkerTypes, userVars, timerVars, agentVars
  <2>2. CASE TryWebsocket(w)
    <3>1. PICK first \in FirstOfToken :
            LET n == wnote[w]
                ids == {<<n, first[t]>> : t \in HeldTokens}
            IN  /\ waiting' = waiting \cup ids
                /\ timer' = [m \in MsgIds |->
                               IF m \in ids THEN "armed" ELSE timer[m]]
                /\ mtoken' = [m \in MsgIds |->
                                IF m \in ids THEN conns[m[2]] ELSE mtoken[m]]
                /\ offered' = offered \cup ({n} \X HeldTokens)
      BY <2>2 DEF TryWebsocket
    <3> DEFINE n == wnote[w]
               ids == {<<n, first[t]>> : t \in HeldTokens}
    <3>2. n \in Notes
      BY <2>2 DEF TryWebsocket
    <3>3. HeldTokens \subseteq Tokens
      BY DEF HeldTokens
    <3>4. \A t \in HeldTokens : first[t] \in Conns /\ conns[first[t]] = t
      BY DEF FirstOfToken
    <3>5. ids \subseteq MsgIds /\ \A m \in ids : conns[m[2]] \in Tokens
      BY <3>2, <3>3, <3>4 DEF MsgIds
    <3>6. /\ waiting' \subseteq MsgIds
          /\ timer' \in [MsgIds -> {"off", "armed", "fired"}]
          /\ mtoken' \in [MsgIds -> Tokens \cup {NoToken}]
          /\ offered' \subseteq Notes \X Tokens
      BY <3>1, <3>2, <3>3, <3>5
    <3>7. /\ lock' = lock /\ lock = Free
          /\ \A m \in waiting' : mtoken'[m] \in Tokens
      BY <2>2, <3>1, <3>5 DEF TryWebsocket
    <3>8. WorkerTypes'
      <4>1. WorkerTypes /\ wleft[w] \ HeldTokens \in SUBSET Tokens
        BY DEF WorkerTypes
      <4> QED BY <2>2, <4>1, LeaveTypes DEF TryWebsocket
    <3> QED
      BY <2>2, <3>6, <3>7, <3>8
         DEF TryWebsocket, WorkerTypes, userVars, agentVars
  <2>3. CASE NotConnected(w)
    <3>1. WorkerTypes'
      <4>1. WorkerTypes /\ wleft[w] \in SUBSET Tokens
        BY DEF WorkerTypes
      <4> QED BY <2>3, <4>1, LeaveTypes DEF NotConnected
    <3> QED
      BY <2>3, <3>1
         DEF NotConnected, WorkerTypes, userVars, timerVars, agentVars
  <2>4. CASE SendRest(w)
    <3>1. [note |-> wnote[w], tokens |-> wleft[w]] \in PushMessages
      BY <2>4 DEF SendRest, PushMessages
    <3>2. queue' \in Seq(PushMessages) /\ Len(queue') <= PushCap
      BY <2>4, <3>1 DEF SendRest
    <3>3. WorkerTypes'
      BY <2>4, FinishTypes DEF SendRest, WorkerTypes
    <3> QED BY <2>4, <3>2, <3>3 DEF SendRest, WorkerTypes, userVars, timerVars
  <2> QED BY <1>2, <2>1, <2>2, <2>3, <2>4 DEF WorkerStep
<1>3. CASE TimerStep
  <2>1. ASSUME NEW m \in MsgIds, Expire(m) PROVE TypeInv'
    BY <2>1 DEF Expire, userVars, agentVars, workerVars
  <2>2. ASSUME NEW m \in MsgIds, Callback(m) PROVE TypeInv'
    BY <2>2 DEF Callback, userVars, agentVars, workerVars
  <2>3. ASSUME NEW m \in MsgIds, AckPushMessage(m) PROVE TypeInv'
    <3>1. <<m[1], mtoken[m]>> \in Notes \X Tokens
      BY <2>3 DEF AckPushMessage, MsgIds
    <3> QED BY <2>3, <3>1 DEF AckPushMessage, userVars, agentVars, workerVars
  <2>4. CASE CallbackSend
    <3>1. [note |-> lock[1], tokens |-> {mtoken[lock]}] \in PushMessages
      BY <2>4 DEF CallbackSend, PushMessages, MsgIds
    <3> QED BY <2>4, <3>1 DEF CallbackSend, userVars, workerVars
  <2> QED BY <1>3, <2>1, <2>2, <2>3, <2>4 DEF TimerStep
<1>4. CASE AgentStep
  <2>1. CASE Run
    <3> DEFINE msg == Head(queue)
               android == msg.tokens \cap GcmTokens
    <3>1. /\ msg \in PushMessages
          /\ Tail(queue) \in Seq(PushMessages) /\ Len(Tail(queue)) <= PushCap
      BY <2>1 DEF Run
    <3>2. [note |-> msg.note, tokens |-> android] \in PushMessages
      BY <3>1 DEF PushMessages
    <3>3. gcm' \subseteq PushMessages
      BY <2>1, <3>2 DEF Run
    <3>4. pushed' \in [Notes \X Tokens -> Nat]
      BY <2>1 DEF Run
    <3> QED BY <2>1, <3>1, <3>3, <3>4 DEF Run, userVars, timerVars, workerVars
  <2>2. ASSUME NEW msg \in gcm, NEW lost \in SUBSET msg.tokens,
               SendGCM(msg, lost)
        PROVE  TypeInv'
    BY <2>2 DEF SendGCM, timerVars, workerVars
  <2>3. CASE SendGCMError
    BY <2>3 DEF SendGCMError, userVars, timerVars, agentVars, workerVars
  <2> QED BY <1>4, <2>1, <2>2, <2>3 DEF AgentStep
<1>5. CASE UNCHANGED vars
  BY <1>5 DEF vars, userVars, timerVars, agentVars, workerVars
<1> QED BY <1>1, <1>2, <1>3, <1>4, <1>5 DEF Next

(* Every reachable state of the push delivery is well typed. *)
THEOREM TypeCorrect == Spec => []TypeOK
<1>1. TypeInv => TypeOK
  BY DEF TypeInv
<1> QED BY TypeInit, TypeStep, <1>1, PTL DEF Spec

LEMMA TypesHold == Spec => []TypeInv
  BY TypeInit, TypeStep, PTL DEF Spec

-----------------------------------------------------------------------------
(* Where the pair of a note and a token is. *)

AtWorker(n, t) == \E w \in Workers : wnote[w] = n /\ t \in wleft[w]
AtTimer(n, t) == \E m \in waiting : m[1] = n /\ mtoken[m] = t
AtCallback(n, t) == lock # Free /\ lock[1] = n /\ mtoken[lock] = t
AtAgent(n, t) == \E i \in DOMAIN queue : queue[i].note = n /\ t \in queue[i].tokens
IsAcked(n, t) == <<n, t>> \in acked
IsPushed(n, t) == pushed[<<n, t>>] = 1

(* Two workers have different notes, an idle one has nothing. *)
WorkersApart ==
  /\ \A w \in Workers : wpc[w] = "idle" => wleft[w] = {}
  /\ \A v, w \in Workers :
       wpc[v] # "idle" /\ wpc[w] # "idle" /\ wnote[v] = wnote[w] => v = w
  /\ \A w \in Workers : wpc[w] # "idle" => wnote[w] \in arrived

TimersApart ==
  \A l, m \in waiting : l[1] = m[1] /\ mtoken[l] = mtoken[m] => l = m

AgentApart ==
  \A i, j \in DOMAIN queue :
    queue[i].note = queue[j].note /\ queue[i].tokens \cap queue[j].tokens # {}
      => i = j

(* Nothing is offered before its note arrives, and before the websockets   *)
(* are tried only what the worker has in its hand.                         *)
Fresh ==
  /\ offered \subseteq arrived \X Tokens
  /\ \A w \in Workers :
       wpc[w] = "websocket" =>
         \A t \in Tokens : <<wnote[w], t>> \in offered => t \in wleft[w]

InOnePlace(n, t) ==
  /\ pushed[<<n, t>>] \in {0, 1}
  /\ AtWorker(n, t) =>
       ~AtTimer(n, t) /\ ~AtCallback(n, t) /\ ~AtAgent(n, t)
       /\ ~IsAcked(n, t) /\ ~IsPushed(n, t)
  /\ AtTimer(n, t) =>
       ~AtCallback(n, t) /\ ~AtAgent(n, t) /\ ~IsAcked(n, t) /\ ~IsPushed(n, t)
  /\ AtCallback(n, t) => ~AtAgent(n, t) /\ ~IsAcked(n, t) /\ ~IsPushed(n, t)
  /\ AtAgent(n, t) => ~IsAcked(n, t) /\ ~IsPushed(n, t)
  /\ IsAcked(n, t) => ~IsPushed(n, t)
  /\ <<n, t>> \in offered <=>
       \/ AtWorker(n, t) \/ AtTimer(n, t) \/ AtCallback(n, t) \/ AtAgent(n, t)
       \/ IsAcked(n, t) \/ IsPushed(n, t)

OnePlace == \A n \in Notes, t \in Tokens : InOnePlace(n, t)

DeliveryInv ==
  /\ TypeInv /\ WorkersApart /\ TimersApart /\ AgentApart /\ Fresh
  /\ OnePlace /\ WaitingHasTimer

LEMMA DeliveryInit == Init => DeliveryInv
<1> SUFFICES ASSUME Init PROVE DeliveryInv
  OBVIOUS
<1>1. TypeInv
  BY TypeInit
<1>2. WorkersApart /\ TimersApart /\ AgentApart /\ Fresh /\ WaitingHasTimer
  BY DEF Init, WorkersApart, TimersApart, AgentApart, Fresh, WaitingHasTimer
<1>3. OnePlace
  BY DEF Init, OnePlace, InOnePlace, AtWorker, AtTimer, AtCallback, AtAgent,
         IsAcked, IsPushed, Free
<1> QED BY <1>1, <1>2, <1>3 DEF DeliveryInv

-----------------------------------------------------------------------------
(* A worker goes on with the rest of its tokens. *)
LEMMA LeaveEffect ==
  ASSUME TypeInv, WorkersApart, NEW w \in Workers, wpc[w] # "idle",
         NEW rest \in SUBSET wleft[w], Leave(w, rest), UNCHANGED arrived
  PROVE  /\ WorkersApart'
         /\ wpc'[w] # "websocket"
         /\ \A v \in Workers : v # w => wpc'[v] = wpc[v] /\ wnote'[v] = wnote[v]
                                        /\ wleft'[v] = wleft[v]
         /\ \A n, t : AtWorker(n, t)' <=>
                       AtWorker(n, t) /\ (n = wnote[w] => t \in rest)
<1> USE DEF TypeInv, TypeOK
<1>1. CASE rest = {}
  <2>1. /\ wpc' = [wpc EXCEPT ![w] = "idle"]
        /\ wnote' = [wnote EXCEPT ![w] = NoNote]
        /\ wleft' = [wleft EXCEPT ![w] = {}]
    BY <1>1 DEF Leave, Finish
  <2>2. \A v \in Workers : v # w => wpc'[v] = wpc[v] /\ wnote'[v] = wnote[v]
                                     /\ wleft'[v] = wleft[v]
    BY <2>1
  <2>3. wpc'[w] = "idle" /\ wleft'[w] = {} /\ arrived' = arrived
    BY <2>1
  <2>4. WorkersApart'
    <3>1. \A v \in Workers : wpc'[v] = "idle" => wleft'[v] = {}
      BY <2>2, <2>3 DEF WorkersApart
    <3>2. ASSUME NEW u \in Workers, NEW v \in Workers, wpc'[u] # "idle",
                 wpc'[v] # "idle", wnote'[u] = wnote'[v]
          PROVE  u = v
      <4>1. u # w /\ v # w
        BY <2>3, <3>2
      <4> QED BY <2>2, <3>2, <4>1 DEF WorkersApart
    <3>3. \A v \in Workers : wpc'[v] # "idle" => wnote'[v] \in arrived'
      BY <2>2, <2>3 DEF WorkersApart
    <3> QED BY <3>1, <3>2, <3>3 DEF WorkersApart
  <2>5. \A v \in Workers : v # w /\ wleft[v] # {} => wnote[v] # wnote[w]
    BY DEF WorkersApart
  <2> QED BY <1>1, <2>2, <2>3, <2>4, <2>5 DEF AtWorker
<1>2. CASE rest # {}
  <2>1. /\ wpc' = [wpc EXCEPT ![w] = "agent"]
        /\ wnote' = wnote
        /\ wleft' = [wleft EXCEPT ![w] = rest]
    BY <1>2 DEF Leave
  <2>2. \A v \in Workers : v # w => wpc'[v] = wpc[v] /\ wnote'[v] = wnote[v]
                                     /\ wleft'[v] = wleft[v]
    BY <2>1
  <2>3. /\ wpc'[w] = "agent" /\ wleft'[w] = rest /\ wnote'[w] = wnote[w]
        /\ arrived' = arrived
    BY <2>1
  <2>4. WorkersApart'
    <3>1. \A v \in Workers : wpc'[v] = "idle" => wleft'[v] = {}
      BY <2>2, <2>3 DEF WorkersApart
    <3>2. \A v \in Workers : /\ wnote'[v] = wnote[v]
                             /\ wpc'[v] # "idle" => wpc[v] # "idle"
      BY <2>2, <2>3
    <3>3. \A v \in Workers : wpc'[v] # "idle" => wnote'[v] \in arrived'
      BY <2>3, <3>2 DEF WorkersApart
    <3> QED BY <3>1, <3>2, <3>3 DEF WorkersApart
  <2>5. \A v \in Workers : v # w /\ wleft[v] # {} => wnote[v] # wnote[w]
    BY DEF WorkersApart
  <2> QED BY <2>2, <2>3, <2>4, <2>5 DEF AtWorker
<1> QED BY <1>1, <1>2

(* The agent's channel gets a message. *)
LEMMA QueueMore ==
  ASSUME TypeInv, AgentApart, NEW msg \in PushMessages, queue' = Append(queue, msg),
         \A t \in msg.tokens : ~AtAgent(msg.note, t)
  PROVE  /\ AgentApart'
         /\ \A n, t : AtAgent(n, t)' <=>
                       AtAgent(n, t) \/ (n = msg.note /\ t \in msg.tokens)
<1>1. queue \in Seq(PushMessages)
  BY DEF TypeInv, TypeOK
<1>2. /\ DOMAIN queue = 1..Len(queue) /\ Len(queue) \in Nat
      /\ DOMAIN queue' = 1..(Len(queue) + 1)
      /\ \A i \in 1..Len(queue) : queue'[i] = queue[i]
      /\ queue'[Len(queue) + 1] = msg
  BY <1>1, AppendProperties, LenProperties
<1>3. \A n, t : AtAgent(n, t)' <=>
                AtAgent(n, t) \/ (n = msg.note /\ t \in msg.tokens)
  BY <1>2 DEF AtAgent
<1>4. AgentApart'
  <2> SUFFICES ASSUME NEW i \in DOMAIN queue', NEW j \in DOMAIN queue',
                      queue'[i].note = queue'[j].note,
                      NEW t \in queue'[i].tokens, t \in queue'[j].tokens
               PROVE  i = j
    BY DEF AgentApart
  <2>1. CASE i \in DOMAIN queue /\ j \in DOMAIN queue
    BY <1>2, <2>1 DEF AgentApart
  <2>2. CASE i \in DOMAIN queue /\ j = Len(queue) + 1
    BY <1>2, <2>2 DEF AtAgent
  <2>3. CASE i = Len(queue) + 1 /\ j \in DOMAIN queue
    BY <1>2, <2>3 DEF AtAgent
  <2> QED BY <1>2, <2>1, <2>2, <2>3
<1> QED BY <1>3, <1>4

LEMMA QueueLess ==
  ASSUME TypeInv, AgentApart, queue # <<>>, queue' = Tail(queue)
  PROVE  /\ AgentApart' /\ Head(queue) \in PushMessages
         /\ \A t \in Head(queue).tokens : AtAgent(Head(queue).note, t)
         /\ \A n, t : AtAgent(n, t)' <=>
              AtAgent(n, t) /\ ~(n = Head(queue).note /\ t \in Head(queue).tokens)
<1> DEFINE msg == Head(queue)
<1>1. queue \in Seq(PushMessages)
  BY DEF TypeInv, TypeOK
<1>2. /\ msg \in PushMessages /\ msg = queue[1]
      /\ DOMAIN queue = 1..Len(queue) /\ Len(queue) \in Nat \ {0}
      /\ DOMAIN queue' = 1..(Len(queue) - 1)
      /\ \A i \in 1..(Len(queue) - 1) : queue'[i] = queue[i + 1]
  BY <1>1, HeadTailProperties, LenProperties, EmptySeq
<1> HIDE DEF msg
<1>3. AgentApart'
  <2> SUFFICES ASSUME NEW i \in DOMAIN queue', NEW j \in DOMAIN queue',
                      queue'[i].note = queue'[j].note,
                      queue'[i].tokens \cap queue'[j].tokens # {}
               PROVE  i = j
    BY DEF AgentApart
  <2>1. /\ i + 1 \in DOMAIN queue /\ j + 1 \in DOMAIN queue
        /\ queue'[i] = queue[i + 1] /\ queue'[j] = queue[j + 1]
        /\ i \in Int /\ j \in Int
    BY <1>2
  <2>2. i + 1 = j + 1
    BY <2>1 DEF AgentApart
  <2> QED BY <2>1, <2>2
<1>4. \A t \in msg.tokens : AtAgent(msg.note, t)
  BY <1>2 DEF AtAgent
<1>5. ASSUME NEW n, NEW t, AtAgent(n, t)'
      PROVE  AtAgent(n, t) /\ ~(n = msg.note /\ t \in msg.tokens)
  <2>1. PICK i \in DOMAIN queue' : queue'[i].note = n /\ t \in queue'[i].tokens
    BY <1>5 DEF AtAgent
  <2>2. i + 1 \in DOMAIN queue /\ queue'[i] = queue[i + 1] /\ 1 \in DOMAIN queue
        /\ i + 1 # 1
    BY <1>2
  <2> QED BY <1>2, <2>1, <2>2 DEF AtAgent, AgentApart
<1>6. ASSUME NEW n, NEW t, AtAgent(n, t), ~(n = msg.note /\ t \in msg.tokens)
      PROVE  AtAgent(n, t)'
  <2>1. PICK i \in DOMAIN queue : queue[i].note = n /\ t \in queue[i].tokens
    BY <1>6 DEF AtAgent
  <2>2. i # 1
    BY <1>2, <1>6, <2>1
  <2>3. i - 1 \in DOMAIN queue' /\ queue'[i - 1] = queue[i]
    BY <1>2, <2>2
  <2> QED BY <2>1, <2>3 DEF AtAgent
<1> QED BY <1>2, <1>3, <1>4, <1>5, <1>6 DEF msg

-----------------------------------------------------------------------------
(* The steps. *)

deliveryVars == <<timerVars, queue, workerVars, arrived, offered, acked, pushed>>

(* Connections, settings and Google's answers leave the pairs alone. *)
LEMMA DeliveryStays ==
  ASSUME DeliveryInv, TypeInv', UNCHANGED deliveryVars
  PROVE  DeliveryInv'
<1>1. UNCHANGED <<waiting, timer, mtoken, lock, queue, wpc, wnote, wleft,
                  arrived, offered, acked, pushed>>
  BY DEF deliveryVars, timerVars, workerVars
<1> QED BY <1>1 DEF DeliveryInv, WorkersApart, TimersApart, AgentApart, Fresh,
        OnePlace, InOnePlace, WaitingHasTimer, AtWorker, AtTimer, AtCallback,
        AtAgent, IsAcked, IsPushed

LEMMA LoadStep ==
  ASSUME DeliveryInv, TypeInv', NEW w \in Workers, NEW n \in Notes, LoadTokens(w, n)
  PROVE  DeliveryInv'
<1> USE DEF DeliveryInv
<1>1. /\ wpc[w] = "idle" /\ n \notin arrived /\ arrived' = arrived \cup {n}
      /\ UNCHANGED <<waiting, timer, mtoken, lock, queue, acked, pushed>>
  BY DEF LoadTokens, timerVars, agentVars
<1>2. TimersApart' /\ AgentApart' /\ WaitingHasTimer'
  BY <1>1 DEF TimersApart, AgentApart, WaitingHasTimer
<1>3. CASE UNCHANGED <<workerVars, offered>>
  <2>1. WorkersApart' /\ Fresh'
    BY <1>1, <1>3 DEF WorkersApart, Fresh, workerVars
  <2>2. UNCHANGED <<waiting, mtoken, lock, queue, wnote, wleft, offered, acked,
                    pushed>>
    BY <1>1, <1>3 DEF workerVars
  <2>3. OnePlace'
    <3> SUFFICES ASSUME NEW m \in Notes, NEW t \in Tokens PROVE InOnePlace(m, t)'
      BY DEF OnePlace
    <3>1. InOnePlace(m, t)
      BY DEF OnePlace
    <3> QED BY <2>2, <3>1 DEF InOnePlace, AtWorker, AtTimer, AtCallback, AtAgent,
            IsAcked, IsPushed
  <2> QED BY <1>2, <2>1, <2>3
<1>4. CASE /\ wpc' = [wpc EXCEPT ![w] = "websocket"]
           /\ wnote' = [wnote EXCEPT ![w] = n]
           /\ wleft' = [wleft EXCEPT ![w] = tokens]
           /\ offered' = offered \cup ({n} \X tokens)
  <2>1. /\ wpc'[w] = "websocket" /\ wnote'[w] = n /\ wleft'[w] = tokens
        /\ \A v \in Workers : v # w => wpc'[v] = wpc[v] /\ wnote'[v] = wnote[v]
                                       /\ wleft'[v] = wleft[v]
    BY <1>4 DEF TypeInv, TypeOK
  <2>2. \A t \in Tokens : <<n, t>> \notin offered
    BY <1>1 DEF Fresh
  <2>3. \A v \in Workers : wpc[v] # "idle" => wnote[v] # n
    BY <1>1 DEF WorkersApart
  <2>4. WorkersApart'
    BY <1>1, <2>1, <2>3 DEF WorkersApart
  <2>5. Fresh'
    <3>1. tokens \subseteq Tokens
      BY DEF TypeInv, TypeOK
    <3>2. offered' \subseteq arrived' \X Tokens
      BY <1>1, <1>4, <3>1 DEF Fresh
    <3>3. ASSUME NEW v \in Workers, wpc'[v] = "websocket", NEW t \in Tokens,
                 <<wnote'[v], t>> \in offered'
          PROVE  t \in wleft'[v]
      <4>1. CASE v = w
        BY <1>4, <2>1, <2>2, <3>3, <4>1
      <4>2. CASE v # w
        <5>1. wnote[v] # n
          BY <2>1, <2>3, <3>3, <4>2
        <5> QED BY <1>4, <2>1, <3>3, <4>2, <5>1 DEF Fresh
      <4> QED BY <4>1, <4>2
    <3> QED BY <3>2, <3>3 DEF Fresh
  <2>6. \A m, t : AtWorker(m, t)' <=> AtWorker(m, t) \/ (m = n /\ t \in tokens)
    <3>1. wleft[w] = {}
      BY <1>1 DEF WorkersApart
    <3> QED BY <2>1, <3>1 DEF AtWorker
  <2>7. OnePlace'
    <3> SUFFICES ASSUME NEW m \in Notes, NEW t \in Tokens PROVE InOnePlace(m, t)'
      BY DEF OnePlace
    <3>1. /\ AtTimer(m, t)' <=> AtTimer(m, t)
          /\ AtCallback(m, t)' <=> AtCallback(m, t)
          /\ AtAgent(m, t)' <=> AtAgent(m, t)
          /\ IsAcked(m, t)' <=> IsAcked(m, t)
          /\ IsPushed(m, t)' <=> IsPushed(m, t)
          /\ pushed' = pushed
      BY <1>1 DEF AtTimer, AtCallback, AtAgent, IsAcked, IsPushed
    <3>2. <<m, t>> \in offered' <=> <<m, t>> \in offered \/ (m = n /\ t \in tokens)
      BY <1>4
    <3>3. InOnePlace(m, t)
      BY DEF OnePlace
    <3> QED BY <2>2, <2>6, <3>1, <3>2, <3>3 DEF InOnePlace
  <2> QED BY <1>2, <2>4, <2>5, <2>7
<1> QED BY <1>3, <1>4 DEF LoadTokens

LEMMA WebsocketStep ==
  ASSUME DeliveryInv, TypeInv', NEW w \in Workers, TryWebsocket(w)
  PROVE  DeliveryInv'
<1> USE DEF DeliveryInv
<1> DEFINE n == wnote[w]
<1>1. PICK first \in FirstOfToken :
        LET ids == {<<n, first[t]>> : t \in HeldTokens}
        IN  /\ waiting' = waiting \cup ids
            /\ timer' = [m \in MsgIds |-> IF m \in ids THEN "armed" ELSE timer[m]]
            /\ mtoken' = [m \in MsgIds |-> IF m \in ids THEN conns[m[2]] ELSE mtoken[m]]
            /\ offered' = offered \cup ({n} \X HeldTokens)
  BY DEF TryWebsocket
<1> DEFINE ids == {<<n, first[t]>> : t \in HeldTokens}
<1>2. /\ wpc[w] = "websocket" /\ lock = Free /\ n \in Notes /\ n \in arrived
      /\ Leave(w, wleft[w] \ HeldTokens)
      /\ UNCHANGED <<lock, queue, arrived, acked, pushed>>
  BY DEF TryWebsocket, agentVars, TypeInv, NoteInHand, WorkersApart
<1>3. HeldTokens \subseteq Tokens
  BY DEF HeldTokens, TypeInv, TypeOK
<1>4. /\ \A t \in HeldTokens : first[t] \in Conns /\ conns[first[t]] = t
      /\ ids \subseteq MsgIds
  BY <1>2, <1>3 DEF FirstOfToken, MsgIds
<1>5. /\ \A m \in ids : m[1] = n /\ mtoken'[m] \in HeldTokens /\ m = <<n, first[mtoken'[m]]>>
      /\ \A t \in HeldTokens : <<n, first[t]>> \in ids /\ mtoken'[<<n, first[t]>>] = t
      /\ \A m \in ids : timer'[m] = "armed"
      /\ \A m \in waiting \ ids : mtoken'[m] = mtoken[m] /\ timer'[m] = timer[m]
  <2>1. waiting \subseteq MsgIds
    BY DEF TypeInv, TypeOK
  <2> QED BY <1>1, <1>4, <2>1
(* Nothing of this note has left the worker's hand. *)
<1>6. \A t \in Tokens : /\ <<n, t>> \in offered => t \in wleft[w]
                        /\ t \in wleft[w] => AtWorker(n, t)
  BY <1>2 DEF Fresh, AtWorker
<1>7. \A m \in waiting : m[1] # n
  <2> SUFFICES ASSUME NEW m \in waiting, m[1] = n PROVE FALSE
    OBVIOUS
  <2>1. mtoken[m] \in Tokens
    BY DEF TypeInv, IdsHaveTokens
  <2>2. AtTimer(n, mtoken[m])
    BY DEF AtTimer
  <2> QED BY <1>2, <1>6, <2>1, <2>2 DEF OnePlace, InOnePlace
<1>8. ids \cap waiting = {}
  BY <1>5, <1>7
<1> HIDE DEF ids, n
<1>9. /\ WorkersApart' /\ wpc'[w] # "websocket"
      /\ \A v \in Workers : v # w => wpc'[v] = wpc[v] /\ wnote'[v] = wnote[v]
                                     /\ wleft'[v] = wleft[v]
      /\ \A m, t : AtWorker(m, t)' <=>
                    AtWorker(m, t) /\ (m = n => t \in wleft[w] \ HeldTokens)
  <2>1. wleft[w] \ HeldTokens \in SUBSET wleft[w]
    OBVIOUS
  <2> QED BY <1>2, <2>1, LeaveEffect DEF n
<1>10. waiting' = waiting \cup ids /\ offered' = offered \cup ({n} \X HeldTokens)
  BY <1>1 DEF ids
<1>11. TimersApart'
  <2> SUFFICES ASSUME NEW l \in waiting', NEW m \in waiting', l[1] = m[1],
                      mtoken'[l] = mtoken'[m]
               PROVE  l = m
    BY DEF TimersApart
  <2>1. CASE l \in ids
    BY <1>5, <1>7, <1>10, <2>1
  <2>2. CASE l \notin ids
    BY <1>5, <1>7, <1>10, <2>2 DEF TimersApart
  <2> QED BY <2>1, <2>2
<1>12. WaitingHasTimer'
  BY <1>5, <1>10 DEF WaitingHasTimer
<1>13. AgentApart'
  BY <1>2 DEF AgentApart
<1>14. Fresh'
  <2>1. offered' \subseteq arrived' \X Tokens
    BY <1>2, <1>3, <1>10 DEF Fresh
  <2>2. ASSUME NEW v \in Workers, wpc'[v] = "websocket", NEW t \in Tokens,
               <<wnote'[v], t>> \in offered'
        PROVE  t \in wleft'[v]
    <3>1. v # w /\ wpc[v] = "websocket" /\ wnote'[v] = wnote[v] /\ wleft'[v] = wleft[v]
      BY <1>9, <2>2
    <3>2. wnote[v] # n
      BY <1>2, <3>1 DEF WorkersApart, n
    <3> QED BY <1>10, <2>2, <3>1, <3>2 DEF Fresh
  <2> QED BY <2>1, <2>2 DEF Fresh
<1>15. OnePlace'
  <2> SUFFICES ASSUME NEW m \in Notes, NEW t \in Tokens PROVE InOnePlace(m, t)'
    BY DEF OnePlace
  <2>1. AtTimer(m, t)' <=> AtTimer(m, t) \/ (m = n /\ t \in HeldTokens)
    <3>1. ASSUME AtTimer(m, t)' PROVE AtTimer(m, t) \/ (m = n /\ t \in HeldTokens)
      BY <1>5, <1>10, <3>1 DEF AtTimer
    <3>2. ASSUME AtTimer(m, t) PROVE AtTimer(m, t)'
      BY <1>5, <1>8, <1>10, <3>2 DEF AtTimer
    <3>3. ASSUME m = n, t \in HeldTokens PROVE AtTimer(m, t)'
      <4>1. <<n, first[t]>> \in waiting' /\ mtoken'[<<n, first[t]>>] = t
        BY <1>5, <1>10, <3>3
      <4> QED BY <3>3, <4>1 DEF AtTimer
    <3> QED BY <3>1, <3>2, <3>3
  <2>2. /\ ~AtCallback(m, t) /\ ~AtCallback(m, t)'
        /\ AtAgent(m, t)' <=> AtAgent(m, t)
        /\ IsAcked(m, t)' <=> IsAcked(m, t)
        /\ IsPushed(m, t)' <=> IsPushed(m, t)
        /\ pushed' = pushed
    BY <1>2 DEF AtCallback, AtAgent, IsAcked, IsPushed
  <2>3. <<m, t>> \in offered' <=> <<m, t>> \in offered \/ (m = n /\ t \in HeldTokens)
    BY <1>10
  <2>4. InOnePlace(m, t)
    BY DEF OnePlace
  <2>5. m = n => (AtWorker(m, t) <=> t \in wleft[w])
    BY <1>6, <2>4 DEF InOnePlace
  <2> QED BY <1>6, <1>9, <2>1, <2>2, <2>3, <2>4, <2>5 DEF InOnePlace
<1> QED BY <1>9, <1>11, <1>12, <1>13, <1>14, <1>15

LEMMA NotConnectedStep ==
  ASSUME DeliveryInv, TypeInv', NEW w \in Workers, NotConnected(w)
  PROVE  DeliveryInv'
<1> USE DEF DeliveryInv
<1>1. /\ wpc[w] = "websocket" /\ Leave(w, wleft[w])
      /\ UNCHANGED <<waiting, timer, mtoken, lock, queue, arrived, offered, acked, pushed>>
  BY DEF NotConnected, timerVars, agentVars
<1>2. /\ WorkersApart' /\ wpc'[w] # "websocket"
      /\ \A v \in Workers : v # w => wpc'[v] = wpc[v] /\ wnote'[v] = wnote[v]
                                     /\ wleft'[v] = wleft[v]
      /\ \A m, t : AtWorker(m, t)' <=>
                    AtWorker(m, t) /\ (m = wnote[w] => t \in wleft[w])
  <2>1. wleft[w] \in SUBSET wleft[w]
    OBVIOUS
  <2> QED BY <1>1, <2>1, LeaveEffect
<1>3. \A m, t : AtWorker(m, t)' <=> AtWorker(m, t)
  <2>1. \A v \in Workers : wnote[v] = wnote[w] /\ wleft[v] # {} => v = w
    BY <1>1 DEF WorkersApart
  <2>2. \A m, t : AtWorker(m, t) /\ m = wnote[w] => t \in wleft[w]
    BY <2>1 DEF AtWorker
  <2> QED BY <1>2, <2>2
<1>4. TimersApart' /\ AgentApart' /\ WaitingHasTimer'
  BY <1>1 DEF TimersApart, AgentApart, WaitingHasTimer
<1>5. Fresh'
  BY <1>1, <1>2 DEF Fresh
<1>6. OnePlace'
  <2> SUFFICES ASSUME NEW m \in Notes, NEW t \in Tokens PROVE InOnePlace(m, t)'
    BY DEF OnePlace
  <2>1. /\ AtTimer(m, t)' <=> AtTimer(m, t)
        /\ AtCallback(m, t)' <=> AtCallback(m, t)
        /\ AtAgent(m, t)' <=> AtAgent(m, t)
        /\ IsAcked(m, t)' <=> IsAcked(m, t)
        /\ IsPushed(m, t)' <=> IsPushed(m, t)
    BY <1>1 DEF AtTimer, AtCallback, AtAgent, IsAcked, IsPushed
  <2>2. InOnePlace(m, t)
    BY DEF OnePlace
  <2> QED BY <1>1, <1>3, <2>1, <2>2 DEF InOnePlace
<1> QED BY <1>2, <1>4, <1>5, <1>6

LEMMA RestStep ==
  ASSUME DeliveryInv, TypeInv', NEW w \in Workers, SendRest(w)
  PROVE  DeliveryInv'
<1> USE DEF DeliveryInv
<1> DEFINE msg == [note |-> wnote[w], tokens |-> wleft[w]]
<1>1. /\ wpc[w] = "agent" /\ queue' = Append(queue, msg) /\ Finish(w)
      /\ UNCHANGED <<waiting, timer, mtoken, lock, arrived, offered, acked, pushed>>
  BY DEF SendRest, timerVars
<1>2. msg \in PushMessages /\ wnote[w] \in Notes /\ wleft[w] \subseteq Tokens
  BY <1>1 DEF PushMessages, TypeInv, TypeOK, NoteInHand
<1>3. /\ WorkersApart' /\ wpc'[w] # "websocket"
      /\ \A v \in Workers : v # w => wpc'[v] = wpc[v] /\ wnote'[v] = wnote[v]
                                     /\ wleft'[v] = wleft[v]
      /\ \A m, t : AtWorker(m, t)' <=> AtWorker(m, t) /\ m # wnote[w]
  <2>1. {} \in SUBSET wleft[w] /\ Leave(w, {})
    BY <1>1 DEF Leave
  <2> QED BY <1>1, <2>1, LeaveEffect
<1>4. \A t \in wleft[w] : AtWorker(wnote[w], t)
  BY DEF AtWorker
<1>5. \A t \in msg.tokens : ~AtAgent(msg.note, t)
  BY <1>2, <1>4 DEF OnePlace, InOnePlace
<1> HIDE DEF msg
<1>6. /\ AgentApart'
      /\ \A n, t : AtAgent(n, t)' <=>
                    AtAgent(n, t) \/ (n = msg.note /\ t \in msg.tokens)
  BY <1>1, <1>2, <1>5, QueueMore
<1>7. TimersApart' /\ WaitingHasTimer'
  BY <1>1 DEF TimersApart, WaitingHasTimer
<1>8. Fresh'
  BY <1>1, <1>3 DEF Fresh
<1>9. OnePlace'
  <2> SUFFICES ASSUME NEW m \in Notes, NEW t \in Tokens PROVE InOnePlace(m, t)'
    BY DEF OnePlace
  <2>1. /\ AtTimer(m, t)' <=> AtTimer(m, t)
        /\ AtCallback(m, t)' <=> AtCallback(m, t)
        /\ IsAcked(m, t)' <=> IsAcked(m, t)
        /\ IsPushed(m, t)' <=> IsPushed(m, t)
    BY <1>1 DEF AtTimer, AtCallback, IsAcked, IsPushed
  <2>2. InOnePlace(m, t)
    BY DEF OnePlace
  <2>3. m = wnote[w] => (AtWorker(m, t) <=> t \in wleft[w])
    BY <1>1 DEF WorkersApart, AtWorker
  <2>4. AtAgent(m, t)' <=> AtAgent(m, t) \/ (m = wnote[w] /\ t \in wleft[w])
    BY <1>6 DEF msg
  <2> QED BY <1>1, <1>3, <2>1, <2>2, <2>3, <2>4 DEF InOnePlace
<1> QED BY <1>3, <1>6, <1>7, <1>8, <1>9

LEMMA WorkersStay ==
  ASSUME WorkersApart, Fresh, UNCHANGED <<workerVars, arrived, offered>>
  PROVE  WorkersApart' /\ Fresh' /\ \A n, t : AtWorker(n, t)' <=> AtWorker(n, t)
  BY DEF WorkersApart, Fresh, workerVars, AtWorker

LEMMA ExpireStep ==
  ASSUME DeliveryInv, TypeInv', NEW m \in MsgIds, Expire(m)
  PROVE  DeliveryInv'
<1>1. /\ timer' = [timer EXCEPT ![m] = "fired"]
      /\ UNCHANGED <<waiting, mtoken, lock, queue, wpc, wnote, wleft,
                     arrived, offered, acked, pushed>>
  BY DEF Expire, agentVars, workerVars
<1>2. WaitingHasTimer'
  BY <1>1 DEF DeliveryInv, WaitingHasTimer, TypeInv, TypeOK
<1> QED BY <1>1, <1>2 DEF DeliveryInv, WorkersApart, TimersApart, AgentApart, Fresh,
        OnePlace, InOnePlace, AtWorker, AtTimer, AtCallback, AtAgent, IsAcked, IsPushed

LEMMA CallbackStep ==
  ASSUME DeliveryInv, TypeInv', NEW m \in MsgIds, Callback(m)
  PROVE  DeliveryInv'
<1> USE DEF DeliveryInv
<1>1. /\ lock = Free /\ timer' = [timer EXCEPT ![m] = "off"]
      /\ waiting' = waiting \ {m} /\ lock' = IF m \in waiting THEN m ELSE Free
      /\ UNCHANGED <<mtoken, queue, workerVars, arrived, offered, acked, pushed>>
  BY DEF Callback, agentVars
<1>2. WorkersApart' /\ Fresh' /\ \A n, t : AtWorker(n, t)' <=> AtWorker(n, t)
  BY <1>1, WorkersStay
<1>3. TimersApart' /\ AgentApart'
  BY <1>1 DEF TimersApart, AgentApart
<1>4. WaitingHasTimer'
  BY <1>1 DEF WaitingHasTimer, TypeInv, TypeOK
<1>5. m # Free
  BY DEF MsgIds, Free
<1>6. OnePlace'
  <2> SUFFICES ASSUME NEW n \in Notes, NEW t \in Tokens PROVE InOnePlace(n, t)'
    BY DEF OnePlace
  <2>1. /\ AtAgent(n, t)' <=> AtAgent(n, t)
        /\ IsAcked(n, t)' <=> IsAcked(n, t)
        /\ IsPushed(n, t)' <=> IsPushed(n, t)
        /\ ~AtCallback(n, t)
    BY <1>1 DEF AtAgent, IsAcked, IsPushed, AtCallback
  <2>2. AtCallback(n, t)' <=> m \in waiting /\ m[1] = n /\ mtoken[m] = t
    BY <1>1, <1>5 DEF AtCallback
  <2>3. AtTimer(n, t)' <=> AtTimer(n, t) /\ ~(m \in waiting /\ m[1] = n /\ mtoken[m] = t)
    BY <1>1 DEF AtTimer, TimersApart
  <2>4. (m \in waiting /\ m[1] = n /\ mtoken[m] = t) => AtTimer(n, t)
    BY DEF AtTimer
  <2>5. InOnePlace(n, t)
    BY DEF OnePlace
  <2> QED BY <1>1, <1>2, <2>1, <2>2, <2>3, <2>4, <2>5 DEF InOnePlace
<1> QED BY <1>2, <1>3, <1>4, <1>6

LEMMA AckStep ==
  ASSUME DeliveryInv, TypeInv', NEW m \in MsgIds, AckPushMessage(m)
  PROVE  DeliveryInv'
<1> USE DEF DeliveryInv
<1>1. /\ m \in waiting /\ waiting' = waiting \ {m}
      /\ timer' = [timer EXCEPT ![m] = IF @ = "armed" THEN "off" ELSE @]
      /\ acked' = acked \cup {<<m[1], mtoken[m]>>}
      /\ UNCHANGED <<mtoken, lock, queue, workerVars, arrived, offered, pushed>>
  BY DEF AckPushMessage, agentVars
<1>2. WorkersApart' /\ Fresh' /\ \A n, t : AtWorker(n, t)' <=> AtWorker(n, t)
  BY <1>1, WorkersStay
<1>3. TimersApart' /\ AgentApart'
  BY <1>1 DEF TimersApart, AgentApart
<1>4. WaitingHasTimer'
  BY <1>1 DEF WaitingHasTimer, TypeInv, TypeOK
<1>5. OnePlace'
  <2> SUFFICES ASSUME NEW n \in Notes, NEW t \in Tokens PROVE InOnePlace(n, t)'
    BY DEF OnePlace
  <2> DEFINE it == m[1] = n /\ mtoken[m] = t
  <2>1. /\ AtAgent(n, t)' <=> AtAgent(n, t)
        /\ IsPushed(n, t)' <=> IsPushed(n, t)
        /\ AtCallback(n, t)' <=> AtCallback(n, t)
        /\ IsAcked(n, t)' <=> IsAcked(n, t) \/ it
    BY <1>1 DEF AtAgent, IsAcked, IsPushed, AtCallback
  <2>2. AtTimer(n, t)' <=> AtTimer(n, t) /\ ~it
    BY <1>1 DEF AtTimer, TimersApart
  <2>3. it => AtTimer(n, t)
    BY <1>1 DEF AtTimer
  <2>4. InOnePlace(n, t)
    BY DEF OnePlace
  <2> HIDE DEF it
  <2> QED BY <1>1, <1>2, <2>1, <2>2, <2>3, <2>4 DEF InOnePlace
<1> QED BY <1>2, <1>3, <1>4, <1>5

LEMMA CallbackSendStep ==
  ASSUME DeliveryInv, TypeInv', CallbackSend
  PROVE  DeliveryInv'
<1> USE DEF DeliveryInv
<1> DEFINE msg == [note |-> lock[1], tokens |-> {mtoken[lock]}]
<1>1. /\ lock # Free /\ queue' = Append(queue, msg) /\ lock' = Free
      /\ UNCHANGED <<waiting, timer, mtoken, workerVars, arrived, offered, acked, pushed>>
  BY DEF CallbackSend
<1>2. lock[1] \in Notes /\ mtoken[lock] \in Tokens /\ msg \in PushMessages
  BY <1>1 DEF TypeInv, TypeOK, IdsHaveTokens, MsgIds, PushMessages
<1>3. AtCallback(lock[1], mtoken[lock])
  BY <1>1 DEF AtCallback
<1>4. \A t \in msg.tokens : ~AtAgent(msg.note, t)
  BY <1>2, <1>3 DEF OnePlace, InOnePlace
<1> HIDE DEF msg
<1>5. /\ AgentApart'
      /\ \A n, t : AtAgent(n, t)' <=>
                    AtAgent(n, t) \/ (n = msg.note /\ t \in msg.tokens)
  BY <1>1, <1>2, <1>4, QueueMore
<1>6. WorkersApart' /\ Fresh' /\ \A n, t : AtWorker(n, t)' <=> AtWorker(n, t)
  BY <1>1, WorkersStay
<1>7. TimersApart' /\ WaitingHasTimer'
  BY <1>1 DEF TimersApart, WaitingHasTimer
<1>8. OnePlace'
  <2> SUFFICES ASSUME NEW n \in Notes, NEW t \in Tokens PROVE InOnePlace(n, t)'
    BY DEF OnePlace
  <2>1. /\ AtTimer(n, t)' <=> AtTimer(n, t)
        /\ IsAcked(n, t)' <=> IsAcked(n, t)
        /\ IsPushed(n, t)' <=> IsPushed(n, t)
        /\ ~AtCallback(n, t)'
    BY <1>1 DEF AtTimer, IsAcked, IsPushed, AtCallback
  <2>2. AtAgent(n, t)' <=> AtAgent(n, t) \/ AtCallback(n, t)
    BY <1>1, <1>5 DEF msg, AtCallback
  <2>3. InOnePlace(n, t)
    BY DEF OnePlace
  <2> QED BY <1>1, <1>6, <2>1, <2>2, <2>3 DEF InOnePlace
<1> QED BY <1>5, <1>6, <1>7, <1>8

LEMMA RunStep ==
  ASSUME DeliveryInv, TypeInv', Run
  PROVE  DeliveryInv'
<1> USE DEF DeliveryInv
<1> DEFINE msg == Head(queue)
<1>1. /\ queue # <<>> /\ queue' = Tail(queue)
      /\ pushed' = [p \in Notes \X Tokens |->
                      IF p[1] = msg.note /\ p[2] \in msg.tokens
                      THEN pushed[p] + 1 ELSE pushed[p]]
      /\ UNCHANGED <<waiting, timer, mtoken, lock, workerVars, arrived, offered, acked>>
  BY DEF Run, timerVars
<1>2. /\ AgentApart' /\ msg \in PushMessages
      /\ \A t \in msg.tokens : AtAgent(msg.note, t)
      /\ \A n, t : AtAgent(n, t)' <=>
                    AtAgent(n, t) /\ ~(n = msg.note /\ t \in msg.tokens)
  BY <1>1, QueueLess
<1> HIDE DEF msg
<1>3. WorkersApart' /\ Fresh' /\ \A n, t : AtWorker(n, t)' <=> AtWorker(n, t)
  BY <1>1, WorkersStay
<1>4. TimersApart' /\ WaitingHasTimer'
  BY <1>1 DEF TimersApart, WaitingHasTimer
<1>5. OnePlace'
  <2> SUFFICES ASSUME NEW n \in Notes, NEW t \in Tokens PROVE InOnePlace(n, t)'
    BY DEF OnePlace
  <2> DEFINE it == n = msg.note /\ t \in msg.tokens
  <2>1. /\ AtTimer(n, t)' <=> AtTimer(n, t)
        /\ IsAcked(n, t)' <=> IsAcked(n, t)
        /\ AtCallback(n, t)' <=> AtCallback(n, t)
    BY <1>1 DEF AtTimer, IsAcked, AtCallback
  <2>2. pushed'[<<n, t>>] = IF it THEN pushed[<<n, t>>] + 1 ELSE pushed[<<n, t>>]
    BY <1>1
  <2>3. InOnePlace(n, t) /\ (it => AtAgent(n, t))
    BY <1>2 DEF OnePlace
  <2>4. AtAgent(n, t)' <=> AtAgent(n, t) /\ ~it
    BY <1>2
  <2> HIDE DEF it
  <2>5. pushed'[<<n, t>>] \in {0, 1} /\ (IsPushed(n, t)' <=> IsPushed(n, t) \/ it)
    <3>1. pushed[<<n, t>>] \in {0, 1} /\ (it => pushed[<<n, t>>] = 0)
      BY <2>3 DEF InOnePlace, IsPushed
    <3> QED BY <2>2, <3>1 DEF IsPushed
  <2> QED BY <1>1, <1>3, <2>1, <2>3, <2>4, <2>5 DEF InOnePlace
<1> QED BY <1>2, <1>3, <1>4, <1>5

LEMMA DeliveryStep == DeliveryInv /\ [Next]_vars => DeliveryInv'
<1> SUFFICES ASSUME DeliveryInv, [Next]_vars PROVE DeliveryInv'
  OBVIOUS
<1>1. TypeInv'
  BY TypeStep DEF DeliveryInv
<1>2. CASE UserStep \/ UNCHANGED vars
  <2>1. UNCHANGED deliveryVars
    BY <1>2 DEF UserStep, Connect, Disconnect, SetNotification, vars, deliveryVars,
                agentVars
  <2> QED BY <1>1, <2>1, DeliveryStays
<1>3. ASSUME NEW w \in Workers, WorkerStep(w) PROVE DeliveryInv'
  BY <1>1, <1>3, LoadStep, WebsocketStep, NotConnectedStep, RestStep DEF WorkerStep
<1>4. CASE TimerStep
  BY <1>1, <1>4, ExpireStep, CallbackStep, AckStep, CallbackSendStep DEF TimerStep
<1>5. CASE AgentStep
  <2>1. CASE Run
    BY <1>1, <2>1, RunStep
  <2>2. CASE ~Run
    <3>1. UNCHANGED deliveryVars
      BY <1>5, <2>2 DEF AgentStep, SendGCM, SendGCMError, deliveryVars, agentVars
    <3> QED BY <1>1, <3>1, DeliveryStays
  <2> QED BY <2>1, <2>2
<1> QED BY <1>2, <1>3, <1>4, <1>5 DEF Next

LEMMA DeliveryInvariant == Spec => []DeliveryInv
  BY DeliveryInit, DeliveryStep, PTL DEF Spec

(* A message id that is waited for always has a timer that is armed or     *)
(* whose callback is under way (user.go:361-376).                          *)
THEOREM WaitsEnd == Spec => []WaitingHasTimer
  BY DeliveryInvariant, PTL DEF DeliveryInv

-----------------------------------------------------------------------------
(* No pair is lost. *)

LEMMA PlacesCounted ==
  ASSUME DeliveryInv, NEW n \in Notes, NEW t \in Tokens
  PROVE  Cardinality(Places(n, t)) =
           IF AtWorker(n, t) \/ AtTimer(n, t) \/ AtCallback(n, t) \/ AtAgent(n, t)
           THEN 1 ELSE 0
<1> DEFINE holders == {v \in Workers : wnote[v] = n /\ t \in wleft[v]}
           timers == {x \in waiting : x[1] = n /\ mtoken[x] = t}
           slots == {j \in DOMAIN queue : queue[j].note = n /\ t \in queue[j].tokens}
           W == {<<"worker", w>> : w \in holders}
           T == {<<"timer", m>> : m \in timers}
           Q == {<<"queue", i>> : i \in slots}
           C == IF AtCallback(n, t) THEN {<<"callback", lock>>} ELSE {}
<1>1. Places(n, t) = W \cup T \cup Q \cup C
  BY DEF Places, AtCallback
<1>2. InOnePlace(n, t)
  BY DEF DeliveryInv, OnePlace
<1>3. IF AtWorker(n, t) THEN \E x : W = {x} ELSE W = {}
  <2>1. CASE AtWorker(n, t)
    <3>1. PICK w \in holders : TRUE
      BY <2>1 DEF AtWorker
    <3>2. holders = {w}
      BY <3>1 DEF DeliveryInv, WorkersApart
    <3>3. W = {<<"worker", w>>}
      BY <3>2
    <3> HIDE DEF W
    <3> QED BY <2>1, <3>3
  <2> QED BY <2>1 DEF AtWorker
<1>4. IF AtTimer(n, t) THEN \E x : T = {x} ELSE T = {}
  <2>1. CASE AtTimer(n, t)
    <3>1. PICK m \in timers : TRUE
      BY <2>1 DEF AtTimer
    <3>2. timers = {m}
      BY <3>1 DEF DeliveryInv, TimersApart
    <3>3. T = {<<"timer", m>>}
      BY <3>2
    <3> HIDE DEF T
    <3> QED BY <2>1, <3>3
  <2> QED BY <2>1 DEF AtTimer
<1>5. IF AtAgent(n, t) THEN \E x : Q = {x} ELSE Q = {}
  <2>1. CASE AtAgent(n, t)
    <3>1. PICK i \in slots : TRUE
      BY <2>1 DEF AtAgent
    <3>2. slots = {i}
      BY <3>1 DEF DeliveryInv, AgentApart
    <3>3. Q = {<<"queue", i>>}
      BY <3>2
    <3> HIDE DEF Q
    <3> QED BY <2>1, <3>3
  <2> QED BY <2>1 DEF AtAgent
<1>6. IF AtCallback(n, t) THEN \E x : C = {x} ELSE C = {}
  OBVIOUS
<1> HIDE DEF W, T, Q, C
<1>7. CASE AtWorker(n, t) \/ AtTimer(n, t) \/ AtCallback(n, t) \/ AtAgent(n, t)
  <2>1. \E x : Places(n, t) = {x}
    BY <1>1, <1>2, <1>3, <1>4, <1>5, <1>6, <1>7 DEF InOnePlace
  <2> QED BY <1>7, <2>1, FS_Singleton
<1>8. CASE ~(AtWorker(n, t) \/ AtTimer(n, t) \/ AtCallback(n, t) \/ AtAgent(n, t))
  <2>1. Places(n, t) = {}
    BY <1>1, <1>3, <1>4, <1>5, <1>6, <1>8
  <2> QED BY <1>8, <2>1, FS_EmptySet
<1> QED BY <1>7, <1>8

(* Every pair that was offered is in one place until it is settled and is  *)
(* settled once, whatever the number of workers, connections, timers and   *)
(* the capacity of the channel (user.go:52-79, 332-380, push_agent.go:22-40)*)
THEOREM NothingIsLost == Spec => []Accounted
<1>1. DeliveryInv => Accounted
  <2> SUFFICES ASSUME DeliveryInv, NEW n \in Notes, NEW t \in Tokens
               PROVE  Cardinality(Places(n, t)) + pushed[<<n, t>>]
                        + (IF <<n, t>> \in acked THEN 1 ELSE 0)
                      = IF <<n, t>> \in offered THEN 1 ELSE 0
    BY DEF Accounted
  <2>1. InOnePlace(n, t)
    BY DEF DeliveryInv, OnePlace
  <2>2. Cardinality(Places(n, t)) =
          IF AtWorker(n, t) \/ AtTimer(n, t) \/ AtCallback(n, t) \/ AtAgent(n, t)
          THEN 1 ELSE 0
    BY PlacesCounted
  <2>3. CASE AtWorker(n, t) \/ AtTimer(n, t) \/ AtCallback(n, t) \/ AtAgent(n, t)
    <3>1. pushed[<<n, t>>] = 0 /\ <<n, t>> \notin acked /\ <<n, t>> \in offered
      BY <2>1, <2>3 DEF InOnePlace, IsAcked, IsPushed
    <3> QED BY <2>2, <2>3, <3>1
  <2>4. CASE ~(AtWorker(n, t) \/ AtTimer(n, t) \/ AtCallback(n, t) \/ AtAgent(n, t))
    <3>1. Cardinality(Places(n, t)) = 0
      BY <2>2, <2>4
    <3>2. CASE <<n, t>> \in acked
      <4>1. pushed[<<n, t>>] = 0 /\ <<n, t>> \in offered
        BY <2>1, <3>2 DEF InOnePlace, IsAcked, IsPushed
      <4> QED BY <3>1, <3>2, <4>1
    <3>3. CASE <<n, t>> \notin acked
      <4>1. /\ pushed[<<n, t>>] \in {0, 1}
            /\ <<n, t>> \in offered <=> pushed[<<n, t>>] = 1
        BY <2>1, <2>4, <3>3 DEF InOnePlace, IsAcked, IsPushed
      <4> QED BY <3>1, <3>3, <4>1
    <3> QED BY <3>2, <3>3
  <2> QED BY <2>3, <2>4
<1> QED BY <1>1, DeliveryInvariant, PTL

-----------------------------------------------------------------------------
(* The delivery keeps the promise. *)

FateIs(n, t) ==
  Fate(n, t) = IF IsPushed(n, t) THEN "pushed"
               ELSE IF IsAcked(n, t) THEN "acked"
               ELSE IF <<n, t>> \in offered THEN "pending" ELSE "none"

FatesAre == \A n \in Notes, t \in Tokens : FateIs(n, t)

LEMMA FatesKnown == DeliveryInv => FatesAre
<1> SUFFICES ASSUME DeliveryInv, NEW n \in Notes, NEW t \in Tokens PROVE FateIs(n, t)
  BY DEF FatesAre
<1>1. pushed[<<n, t>>] \in {0, 1}
  BY DEF DeliveryInv, OnePlace, InOnePlace
<1>2. ~(pushed[<<n, t>>] > 1)
  BY <1>1
<1> QED BY <1>2 DEF FateIs, Fate, IsPushed, IsAcked

LEMMA FatesKnownNext == DeliveryInv' => FatesAre'
  BY FatesKnown, PTL

(* A step that changes the fate of the tokens T of one note alone. *)
LEMMA TurnStep ==
  ASSUME NEW n \in Notes, NEW T \in SUBSET Tokens, NEW from, NEW to, up, up' = up,
         \A t \in T : Fate(n, t) = from,
         \A m \in Notes, t \in Tokens :
           Fate(m, t)' = IF m = n /\ t \in T THEN to ELSE Fate(m, t)
  PROVE  Promise!Turn(n, T, from, to)
<1> DEFINE fate == [m \in Notes |-> [t \in Tokens |-> Fate(m, t)]]
<1>1. fate' = [m \in Notes |-> [t \in Tokens |-> Fate(m, t)']]
  OBVIOUS
<1>2. [m \in Notes |-> [t \in Tokens |-> Fate(m, t)']]
        = [fate EXCEPT ![n] = [t \in Tokens |-> IF t \in T THEN to ELSE fate[n][t]]]
  OBVIOUS
<1>3. \A t \in T : fate[n][t] = from
  OBVIOUS
<1> QED BY <1>1, <1>2, <1>3 DEF Promise!Turn

LEMMA FateStays ==
  ASSUME up' = up, UNCHANGED <<offered, acked, pushed>>
  PROVE  UNCHANGED Promise!vars
  BY DEF Promise!vars, Fate

LEMMA OfferStep ==
  ASSUME DeliveryInv, DeliveryInv', NEW n \in Notes, NEW T \in SUBSET Tokens, up, up' = up,
         offered' = offered \cup ({n} \X T), UNCHANGED <<acked, pushed>>,
         NEW old \in SUBSET Tokens,
         \A t \in old : AtWorker(n, t),
         \A t \in T \ old : <<n, t>> \notin offered
  PROVE  Promise!Offer(n, T \ old)
<1>1. \A m \in Notes, t \in Tokens : InOnePlace(m, t)
  BY DEF DeliveryInv, OnePlace
<1>2. \A t \in T \ old : ~IsAcked(n, t) /\ ~IsPushed(n, t)
  BY <1>1 DEF InOnePlace
<1>3. \A t \in T \ old : Fate(n, t) = "none"
  BY <1>2, FatesKnown DEF FatesAre, FateIs
<1>4. ASSUME NEW m \in Notes, NEW t \in Tokens
      PROVE  Fate(m, t)' = IF m = n /\ t \in T \ old THEN "pending" ELSE Fate(m, t)
  <2>1. /\ IsAcked(m, t)' <=> IsAcked(m, t)
        /\ IsPushed(m, t)' <=> IsPushed(m, t)
    BY DEF IsAcked, IsPushed
  <2>2. <<m, t>> \in offered' <=> <<m, t>> \in offered \/ (m = n /\ t \in T)
    OBVIOUS
  <2>3. t \in old => <<n, t>> \in offered
    BY <1>1 DEF InOnePlace
  <2>4. FateIs(m, t) /\ FateIs(m, t)'
    BY FatesKnown, FatesKnownNext DEF FatesAre
  <2> QED BY <1>2, <2>1, <2>2, <2>3, <2>4 DEF FateIs
<1> QED BY <1>3, <1>4, TurnStep DEF Promise!Offer

LEMMA WorkerKeepsPromise ==
  ASSUME DeliveryInv, DeliveryInv', NEW w \in Workers, WorkerStep(w)
  PROVE  [Promise!Next]_(Promise!vars)
<1>1. ASSUME NEW n \in Notes, LoadTokens(w, n)
      PROVE  [Promise!Next]_(Promise!vars)
  <2>1. up /\ up' = up /\ UNCHANGED <<acked, pushed>> /\ n \notin arrived
    BY <1>1 DEF LoadTokens
  <2>2. CASE UNCHANGED offered
    BY <2>1, <2>2, FateStays
  <2>3. CASE offered' = offered \cup ({n} \X tokens)
    <3>1. tokens \in SUBSET Tokens /\ \A t \in tokens : <<n, t>> \notin offered
      BY <2>1 DEF DeliveryInv, TypeInv, TypeOK, Fresh
    <3>2. Promise!Offer(n, tokens \ {})
      BY <2>1, <2>3, <3>1, OfferStep
    <3> QED BY <3>1, <3>2 DEF Promise!Next
  <2> QED BY <1>1, <2>2, <2>3 DEF LoadTokens
<1>2. CASE TryWebsocket(w)
  <2>1. /\ up /\ up' = up /\ UNCHANGED <<acked, pushed>> /\ wpc[w] = "websocket"
        /\ offered' = offered \cup ({wnote[w]} \X HeldTokens)
    BY <1>2 DEF TryWebsocket
  <2>2. wnote[w] \in Notes /\ HeldTokens \in SUBSET Tokens /\ wleft[w] \in SUBSET Tokens
    BY <2>1 DEF HeldTokens, DeliveryInv, TypeInv, TypeOK, NoteInHand
  <2>3. \A t \in wleft[w] : AtWorker(wnote[w], t)
    BY DEF AtWorker
  <2>4. \A t \in HeldTokens \ wleft[w] : <<wnote[w], t>> \notin offered
    BY <2>1, <2>2 DEF DeliveryInv, Fresh
  <2>5. Promise!Offer(wnote[w], HeldTokens \ wleft[w])
    BY <2>1, <2>2, <2>3, <2>4, OfferStep
  <2> QED BY <2>2, <2>5 DEF Promise!Next
<1>3. CASE NotConnected(w) \/ SendRest(w)
  BY <1>3, FateStays DEF NotConnected, SendRest
<1> QED BY <1>1, <1>2, <1>3 DEF WorkerStep

LEMMA TimerKeepsPromise ==
  ASSUME DeliveryInv, DeliveryInv', TimerStep
  PROVE  [Promise!Next]_(Promise!vars)
<1>1. ASSUME NEW m \in MsgIds, AckPushMessage(m)
      PROVE  Promise!Next
  <2> DEFINE n == m[1]
             s == mtoken[m]
  <2>1. /\ up /\ up' = up /\ m \in waiting
        /\ acked' = acked \cup {<<n, s>>} /\ UNCHANGED <<offered, pushed>>
    BY <1>1 DEF AckPushMessage
  <2>2. n \in Notes /\ s \in Tokens
    BY <2>1 DEF MsgIds, DeliveryInv, TypeInv, IdsHaveTokens
  <2>3. AtTimer(n, s)
    BY <2>1 DEF AtTimer
  <2> HIDE DEF n, s
  <2>4. ~IsAcked(n, s) /\ ~IsPushed(n, s) /\ <<n, s>> \in offered
    BY <2>2, <2>3 DEF DeliveryInv, OnePlace, InOnePlace
  <2>5. Fate(n, s) = "pending"
    BY <2>2, <2>4, FatesKnown DEF FatesAre, FateIs
  <2>6. ASSUME NEW k \in Notes, NEW t \in Tokens
        PROVE  Fate(k, t)' = IF k = n /\ t \in {s} THEN "acked" ELSE Fate(k, t)
    <3>1. /\ IsPushed(k, t)' <=> IsPushed(k, t)
          /\ IsAcked(k, t)' <=> IsAcked(k, t) \/ (k = n /\ t = s)
      BY <2>1 DEF IsPushed, IsAcked
    <3>2. FateIs(k, t) /\ FateIs(k, t)'
      BY FatesKnown, FatesKnownNext DEF FatesAre
    <3> QED BY <2>1, <2>4, <3>1, <3>2 DEF FateIs
  <2>7. Promise!Turn(n, {s}, "pending", "acked")
    BY <2>1, <2>2, <2>5, <2>6, TurnStep
  <2> QED BY <2>2, <2>7 DEF Promise!Next, Promise!Acknowledge
<1>2. ASSUME NEW m \in MsgIds, Expire(m) \/ Callback(m)
      PROVE  UNCHANGED Promise!vars
  BY <1>2, FateStays DEF Expire, Callback
<1>3. CASE CallbackSend
  BY <1>3, FateStays DEF CallbackSend
<1> QED BY <1>1, <1>2, <1>3 DEF TimerStep

LEMMA AgentKeepsPromise ==
  ASSUME DeliveryInv, DeliveryInv', AgentStep
  PROVE  [Promise!Next]_(Promise!vars)
<1>1. CASE Run
  <2> DEFINE n == Head(queue).note
             T == Head(queue).tokens
  <2>1. /\ up /\ up' = up /\ UNCHANGED <<offered, acked>>
        /\ queue # <<>> /\ queue' = Tail(queue)
        /\ pushed' = [p \in Notes \X Tokens |->
                        IF p[1] = n /\ p[2] \in T THEN pushed[p] + 1 ELSE pushed[p]]
    BY <1>1 DEF Run
  <2>2. Head(queue) \in PushMessages /\ \A t \in T : AtAgent(n, t)
    BY <2>1, QueueLess DEF DeliveryInv
  <2>3. n \in Notes /\ T \in SUBSET Tokens
    BY <2>2 DEF PushMessages
  <2> HIDE DEF n, T
  <2>4. \A t \in T : /\ ~IsAcked(n, t) /\ ~IsPushed(n, t) /\ <<n, t>> \in offered
                     /\ pushed[<<n, t>>] = 0
    BY <2>2, <2>3 DEF DeliveryInv, OnePlace, InOnePlace, IsPushed
  <2>5. \A t \in T : Fate(n, t) = "pending"
    BY <2>3, <2>4, FatesKnown DEF FatesAre, FateIs
  <2>6. ASSUME NEW k \in Notes, NEW t \in Tokens
        PROVE  Fate(k, t)' = IF k = n /\ t \in T THEN "pushed" ELSE Fate(k, t)
    <3>1. IsAcked(k, t)' <=> IsAcked(k, t)
      BY <2>1 DEF IsAcked
    <3>2. IsPushed(k, t)' <=> IsPushed(k, t) \/ (k = n /\ t \in T)
      BY <2>1, <2>4 DEF IsPushed
    <3>3. FateIs(k, t) /\ FateIs(k, t)'
      BY FatesKnown, FatesKnownNext DEF FatesAre
    <3> QED BY <2>1, <3>1, <3>2, <3>3 DEF FateIs
  <2>7. Promise!Turn(n, T, "pending", "pushed")
    BY <2>1, <2>3, <2>5, <2>6, TurnStep
  <2> QED BY <2>3, <2>7 DEF Promise!Next, Promise!Push
<1>2. CASE SendGCMError
  BY <1>2 DEF SendGCMError, Promise!Next, Promise!Fail, Fate
<1>3. ASSUME NEW msg \in gcm, NEW gone \in SUBSET msg.tokens, SendGCM(msg, gone)
      PROVE  UNCHANGED Promise!vars
  BY <1>3, FateStays DEF SendGCM
<1> QED BY <1>1, <1>2, <1>3 DEF AgentStep

(* The delivery implements the promise of the push service: an offer turns *)
(* once, to acknowledged or to pushed, for any number of workers and       *)
(* connections (user.go:52-79, 332-380, push_agent.go:22-40).              *)
THEOREM DeliveryKeepsPromise == Spec => PromiseSafe
<1>1. Init => Promise!Init
  BY DEF Init, Promise!Init, Fate
<1>2. DeliveryInv /\ DeliveryInv' /\ [Next]_vars => [Promise!Next]_(Promise!vars)
  <2> SUFFICES ASSUME DeliveryInv, DeliveryInv', [Next]_vars
               PROVE  [Promise!Next]_(Promise!vars)
    OBVIOUS
  <2>1. CASE UserStep \/ UNCHANGED vars
    BY <2>1, FateStays DEF UserStep, Connect, Disconnect, SetNotification, vars
  <2>2. ASSUME NEW w \in Workers, WorkerStep(w) PROVE [Promise!Next]_(Promise!vars)
    BY <2>2, WorkerKeepsPromise
  <2> QED BY <2>1, <2>2, TimerKeepsPromise, AgentKeepsPromise DEF Next
<1> QED BY <1>1, <1>2, DeliveryInvariant, PTL DEF Spec, PromiseSafe, Promise!Spec
=============================================================================
