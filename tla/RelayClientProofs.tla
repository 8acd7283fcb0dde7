-------------------------- MODULE RelayClientProofs --------------------------
(***************************************************************************)
(* Proofs about RelayClient, for any channels and workers, any number of   *)
(* messages, sessions and restarts, and any ReconnectCount.                *)
(***************************************************************************)
EXTENDS RelayClient, FiniteSetTheorems, SequenceTheorems, TLAPS

WorkersTyped ==
  /\ wpc \in [Goroutines -> {"idle", "start", "insert", "join", "delete", "remove"}]
  /\ wjob \in [Goroutines -> Jobs \cup {Idle}]
  /\ wasked \in [Goroutines -> BOOLEAN]

(* What the locals are at each point of a handler. *)
WorkerOK ==
  \A g \in Goroutines :
    /\ wpc[g] # "idle" => wjob[g] \in Jobs
    /\ wpc[g] \in {"insert", "join", "delete", "remove"} => wjob[g].chan \in Chans

HandlerOK ==
  /\ hpc = "leave" => hchan \in Chans
  /\ cpc \in {"dial", "wait"} => tryCount < ReconnectCount

TypeInv == TypeOK /\ WorkerOK /\ HandlerOK

LEMMA JobFields ==
  ASSUME NEW job \in Jobs
  PROVE  /\ job.cmd \in {"addServer", "addChannel", "delChannel", "join", "part"}
         /\ job.cmd # "addServer" => job.chan \in Chans
  BY DEF Jobs

(* A range over the map visits finitely many channels. *)
LEMMA OrdersAreSequences ==
  ASSUME NEW S \in SUBSET Chans, NEW order \in Orders(S)
  PROVE  [i \in DOMAIN order |-> [cmd |-> "JOIN", chan |-> order[i]]] \in Seq(Commands)
<1>1. Cardinality(S) \in Nat
  BY NameAssumption, FS_Subset, FS_CardinalityType
<1>2. order \in [1..Cardinality(S) -> S]
  BY DEF Orders
<1> DEFINE joins == [i \in DOMAIN order |-> [cmd |-> "JOIN", chan |-> order[i]]]
<1>3. joins \in [1..Cardinality(S) -> Commands]
  BY <1>2 DEF Commands
<1>4. joins \in UNION {[1..n -> Commands] : n \in Nat}
  BY <1>1, <1>3
<1> QED BY <1>4, SeqDef, Zenon

LEMMA TypeInit == Init => TypeInv
<1> SUFFICES ASSUME Init PROVE TypeInv
  OBVIOUS
<1>a. WorkersTyped
  BY DEF Init, WorkersTyped
<1>b. /\ recv \in Seq(Jobs) /\ Len(recv) <= RecvCap
      /\ out \in Seq(Commands) /\ in \in Seq(Lines)
  BY BoundAssumption DEF Init
<1>c. /\ msgs \in 0..MaxMsgs /\ sessions \in 0..MaxSessions
      /\ restarts \in 0..MaxRestarts /\ tryCount \in 0..ReconnectCount
  BY BoundAssumption DEF Init
<1>1. TypeOK
  BY <1>a, <1>b, <1>c DEF Init, TypeOK, WorkersTyped
<1>2. WorkerOK /\ HandlerOK
  BY DEF Init, WorkerOK, HandlerOK
<1> QED BY <1>1, <1>2 DEF TypeInv

(* The end of the process leaves everything well typed. *)
LEMMA DieTypes ==
  ASSUME TypeInv, NEW how \in {"killed", "nil"}, Die(how)
  PROVE  TypeInv'
<1>a. WorkersTyped'
  BY DEF Die, WorkersTyped
<1>b. /\ recv' \in Seq(Jobs) /\ Len(recv') <= RecvCap
      /\ out' \in Seq(Commands) /\ in' \in Seq(Lines)
  BY BoundAssumption DEF Die
<1>c. tryCount' \in 0..ReconnectCount
  BY BoundAssumption DEF Die
<1>1. TypeOK'
  BY <1>a, <1>b, <1>c
     DEF TypeInv, TypeOK, WorkersTyped, Die, redis, bounds
<1>2. WorkerOK' /\ HandlerOK'
  BY DEF WorkerOK, HandlerOK, Die
<1> QED BY <1>1, <1>2 DEF TypeInv

LEMMA TypeStep == TypeInv /\ [Next]_vars => TypeInv'
<1> SUFFICES ASSUME TypeInv, [Next]_vars PROVE TypeInv'
  OBVIOUS
<1> USE NameAssumption, BoundAssumption
        DEF TypeInv, TypeOK, WorkersTyped, WorkerOK, HandlerOK
<1> DEFINE SaveSteps(g) == SaveChannel(g) \/ InsertChannel(g) \/ JoinNew(g)
<1>1. ASSUME NEW job \in Jobs, Deliver(job) PROVE TypeInv'
  BY <1>1 DEF Deliver, shared, load, handler, connect, irc, history
<1>2. ASSUME NEW g \in Goroutines, SaveSteps(g) PROVE TypeInv'
  <2> USE JobFields
  <2>1. CASE SaveChannel(g)
    <3>1. wjob[g] \in Jobs /\ wjob[g].chan \in Chans
      BY <2>1 DEF SaveChannel
    <3>2. stored' \subseteq Chans
      BY <2>1, <3>1 DEF SaveChannel
    <3>3. WorkersTyped' /\ WorkerOK'
      <4>1. CASE Return(g)
        BY <4>1 DEF Return
      <4>2. CASE /\ wasked' = [wasked EXCEPT ![g] = active]
                 /\ wpc' = [wpc EXCEPT ![g] = "insert"]
                 /\ UNCHANGED wjob
        <5>1. wasked' \in [Goroutines -> BOOLEAN]
          BY <4>2
        <5>2. wpc' \in [Goroutines -> {"idle", "start", "insert", "join", "delete", "remove"}]
          BY <4>2
        <5>3. WorkerOK'
          BY <3>1, <4>2
        <5> QED BY <4>2, <5>1, <5>2, <5>3
      <4> QED BY <2>1, <4>1, <4>2 DEF SaveChannel
    <3> QED
      BY <2>1, <3>2, <3>3
         DEF SaveChannel, shared, load, handler, connect, irc, bounds, history
  <2>2. CASE InsertChannel(g)
    <3>1. wjob[g].chan \in Chans
      BY <2>2 DEF InsertChannel
    <3>2. hchan' \in Chans \cup {NoChan} /\ HandlerOK'
      BY <2>2 DEF InsertChannel, Supersede, Marking, connect
    <3>3. /\ wpc' \in [Goroutines -> {"idle", "start", "insert", "join", "delete", "remove"}]
          /\ WorkerOK'
      BY <2>2, <3>1 DEF InsertChannel
    <3>4. /\ chans' \subseteq Chans /\ asked' \subseteq Chans /\ joined' \subseteq Chans
          /\ odd' \subseteq Chans /\ late' \subseteq Chans
      BY <2>2, <3>1 DEF InsertChannel
    <3> QED
      BY <2>2, <3>2, <3>3, <3>4
         DEF InsertChannel, redis, load, connect, irc, bounds
  <2>3. CASE JoinNew(g)
    <3>1. [cmd |-> "JOIN", chan |-> wjob[g].chan] \in Commands /\ wjob[g].chan \in Chans
      BY <2>3 DEF JoinNew, Commands
    <3>2. out' \in Seq(Commands) /\ requested' \subseteq Chans
      <4>1. requested' \subseteq Chans
        BY <2>3, <3>1 DEF JoinNew
      <4>2. out' = out \/ \E command \in Commands : out' = out \o <<command>>
        BY <2>3, <3>1 DEF JoinNew, SendIRC
      <4>3. ASSUME NEW command \in Commands PROVE out \o <<command>> \in Seq(Commands)
        OBVIOUS
      <4> QED BY <4>1, <4>2, <4>3
    <3>3. WorkersTyped' /\ WorkerOK'
      BY <2>3 DEF JoinNew, Return
    <3> QED
      BY <2>3, <3>2, <3>3
         DEF JoinNew, shared, redis, load, handler, connect, bounds
  <2> QED BY <1>2, <2>1, <2>2, <2>3
<1>3. ASSUME NEW w \in Workers, WorkerStep(w) PROVE TypeInv'
  <2> USE JobFields
  <2> w \in Goroutines
    BY DEF Goroutines
  <2>1. CASE TakeJob(w)
    <3>1. Head(recv) \in Jobs /\ Tail(recv) \in Seq(Jobs) /\ Len(Tail(recv)) <= RecvCap
      BY <2>1 DEF TakeJob
    <3> QED
      BY <2>1, <3>1
         DEF TakeJob, shared, redis, load, handler, connect, irc, bounds, history
  <2>2. CASE AddServer(w)
    BY <2>2 DEF AddServer, Return, redis, load, handler, connect, irc, bounds, history
  <2>3. CASE NilClient(w)
    BY <2>3, DieTypes DEF NilClient
  <2>4. CASE SaveSteps(w)
    BY <2>4, <1>2
  <2>5. CASE JoinPartChannel(w)
    <3>1. wjob[w].chan \in Chans
      BY <2>5 DEF JoinPartChannel
    <3>2. \A c \in {"JOIN", "PART"} : [cmd |-> c, chan |-> wjob[w].chan] \in Commands
      BY <3>1 DEF Commands
    <3>3. out' \in Seq(Commands) /\ requested' \subseteq Chans
      <4>1. requested' \subseteq Chans
        BY <2>5, <3>1 DEF JoinPartChannel
      <4>2. out' = out \/ \E command \in Commands : out' = out \o <<command>>
        BY <2>5, <3>2 DEF JoinPartChannel, SendIRC
      <4>3. ASSUME NEW command \in Commands PROVE out \o <<command>> \in Seq(Commands)
        OBVIOUS
      <4> QED BY <4>1, <4>2, <4>3
    <3>4. WorkersTyped' /\ WorkerOK'
      BY <2>5 DEF JoinPartChannel, Return
    <3> QED
      BY <2>5, <3>3, <3>4
         DEF JoinPartChannel, shared, redis, load, handler, connect, bounds
  <2>6. CASE CheckChannel(w)
    <3>1. wjob[w] \in Jobs /\ wjob[w].chan \in Chans
      BY <2>6 DEF CheckChannel
    <3>2. WorkersTyped' /\ WorkerOK'
      <4>1. CASE Return(w)
        BY <4>1 DEF Return
      <4>2. CASE wpc' = [wpc EXCEPT ![w] = "delete"] /\ UNCHANGED <<wjob, wasked>>
        BY <3>1, <4>2
      <4> QED BY <2>6, <4>1, <4>2 DEF CheckChannel
    <3> QED
      BY <2>6, <3>2
         DEF CheckChannel, Return, shared, redis, load, handler, connect, irc,
             bounds, history
  <2>7. CASE DeleteChannel(w)
    <3>1. wjob[w] \in Jobs /\ wjob[w].chan \in Chans
      BY <2>7 DEF DeleteChannel
    <3>2. hchan' \in Chans \cup {NoChan} /\ HandlerOK'
      BY <2>7 DEF DeleteChannel, Supersede, Marking, connect
    <3>3. /\ wpc' \in [Goroutines -> {"idle", "start", "insert", "join", "delete", "remove"}]
          /\ WorkerOK'
      BY <2>7, <3>1 DEF DeleteChannel
    <3>4. /\ chans' \subseteq Chans /\ asked' \subseteq Chans /\ joined' \subseteq Chans
          /\ odd' \subseteq Chans
      BY <2>7, <3>1 DEF DeleteChannel
    <3> QED
      BY <2>7, <3>2, <3>3, <3>4
         DEF DeleteChannel, redis, load, connect, irc, bounds
  <2>8. CASE RemoveChannel(w)
    BY <2>8 DEF RemoveChannel, Return, shared, load, handler, connect, irc, bounds
  <2> QED BY <1>3, <2>1, <2>2, <2>3, <2>4, <2>5, <2>6, <2>7, <2>8 DEF WorkerStep
<1>4. CASE LoaderStep
  <2> Loader \in Goroutines
    BY DEF Goroutines
  <2>1. CASE LoadServers
    BY <2>1 DEF LoadServers, redis, work, handler, connect, irc, bounds, history
  <2>2. ASSUME NEW ch \in Chans, LoadChannel(ch) PROVE TypeInv'
    BY <2>2 DEF LoadChannel, Jobs, shared, redis, handler, connect, irc, bounds, history
  <2>3. CASE Start
    BY <2>3 DEF Start, shared, redis, work, handler, connect, irc, bounds, history
  <2>4. CASE NilClient(Loader)
    BY <2>4, DieTypes DEF NilClient
  <2>5. CASE SaveSteps(Loader)
    BY <2>5, <1>2
  <2> QED BY <1>4, <2>1, <2>2, <2>3, <2>4, <2>5 DEF LoaderStep
<1>5. CASE HandlerStep
  <2> USE DEF Takes
  <2>1. ASSUME in # <<>>
        PROVE  Tail(in) \in Seq(Lines) /\ Head(in) \in Lines
    BY <2>1
  <2>2. CASE JoinChannels
    <3>1. PICK order \in Orders(chans \ asked) :
            SendIRC([i \in DOMAIN order |-> [cmd |-> "JOIN", chan |-> order[i]]])
      BY <2>2 DEF JoinChannels
    <3>2. out' \in Seq(Commands)
      BY <3>1, OrdersAreSequences DEF SendIRC
    <3> QED
      BY <2>1, <2>2, <3>2 DEF JoinChannels, redis, work, load, connect, bounds
  <2>3. CASE Activate
    BY <2>3 DEF Activate, redis, work, load, connect, irc, bounds, history
  <2>4. CASE Deactivate
    <3>1. pActive' \in BOOLEAN /\ active' \in BOOLEAN
      BY <2>4 DEF Deactivate
    <3>2. in' \in Seq(Lines)
      BY <2>1, <2>4 DEF Deactivate
    <3> QED
      BY <2>4, <3>1, <3>2 DEF Deactivate, redis, work, load, connect, bounds, history
  <2>5. CASE ResetChannels
    BY <2>5 DEF ResetChannels, redis, work, load, connect, irc, bounds
  <2>6. CASE Report
    <3>1. PICK count \in {0, tryCount} : NextTry(count)
      BY <2>6 DEF Report
    <3>2. count \in 0..ReconnectCount /\ count < ReconnectCount
      BY <2>6, <3>1 DEF Report
    <3>3. /\ tryCount' \in 0..ReconnectCount /\ cpc' \in {"dial", "failed"}
          /\ cpc' = "dial" => tryCount' < ReconnectCount
      BY <3>1, <3>2 DEF NextTry
    <3>4. pActive' \in BOOLEAN /\ hpc' = "idle"
      BY <2>6 DEF Report
    <3> HIDE DEF NextTry
    <3> QED
      BY <2>6, <3>3, <3>4 DEF Report, shared, redis, work, load, irc, bounds, history
  <2>7. CASE EndOfNames
    <3>1. Head(in).chan \in Chans
      BY <2>1, <2>7 DEF EndOfNames, Lines
    <3> QED
      BY <2>1, <2>7, <3>1
         DEF EndOfNames, shared, redis, work, load, connect, bounds, history
  <2>8. CASE MarkJoined
    <3>1. joined' \subseteq Chans
      BY <2>8 DEF MarkJoined
    <3>2. odd' \subseteq Chans
      <4>1. ASSUME NEW w \in Workers, wpc[w] = "delete", wjob[w].chan = hchan
            PROVE  hchan \in Chans
        BY <4>1 DEF Goroutines
      <4> QED BY <2>8, <4>1 DEF MarkJoined
    <3> QED
      BY <2>8, <3>1, <3>2 DEF MarkJoined, redis, work, load, connect, irc, bounds
  <2>9. CASE LeaveUnknown
    <3>1. [cmd |-> "PART", chan |-> hchan] \in Commands
      BY <2>9 DEF LeaveUnknown, Commands
    <3>2. out' \in Seq(Commands)
      BY <2>9, <3>1 DEF LeaveUnknown, SendIRC
    <3> QED
      BY <2>9, <3>2
         DEF LeaveUnknown, shared, redis, work, load, connect, bounds, history
  <2>10. CASE Part
    BY <2>1, <2>10 DEF Part, redis, work, load, handler, connect, bounds, history
  <2> QED BY <1>5, <2>2, <2>3, <2>4, <2>5, <2>6, <2>7, <2>8, <2>9, <2>10
          DEF HandlerStep
<1>6. CASE ConnectStep
  BY <1>6 DEF ConnectStep, Register, Dial, DialFails, NextTry, shared, redis, work,
              load, handler, irc, bounds, history
<1>7. CASE ServerStep
  <2>1. CASE Welcome
    BY <2>1 DEF Welcome, Lines, shared, redis, work, load, handler, connect,
                bounds, history
  <2>2. CASE Serve
    <3>1. Head(out) \in Commands /\ Tail(out) \in Seq(Commands)
      BY <2>2 DEF Serve
    <3>2. Head(out).chan \in Chans
      BY <3>1 DEF Commands
    <3>3. \A c \in {"366", "PART"} : [cmd |-> c, chan |-> Head(out).chan] \in Lines
      BY <3>2 DEF Lines
    <3>4. inside' \subseteq Chans
      BY <2>2, <3>2 DEF Serve
    <3>5. \/ in' = in
          \/ \E c \in {"366", "PART"} : in' = Append(in, [cmd |-> c, chan |-> Head(out).chan])
      BY <2>2 DEF Serve
    <3>6. in' \in Seq(Lines)
      <4>1. CASE in' = in
        BY <4>1
      <4>2. ASSUME NEW c \in {"366", "PART"},
                   in' = Append(in, [cmd |-> c, chan |-> Head(out).chan])
            PROVE  in' \in Seq(Lines)
        <5> DEFINE line == [cmd |-> c, chan |-> Head(out).chan]
        <5>1. line \in Lines
          BY <3>3
        <5>2. in' = Append(in, line)
          BY <4>2
        <5> HIDE DEF line
        <5> QED BY <5>1, <5>2
      <4> QED BY <3>5, <4>1, <4>2
    <3> QED
      BY <2>2, <3>1, <3>4, <3>6 DEF Serve, shared, redis, work, load, handler, connect,
                              bounds, history
  <2>3. ASSUME NEW ch \in Chans, Kick(ch) PROVE TypeInv'
    BY <2>3 DEF Kick, shared, redis, work, load, handler, connect, bounds
  <2>4. CASE Break
    <3>1. PICK n \in 0..Len(in) :
            in' = Append(SubSeq(in, 1, n), [cmd |-> "disconnected", chan |-> NoChan])
      BY <2>4 DEF Break
    <3>2. SubSeq(in, 1, n) \in Seq(Lines)
      OBVIOUS
    <3>3. in' \in Seq(Lines)
      BY <3>1, <3>2 DEF Lines
    <3> QED
      BY <2>4, <3>3 DEF Break, shared, redis, work, load, handler, connect,
                        bounds, history
  <2> QED BY <1>7, <2>1, <2>2, <2>3, <2>4 DEF ServerStep
<1>8. CASE Kill
  BY <1>8, DieTypes DEF Kill
<1>9. CASE Restart
  BY <1>9 DEF Restart, shared, redis, work, load, handler, connect, irc, history
<1>10. CASE UNCHANGED vars
  BY <1>10 DEF vars, shared, redis, work, load, handler, connect, irc, bounds, history
<1> QED BY <1>1, <1>3, <1>4, <1>5, <1>6, <1>7, <1>8, <1>9, <1>10 DEF Next

(* Every reachable state of the client is well typed. *)
THEOREM TypeCorrect == Spec => []TypeOK
<1>1. TypeInv => TypeOK
  BY DEF TypeInv
<1> QED BY TypeInit, TypeStep, <1>1, PTL DEF Spec

-----------------------------------------------------------------------------
(* What the workers and LoadDb are about to insert is in Redis as well. *)
StoredInv ==
  /\ ListedIsStored
  /\ \A g \in Goroutines : wpc[g] = "insert" => wjob[g].chan \in stored \cup mixed

LEMMA DieStored ==
  ASSUME TypeOK, NEW how, Die(how)
  PROVE  StoredInv'
BY DEF Die, StoredInv, ListedIsStored

LEMMA StoredStep == TypeOK /\ StoredInv /\ [Next]_vars => StoredInv'
<1> SUFFICES ASSUME TypeOK, StoredInv, [Next]_vars PROVE StoredInv'
  OBVIOUS
<1> USE DEF StoredInv, ListedIsStored
<1> wpc \in [Goroutines -> {"idle", "start", "insert", "join", "delete", "remove"}]
    /\ wjob \in [Goroutines -> Jobs \cup {Idle}]
  BY DEF TypeOK
<1>1. ASSUME NEW g \in Goroutines, SaveChannel(g) \/ InsertChannel(g) \/ JoinNew(g)
      PROVE  StoredInv'
  <2>1. CASE SaveChannel(g)
    <3>1. stored \subseteq stored' /\ UNCHANGED <<chans, mixed>>
      BY <2>1 DEF SaveChannel, shared, history
    <3>2. \/ wpc' = [wpc EXCEPT ![g] = "insert"] /\ UNCHANGED wjob
             /\ wjob[g].chan \in stored'
          \/ Return(g)
      BY <2>1 DEF SaveChannel
    <3> QED BY <3>1, <3>2 DEF Return
  <2>2. CASE InsertChannel(g)
    BY <2>2 DEF InsertChannel, redis
  <2>3. CASE JoinNew(g)
    BY <2>3 DEF JoinNew, Return, shared, redis
  <2> QED BY <1>1, <2>1, <2>2, <2>3
<1>2. ASSUME NEW w \in Workers, WorkerStep(w) PROVE StoredInv'
  <2> w \in Goroutines
    BY DEF Goroutines
  <2>1. CASE TakeJob(w)
    BY <2>1 DEF TakeJob, shared, redis, history
  <2>2. CASE AddServer(w)
    BY <2>2 DEF AddServer, Return, redis, history
  <2>3. CASE NilClient(w)
    BY <2>3, DieStored DEF NilClient
  <2>4. CASE SaveChannel(w) \/ InsertChannel(w) \/ JoinNew(w)
    BY <2>4, <1>1
  <2>5. CASE JoinPartChannel(w)
    BY <2>5 DEF JoinPartChannel, Return, shared, redis
  <2>6. CASE CheckChannel(w)
    BY <2>6 DEF CheckChannel, Return, shared, redis, history
  <2>7. CASE DeleteChannel(w)
    BY <2>7 DEF DeleteChannel, redis
  <2>8. CASE RemoveChannel(w)
    <3> DEFINE ch == wjob[w].chan
    <3>1. stored \ {ch} \subseteq stored' /\ mixed \subseteq mixed' /\ UNCHANGED chans
      BY <2>8 DEF RemoveChannel, shared
    <3>2. ch \in chans => ch \in mixed'
      BY <2>8 DEF RemoveChannel
    <3>3. ASSUME NEW g \in Goroutines, wpc'[g] = "insert"
          PROVE  /\ g # w /\ wpc[g] = "insert" /\ wjob'[g] = wjob[g]
                 /\ wjob[g].chan = ch => ch \in mixed'
      BY <2>8, <3>3 DEF RemoveChannel, Return
    <3> QED BY <3>1, <3>2, <3>3
  <2> QED BY <1>2, <2>1, <2>2, <2>3, <2>4, <2>5, <2>6, <2>7, <2>8 DEF WorkerStep
<1>3. CASE LoaderStep
  <2> Loader \in Goroutines
    BY DEF Goroutines
  <2>1. CASE LoadServers
    BY <2>1 DEF LoadServers, redis, work, history
  <2>2. ASSUME NEW ch \in Chans, LoadChannel(ch) PROVE StoredInv'
    BY <2>2 DEF LoadChannel, shared, redis, history
  <2>3. CASE Start
    BY <2>3 DEF Start, shared, redis, work, history
  <2>4. CASE NilClient(Loader)
    BY <2>4, DieStored DEF NilClient
  <2>5. CASE SaveChannel(Loader) \/ InsertChannel(Loader) \/ JoinNew(Loader)
    BY <2>5, <1>1
  <2> QED BY <1>3, <2>1, <2>2, <2>3, <2>4, <2>5 DEF LoaderStep
<1>4. ASSUME UNCHANGED <<chans, stored, mixed, wpc, wjob>> PROVE StoredInv'
  BY <1>4
<1>5. CASE HandlerStep
  BY <1>4, <1>5
     DEF HandlerStep, JoinChannels, Activate, Deactivate, ResetChannels, Report,
         EndOfNames, MarkJoined, LeaveUnknown, Part, shared, redis, work, history
<1>6. CASE ConnectStep
  BY <1>4, <1>6
     DEF ConnectStep, Register, Dial, DialFails, shared, redis, work, history
<1>7. CASE ServerStep
  BY <1>4, <1>7
     DEF ServerStep, Welcome, Serve, Kick, Break, shared, redis, work, history
<1>8. CASE (\E job \in Jobs : Deliver(job)) \/ Restart \/ UNCHANGED vars
  BY <1>4, <1>8 DEF Deliver, Restart, vars, shared, redis, work, history
<1>9. CASE Kill
  BY <1>9, DieStored DEF Kill
<1> QED BY <1>2, <1>3, <1>5, <1>6, <1>7, <1>8, <1>9 DEF Next

(* In every reachable state the channels of the map are in Redis, but for  *)
(* those added and deleted at the same time: a restart finds them.         *)
THEOREM ListedChannelsSurvive == Spec => []ListedIsStored
<1>1. Init => StoredInv
  BY DEF Init, StoredInv, ListedIsStored
<1>2. StoredInv => ListedIsStored
  BY DEF StoredInv
<1> QED BY <1>1, <1>2, StoredStep, TypeCorrect, PTL DEF Spec

-----------------------------------------------------------------------------
AllIdle == \A g \in Goroutines : wpc[g] = "idle"
Registering(w) == wpc[w] = "start" /\ wjob[w].cmd = "addServer"

(* Without a client nobody has work for it: the server of the user is not  *)
(* known yet, or LoadDb or the first message is still to register it.      *)
AbsentInv ==
  /\ ~server => AllIdle /\ recv = <<>> /\ todo = {} /\ stored = {}
  /\ client = "absent" /\ server =>
       \/ AllIdle /\ recv = <<>> /\ loading = "servers"
       \/ AllIdle /\ recv # <<>> /\ Head(recv).cmd = "addServer" /\ loading = "done"
       \/ \E w \in Workers : Registering(w)

LEMMA DieAbsent ==
  ASSUME AbsentInv, NEW how, Die(how)
  PROVE  AbsentInv'
BY DEF Die, AbsentInv, AllIdle, redis

(* A step that sends the messenger and LoadDb no work keeps it. *)
LEMMA AbsentFrame ==
  ASSUME AbsentInv, UNCHANGED <<server, stored, recv, wpc, wjob, todo, loading>>,
         client' = client \/ client' # "absent"
  PROVE  AbsentInv'
BY DEF AbsentInv, AllIdle, Registering

(* A goroutine at work leaves the others alone. *)
LEMMA AbsentWork ==
  ASSUME TypeOK, AbsentInv, UNCHANGED <<server, recv, todo, loading>>,
         NEW g \in Goroutines, wpc[g] # "idle", ~ Registering(g),
         client' = client,
         \A other \in Goroutines \ {g} :
           wpc'[other] = wpc[other] /\ wjob'[other] = wjob[other]
  PROVE  AbsentInv'
<1>1. server /\ ~AllIdle
  BY DEF AbsentInv, AllIdle
<1>2. ASSUME client = "absent" PROVE \E w \in Workers : Registering(w)'
  <2>1. PICK w \in Workers : Registering(w)
    BY <1>1, <1>2 DEF AbsentInv
  <2>2. w # g /\ w \in Goroutines
    BY <2>1 DEF Goroutines
  <2> QED BY <2>1, <2>2 DEF Registering
<1> QED BY <1>1, <1>2 DEF AbsentInv

LEMMA AbsentStep == TypeOK /\ AbsentInv /\ [Next]_vars => AbsentInv'
<1> SUFFICES ASSUME TypeOK, AbsentInv, [Next]_vars PROVE AbsentInv'
  OBVIOUS
<1> wpc \in [Goroutines -> {"idle", "start", "insert", "join", "delete", "remove"}]
    /\ wjob \in [Goroutines -> Jobs \cup {Idle}] /\ recv \in Seq(Jobs)
  BY DEF TypeOK
<1>1. ASSUME NEW job \in Jobs, Deliver(job) PROVE AbsentInv'
  <2>1. /\ UNCHANGED <<wpc, wjob, client>> /\ server' /\ recv' = Append(recv, job)
        /\ loading = "done" /\ loading' = "done"
        /\ (job.cmd = "addServer") <=> ~server
    BY <1>1 DEF Deliver, shared, load
  <2>2. recv' # <<>> /\ Head(recv') = IF recv = <<>> THEN job ELSE Head(recv)
    BY <2>1
  <2> QED BY <2>1, <2>2 DEF AbsentInv, AllIdle, Registering
<1>2. ASSUME NEW g \in Goroutines, SaveChannel(g) \/ InsertChannel(g) \/ JoinNew(g)
      PROVE  AbsentInv'
  <2>1. wpc[g] # "idle" /\ ~ Registering(g)
    BY <1>2 DEF SaveChannel, InsertChannel, JoinNew, Registering
  <2>2. \A other \in Goroutines \ {g} :
          wpc'[other] = wpc[other] /\ wjob'[other] = wjob[other]
    BY <1>2 DEF SaveChannel, InsertChannel, JoinNew, Return
  <2>3. UNCHANGED <<server, recv, todo, loading, client>>
    BY <1>2 DEF SaveChannel, InsertChannel, JoinNew, shared, redis, load
  <2> QED BY <2>1, <2>2, <2>3, AbsentWork
<1>3. ASSUME NEW w \in Workers, WorkerStep(w) PROVE AbsentInv'
  <2> w \in Goroutines
    BY DEF Goroutines
  <2>1. CASE TakeJob(w)
    <3>1. /\ recv # <<>> /\ wpc[w] = "idle"
          /\ wpc'[w] = "start" /\ wjob'[w] = Head(recv)
          /\ \A other \in Goroutines \ {w} :
               wpc'[other] = wpc[other] /\ wjob'[other] = wjob[other]
          /\ UNCHANGED <<server, client>>
      BY <2>1 DEF TakeJob, shared, redis
    <3>2. server
      BY <3>1 DEF AbsentInv
    <3>3. ASSUME client = "absent" PROVE \E v \in Workers : Registering(v)'
      <4>1. CASE Head(recv).cmd = "addServer"
        BY <3>1, <4>1 DEF Registering
      <4>2. CASE \E v \in Workers : Registering(v)
        <5>1. PICK v \in Workers : Registering(v)
          BY <4>2
        <5> QED BY <3>1, <5>1 DEF Registering, Goroutines
      <4> QED BY <3>1, <3>2, <3>3, <4>1, <4>2 DEF AbsentInv
    <3> QED BY <3>1, <3>2, <3>3 DEF AbsentInv
  <2>2. CASE AddServer(w)
    <3>1. wpc[w] # "idle" /\ client' = "handed" /\ UNCHANGED server
      BY <2>2 DEF AddServer, redis
    <3>2. server
      BY <3>1 DEF AbsentInv, AllIdle
    <3> QED BY <3>1, <3>2 DEF AbsentInv
  <2>3. CASE NilClient(w)
    BY <2>3, DieAbsent DEF NilClient
  <2>4. CASE SaveChannel(w) \/ InsertChannel(w) \/ JoinNew(w)
    BY <2>4, <1>2
  <2>5. CASE JoinPartChannel(w) \/ CheckChannel(w) \/ DeleteChannel(w) \/ RemoveChannel(w)
    <3>1. wpc[w] # "idle" /\ ~ Registering(w)
      BY <2>5 DEF JoinPartChannel, CheckChannel, DeleteChannel, RemoveChannel, Registering
    <3>2. \A other \in Goroutines \ {w} :
            wpc'[other] = wpc[other] /\ wjob'[other] = wjob[other]
      BY <2>5 DEF JoinPartChannel, CheckChannel, DeleteChannel, RemoveChannel, Return
    <3>3. UNCHANGED <<server, recv, todo, loading, client>>
      BY <2>5 DEF JoinPartChannel, CheckChannel, DeleteChannel, RemoveChannel,
                  shared, redis, load
    <3> QED BY <3>1, <3>2, <3>3, AbsentWork
  <2> QED BY <1>3, <2>1, <2>2, <2>3, <2>4, <2>5 DEF WorkerStep
<1>4. CASE LoaderStep
  <2> Loader \in Goroutines
    BY DEF Goroutines
  <2>1. CASE LoadServers
    <3>1. /\ UNCHANGED <<server, stored, recv, wpc>> /\ todo' = stored
          /\ server => client' # "absent"
      BY <2>1 DEF LoadServers, redis, work
    <3> QED BY <3>1 DEF AbsentInv, AllIdle
  <2>2. ASSUME NEW ch \in Chans, LoadChannel(ch) PROVE AbsentInv'
    <3>1. /\ loading = "channels" /\ wpc[Loader] = "idle" /\ ch \in todo
          /\ UNCHANGED <<server, client>>
          /\ \A other \in Workers : wpc'[other] = wpc[other] /\ wjob'[other] = wjob[other]
      BY <2>2, NameAssumption DEF LoadChannel, shared, redis, Goroutines
    <3> QED BY <3>1 DEF AbsentInv, Registering
  <2>3. CASE Start
    <3>1. /\ loading = "channels" /\ UNCHANGED <<server, client, stored, recv, wpc, wjob, todo>>
      BY <2>3 DEF Start, shared, redis, work
    <3> QED BY <3>1 DEF AbsentInv, AllIdle, Registering
  <2>4. CASE NilClient(Loader)
    BY <2>4, DieAbsent DEF NilClient
  <2>5. CASE SaveChannel(Loader) \/ InsertChannel(Loader) \/ JoinNew(Loader)
    BY <2>5, <1>2
  <2> QED BY <1>4, <2>1, <2>2, <2>3, <2>4, <2>5 DEF LoaderStep
<1>5. CASE HandlerStep
  BY <1>5, AbsentFrame
     DEF HandlerStep, JoinChannels, Activate, Deactivate, ResetChannels, Report,
         EndOfNames, MarkJoined, LeaveUnknown, Part, shared, redis, work, load
<1>6. CASE ConnectStep
  BY <1>6, AbsentFrame
     DEF ConnectStep, Register, Dial, DialFails, shared, redis, work, load
<1>7. CASE ServerStep
  BY <1>7, AbsentFrame
     DEF ServerStep, Welcome, Serve, Kick, Break, shared, redis, work, load
<1>8. CASE Restart \/ UNCHANGED vars
  BY <1>8, AbsentFrame DEF Restart, vars, shared, redis, work, load
<1>9. CASE Kill
  BY <1>9, DieAbsent DEF Kill
<1> QED BY <1>1, <1>3, <1>4, <1>5, <1>6, <1>7, <1>8, <1>9 DEF Next

LEMMA NilStep ==
  TypeOK /\ AbsentInv /\ [Next]_vars =>
    (status = "up" /\ status' = "nil" =>
       client = "handed" \/ \E w \in Workers : wjob[w].cmd = "addServer")
<1> SUFFICES ASSUME TypeOK, AbsentInv, [Next]_vars, status = "up", status' = "nil"
             PROVE  client = "handed" \/ \E w \in Workers : wjob[w].cmd = "addServer"
  OBVIOUS
<1>1. PICK g \in Goroutines : NilClient(g)
  <2>1. CASE \E w \in Workers : WorkerStep(w)
    <3>1. PICK w \in Workers : WorkerStep(w)
      BY <2>1
    <3>2. NilClient(w)
      BY <3>1 DEF WorkerStep, TakeJob, AddServer, SaveChannel, InsertChannel, JoinNew,
                  JoinPartChannel, CheckChannel, DeleteChannel, RemoveChannel
    <3> QED BY <3>2 DEF Goroutines
  <2>2. CASE LoaderStep
    BY <2>2 DEF LoaderStep, LoadServers, LoadChannel, Start, SaveChannel, InsertChannel,
                JoinNew, Goroutines
  <2>3. ~HandlerStep
    BY DEF HandlerStep, JoinChannels, Activate, Deactivate, ResetChannels, Report,
           EndOfNames, MarkJoined, LeaveUnknown, Part
  <2>4. ~(ConnectStep \/ ServerStep \/ Kill \/ Restart)
    BY DEF ConnectStep, Register, Dial, DialFails, ServerStep, Welcome, Serve, Kick,
           Break, Kill, Die, Restart, Up
  <2>5. ~(UNCHANGED vars) /\ ~ \E job \in Jobs : Deliver(job)
    BY DEF vars, Deliver
  <2> QED BY <2>1, <2>2, <2>3, <2>4, <2>5 DEF Next
<1>2. wpc[g] = "start" /\ client # "known"
  BY <1>1 DEF NilClient
<1> QED BY <1>2 DEF TypeOK, AbsentInv, AllIdle, Registering

(* Whatever the workers and LoadDb do, the process only ends with a nil    *)
(* client while the registration of the client is under way.               *)
THEOREM NilOnlyWhileRegistering == Spec => NilNeedsRegistration
<1>1. Init => AbsentInv
  BY DEF Init, AbsentInv, AllIdle
<1>2. TypeOK /\ AbsentInv /\ [Next]_vars =>
        [status = "up" /\ status' = "nil" =>
           client = "handed" \/ \E w \in Workers : wjob[w].cmd = "addServer"]_vars
  BY NilStep
<1> QED BY <1>1, <1>2, AbsentStep, TypeCorrect, PTL DEF Spec, NilNeedsRegistration
-----------------------------------------------------------------------------
(* A JOIN for ch was sent in this session, or AddChannel is about to.      *)
AskedFor(ch) ==
  \/ ch \in requested \cup late
  \/ \E g \in Goroutines : wpc[g] = "join" /\ wjob[g].chan = ch

(* The map of an active client holds only such channels.  Before, between  *)
(* the 376 handler and Active, no AddChannel counts on its own JOIN; and   *)
(* Channel.joined, which keeps the 376 handler from sending one, is set in *)
(* this session or not at all.                                             *)
AskedInv ==
  /\ hpc \in {"reset", "report"} => ~active
  /\ active => \A ch \in chans : AskedFor(ch)
  /\ ~active /\ hpc = "activate" => chans \subseteq requested \cup late
  /\ ~active /\ hpc # "reset" => asked \subseteq requested \cup late

LEMMA DieAsked ==
  ASSUME NEW how, Die(how)
  PROVE  AskedInv'
BY DEF Die, AskedInv

(* A step keeps it that sends what a finished AddChannel owes. *)
LEMMA AskedKept ==
  ASSUME AskedInv, UNCHANGED <<active, late>>, chans' \subseteq chans,
         asked' \subseteq asked, requested \subseteq requested',
         hpc' = hpc \/ (hpc' \notin {"activate", "reset", "report"} /\ hpc # "reset"),
         \A g \in Goroutines :
           active /\ wpc[g] = "join" =>
             \/ wpc'[g] = "join" /\ wjob'[g] = wjob[g]
             \/ wjob[g].chan \in requested'
  PROVE  AskedInv'
<1>1. ASSUME active, NEW ch \in chans' PROVE AskedFor(ch)'
  <2>1. AskedFor(ch)
    BY <1>1 DEF AskedInv
  <2> QED BY <1>1, <2>1 DEF AskedFor
<1> QED BY <1>1 DEF AskedInv

LEMMA AskedStep == TypeOK /\ AskedInv /\ [Next]_vars => AskedInv'
<1> SUFFICES ASSUME TypeOK, AskedInv, [Next]_vars PROVE AskedInv'
  OBVIOUS
<1> wpc \in [Goroutines -> {"idle", "start", "insert", "join", "delete", "remove"}]
    /\ wjob \in [Goroutines -> Jobs \cup {Idle}]
  BY DEF TypeOK
<1>1. CASE UNCHANGED <<shared, wpc, wjob, handler, history>>
  BY <1>1, AskedKept DEF shared, handler, history
<1>2. ASSUME NEW job \in Jobs, Deliver(job) PROVE AskedInv'
  BY <1>1, <1>2 DEF Deliver
<1>3. ASSUME NEW g \in Goroutines, SaveChannel(g) \/ InsertChannel(g) \/ JoinNew(g)
      PROVE  AskedInv'
  <2>1. CASE SaveChannel(g)
    BY <2>1, AskedKept DEF SaveChannel, Return, shared, handler, history
  <2>2. CASE InsertChannel(g)
    <3> PICK new : new = wjob[g].chan
      OBVIOUS
    <3>1. /\ wpc' = [wpc EXCEPT ![g] = "join"]
          /\ chans' = chans \cup {new}
          /\ UNCHANGED <<active, hpc, wjob, requested>>
          /\ late \subseteq late'
          /\ hpc = "activate" => new \in late'
          /\ asked' \subseteq asked \cup {new}
          /\ ~active /\ new \in asked' => new \in late'
      BY <2>2 DEF InsertChannel
    <3>2. AskedFor(new)'
      BY <3>1 DEF AskedFor
    <3>3. \A ch \in chans : AskedFor(ch) => AskedFor(ch)'
      BY <2>2, <3>1 DEF AskedFor, InsertChannel
    <3> QED BY <3>1, <3>2, <3>3 DEF AskedInv
  <2>3. CASE JoinNew(g)
    <3>1. active => wjob[g].chan \in requested'
      BY <2>3 DEF JoinNew
    <3>2. requested \subseteq requested'
      BY <2>3 DEF JoinNew
    <3>3. \A other \in Goroutines \ {g} : wpc'[other] = wpc[other] /\ wjob'[other] = wjob[other]
      BY <2>3 DEF JoinNew, Return
    <3>4. UNCHANGED <<active, chans, asked, hpc, late>>
      BY <2>3 DEF JoinNew, shared, handler
    <3> QED BY <3>1, <3>2, <3>3, <3>4, AskedKept
  <2> QED BY <1>3, <2>1, <2>2, <2>3
<1>4. ASSUME NEW w \in Workers, WorkerStep(w) PROVE AskedInv'
  <2> w \in Goroutines
    BY DEF Goroutines
  <2>1. CASE NilClient(w)
    BY <2>1, DieAsked DEF NilClient
  <2>2. CASE SaveChannel(w) \/ InsertChannel(w) \/ JoinNew(w)
    BY <2>2, <1>3
  <2>3. CASE TakeJob(w) \/ AddServer(w) \/ CheckChannel(w)
    BY <2>3, AskedKept DEF TakeJob, AddServer, CheckChannel, Return, shared, handler, history
  <2>4. CASE JoinPartChannel(w)
    <3>1. requested \subseteq requested'
      BY <2>4 DEF JoinPartChannel
    <3> QED BY <2>4, <3>1, AskedKept DEF JoinPartChannel, Return, shared, handler
  <2>5. CASE DeleteChannel(w) \/ RemoveChannel(w)
    BY <2>5, AskedKept DEF DeleteChannel, RemoveChannel, Return, shared, handler
  <2> QED BY <1>4, <2>1, <2>2, <2>3, <2>4, <2>5 DEF WorkerStep
<1>5. CASE LoaderStep
  <2> Loader \in Goroutines
    BY DEF Goroutines
  <2>1. CASE LoadServers \/ Start
    <3>1. UNCHANGED <<active, chans, asked, hpc, requested, late, wpc, wjob>>
      BY <2>1 DEF LoadServers, Start, shared, work, handler, history
    <3> QED BY <3>1, AskedKept
  <2>2. ASSUME NEW ch \in Chans, LoadChannel(ch) PROVE AskedInv'
    BY <2>2, AskedKept DEF LoadChannel, shared, handler, history
  <2>3. CASE NilClient(Loader)
    BY <2>3, DieAsked DEF NilClient
  <2>4. CASE SaveChannel(Loader) \/ InsertChannel(Loader) \/ JoinNew(Loader)
    BY <2>4, <1>3
  <2> QED BY <1>5, <2>1, <2>2, <2>3, <2>4 DEF LoaderStep
<1>6. CASE HandlerStep
  <2>1. CASE JoinChannels
    <3>1. /\ asked' = asked \cup chans /\ requested' = requested \cup (chans \ asked)
          /\ hpc' = "activate" /\ hpc = "idle"
          /\ UNCHANGED <<active, chans, late, wpc, wjob>>
      BY <2>1 DEF JoinChannels, Takes, work
    <3>2. \A ch \in chans : AskedFor(ch) => AskedFor(ch)'
      BY <3>1 DEF AskedFor
    <3> QED BY <3>1, <3>2 DEF AskedInv
  <2>2. CASE Activate
    BY <2>2 DEF Activate, AskedInv, AskedFor, work, history
  <2>3. CASE Deactivate
    BY <2>3 DEF Deactivate, AskedInv
  <2>4. CASE ResetChannels
    BY <2>4 DEF ResetChannels, AskedInv
  <2>5. CASE Report \/ EndOfNames \/ MarkJoined \/ LeaveUnknown \/ Part
    BY <2>5, AskedKept
       DEF Report, EndOfNames, MarkJoined, LeaveUnknown, Part, Takes, shared, work,
           handler, history
  <2> QED BY <1>6, <2>1, <2>2, <2>3, <2>4, <2>5 DEF HandlerStep
<1>7. CASE ConnectStep \/ ServerStep \/ Restart \/ UNCHANGED vars
  BY <1>7, AskedKept
     DEF ConnectStep, Register, Dial, DialFails, ServerStep, Welcome, Serve, Kick, Break,
         Restart, vars, shared, work, handler, history
<1>8. CASE Kill
  BY <1>8, DieAsked DEF Kill
<1> QED BY <1>2, <1>4, <1>5, <1>6, <1>7, <1>8 DEF Next

(* A client at rest has asked for every channel of its map, unless it was  *)
(* added while the session began or ended (irc_client.go:79-104, 291-295). *)
THEOREM JoinsAreAsked == Spec => []JoinIsAsked
<1>1. Init => AskedInv
  BY DEF Init, AskedInv
<1>2. AskedInv => JoinIsAsked
  BY DEF AskedInv, JoinIsAsked, Settled, AskedFor
<1> QED BY <1>1, <1>2, AskedStep, TypeCorrect, PTL DEF Spec

-----------------------------------------------------------------------------
Breaks(line) == line.cmd = "disconnected"

(* How process, Connect, handlers and connection go together: nothing of a *)
(* session is left when Connect dials again, and "disconnected" is the     *)
(* last line of a session.                                                 *)
LinkInv ==
  /\ loading = "servers" => client = "absent"
  /\ loading # "done" => recv = <<>> /\ \A w \in Workers : wpc[w] = "idle"
  /\ client # "known" => cpc = "off"
  /\ cpc # "wait" => net = "down" /\ in = <<>> /\ hpc = "idle"
  /\ net = "down" => inside = {} /\ out = <<>>
  /\ hpc \in {"reset", "report"} => net = "down" /\ in = <<>>
  /\ \A i \in 1..Len(in) : Breaks(in[i]) => i = Len(in) /\ net = "down"

LEMMA DieLinks ==
  ASSUME NEW how, Die(how)
  PROVE  LinkInv'
<1>1. \A w \in Workers : wpc'[w] = "idle"
  BY DEF Die, Goroutines
<1> QED BY <1>1 DEF Die, LinkInv

(* What the handler of a line leaves of the queue. *)
LEMMA TailLine ==
  ASSUME in \in Seq(Lines), in # <<>>
  PROVE  /\ Head(in) = in[1] /\ 1 \in 1..Len(in) /\ Len(in) \in Nat
         /\ Tail(in) \in Seq(Lines) /\ Len(Tail(in)) = Len(in) - 1
         /\ \A i \in 1..Len(Tail(in)) : Tail(in)[i] = in[i + 1] /\ i + 1 \in 1..Len(in)
OBVIOUS

LEMMA NewLine ==
  ASSUME in \in Seq(Lines), NEW line \in Lines
  PROVE  /\ Len(Append(in, line)) = Len(in) + 1 /\ Len(in) \in Nat
         /\ Append(in, line)[Len(in) + 1] = line
         /\ \A i \in 1..Len(in) : Append(in, line)[i] = in[i]
OBVIOUS

(* The lines a broken connection leaves. *)
LEMMA LastLine ==
  ASSUME in \in Seq(Lines), NEW n \in 0..Len(in), NEW line \in Lines
  PROVE  LET rest == Append(SubSeq(in, 1, n), line)
         IN  /\ Len(rest) = n + 1 /\ n \in Nat
             /\ rest[n + 1] = line
             /\ \A i \in 1..n : rest[i] = in[i] /\ i \in 1..Len(in)
<1>1. n \in Nat /\ SubSeq(in, 1, n) \in Seq(Lines) /\ Len(SubSeq(in, 1, n)) = n
  OBVIOUS
<1>2. \A i \in 1..n : SubSeq(in, 1, n)[i] = in[i] /\ i \in 1..Len(in)
  OBVIOUS
<1> QED BY <1>1, <1>2

LEMMA LineKinds ==
  /\ [cmd |-> "376", chan |-> NoChan] \in Lines
  /\ [cmd |-> "disconnected", chan |-> NoChan] \in Lines
  /\ \A ch \in Chans, cmd \in {"366", "PART"} : [cmd |-> cmd, chan |-> ch] \in Lines
BY DEF Lines

LEMMA LinkStep == TypeOK /\ LinkInv /\ [Next]_vars => LinkInv'
<1> SUFFICES ASSUME TypeOK, LinkInv, [Next]_vars PROVE LinkInv'
  OBVIOUS
<1> /\ wpc \in [Goroutines -> {"idle", "start", "insert", "join", "delete", "remove"}]
    /\ in \in Seq(Lines) /\ out \in Seq(Commands) /\ recv \in Seq(Jobs)
  BY DEF TypeOK
<1> USE DEF LinkInv
<1>1. ASSUME NEW job \in Jobs, Deliver(job) PROVE LinkInv'
  BY <1>1 DEF Deliver, shared, load, handler, connect, irc
<1>2. ASSUME NEW g \in Goroutines, SaveChannel(g) \/ InsertChannel(g) \/ JoinNew(g)
      PROVE  LinkInv'
  <2>1. /\ UNCHANGED <<recv, loading, client, cpc, net, inside, in, hpc>>
        /\ net = "down" => out' = out
        /\ wpc[g] # "idle" /\ \A w \in Workers : w # g => wpc'[w] = wpc[w]
    BY <1>2 DEF SaveChannel, InsertChannel, JoinNew, SendIRC, Return, shared, load, handler,
       connect, irc, Goroutines
  <2>2. \A w \in Workers : wpc[w] = "idle" => wpc'[w] = "idle"
    BY <2>1
  <2> QED BY <2>1, <2>2
<1>3. ASSUME NEW w \in Workers, WorkerStep(w) PROVE LinkInv'
  <2> w \in Goroutines
    BY DEF Goroutines
  <2>1. CASE NilClient(w)
    BY <2>1, DieLinks DEF NilClient
  <2>2. CASE SaveChannel(w) \/ InsertChannel(w) \/ JoinNew(w)
    BY <2>2, <1>2
  <2>3. CASE TakeJob(w)
    BY <2>3 DEF TakeJob, shared, load, handler, connect, irc
  <2>4. CASE AddServer(w)
    BY <2>4 DEF AddServer, load, handler, connect, irc
  <2>5. CASE JoinPartChannel(w) \/ CheckChannel(w) \/ DeleteChannel(w) \/ RemoveChannel(w)
    <3>1. /\ UNCHANGED <<recv, loading, client, cpc, net, inside, in, hpc>>
          /\ net = "down" => out' = out
          /\ wpc[w] # "idle"
      BY <2>5 DEF JoinPartChannel, CheckChannel, DeleteChannel, RemoveChannel, SendIRC, shared,
         load, handler, connect, irc
    <3>2. loading = "done"
      BY <3>1
    <3> QED BY <3>1, <3>2
  <2> QED BY <1>3, <2>1, <2>2, <2>3, <2>4, <2>5 DEF WorkerStep
<1>4. CASE LoaderStep
  <2> Loader \in Goroutines /\ Loader \notin Workers
    BY NameAssumption DEF Goroutines
  <2>1. CASE LoadServers
    BY <2>1 DEF LoadServers, redis, work, handler, connect, irc
  <2>2. ASSUME NEW ch \in Chans, LoadChannel(ch) PROVE LinkInv'
    <3>1. \A w \in Workers : wpc'[w] = wpc[w]
      BY <2>2 DEF LoadChannel, Goroutines
    <3> QED BY <2>2, <3>1 DEF LoadChannel, shared, handler, connect, irc
  <2>3. CASE Start
    BY <2>3 DEF Start, shared, work, handler, connect, irc
  <2>4. CASE NilClient(Loader)
    BY <2>4, DieLinks DEF NilClient
  <2>5. CASE SaveChannel(Loader) \/ InsertChannel(Loader) \/ JoinNew(Loader)
    BY <2>5, <1>2
  <2> QED BY <1>4, <2>1, <2>2, <2>3, <2>4, <2>5 DEF LoaderStep
<1>5. CASE HandlerStep
  <2>1. CASE Activate \/ ResetChannels \/ Report \/ MarkJoined \/ LeaveUnknown
    <3>1. /\ UNCHANGED <<recv, wpc, loading, client, net, inside, in>>
          /\ hpc # "idle"
          /\ hpc' \in {"idle", "report"} /\ (hpc' = "report" => hpc = "reset")
          /\ net = "down" => out' = out
          /\ cpc' = cpc \/ (hpc = "report" /\ hpc' = "idle")
      <4>1. CASE Activate \/ ResetChannels \/ MarkJoined
        BY <4>1 DEF Activate, ResetChannels, MarkJoined, work, load, connect, irc
      <4>2. CASE Report
        BY <4>2 DEF Report, shared, work, load, irc
      <4>3. CASE LeaveUnknown
        BY <4>3 DEF LeaveUnknown, SendIRC, shared, work, load, connect
      <4> QED BY <2>1, <4>1, <4>2, <4>3
    <3>2. client = "known"
      BY <3>1
    <3> QED BY <3>1, <3>2
  <2>2. CASE JoinChannels \/ Deactivate \/ EndOfNames \/ Part
    <3>1. /\ UNCHANGED <<recv, wpc, loading, client, net, inside, cpc>>
          /\ in # <<>> /\ in' = Tail(in)
          /\ hpc' = "report" => FALSE
          /\ hpc' = "reset" => Breaks(Head(in))
      BY <2>2 DEF JoinChannels, Deactivate, EndOfNames, Part, Takes, Breaks, shared, work, load,
         handler, connect, irc
    <3>2. net = "down" => out' = out
      <4>1. CASE JoinChannels
        BY <4>1 DEF JoinChannels, SendIRC
      <4>2. CASE ~JoinChannels
        BY <2>2, <4>2 DEF Deactivate, EndOfNames, Part
      <4> QED BY <4>1, <4>2
    <3>3. /\ Head(in) = in[1] /\ 1 \in 1..Len(in) /\ Len(in) \in Nat
          /\ in' \in Seq(Lines) /\ Len(in') = Len(in) - 1
          /\ \A i \in 1..Len(in') : in'[i] = in[i + 1] /\ i + 1 \in 1..Len(in)
      BY <3>1, TailLine
    <3>4. Breaks(Head(in)) => net = "down" /\ in' = <<>>
      <4>1. Breaks(Head(in)) => net = "down" /\ Len(in) = 1
        BY <3>3
      <4> QED BY <3>3, <4>1
    <3>5. ASSUME NEW i \in 1..Len(in'), Breaks(in'[i]) PROVE i = Len(in') /\ net = "down"
      <4>1. i + 1 = Len(in) /\ net = "down"
        BY <3>3, <3>5
      <4> QED BY <3>3, <4>1
    <3> QED BY <3>1, <3>2, <3>4, <3>5
  <2> QED BY <1>5, <2>1, <2>2 DEF HandlerStep
<1>6. CASE ConnectStep
  <2>1. CASE Register
    BY <2>1 DEF Register, work, load, handler, irc
  <2>2. CASE Dial
    BY <2>2 DEF Dial, shared, work, load, handler
  <2>3. CASE DialFails
    BY <2>3 DEF DialFails, NextTry, shared, work, load, handler, irc
  <2> QED BY <1>6, <2>1, <2>2, <2>3 DEF ConnectStep
<1>7. CASE ServerStep
  <2>1. CASE Welcome \/ Serve
    <3>1. /\ UNCHANGED <<recv, wpc, loading, client, cpc, hpc>>
          /\ net # "down" /\ net' # "down"
      BY <2>1 DEF Welcome, Serve, shared, work, load, handler, connect
    <3>2. in' = in \/ \E line \in Lines : in' = Append(in, line) /\ ~Breaks(line)
      <4>1. CASE Welcome
        BY <4>1, LineKinds DEF Welcome, Breaks
      <4>2. CASE Serve
        <5>1. Head(out) \in Commands
          BY <4>2 DEF Serve
        <5>2. Head(out).chan \in Chans
          BY <5>1 DEF Commands
        <5> QED BY <4>2, <5>2, LineKinds DEF Serve, Breaks
      <4> QED BY <2>1, <4>1, <4>2
    <3>3. \A i \in 1..Len(in') : ~Breaks(in'[i])
      BY <3>1, <3>2, NewLine
    <3> QED BY <3>1, <3>3
  <2>2. ASSUME NEW ch \in Chans, Kick(ch) PROVE LinkInv'
    BY <2>2 DEF Kick, shared, work, load, handler, connect
  <2>3. CASE Break
    <3> DEFINE line == [cmd |-> "disconnected", chan |-> NoChan]
    <3>1. PICK n \in 0..Len(in) : in' = Append(SubSeq(in, 1, n), line)
      BY <2>3 DEF Break
    <3>2. /\ UNCHANGED <<recv, wpc, loading, client, cpc, hpc>>
          /\ net # "down" /\ net' = "down" /\ inside' = {} /\ out' = <<>>
      BY <2>3 DEF Break, shared, work, load, handler, connect
    <3>3. line \in Lines
      BY LineKinds
    <3> HIDE DEF line
    <3>4. \A i \in 1..Len(in') : Breaks(in'[i]) => i = Len(in')
      BY <3>1, <3>2, <3>3, LastLine
    <3> QED BY <3>2, <3>4
  <2> QED BY <1>7, <2>1, <2>2, <2>3 DEF ServerStep
<1>8. CASE Kill
  BY <1>8, DieLinks DEF Kill
<1>9. CASE Restart \/ UNCHANGED vars
  BY <1>9 DEF Restart, vars, shared, work, load, handler, connect, irc
<1> QED BY <1>1, <1>3, <1>4, <1>5, <1>6, <1>7, <1>8, <1>9 DEF Next

-----------------------------------------------------------------------------
(* The lines about a channel are those that name it and the end of the     *)
(* session.  The client is going to believe that the user is in ch when    *)
(* the last of them says so or, when there is none, if it believes it now. *)
Touches(line, ch) == Breaks(line) \/ line.chan = ch
Untouched(ch, n) == \A j \in 1..Len(in) : j > n => ~Touches(in[j], ch)
Enters(line, ch) == line.cmd = "366" /\ line.chan = ch
InLine(ch) == \E i \in 1..Len(in) : Enters(in[i], ch) /\ Untouched(ch, i)
InMap(ch) == hpc # "reset" /\ (Marking(ch) \/ ch \in joined)
Believed(ch) == InLine(ch) \/ (Untouched(ch, 0) /\ InMap(ch))

PartSent(ch) == \E i \in 1..Len(out) : out[i].cmd = "PART" /\ out[i].chan = ch
BeingLeft(ch) == (hpc = "leave" /\ hchan = ch) \/ PartSent(ch)

(* Only a channel of the map is joined or about to be marked, and deleting *)
(* one that became joined is odd.                                          *)
MapInv ==
  /\ joined \subseteq chans
  /\ \A ch \in Chans : Marking(ch) => ch \in chans
  /\ \A w \in Workers : wpc[w] = "delete" => wjob[w].chan \notin joined \ odd

(* The client is going to believe what the server holds; only a channel    *)
(* the map did not know keeps the user until the PART gets through.        *)
ViewInv ==
  \A ch \in Chans \ odd :
    /\ Believed(ch) => ch \in inside
    /\ ch \in inside => Believed(ch) \/ BeingLeft(ch)

LEMMA DieViews ==
  ASSUME NEW how, Die(how)
  PROVE  MapInv' /\ ViewInv'
<1>1. MapInv'
  BY DEF Die, MapInv, Marking, Goroutines
<1>2. ViewInv'
  <2>1. \A ch \in Chans : ~InMap(ch)' /\ ~InLine(ch)' /\ ch \notin inside'
    BY DEF Die, InMap, InLine, Marking
  <2> QED BY <2>1 DEF ViewInv, Believed
<1> QED BY <1>1, <1>2

LEMMA BelievedSame ==
  ASSUME NEW ch, in' = in, InMap(ch)' <=> InMap(ch)
  PROVE  Believed(ch)' <=> Believed(ch)
BY DEF Believed, InLine, Untouched

LEMMA BelievedNew ==
  ASSUME in \in Seq(Lines), NEW line \in Lines, in' = Append(in, line),
         NEW ch, InMap(ch)' <=> InMap(ch)
  PROVE  Believed(ch)' <=> IF Touches(line, ch) THEN Enters(line, ch) ELSE Believed(ch)
<1> PICK n : n = Len(in)
  OBVIOUS
<1>1. /\ n \in Nat /\ Len(in') = n + 1 /\ in'[n + 1] = line
      /\ \A i \in 1..n : in'[i] = in[i]
  BY NewLine
<1>2. 1..Len(in') = (1..n) \cup {n + 1}
  BY <1>1
<1>3. \A i \in 0..n : Untouched(ch, i)' <=> (Untouched(ch, i) /\ ~Touches(line, ch))
  BY <1>1, <1>2 DEF Untouched, Touches, Breaks
<1>4. Untouched(ch, n + 1)'
  BY <1>1, <1>2 DEF Untouched
<1>5. InLine(ch)' <=> Enters(line, ch) \/ (InLine(ch) /\ ~Touches(line, ch))
  <2>1. ASSUME InLine(ch)' PROVE Enters(line, ch) \/ (InLine(ch) /\ ~Touches(line, ch))
    <3>1. PICK i \in 1..Len(in') : Enters(in'[i], ch) /\ Untouched(ch, i)'
      BY <2>1 DEF InLine, Enters
    <3>2. CASE i = n + 1
      BY <1>1, <3>1, <3>2
    <3>3. CASE i \in 1..n
      BY <1>1, <1>3, <3>1, <3>3 DEF InLine
    <3> QED BY <1>2, <3>1, <3>2, <3>3
  <2>2. ASSUME Enters(line, ch) PROVE InLine(ch)'
    <3>1. Enters(in'[n + 1], ch) /\ Untouched(ch, n + 1)' /\ n + 1 \in 1..Len(in')
      BY <1>1, <1>2, <1>4, <2>2
    <3> QED BY <3>1, <1>1 DEF InLine, Untouched, Enters
  <2>3. ASSUME InLine(ch), ~Touches(line, ch) PROVE InLine(ch)'
    <3>1. PICK i \in 1..n : Enters(in[i], ch) /\ Untouched(ch, i)
      BY <2>3 DEF InLine
    <3>2. Enters(in'[i], ch) /\ Untouched(ch, i)' /\ i \in 1..Len(in')
      BY <1>1, <1>2, <1>3, <2>3, <3>1
    <3> QED BY <3>2 DEF InLine, Untouched, Enters
  <2> QED BY <2>1, <2>2, <2>3
<1>6. Untouched(ch, 0)' <=> (Untouched(ch, 0) /\ ~Touches(line, ch))
  BY <1>1, <1>3
<1>7. Enters(line, ch) => Touches(line, ch)
  BY DEF Enters, Touches
<1> QED BY <1>5, <1>6, <1>7 DEF Believed

(* The handler that takes the first line must bring the map to what that   *)
(* line says.                                                              *)
LEMMA BelievedTail ==
  ASSUME in \in Seq(Lines), in # <<>>, in' = Tail(in), NEW ch
  PROVE  LET said == IF Touches(Head(in), ch) THEN Enters(Head(in), ch) ELSE InMap(ch)
         IN  /\ (InMap(ch)' => said) => (Believed(ch)' => Believed(ch))
             /\ (said => InMap(ch)') => (Believed(ch) => Believed(ch)')
<1> DEFINE n == Len(in)
           said == IF Touches(Head(in), ch) THEN Enters(Head(in), ch) ELSE InMap(ch)
<1>1. /\ n \in Nat /\ Head(in) = in[1] /\ 1 \in 1..n /\ Len(in') = n - 1
      /\ \A i \in 1..Len(in') : in'[i] = in[i + 1] /\ i + 1 \in 1..n
  BY TailLine
<1> HIDE DEF n
<1>2. \A i \in 2..n : i - 1 \in 1..Len(in') /\ in'[i - 1] = in[i]
  <2> SUFFICES ASSUME NEW i \in 2..n
               PROVE  i - 1 \in 1..Len(in') /\ in'[i - 1] = in[i]
    OBVIOUS
  <2>1. i - 1 \in 1..Len(in') /\ (i - 1) + 1 = i
    BY <1>1
  <2> QED BY <1>1, <2>1
<1>3. \A i \in 0..n : i >= 1 => (Untouched(ch, i) <=> Untouched(ch, i - 1)')
  <2> SUFFICES ASSUME NEW i \in 1..n
               PROVE  Untouched(ch, i) <=> Untouched(ch, i - 1)'
    BY <1>1
  <2>1. ASSUME Untouched(ch, i) PROVE Untouched(ch, i - 1)'
    <3>1. \A j \in 1..Len(in') : j > i - 1 => ~Touches(in'[j], ch)
      BY <1>1, <2>1 DEF Untouched, n
    <3> QED BY <3>1 DEF Untouched, Touches, Breaks
  <2>2. ASSUME Untouched(ch, i - 1)' PROVE Untouched(ch, i)
    <3>1. \A j \in 1..Len(in') : j > i - 1 => ~Touches(in'[j], ch)
      BY <2>2 DEF Untouched, Touches, Breaks
    <3>2. ASSUME NEW j \in 1..n, j > i PROVE ~Touches(in[j], ch)
      <4>1. j \in 2..n /\ j - 1 > i - 1
        BY <1>1, <3>2
      <4> QED BY <1>2, <3>1, <4>1
    <3> QED BY <3>2 DEF Untouched, n
  <2> QED BY <2>1, <2>2
<1>4. Untouched(ch, 1) <=> Untouched(ch, 0)'
  BY <1>1, <1>3
<1>5. Untouched(ch, 0) <=> (Untouched(ch, 1) /\ ~Touches(Head(in), ch))
  BY <1>1 DEF Untouched, n
<1>6. InLine(ch) <=> InLine(ch)' \/ (Enters(Head(in), ch) /\ Untouched(ch, 1))
  <2>1. ASSUME InLine(ch) PROVE InLine(ch)' \/ (Enters(Head(in), ch) /\ Untouched(ch, 1))
    <3>1. PICK i \in 1..n : Enters(in[i], ch) /\ Untouched(ch, i)
      BY <2>1 DEF InLine, n
    <3>2. CASE i = 1
      BY <1>1, <3>1, <3>2
    <3>3. CASE i # 1
      <4>1. i - 1 \in 1..Len(in') /\ in'[i - 1] = in[i] /\ Untouched(ch, i - 1)'
        BY <1>1, <1>2, <1>3, <3>1, <3>3
      <4> QED BY <3>1, <4>1 DEF InLine, Enters, Untouched
    <3> QED BY <3>2, <3>3
  <2>2. ASSUME InLine(ch)' PROVE InLine(ch)
    <3>1. PICK i \in 1..Len(in') : Enters(in'[i], ch) /\ Untouched(ch, i)'
      BY <2>2 DEF InLine, Enters
    <3>2. i + 1 \in 1..n /\ in'[i] = in[i + 1] /\ (i + 1) - 1 = i
      BY <1>1
    <3>3. Untouched(ch, i + 1)
      BY <1>1, <1>3, <3>1, <3>2
    <3> QED BY <3>1, <3>2, <3>3 DEF InLine, n
  <2>3. Enters(Head(in), ch) /\ Untouched(ch, 1) => InLine(ch)
    BY <1>1 DEF InLine, n
  <2> QED BY <2>1, <2>2, <2>3
<1>7. Enters(Head(in), ch) => Touches(Head(in), ch)
  BY DEF Enters, Touches
<1>8. Believed(ch) <=> InLine(ch)' \/ (Untouched(ch, 0)' /\ said)
  BY <1>4, <1>5, <1>6, <1>7 DEF Believed
<1> QED BY <1>8 DEF Believed

LEMMA MapStep == TypeOK /\ LinkInv /\ MapInv /\ [Next]_vars => MapInv'
<1> SUFFICES ASSUME TypeOK, LinkInv, MapInv, [Next]_vars PROVE MapInv'
  OBVIOUS
<1> /\ wpc \in [Goroutines -> {"idle", "start", "insert", "join", "delete", "remove"}]
    /\ wjob \in [Goroutines -> Jobs \cup {Idle}]
    /\ NoChan \notin Chans /\ chans \subseteq Chans /\ joined \subseteq Chans
    /\ Workers \subseteq Goroutines
  BY NameAssumption DEF TypeOK, Goroutines
<1> USE DEF MapInv, Marking
<1>1. ASSUME UNCHANGED <<chans, handler>>, joined' \subseteq joined, odd \subseteq odd',
             \A w \in Workers :
               wpc'[w] = "delete" => \/ wpc[w] = "delete" /\ wjob'[w] = wjob[w]
                                     \/ wjob'[w].chan \notin joined
      PROVE  MapInv'
  BY <1>1 DEF handler
<1>2. ASSUME NEW g \in Goroutines, SaveChannel(g) \/ InsertChannel(g) \/ JoinNew(g)
      PROVE  MapInv'
  <2>1. CASE SaveChannel(g) \/ JoinNew(g)
    BY <1>1, <2>1 DEF SaveChannel, JoinNew, Return, shared, handler, history
  <2>2. CASE InsertChannel(g)
    <3>1. /\ chans \subseteq chans' /\ joined' \subseteq joined /\ odd \subseteq odd'
          /\ hpc' = hpc /\ (hchan' = hchan \/ hchan' = NoChan)
          /\ wjob' = wjob /\ \A w \in Workers : wpc'[w] = "delete" => wpc[w] = "delete"
      BY <2>2 DEF InsertChannel, Supersede
    <3> QED BY <3>1
  <2> QED BY <1>2, <2>1, <2>2
<1>3. ASSUME NEW w \in Workers, WorkerStep(w) PROVE MapInv'
  <2>1. CASE NilClient(w)
    BY <2>1, DieViews DEF NilClient
  <2>2. CASE SaveChannel(w) \/ InsertChannel(w) \/ JoinNew(w)
    BY <2>2, <1>2
  <2>3. CASE TakeJob(w) \/ AddServer(w) \/ JoinPartChannel(w) \/ RemoveChannel(w)
    <3>1. UNCHANGED <<chans, handler, joined>> /\ odd' = odd
      BY <2>3 DEF TakeJob, AddServer, JoinPartChannel, RemoveChannel, shared, handler, history
    <3>2. /\ wpc'[w] # "delete"
          /\ \A v \in Workers : v # w => wpc'[v] = wpc[v] /\ wjob'[v] = wjob[v]
      BY <2>3 DEF TakeJob, AddServer, JoinPartChannel, RemoveChannel, Return
    <3> QED BY <1>1, <3>1, <3>2
  <2>4. CASE CheckChannel(w)
    <3>1. UNCHANGED <<chans, handler, joined, odd>>
      BY <2>4 DEF CheckChannel, shared, history
    <3>2. /\ wpc'[w] = "delete" => wjob'[w].chan \notin joined
          /\ \A v \in Workers : v # w => wpc'[v] = wpc[v] /\ wjob'[v] = wjob[v]
      BY <2>4 DEF CheckChannel, Return
    <3> QED BY <1>1, <3>1, <3>2
  <2>5. CASE DeleteChannel(w)
    <3> PICK ch : ch = wjob[w].chan
      OBVIOUS
    <3>1. /\ chans' = chans \ {ch} /\ joined' = joined \ {ch} /\ odd \subseteq odd'
          /\ hpc' = hpc /\ hchan' = IF hpc = "mark" /\ hchan = ch THEN NoChan ELSE hchan
          /\ wjob' = wjob /\ \A v \in Workers : wpc'[v] = "delete" => wpc[v] = "delete"
      BY <2>5 DEF DeleteChannel, Supersede
    <3> QED BY <3>1
  <2> QED BY <1>3, <2>1, <2>2, <2>3, <2>4, <2>5 DEF WorkerStep
<1>4. CASE LoaderStep
  <2> Loader \in Goroutines /\ Loader \notin Workers
    BY NameAssumption DEF Goroutines
  <2>1. CASE LoadServers \/ Start
    BY <1>1, <2>1 DEF LoadServers, Start, shared, work, history
  <2>2. ASSUME NEW ch \in Chans, LoadChannel(ch) PROVE MapInv'
    <3>1. \A w \in Workers : wpc'[w] = wpc[w] /\ wjob'[w] = wjob[w]
      BY <2>2 DEF LoadChannel
    <3> QED BY <1>1, <2>2, <3>1 DEF LoadChannel, shared, history
  <2>3. CASE NilClient(Loader)
    BY <2>3, DieViews DEF NilClient
  <2>4. CASE SaveChannel(Loader) \/ InsertChannel(Loader) \/ JoinNew(Loader)
    BY <2>4, <1>2
  <2> QED BY <1>4, <2>1, <2>2, <2>3, <2>4 DEF LoaderStep
<1>5. CASE HandlerStep
  <2>1. CASE JoinChannels \/ Activate \/ Deactivate \/ Report \/ LeaveUnknown \/ Part
    <3>1. UNCHANGED <<chans, wpc, wjob>> /\ odd' = odd /\ joined' \subseteq joined
      BY <2>1 DEF JoinChannels, Activate, Deactivate, Report, LeaveUnknown, Part, shared, work,
         history
    <3>2. hpc' = "mark" => FALSE
      BY <2>1 DEF JoinChannels, Activate, Deactivate, Report, LeaveUnknown, Part, Takes, handler
    <3> QED BY <3>1, <3>2
  <2>2. CASE ResetChannels
    BY <2>2 DEF ResetChannels, work
  <2>3. CASE EndOfNames
    BY <2>3 DEF EndOfNames, shared, work, history
  <2>4. CASE MarkJoined
    <3>1. /\ UNCHANGED <<chans, wpc, wjob>> /\ hpc = "mark" /\ hpc' = "idle"
          /\ joined' = joined \cup ({hchan} \ {NoChan}) /\ odd \subseteq odd'
          /\ (\E w \in Workers : wpc[w] = "delete" /\ wjob[w].chan = hchan) => hchan \in odd'
      BY <2>4 DEF MarkJoined, work
    <3>2. hchan \in Chans \cup {NoChan}
      BY DEF TypeOK
    <3> QED BY <3>1, <3>2
  <2> QED BY <1>5, <2>1, <2>2, <2>3, <2>4 DEF HandlerStep
<1>6. CASE \/ \E job \in Jobs : Deliver(job)
           \/ ConnectStep \/ ServerStep \/ Restart \/ UNCHANGED vars
  <2>1. UNCHANGED <<chans, handler, joined, wpc, wjob>> /\ odd \subseteq odd'
    BY <1>6 DEF Deliver, ConnectStep, Register, Dial, DialFails, ServerStep, Welcome, Serve, Kick,
       Break, Restart, vars, shared, work, history
  <2> QED BY <1>1, <2>1
<1>7. CASE Kill
  BY <1>7, DieViews DEF Kill
<1> QED BY <1>3, <1>4, <1>5, <1>6, <1>7 DEF Next

(* A command keeps what was sent before it, or there is no connection. *)
LEMMA PartStays ==
  ASSUME TypeOK, LinkInv, NEW commands \in Seq(Commands), SendIRC(commands)
  PROVE  \A ch \in inside : PartSent(ch) => PartSent(ch)'
<1>1. CASE net = "down"
  BY <1>1 DEF LinkInv
<1>2. CASE net # "down"
  <2>1. out' = out \o commands /\ out \in Seq(Commands)
    BY <1>2 DEF SendIRC, TypeOK
  <2>2. \A i \in 1..Len(out) : i \in 1..Len(out') /\ out'[i] = out[i]
    BY <2>1
  <2> QED BY <2>2 DEF PartSent
<1> QED BY <1>1, <1>2

(* Steps that neither touch the lines nor what the server holds. *)
LEMMA ViewKept ==
  ASSUME ViewInv, in' = in, inside' = inside, odd \subseteq odd',
         \A ch \in Chans \ odd' : InMap(ch)' <=> InMap(ch),
         \A ch \in inside : BeingLeft(ch) => BeingLeft(ch)'
  PROVE  ViewInv'
<1> SUFFICES ASSUME NEW ch \in Chans \ odd'
             PROVE  /\ Believed(ch)' => ch \in inside'
                    /\ ch \in inside' => Believed(ch)' \/ BeingLeft(ch)'
  BY DEF ViewInv
<1>1. Believed(ch)' <=> Believed(ch)
  BY BelievedSame
<1> QED BY <1>1 DEF ViewInv

(* Steps that take a line. *)
LEMMA ViewOfLine ==
  ASSUME TypeOK, ViewInv, in # <<>>, in' = Tail(in), UNCHANGED <<inside, odd>>,
         \A ch \in Chans \ odd :
           LET said == IF Touches(Head(in), ch) THEN Enters(Head(in), ch) ELSE InMap(ch)
           IN  (InMap(ch)' => said) /\ (said => InMap(ch)' \/ BeingLeft(ch)'),
         \A ch \in inside : BeingLeft(ch) => BeingLeft(ch)'
  PROVE  ViewInv'
<1> SUFFICES ASSUME NEW ch \in Chans \ odd
             PROVE  /\ Believed(ch)' => ch \in inside
                    /\ ch \in inside => Believed(ch)' \/ BeingLeft(ch)'
  BY DEF ViewInv
<1>1. in \in Seq(Lines)
  BY DEF TypeOK
<1> DEFINE said == IF Touches(Head(in), ch) THEN Enters(Head(in), ch) ELSE InMap(ch)
<1>2. (InMap(ch)' => said) /\ (said => InMap(ch)' \/ BeingLeft(ch)')
  OBVIOUS
<1>3. /\ (InMap(ch)' => said) => (Believed(ch)' => Believed(ch))
      /\ (said => InMap(ch)') => (Believed(ch) => Believed(ch)')
  BY <1>1, BelievedTail
<1> HIDE DEF said
<1> QED BY <1>2, <1>3 DEF ViewInv

LEMMA ViewStep == TypeInv /\ LinkInv /\ MapInv /\ ViewInv /\ [Next]_vars => ViewInv'
<1> SUFFICES ASSUME TypeInv, LinkInv, MapInv, ViewInv, [Next]_vars PROVE ViewInv'
  OBVIOUS
<1> TypeOK /\ WorkerOK /\ HandlerOK
  BY DEF TypeInv
<1> /\ in \in Seq(Lines) /\ out \in Seq(Commands)
    /\ NoChan \notin Chans /\ chans \subseteq Chans /\ joined \subseteq Chans
    /\ inside \subseteq Chans /\ hchan \in Chans \cup {NoChan}
    /\ \A g \in Goroutines : wjob[g] \in Jobs \cup {Idle}
  BY NameAssumption DEF TypeOK
<1>1. ASSUME UNCHANGED <<joined, handler, irc>>, odd \subseteq odd' PROVE ViewInv'
  BY <1>1, ViewKept DEF handler, irc, InMap, Marking, BeingLeft, PartSent
<1>2. ASSUME UNCHANGED <<joined, handler, in, inside, odd>>, NEW ch \in Chans,
             NEW cmd \in {"JOIN", "PART"}, SendIRC(<<[cmd |-> cmd, chan |-> ch]>>)
      PROVE  ViewInv'
  <2> PICK command : command = [cmd |-> cmd, chan |-> ch]
    OBVIOUS
  <2>1. command \in Commands
    BY DEF Commands
  <2>2. <<command>> \in Seq(Commands) /\ SendIRC(<<command>>)
    BY <1>2, <2>1
  <2>3. \A d \in inside : PartSent(d) => PartSent(d)'
    BY <2>2, PartStays
  <2> QED BY <1>2, <2>3, ViewKept DEF handler, InMap, Marking, BeingLeft
<1>3. ASSUME NEW g \in Goroutines, SaveChannel(g) \/ InsertChannel(g) \/ JoinNew(g)
      PROVE  ViewInv'
  <2>1. CASE SaveChannel(g)
    BY <1>1, <2>1 DEF SaveChannel, shared, history
  <2>2. CASE InsertChannel(g)
    <3> PICK ch : ch = wjob[g].chan
      OBVIOUS
    <3>1. /\ UNCHANGED <<in, out, inside, hpc>> /\ odd \subseteq odd'
          /\ joined' = joined \ {ch}
          /\ hchan' = IF Marking(ch) THEN NoChan ELSE hchan
          /\ ch \in joined \/ Marking(ch) => ch \in odd'
      BY <2>2 DEF InsertChannel, Supersede, irc
    <3>2. \A d \in Chans \ odd' : InMap(d)' <=> InMap(d)
      BY <3>1 DEF InMap, Marking
    <3>3. \A d \in inside : BeingLeft(d) => BeingLeft(d)'
      BY <3>1 DEF BeingLeft, PartSent, Marking
    <3> QED BY <3>1, <3>2, <3>3, ViewKept
  <2>3. CASE JoinNew(g)
    <3>1. CASE active
      <4>1. wjob[g].chan \in Chans
        BY <2>3, JobFields DEF JoinNew, WorkerOK
      <4> QED BY <1>2, <2>3, <3>1, <4>1 DEF JoinNew, shared
    <3>2. CASE ~active
      BY <1>1, <2>3, <3>2 DEF JoinNew, shared, irc
    <3> QED BY <3>1, <3>2
  <2> QED BY <1>3, <2>1, <2>2, <2>3
<1>4. ASSUME NEW w \in Workers, WorkerStep(w) PROVE ViewInv'
  <2> w \in Goroutines
    BY DEF Goroutines
  <2>1. CASE NilClient(w)
    BY <2>1, DieViews DEF NilClient
  <2>2. CASE SaveChannel(w) \/ InsertChannel(w) \/ JoinNew(w)
    BY <2>2, <1>3
  <2>3. CASE TakeJob(w) \/ AddServer(w) \/ CheckChannel(w) \/ RemoveChannel(w)
    BY <1>1, <2>3 DEF TakeJob, AddServer, CheckChannel, RemoveChannel, shared, history
  <2>4. CASE JoinPartChannel(w)
    <3>1. CASE UNCHANGED out
      BY <1>1, <2>4, <3>1 DEF JoinPartChannel, shared, irc
    <3>2. CASE out' # out
      <4>1. PICK cmd \in {"JOIN", "PART"} : SendIRC(<<[cmd |-> cmd, chan |-> wjob[w].chan]>>)
        BY <2>4, <3>2 DEF JoinPartChannel
      <4>2. wjob[w].chan \in Chans
        BY <2>4, <3>2 DEF JoinPartChannel
      <4> QED BY <1>2, <2>4, <4>1, <4>2 DEF JoinPartChannel, shared
    <3> QED BY <3>1, <3>2
  <2>5. CASE DeleteChannel(w)
    <3> PICK ch : ch = wjob[w].chan
      OBVIOUS
    <3>1. /\ UNCHANGED <<in, out, inside, hpc>> /\ odd \subseteq odd'
          /\ joined' = joined \ {ch}
          /\ hchan' = IF Marking(ch) THEN NoChan ELSE hchan
          /\ Marking(ch) => ch \in odd'
          /\ ch \in joined => ch \in odd
      BY <2>5 DEF DeleteChannel, Supersede, irc, MapInv
    <3>2. \A d \in Chans \ odd' : InMap(d)' <=> InMap(d)
      BY <3>1 DEF InMap, Marking
    <3>3. \A d \in inside : BeingLeft(d) => BeingLeft(d)'
      BY <3>1 DEF BeingLeft, PartSent, Marking
    <3> QED BY <3>1, <3>2, <3>3, ViewKept
  <2> QED BY <1>4, <2>1, <2>2, <2>3, <2>4, <2>5 DEF WorkerStep
<1>5. CASE LoaderStep
  <2> Loader \in Goroutines
    BY DEF Goroutines
  <2>1. CASE LoadServers \/ (\E ch \in Chans : LoadChannel(ch)) \/ Start
    BY <1>1, <2>1 DEF LoadServers, LoadChannel, Start, shared, history
  <2>2. CASE NilClient(Loader)
    BY <2>2, DieViews DEF NilClient
  <2>3. CASE SaveChannel(Loader) \/ InsertChannel(Loader) \/ JoinNew(Loader)
    BY <2>3, <1>3
  <2> QED BY <1>5, <2>1, <2>2, <2>3 DEF LoaderStep
<1>6. CASE HandlerStep
  <2>1. CASE JoinChannels
    <3>1. PICK order \in Orders(chans \ asked) :
            SendIRC([i \in DOMAIN order |-> [cmd |-> "JOIN", chan |-> order[i]]])
      BY <2>1 DEF JoinChannels
    <3>2. \A ch \in inside : PartSent(ch) => PartSent(ch)'
      BY <3>1, OrdersAreSequences, PartStays
    <3>3. /\ in # <<>> /\ in' = Tail(in) /\ Head(in).cmd = "376"
          /\ hpc = "idle" /\ hpc' = "activate" /\ UNCHANGED <<joined, inside, odd>>
      BY <2>1 DEF JoinChannels, Takes
    <3>4. Head(in).chan \notin Chans
      BY <3>3 DEF Lines
    <3>5. \A ch \in Chans : ~Touches(Head(in), ch) /\ (InMap(ch)' <=> InMap(ch))
      BY <3>3, <3>4 DEF Touches, Breaks, InMap, Marking
    <3>6. \A ch \in inside : BeingLeft(ch) => BeingLeft(ch)'
      BY <3>2, <3>3 DEF BeingLeft
    <3> QED BY <3>3, <3>5, <3>6, ViewOfLine
  <2>2. CASE Activate \/ Report
    <3>1. /\ UNCHANGED <<in, out, inside, odd, joined>> /\ hpc' = "idle"
          /\ hpc \in {"activate", "report"}
      BY <2>2 DEF Activate, Report, shared, irc, history
    <3> QED BY <3>1, ViewKept DEF InMap, Marking, BeingLeft, PartSent
  <2>3. CASE Deactivate
    <3>1. /\ in # <<>> /\ in' = Tail(in) /\ Head(in).cmd = "disconnected"
          /\ hpc = "idle" /\ hpc' = "reset" /\ UNCHANGED <<joined, inside, out, odd>>
      BY <2>3 DEF Deactivate, Takes, history
    <3>2. \A ch \in Chans : Touches(Head(in), ch) /\ ~Enters(Head(in), ch) /\ ~InMap(ch)'
      BY <3>1 DEF Touches, Breaks, Enters, InMap
    <3>3. \A ch \in inside : BeingLeft(ch) => BeingLeft(ch)'
      BY <3>1 DEF BeingLeft, PartSent
    <3> QED BY <3>1, <3>2, <3>3, ViewOfLine
  <2>4. CASE ResetChannels
    <3>1. in' = <<>> /\ inside' = {} /\ joined' = {} /\ hpc' = "report"
      BY <2>4 DEF ResetChannels, irc, LinkInv
    <3> QED BY <3>1 DEF ViewInv, Believed, InLine, InMap, Marking
  <2>5. CASE EndOfNames
    <3> PICK new : new = Head(in).chan
      OBVIOUS
    <3>1. /\ in # <<>> /\ in' = Tail(in) /\ Head(in).cmd = "366"
          /\ hpc = "idle" /\ hchan' = new /\ UNCHANGED <<joined, inside, out, odd>>
          /\ hpc' = IF new \in chans THEN "mark" ELSE "leave"
      BY <2>5 DEF EndOfNames, Takes, shared, history
    <3>2. \A ch \in Chans : /\ Touches(Head(in), ch) <=> ch = new
                            /\ Enters(Head(in), ch) <=> ch = new
      BY <3>1 DEF Touches, Breaks, Enters
    <3>3. \A ch \in Chans : InMap(ch) <=> ch \in joined
      BY <3>1 DEF InMap, Marking
    <3>4. \A ch \in Chans : InMap(ch)' <=> ch \in joined \/ (ch = new /\ new \in chans)
      BY <3>1 DEF InMap, Marking
    <3>5. new \notin chans => new \notin joined /\ BeingLeft(new)'
      BY <3>1 DEF MapInv, BeingLeft
    <3>6. \A ch \in inside : BeingLeft(ch) => BeingLeft(ch)'
      BY <3>1 DEF BeingLeft, PartSent
    <3> QED BY <3>1, <3>2, <3>3, <3>4, <3>5, <3>6, ViewOfLine
  <2>6. CASE MarkJoined
    <3>1. /\ UNCHANGED <<in, out, inside>> /\ odd \subseteq odd'
          /\ hpc = "mark" /\ hpc' = "idle" /\ joined' = joined \cup ({hchan} \ {NoChan})
      BY <2>6 DEF MarkJoined, irc
    <3>2. \A ch \in Chans : InMap(ch)' <=> InMap(ch)
      BY <3>1 DEF InMap, Marking
    <3>3. \A ch \in inside : BeingLeft(ch) => BeingLeft(ch)'
      BY <3>1 DEF BeingLeft, PartSent
    <3> QED BY <3>1, <3>2, <3>3, ViewKept
  <2>7. CASE LeaveUnknown
    <3> PICK left, command : left = hchan /\ command = [cmd |-> "PART", chan |-> left]
      OBVIOUS
    <3>1. /\ SendIRC(<<command>>) /\ UNCHANGED <<in, inside, joined, odd>>
          /\ hpc = "leave" /\ hpc' = "idle"
      BY <2>7 DEF LeaveUnknown, shared, history
    <3>2. left \in Chans
      BY <2>7 DEF LeaveUnknown, HandlerOK
    <3>3. command \in Commands /\ <<command>> \in Seq(Commands)
      BY <3>2 DEF Commands
    <3>4. \A ch \in inside : PartSent(ch) => PartSent(ch)'
      BY <3>1, <3>3, PartStays
    <3>5. ASSUME left \in inside PROVE PartSent(left)'
      <4>1. out' = out \o <<command>>
        BY <3>1, <3>5 DEF SendIRC, LinkInv
      <4>2. Len(out) + 1 \in 1..Len(out') /\ out'[Len(out) + 1] = command
        BY <3>3, <4>1
      <4> QED BY <4>2 DEF PartSent
    <3>6. \A ch \in inside : BeingLeft(ch) => BeingLeft(ch)'
      BY <3>4, <3>5 DEF BeingLeft
    <3>7. \A ch \in Chans : InMap(ch)' <=> InMap(ch)
      BY <3>1 DEF InMap, Marking
    <3> QED BY <3>1, <3>6, <3>7, ViewKept
  <2>8. CASE Part
    <3> PICK old : old = Head(in).chan
      OBVIOUS
    <3>1. /\ in # <<>> /\ in' = Tail(in) /\ Head(in).cmd = "PART"
          /\ hpc = "idle" /\ hpc' = "idle" /\ UNCHANGED <<inside, out, odd>>
          /\ joined' = joined \ {old}
      BY <2>8 DEF Part, Takes, handler, history
    <3>2. \A ch \in Chans : /\ Touches(Head(in), ch) <=> ch = old
                            /\ ~Enters(Head(in), ch)
      BY <3>1 DEF Touches, Breaks, Enters
    <3>3. \A ch \in Chans : /\ InMap(ch) <=> ch \in joined
                            /\ InMap(ch)' <=> ch \in joined \ {old}
      BY <3>1 DEF InMap, Marking
    <3>4. \A ch \in inside : BeingLeft(ch) => BeingLeft(ch)'
      BY <3>1 DEF BeingLeft, PartSent
    <3> QED BY <3>1, <3>2, <3>3, <3>4, ViewOfLine
  <2> QED BY <1>6, <2>1, <2>2, <2>3, <2>4, <2>5, <2>6, <2>7, <2>8 DEF HandlerStep
<1>7. CASE ConnectStep
  <2>1. UNCHANGED <<joined, handler, in, inside, out, odd>>
    BY <1>7 DEF ConnectStep, Register, Dial, DialFails, shared, irc, history
  <2> QED BY <2>1, ViewKept DEF handler, InMap, Marking, BeingLeft, PartSent
<1>8. CASE ServerStep
  <2>1. CASE Welcome
    <3> PICK line : line = [cmd |-> "376", chan |-> NoChan]
      OBVIOUS
    <3>1. /\ in' = Append(in, line) /\ UNCHANGED <<inside, out, hpc, hchan, joined, odd>>
          /\ line \in Lines
      BY <2>1, LineKinds DEF Welcome, shared, handler, history
    <3>2. ASSUME NEW ch \in Chans PROVE Believed(ch)' <=> Believed(ch)
      <4>1. ~Touches(line, ch)
        BY DEF Touches, Breaks
      <4>2. InMap(ch)' <=> InMap(ch)
        BY <3>1 DEF InMap, Marking
      <4> QED BY <3>1, <4>1, <4>2, BelievedNew
    <3> QED BY <3>1, <3>2 DEF ViewInv, BeingLeft, PartSent
  <2>2. CASE Serve
    <3> PICK now, ch : now = Head(out) /\ ch = now.chan
      OBVIOUS
    <3>1. /\ out # <<>> /\ out' = Tail(out) /\ UNCHANGED <<hpc, hchan, joined, odd>>
      BY <2>2 DEF Serve, shared, handler, history
    <3>2. now \in Commands /\ ch \in Chans
      <4>1. Head(out) \in Commands
        BY <3>1
      <4> QED BY <4>1 DEF Commands
    <3>3. ASSUME NEW d, BeingLeft(d), ~(now.cmd = "PART" /\ ch = d) PROVE BeingLeft(d)'
      <4>1. ASSUME PartSent(d) PROVE PartSent(d)'
        <5>1. PICK i \in 1..Len(out) : out[i].cmd = "PART" /\ out[i].chan = d
          BY <4>1 DEF PartSent
        <5>2. i # 1
          BY <3>1, <3>3, <5>1
        <5>3. i - 1 \in 1..Len(out') /\ out'[i - 1] = out[i]
          BY <3>1, <5>1, <5>2
        <5> QED BY <5>1, <5>3 DEF PartSent
      <4> QED BY <3>1, <3>3, <4>1 DEF BeingLeft
    <3>4. \A d \in Chans : InMap(d)' <=> InMap(d)
      BY <3>1 DEF InMap, Marking
    <3>5. CASE UNCHANGED <<inside, in>> /\ (now.cmd = "PART" => ch \notin inside)
      BY <3>1, <3>3, <3>4, <3>5, ViewKept
    <3>6. ASSUME NEW cmd \in {"366", "PART"}, in' = Append(in, [cmd |-> cmd, chan |-> ch]),
                 inside' = IF cmd = "366" THEN inside \cup {ch} ELSE inside \ {ch}
          PROVE  ViewInv'
      <4> PICK line : line = [cmd |-> cmd, chan |-> ch]
        OBVIOUS
      <4>1. line \in Lines /\ in' = Append(in, line)
        BY <3>2, <3>6, LineKinds
      <4>2. \A d \in Chans : Believed(d)' <=> IF d = ch THEN cmd = "366" ELSE Believed(d)
        <5> SUFFICES ASSUME NEW d \in Chans
                     PROVE  Believed(d)' <=> IF d = ch THEN cmd = "366" ELSE Believed(d)
          OBVIOUS
        <5>1. Believed(d)' <=> IF Touches(line, d) THEN Enters(line, d) ELSE Believed(d)
          BY <3>4, <4>1, BelievedNew
        <5> QED BY <5>1 DEF Touches, Breaks, Enters
      <4> QED BY <3>1, <3>3, <3>6, <4>2 DEF ViewInv
    <3> QED BY <2>2, <3>5, <3>6 DEF Serve
  <2>3. ASSUME NEW ch \in Chans, Kick(ch) PROVE ViewInv'
    <3>1. /\ UNCHANGED <<in, out, hpc, hchan, joined>>
          /\ inside' = inside \ {ch} /\ odd' = odd \cup {ch}
      BY <2>3 DEF Kick, shared, handler
    <3>2. ASSUME NEW d \in Chans
          PROVE  (Believed(d)' <=> Believed(d)) /\ (BeingLeft(d)' <=> BeingLeft(d))
      <4>1. InMap(d)' <=> InMap(d)
        BY <3>1 DEF InMap, Marking
      <4> QED BY <3>1, <4>1, BelievedSame DEF BeingLeft, PartSent
    <3> QED BY <3>1, <3>2 DEF ViewInv
  <2>4. CASE Break
    <3> PICK line : line = [cmd |-> "disconnected", chan |-> NoChan]
      OBVIOUS
    <3>1. PICK n \in 0..Len(in) : in' = Append(SubSeq(in, 1, n), line)
      BY <2>4 DEF Break
    <3>2. /\ Len(in') = n + 1 /\ n \in Nat /\ in'[n + 1] = line
      BY <3>1, LineKinds, LastLine
    <3>3. ASSUME NEW ch, NEW i \in 0..n PROVE ~Untouched(ch, i)'
      BY <3>2, <3>3 DEF Untouched, Touches, Breaks
    <3>4. ASSUME NEW ch PROVE ~InLine(ch)'
      <4> SUFFICES ASSUME NEW i \in 1..Len(in'), Enters(in'[i], ch), Untouched(ch, i)'
                   PROVE  FALSE
        BY DEF InLine, Enters, Untouched
      <4>1. i # n + 1
        BY <3>2 DEF Enters
      <4> QED BY <3>2, <3>3, <4>1
    <3>5. \A ch : ~Believed(ch)'
      BY <3>2, <3>3, <3>4 DEF Believed
    <3>6. inside' = {}
      BY <2>4 DEF Break
    <3> QED BY <3>5, <3>6 DEF ViewInv
  <2> QED BY <1>8, <2>1, <2>2, <2>3, <2>4 DEF ServerStep
<1>9. CASE (\E job \in Jobs : Deliver(job)) \/ Restart \/ UNCHANGED vars
  BY <1>1, <1>9 DEF Deliver, Restart, vars, shared, history
<1>10. CASE Kill
  BY <1>10, DieViews DEF Kill
<1> QED BY <1>4, <1>5, <1>6, <1>7, <1>8, <1>9, <1>10 DEF Next

(* When nothing is under way, client and server agree on every channel     *)
(* that is not odd (irc_client.go:180-191, 272-334).                       *)
THEOREM ClientAndServerAgree == Spec => []Agreement
<1>1. Init => LinkInv /\ MapInv /\ ViewInv
  <2> SUFFICES ASSUME Init PROVE LinkInv /\ MapInv /\ ViewInv
    OBVIOUS
  <2>1. LinkInv /\ MapInv
    BY DEF Init, LinkInv, MapInv, Marking, Goroutines
  <2>2. \A ch \in Chans : ~InMap(ch) /\ ~InLine(ch) /\ ch \notin inside
    BY DEF Init, InMap, InLine, Marking
  <2> QED BY <2>1, <2>2 DEF ViewInv, Believed
<1>2. TypeInv => TypeOK
  BY DEF TypeInv
<1>3. ViewInv => Agreement
  <2> SUFFICES ASSUME ViewInv, Settled, NEW ch \in Chans \ odd
               PROVE  ch \in joined <=> ch \in inside
    BY DEF Agreement
  <2>1. in = <<>> /\ out = <<>> /\ hpc = "idle"
    BY DEF Settled
  <2>2. (Believed(ch) <=> ch \in joined) /\ ~BeingLeft(ch)
    BY <2>1 DEF Believed, InLine, Untouched, InMap, Marking, BeingLeft, PartSent
  <2> QED BY <2>2 DEF ViewInv
<1> QED BY TypeInit, TypeStep, <1>1, <1>2, <1>3, LinkStep, MapStep, ViewStep, PTL DEF Spec
=============================================================================
