------------------------- MODULE UserRegistryProofs -------------------------
(***************************************************************************)
(* Proofs about UserRegistry, for any number of connections, ids, objects, *)
(* workers and requests and any capacity of the channels.                  *)
(***************************************************************************)
EXTENDS UserRegistry, FiniteSetTheorems, TLAPS

(* What the locals of a worker are at each point of its handler. *)
WorkerOK ==
  \A w \in Workers :
    /\ wpc[w] # "idle" => wjob[w] \in Jobs
    /\ wpc[w] \in {"load", "bind", "join"} => wjob[w].cmd # "sendLog"
    /\ wpc[w] \in {"bind", "join"} => wuser[w] \in Objs
    /\ wpc[w] \in {"join", "publish"} => user[wjob[w].conn] # Nil

(* What um and cm are working on. *)
ManagerOK ==
  /\ umPc = "idle" => umConn = NoConn
  /\ umPc # "idle" => umConn \in Conns /\ user[umConn] # Nil
  /\ cmPc # "idle" => cmConn \in Conns

TypeInv == TypeOK /\ WorkerOK /\ ManagerOK

LEMMA JobFields ==
  ASSUME NEW job \in Jobs
  PROVE  /\ job.conn \in Conns
         /\ job.cmd \in {"login", "register", "sendLog"}
         /\ job.cmd # "sendLog" => job.id \in Ids
  BY DEF Jobs

LEMMA TypeInit == Init => TypeInv
  BY BoundAssumption DEF Init, TypeInv, TypeOK, WorkerOK, ManagerOK

LEMMA TypeStep == TypeInv /\ [Next]_vars => TypeInv'
<1> SUFFICES ASSUME TypeInv, [Next]_vars PROVE TypeInv'
  OBVIOUS
<1> USE NilAssumption, NoConnAssumption, BoundAssumption
    DEF TypeInv, TypeOK, WorkerOK, ManagerOK
<1>1. ASSUME NEW c \in Conns, ConnStep(c) PROVE TypeInv'
  <2>1. CASE Accept(c)
    BY <2>1 DEF Accept, registry, umVars, cmVars, muxVars, history
  <2>2. ASSUME NEW job \in Jobs, Receive(c, job) PROVE TypeInv'
    BY <2>2 DEF Receive, registry, umVars, cmVars, history
  <2>3. CASE Leave(c)
    BY <2>3 DEF Leave, registry, umVars, cmVars, muxVars
  <2>4. CASE CmUnregister(c)
    BY <2>4 DEF CmUnregister, registry, umVars, muxVars, history
  <2> QED BY <1>1, <2>1, <2>2, <2>3, <2>4 DEF ConnStep
<1>2. CASE CmClose
  BY <1>2 DEF CmClose, registry, umVars, muxVars, history
<1>3. ASSUME NEW w \in Workers, WorkerStep(w) PROVE TypeInv'
  <2> USE JobFields
  <2>1. CASE TakeJob(w)
    BY <2>1 DEF TakeJob, registry, umVars, connVars, cmVars, history
  <2>2. CASE Refuse(w)
    BY <2>2 DEF Refuse, Done, registry, umVars, connVars, cmVars, history
  <2>3. CASE Lookup(w)
    <3>1. CASE wjob[w].cmd = "login" /\ GoTo(w, "bind", users[wjob[w].id])
               /\ users[wjob[w].id] # Nil
      BY <2>3, <3>1
         DEF Lookup, GoTo, registry, umVars, connVars, cmVars, history
    <3>2. CASE GoTo(w, "load", Nil)
      BY <2>3, <3>2
         DEF Lookup, GoTo, registry, umVars, connVars, cmVars, history
    <3>3. CASE Done(w)
      BY <2>3, <3>3
         DEF Lookup, Done, registry, umVars, connVars, cmVars, history
    <3> QED BY <2>3, <3>1, <3>2, <3>3 DEF Lookup
  <2>4. CASE Load(w)
    <3>1. PICK o \in Objs :
            /\ ownerOf' = [ownerOf EXCEPT ![o] = wjob[w].id]
            /\ users' = IF users[wjob[w].id] = Nil
                        THEN [users EXCEPT ![wjob[w].id] = o]
                        ELSE users
            /\ \/ wjob[w].cmd = "login" /\ GoTo(w, "bind", o)
               \/ wjob[w].cmd = "register" /\ Done(w)
      BY <2>4 DEF Load
    <3>2. wjob[w] \in Jobs /\ wjob[w].id \in Ids
      BY <2>4 DEF Load
    <3>3. UNCHANGED <<conns, broadcast, umVars, connVars, cmVars, jobs, zuser,
                      history>>
      BY <2>4 DEF Load
    <3>4. users' \in [Ids -> Objs \cup {Nil}] /\ ownerOf' \in [Objs -> Ids \cup {Nil}]
      BY <3>1, <3>2
    <3>5. CASE wjob[w].cmd = "login" /\ GoTo(w, "bind", o)
      BY <2>4, <3>2, <3>3, <3>4, <3>5
         DEF GoTo, umVars, connVars, cmVars, history
    <3>6. CASE Done(w)
      BY <2>4, <3>2, <3>3, <3>4, <3>6
         DEF Done, umVars, connVars, cmVars, history
    <3> QED BY <3>1, <3>5, <3>6
  <2>5. CASE Bind(w)
    <3> DEFINE c == wjob[w].conn
    <3>1. c \in Conns /\ wjob[w].id \in Ids /\ wuser[w] \in Objs
      BY <2>5 DEF Bind
    <3>2. /\ user' = [user EXCEPT ![c] = wuser[w]]
          /\ bound' = [bound EXCEPT
                         ![c] = @ \cup {[id |-> wjob[w].id, obj |-> wuser[w]]}]
          /\ granted' = [granted EXCEPT ![c] = FALSE]
          /\ UNCHANGED <<registry, umVars, isClosed, phase, reqs, cmVars, jobs,
                         zuser, orderly, offered>>
      BY <2>5 DEF Bind
    <3>3. bound' \in [Conns -> SUBSET [id : Ids, obj : Objs]]
      BY <3>1, <3>2
    <3>4. /\ user' \in [Conns -> Objs \cup {Nil}]
          /\ granted' \in [Conns -> BOOLEAN]
          /\ \A d \in Conns : user[d] # Nil => user'[d] # Nil
          /\ user'[c] # Nil
      BY <3>1, <3>2
    <3>5. CASE GoTo(w, "join", wuser[w])
      <4>1. TypeOK'
        BY <3>1, <3>2, <3>3, <3>4, <3>5 DEF GoTo, registry, umVars, cmVars
      <4>2. WorkerOK'
        BY <2>5, <3>1, <3>4, <3>5 DEF GoTo, Bind
      <4>3. ManagerOK'
        BY <3>2, <3>4 DEF umVars, cmVars
      <4> QED BY <4>1, <4>2, <4>3
    <3>6. CASE Done(w)
      <4>1. TypeOK'
        BY <3>1, <3>2, <3>3, <3>4, <3>6 DEF Done, registry, umVars, cmVars
      <4>2. WorkerOK'
        BY <2>5, <3>1, <3>4, <3>6 DEF Done, Bind
      <4>3. ManagerOK'
        BY <3>2, <3>4 DEF umVars, cmVars
      <4> QED BY <4>1, <4>2, <4>3
    <3> QED BY <2>5, <3>5, <3>6 DEF Bind
  <2>6. CASE Authorize(w)
    BY <2>6 DEF Authorize, GoTo, registry, umVars, connVars, cmVars, history
  <2>7. CASE Publish(w)
    BY <2>7 DEF Publish, Done, umVars, connVars, cmVars, history, Messages
  <2>8. CASE UmTakeLogin(w)
    BY <2>8 DEF UmTakeLogin, Done, registry, umVars, connVars, cmVars
  <2> QED BY <1>3, <2>1, <2>2, <2>3, <2>4, <2>5, <2>6, <2>7, <2>8
          DEF WorkerStep, Local
<1>4. ASSUME NEW z \in ZmqWorkers, RelayStep(z) PROVE TypeInv'
  <2>1. ASSUME NEW id \in Ids, RelayLookup(z, id) PROVE TypeInv'
    BY <2>1 DEF RelayLookup, registry, umVars, connVars, cmVars, muxVars, history
  <2>2. CASE RelaySend(z)
    BY <2>2 DEF RelaySend, umVars, connVars, cmVars, muxVars, history, Messages
  <2> QED BY <1>4, <2>1, <2>2 DEF RelayStep
<1>5. CASE UmStep
  <2>1. CASE UmAdd
    BY <2>1 DEF UmAdd, UmIdle, connVars, cmVars, muxVars, history
  <2>2. CASE UmTakeLeave
    BY <2>2 DEF UmTakeLeave, registry, umVars, connVars, muxVars, history
  <2>3. CASE UmDel
    BY <2>3 DEF UmDel, connVars, cmVars, muxVars, history
  <2>4. CASE UmCheck
    BY <2>4 DEF UmCheck, UmIdle, registry, connVars, cmVars, muxVars, history
  <2>5. CASE UmDrop
    BY <2>5 DEF UmDrop, UmIdle, connVars, cmVars, muxVars, history
  <2>6. CASE UmBroadcast
    <3> DEFINE m == Head(broadcast)
    <3>1. m \in Messages /\ Tail(broadcast) \in Seq(Messages)
          /\ Len(Tail(broadcast)) <= BroadcastCap
      BY <2>6 DEF UmBroadcast
    <3>2. offered' \in [Conns -> SUBSET (Ids \cup {Nil})]
      BY <2>6, <3>1 DEF UmBroadcast, Messages
    <3> QED
      BY <2>6, <3>1, <3>2 DEF UmBroadcast, umVars, connVars, cmVars, muxVars
  <2> QED BY <1>5, <2>1, <2>2, <2>3, <2>4, <2>5, <2>6 DEF UmStep
<1>6. CASE UNCHANGED vars
  BY <1>6 DEF vars, registry, umVars, connVars, cmVars, muxVars, history
<1> QED BY <1>1, <1>2, <1>3, <1>4, <1>5, <1>6 DEF Next

(* Every reachable state of the registry is well typed. *)
THEOREM TypeCorrect == Spec => []TypeOK
<1>1. TypeInv => TypeOK
  BY DEF TypeInv
<1> QED BY TypeInit, TypeStep, <1>1, PTL DEF Spec

-----------------------------------------------------------------------------
(***************************************************************************)
(* LoginTakesEffect.  It is inductive once it is known where in its life   *)
(* the connection is that um, cm or a worker has in its hands: requests    *)
(* come from connections that were accepted, and whatever um deletes or    *)
(* ignores is past its reader.                                             *)
(***************************************************************************)
PhaseInv ==
  /\ \A i \in DOMAIN jobs : phase[jobs[i].conn] # "new"
  /\ \A w \in Workers : wpc[w] # "idle" => phase[wjob[w].conn] # "new"
  /\ \A c \in Conns : isClosed[c] => phase[c] = "gone"
  /\ \A c \in Conns : granted[c] => phase[c] # "new"
  /\ cmPc # "idle" => phase[cmConn] = "gone"
  /\ umPc \in {"del", "check", "drop"} => phase[umConn] = "gone"

LoginInv == PhaseInv /\ LoginTakesEffect

LEMMA LoginInit == Init => LoginInv
  BY DEF Init, LoginInv, PhaseInv, LoginTakesEffect

(* A worker that moves on or returns keeps its job or drops it. *)
LEMMA WorkerKeepsJob ==
  ASSUME TypeOK, NEW w \in Workers, wpc[w] # "idle",
         Done(w) \/ \E pc \in {"load", "bind", "join", "publish"},
                       o \in Objs \cup {Nil} : GoTo(w, pc, o)
  PROVE  \A v \in Workers :
           wpc'[v] # "idle" => wpc[v] # "idle" /\ wjob'[v] = wjob[v]
<1>1. CASE Done(w)
  BY <1>1 DEF Done, TypeOK
<1>2. ASSUME NEW pc \in {"load", "bind", "join", "publish"},
             NEW o \in Objs \cup {Nil}, GoTo(w, pc, o)
      PROVE  \A v \in Workers :
               wpc'[v] # "idle" => wpc[v] # "idle" /\ wjob'[v] = wjob[v]
  BY <1>2 DEF GoTo, TypeOK
<1> QED BY <1>1, <1>2

LEMMA LoginStep == TypeInv /\ LoginInv /\ [Next]_vars => LoginInv'
<1> SUFFICES ASSUME TypeInv, LoginInv, [Next]_vars PROVE LoginInv'
  OBVIOUS
<1> USE NilAssumption, NoConnAssumption
    DEF TypeInv, TypeOK, WorkerOK, ManagerOK,
        LoginInv, PhaseInv, LoginTakesEffect
<1>1. ASSUME NEW c \in Conns, ConnStep(c) PROVE LoginInv'
  <2>1. CASE Accept(c)
    BY <2>1, JobFields DEF Accept, registry, umVars, cmVars, muxVars, history
  <2>2. ASSUME NEW job \in Jobs, Receive(c, job) PROVE LoginInv'
    <3>1. \A i \in DOMAIN jobs' : jobs'[i] = job \/ \E j \in DOMAIN jobs : jobs'[i] = jobs[j]
      BY <2>2 DEF Receive
    <3> QED BY <2>2, <3>1 DEF Receive, registry, umVars, cmVars, history
  <2>3. CASE Leave(c)
    BY <2>3, JobFields DEF Leave, registry, umVars, cmVars, muxVars
  <2>4. CASE CmUnregister(c)
    BY <2>4, JobFields DEF CmUnregister, registry, umVars, muxVars, history
  <2> QED BY <1>1, <2>1, <2>2, <2>3, <2>4 DEF ConnStep
<1>2. CASE CmClose
  BY <1>2 DEF CmClose, registry, umVars, muxVars, history
<1>3. ASSUME NEW w \in Workers, WorkerStep(w) PROVE LoginInv'
  <2> USE JobFields
  <2>1. CASE TakeJob(w)
    <3>1. /\ \A i \in DOMAIN jobs' : \E j \in DOMAIN jobs : jobs'[i] = jobs[j]
          /\ Head(jobs) = jobs[1] /\ 1 \in DOMAIN jobs
      BY <2>1 DEF TakeJob
    <3> QED
      BY <2>1, <3>1 DEF TakeJob, registry, umVars, connVars, cmVars, history
  <2> DEFINE Kept == \A v \in Workers :
               wpc'[v] # "idle" => wpc[v] # "idle" /\ wjob'[v] = wjob[v]
  <2>2. CASE Refuse(w) \/ Lookup(w) \/ Load(w) \/ Authorize(w) \/ Publish(w)
    <3>1. /\ wpc[w] # "idle"
          /\ Done(w) \/ \E pc \in {"load", "bind", "join", "publish"},
                             o \in Objs \cup {Nil} : GoTo(w, pc, o)
      <4>1. CASE Lookup(w)
        <5>1. users[wjob[w].id] \in Objs \cup {Nil}
          BY <4>1 DEF Lookup
        <5> QED BY <4>1, <5>1 DEF Lookup
      <4> QED BY <2>2, <4>1 DEF Refuse, Load, Authorize, Publish
    <3>2. Kept
      BY <3>1, WorkerKeepsJob
    <3>3. UNCHANGED <<conns, umVars, connVars, cmVars, jobs, granted>>
      BY <2>2 DEF Refuse, Lookup, Load, Authorize, Publish, registry, history
    <3> HIDE DEF Kept
    <3>4. PhaseInv'
      BY <3>2, <3>3 DEF Kept, umVars, connVars, cmVars
    <3>5. LoginTakesEffect'
      BY <3>3 DEF umVars, connVars
    <3> QED BY <3>4, <3>5
  <2>3. CASE Bind(w)
    <3>1. /\ wpc[w] # "idle" /\ wuser[w] \in Objs
          /\ Done(w) \/ \E pc \in {"load", "bind", "join", "publish"},
                             o \in Objs \cup {Nil} : GoTo(w, pc, o)
      BY <2>3 DEF Bind
    <3>2. Kept
      BY <3>1, WorkerKeepsJob
    <3>3. /\ user' = [user EXCEPT ![wjob[w].conn] = wuser[w]]
          /\ granted' = [granted EXCEPT ![wjob[w].conn] = FALSE]
          /\ UNCHANGED <<conns, umVars, isClosed, phase, cmVars, jobs>>
      BY <2>3 DEF Bind, registry
    <3> HIDE DEF Kept
    <3>4. PhaseInv'
      BY <3>2, <3>3 DEF Kept, umVars, cmVars
    <3>5. LoginTakesEffect'
      BY <3>3 DEF umVars
    <3> QED BY <3>4, <3>5
  <2>4. CASE UmTakeLogin(w)
    <3>1. wpc[w] # "idle" /\ Done(w)
      BY <2>4 DEF UmTakeLogin
    <3>2. Kept
      BY <3>1, WorkerKeepsJob
    <3>3. /\ granted' = [granted EXCEPT ![wjob[w].conn] = TRUE]
          /\ UNCHANGED <<conns, user, isClosed, phase, cmVars, jobs>>
          /\ umPc = "idle" /\ wpc[w] = "join" /\ wjob[w].conn \in Conns
          /\ IF isClosed[wjob[w].conn]
             THEN UNCHANGED umVars
             ELSE umPc' = "add" /\ umConn' = wjob[w].conn
      BY <2>4 DEF UmTakeLogin, registry, connVars
    <3> HIDE DEF Kept
    <3>4. PhaseInv'
      BY <3>1, <3>2, <3>3 DEF Kept, cmVars, umVars
    <3>5. LoginTakesEffect'
      BY <3>3 DEF umVars
    <3> QED BY <3>4, <3>5
  <2> QED BY <1>3, <2>1, <2>2, <2>3, <2>4 DEF WorkerStep, Local
<1>4. ASSUME NEW z \in ZmqWorkers, RelayStep(z) PROVE LoginInv'
  BY <1>4 DEF RelayStep, RelayLookup, RelaySend, registry, umVars, connVars,
              cmVars, muxVars, history
<1>5. CASE UmStep
  <2>1. CASE UmAdd
    BY <2>1 DEF UmAdd, UmIdle, connVars, cmVars, muxVars, history
  <2>2. CASE UmTakeLeave
    BY <2>2 DEF UmTakeLeave, registry, umVars, connVars, muxVars, history
  <2>3. CASE UmDel
    BY <2>3 DEF UmDel, connVars, cmVars, muxVars, history
  <2>4. CASE UmCheck
    BY <2>4 DEF UmCheck, UmIdle, registry, connVars, cmVars, muxVars, history
  <2>5. CASE UmDrop
    BY <2>5 DEF UmDrop, UmIdle, connVars, cmVars, muxVars, history
  <2>6. CASE UmBroadcast
    BY <2>6 DEF UmBroadcast, umVars, connVars, cmVars, muxVars
  <2> QED BY <1>5, <2>1, <2>2, <2>3, <2>4, <2>5, <2>6 DEF UmStep
<1>6. CASE UNCHANGED vars
  BY <1>6 DEF vars, registry, umVars, connVars, cmVars, muxVars, history
<1> QED BY <1>1, <1>2, <1>3, <1>4, <1>5, <1>6 DEF Next

(* A granted login is in force as long as the connection is open. *)
THEOREM LoginsTakeEffect == Spec => []LoginTakesEffect
<1>1. LoginInv => LoginTakesEffect
  BY DEF LoginInv
<1> QED BY TypeInit, TypeStep, LoginInit, LoginStep, <1>1, PTL DEF Spec

-----------------------------------------------------------------------------
(***************************************************************************)
(* Isolation.  The objects a connection was bound to belong to the ids it  *)
(* logged in with, and every place an object is handed to a connection     *)
(* (the map, a worker, c.user, User.conns) keeps to them.                  *)
(***************************************************************************)
OwnerInv ==
  /\ \A i \in Ids : users[i] # Nil => ownerOf[users[i]] = i
  /\ \A w \in Workers :
       wpc[w] \in {"bind", "join"} => ownerOf[wuser[w]] = wjob[w].id
  /\ \A c \in Conns : \A b \in bound[c] : ownerOf[b.obj] = b.id
  /\ \A c \in Conns : user[c] # Nil => \E b \in bound[c] : b.obj = user[c]
  /\ \A o \in Objs : \A c \in conns[o] : \E b \in bound[c] : b.obj = o

IsolationInv == OwnerInv /\ Isolation

LEMMA IsolationInit == Init => IsolationInv
  BY DEF Init, IsolationInv, OwnerInv, Isolation

LEMMA IsolationStep == TypeInv /\ IsolationInv /\ [Next]_vars => IsolationInv'
<1> SUFFICES ASSUME TypeInv, IsolationInv, [Next]_vars PROVE IsolationInv'
  OBVIOUS
<1> USE NilAssumption, NoConnAssumption
    DEF TypeInv, TypeOK, WorkerOK, ManagerOK, IsolationInv, OwnerInv, Isolation
<1>1. ASSUME NEW c \in Conns, ConnStep(c) PROVE IsolationInv'
  BY <1>1 DEF ConnStep, Accept, Receive, Leave, CmUnregister,
              registry, umVars, cmVars, muxVars, history
<1>2. CASE CmClose
  BY <1>2 DEF CmClose, registry, umVars, muxVars, history
<1>3. ASSUME NEW w \in Workers, WorkerStep(w) PROVE IsolationInv'
  <2> USE JobFields
  <2>1. CASE TakeJob(w)
    BY <2>1 DEF TakeJob, registry, umVars, connVars, cmVars, history
  <2>2. CASE Refuse(w)
    BY <2>2 DEF Refuse, Done, registry, umVars, connVars, cmVars, history
  <2>3. CASE Lookup(w)
    BY <2>3 DEF Lookup, Done, GoTo, registry, umVars, connVars, cmVars, history
  <2>4. CASE Load(w)
    <3>1. PICK o \in Objs :
            /\ ownerOf[o] = Nil
            /\ ownerOf' = [ownerOf EXCEPT ![o] = wjob[w].id]
            /\ users' = IF users[wjob[w].id] = Nil
                        THEN [users EXCEPT ![wjob[w].id] = o]
                        ELSE users
            /\ \/ wjob[w].cmd = "login" /\ GoTo(w, "bind", o)
               \/ wjob[w].cmd = "register" /\ Done(w)
      BY <2>4 DEF Load
    <3>2. wjob[w] \in Jobs /\ wjob[w].id \in Ids
      BY <2>4 DEF Load
    <3>3. UNCHANGED <<conns, user, bound, offered>>
      BY <2>4 DEF Load, connVars, history
    <3>4. \A p \in Objs : ownerOf[p] # Nil => ownerOf'[p] = ownerOf[p]
      BY <3>1
    <3>5. ownerOf'[o] = wjob[w].id
      BY <3>1
    <3>6. \A i \in Ids : users'[i] # Nil => ownerOf'[users'[i]] = i
      BY <3>1, <3>2, <3>4, <3>5
    <3>7. \A v \in Workers :
            wpc'[v] \in {"bind", "join"} => ownerOf'[wuser'[v]] = wjob'[v].id
      <4>1. \A v \in Workers : wpc[v] \in {"bind", "join"}
              => ownerOf[wuser[v]] # Nil
        OBVIOUS
      <4> QED BY <3>1, <3>4, <3>5, <4>1 DEF GoTo, Done
    <3>8. \A c \in Conns : \A b \in bound'[c] : ownerOf'[b.obj] = b.id
      BY <3>3, <3>4
    <3> QED BY <3>3, <3>6, <3>7, <3>8
  <2>5. CASE Bind(w)
    <3> DEFINE c == wjob[w].conn
               new == [id |-> wjob[w].id, obj |-> wuser[w]]
    <3>1. c \in Conns /\ wjob[w].id \in Ids /\ wuser[w] \in Objs
      BY <2>5 DEF Bind
    <3>2. /\ user' = [user EXCEPT ![c] = wuser[w]]
          /\ bound' = [bound EXCEPT ![c] = @ \cup {new}]
          /\ UNCHANGED <<users, ownerOf, conns, offered>>
      BY <2>5 DEF Bind, registry
    <3>3. new.obj = wuser[w] /\ new.id = wjob[w].id /\ ownerOf[new.obj] = new.id
      BY <2>5 DEF Bind
    <3>4. \A d \in Conns : bound[d] \subseteq bound'[d]
      BY <3>2
    <3>5. new \in bound'[c] /\ \A d \in Conns : \A b \in bound'[d] :
            b \in bound[d] \/ b = new
      BY <3>1, <3>2
    <3>6. \A v \in Workers :
            wpc'[v] \in {"bind", "join"} => ownerOf'[wuser'[v]] = wjob'[v].id
      BY <2>5, <3>2 DEF Bind, GoTo, Done
    <3>7. \A d \in Conns : \A b \in bound'[d] : ownerOf'[b.obj] = b.id
      BY <3>2, <3>3, <3>5
    <3>8. \A d \in Conns : user'[d] # Nil => \E b \in bound'[d] : b.obj = user'[d]
      BY <3>1, <3>2, <3>3, <3>4, <3>5
    <3> QED BY <3>2, <3>4, <3>6, <3>7, <3>8
  <2>6. CASE Authorize(w)
    BY <2>6 DEF Authorize, GoTo, registry, umVars, connVars, cmVars, history
  <2>7. CASE Publish(w)
    BY <2>7 DEF Publish, Done, umVars, connVars, cmVars, history
  <2>8. CASE UmTakeLogin(w)
    BY <2>8 DEF UmTakeLogin, Done, registry, umVars, connVars, cmVars
  <2> QED BY <1>3, <2>1, <2>2, <2>3, <2>4, <2>5, <2>6, <2>7, <2>8
          DEF WorkerStep, Local
<1>4. ASSUME NEW z \in ZmqWorkers, RelayStep(z) PROVE IsolationInv'
  BY <1>4 DEF RelayStep, RelayLookup, RelaySend, registry, umVars, connVars,
              cmVars, muxVars, history
<1>5. CASE UmStep
  <2>1. CASE UmAdd
    BY <2>1 DEF UmAdd, UmIdle, connVars, cmVars, muxVars, history
  <2>2. CASE UmTakeLeave
    BY <2>2 DEF UmTakeLeave, registry, umVars, connVars, muxVars, history
  <2>3. CASE UmDel
    BY <2>3 DEF UmDel, connVars, cmVars, muxVars, history
  <2>4. CASE UmCheck
    BY <2>4 DEF UmCheck, UmIdle, registry, connVars, cmVars, muxVars, history
  <2>5. CASE UmDrop
    BY <2>5 DEF UmDrop, UmIdle, connVars, cmVars, muxVars, history
  <2>6. CASE UmBroadcast
    <3>1. Head(broadcast) \in Messages
      BY <2>6 DEF UmBroadcast
    <3>2. Head(broadcast).user \in Objs
      BY <3>1 DEF Messages
    <3> QED BY <2>6, <3>2 DEF UmBroadcast, umVars, connVars, cmVars, muxVars
  <2> QED BY <1>5, <2>1, <2>2, <2>3, <2>4, <2>5, <2>6 DEF UmStep
<1>6. CASE UNCHANGED vars
  BY <1>6 DEF vars, registry, umVars, connVars, cmVars, muxVars, history
<1> QED BY <1>1, <1>2, <1>3, <1>4, <1>5, <1>6 DEF Next

(* A connection is offered only messages of users it logged in as. *)
THEOREM ConnectionsAreIsolated == Spec => []Isolation
<1>1. IsolationInv => Isolation
  BY DEF IsolationInv
<1> QED BY TypeInit, TypeStep, IsolationInit, IsolationStep, <1>1, PTL DEF Spec

-----------------------------------------------------------------------------
(***************************************************************************)
(* CrashNeedsSecondUser.  um holds the lock of an object the connection    *)
(* was bound to, and so is the object it finds in c.user when it unlocks.  *)
(* The rest of SessionInv serves the theorems after this one: what a       *)
(* connection that left in order still has in the registry.                *)
(***************************************************************************)
SessionInv ==
  /\ \A c \in Conns : IsFiniteSet(bound[c])
  /\ \A c \in Conns : bound[c] # {} => user[c] # Nil
  /\ \A w \in Workers : wpc[w] \in {"bind", "join"} => wjob[w].cmd = "login"
  /\ cmPc # "idle" => ~isClosed[cmConn]
  /\ umPc # "idle" => \E b \in bound[umConn] : b.obj = umUser
  /\ Crashed => \E a, b \in bound[umConn] : a.obj # b.obj

(* A connection that left in order has no login under way any more and was *)
(* bound to one object at most.                                            *)
OrderlyInv ==
  \A c \in Conns :
    orderly[c] => /\ phase[c] \in {"leaving", "gone"}
                  /\ \A a, b \in bound[c] : a = b
                  /\ ~LoginUnderWay(c)

LEMMA FewElements ==
  ASSUME NEW S, IsFiniteSet(S)
  PROVE  /\ Cardinality(S) <= 1 => \A a, b \in S : a = b
         /\ \A a, b \in S : a # b => Cardinality(S) > 1
<1>1. Cardinality(S) \in Nat
  BY FS_CardinalityType
<1>2. Cardinality(S) = 0 => S = {}
  BY FS_EmptySet
<1>3. Cardinality(S) = 1 => \E x : S = {x}
  BY FS_Singleton
<1> QED BY <1>1, <1>2, <1>3

LEMMA SessionInit == Init => SessionInv /\ OrderlyInv
  BY FS_EmptySet DEF Init, SessionInv, OrderlyInv, Crashed

LEMMA SessionStep ==
  TypeInv /\ LoginInv /\ IsolationInv /\ SessionInv /\ [Next]_vars => SessionInv'
<1> SUFFICES ASSUME TypeInv, LoginInv, IsolationInv, SessionInv, [Next]_vars
             PROVE  SessionInv'
  OBVIOUS
<1> USE NilAssumption, NoConnAssumption
    DEF TypeInv, TypeOK, WorkerOK, ManagerOK, LoginInv, PhaseInv, IsolationInv,
        OwnerInv, SessionInv, Crashed, Running
<1>1. ASSUME NEW c \in Conns, ConnStep(c) PROVE SessionInv'
  BY <1>1 DEF ConnStep, Accept, Receive, Leave, CmUnregister,
              registry, umVars, cmVars, muxVars, history
<1>2. CASE CmClose
  BY <1>2 DEF CmClose, registry, umVars, muxVars, history
<1>3. ASSUME NEW w \in Workers, WorkerStep(w) PROVE SessionInv'
  <2> USE JobFields
  <2>1. CASE TakeJob(w)
    <3>1. \A v \in Workers : wpc'[v] \in {"bind", "join"} => wjob'[v].cmd = "login"
      BY <2>1 DEF TakeJob
    <3> QED BY <2>1, <3>1 DEF TakeJob, registry, umVars, connVars, cmVars, history
  <2>7. CASE Refuse(w)
    BY <2>7 DEF Refuse, Done, registry, umVars, connVars, cmVars, history
  <2>2. CASE Lookup(w)
    <3>1. \A v \in Workers : wpc'[v] \in {"bind", "join"} => wjob'[v].cmd = "login"
      BY <2>2 DEF Lookup, Done, GoTo
    <3> QED BY <2>2, <3>1 DEF Lookup, umVars, connVars, cmVars, history
  <2>3. CASE Load(w)
    BY <2>3 DEF Load, Done, GoTo, umVars, connVars, cmVars, history
  <2>4. CASE Bind(w)
    <3> DEFINE c == wjob[w].conn
               new == [id |-> wjob[w].id, obj |-> wuser[w]]
    <3>1. c \in Conns /\ wuser[w] \in Objs
      BY <2>4 DEF Bind
    <3>2. /\ user' = [user EXCEPT ![c] = wuser[w]]
          /\ bound' = [bound EXCEPT ![c] = @ \cup {new}]
          /\ UNCHANGED <<isClosed, umVars, cmVars>> /\ ~Crashed
          /\ wpc[w] = "bind" /\ (GoTo(w, "join", wuser[w]) \/ Done(w))
      BY <2>4 DEF Bind
    <3> HIDE DEF c, new
    <3>3. \A d \in Conns : IsFiniteSet(bound'[d])
      <4>1. IsFiniteSet(bound[c] \cup {new})
        BY <3>1, FS_AddElement
      <4>2. \A d \in Conns : bound'[d] = IF d = c THEN bound[c] \cup {new} ELSE bound[d]
        BY <3>1, <3>2
      <4> QED BY <4>1, <4>2
    <3>4. \A d \in Conns : bound[d] \subseteq bound'[d]
      BY <3>1, <3>2
    <3>5. \A d \in Conns : bound'[d] # {} => user'[d] # Nil
      BY <3>1, <3>2
    <3>6. \A v \in Workers : wpc'[v] \in {"bind", "join"} => wjob'[v].cmd = "login"
      BY <3>2 DEF GoTo, Done
    <3> QED BY <3>2, <3>3, <3>4, <3>5, <3>6 DEF umVars, cmVars
  <2>5. CASE Authorize(w) \/ Publish(w)
    BY <2>5 DEF Authorize, Publish, GoTo, Done, registry, umVars, connVars, cmVars,
                history
  <2>6. CASE UmTakeLogin(w)
    BY <2>6 DEF UmTakeLogin, Done, registry, umVars, connVars, cmVars
  <2> QED BY <1>3, <2>1, <2>2, <2>3, <2>4, <2>5, <2>6, <2>7 DEF WorkerStep, Local
<1>4. ASSUME NEW z \in ZmqWorkers, RelayStep(z) PROVE SessionInv'
  BY <1>4 DEF RelayStep, RelayLookup, RelaySend, registry, umVars, connVars,
              cmVars, muxVars, history
<1>5. CASE UmStep
  <2>1. CASE UmAdd \/ UmDel
    <3>1. \E b \in bound[umConn] : b.obj = user[umConn]
      BY <2>1 DEF UmAdd, UmDel
    <3> QED BY <2>1, <3>1 DEF UmAdd, UmDel, UmIdle, connVars, cmVars, muxVars, history
  <2>2. CASE UmTakeLeave
    BY <2>2 DEF UmTakeLeave, registry, umVars, connVars, muxVars, history
  <2>3. CASE UmCheck \/ UmDrop \/ UmBroadcast
    BY <2>3 DEF UmCheck, UmDrop, UmBroadcast, UmIdle, registry, umVars, connVars,
                cmVars, muxVars, history
  <2> QED BY <1>5, <2>1, <2>2, <2>3 DEF UmStep
<1>6. CASE UNCHANGED vars
  BY <1>6 DEF vars, registry, umVars, connVars, cmVars, muxVars, history
<1> QED BY <1>1, <1>2, <1>3, <1>4, <1>5, <1>6 DEF Next

LEMMA OrderlyStep ==
  TypeInv /\ LoginInv /\ SessionInv /\ OrderlyInv /\ [Next]_vars => OrderlyInv'
<1> SUFFICES ASSUME TypeInv, LoginInv, SessionInv, OrderlyInv, [Next]_vars,
                    NEW d \in Conns, orderly'[d]
             PROVE  /\ phase'[d] \in {"leaving", "gone"}
                    /\ \A a, b \in bound'[d] : a = b
                    /\ ~LoginUnderWay(d)'
  BY DEF OrderlyInv
<1> USE NilAssumption, NoConnAssumption
    DEF TypeInv, TypeOK, WorkerOK, ManagerOK, LoginInv, PhaseInv, SessionInv, Running
<1>1. ASSUME NEW c \in Conns, ConnStep(c)
      PROVE  /\ phase'[d] \in {"leaving", "gone"}
             /\ \A a, b \in bound'[d] : a = b
             /\ ~LoginUnderWay(d)'
  <2>1. CASE Accept(c) \/ CmUnregister(c)
    BY <2>1 DEF Accept, CmUnregister, OrderlyInv, LoginUnderWay, registry, umVars,
                cmVars, muxVars, history
  <2>2. ASSUME NEW job \in Jobs, Receive(c, job)
        PROVE  /\ phase'[d] \in {"leaving", "gone"}
               /\ \A a, b \in bound'[d] : a = b
               /\ ~LoginUnderWay(d)'
    <3>1. \A i \in DOMAIN jobs' : jobs'[i] = job \/ \E j \in DOMAIN jobs : jobs'[i] = jobs[j]
      BY <2>2 DEF Receive
    <3> QED BY <2>2, <3>1 DEF Receive, OrderlyInv, LoginUnderWay, IsLoginOf, history
  <2>3. CASE Leave(c)
    BY <2>3, FewElements DEF Leave, OrderlyInv, LoginUnderWay, muxVars
  <2> QED BY <1>1, <2>1, <2>2, <2>3 DEF ConnStep
<1>2. CASE UNCHANGED <<phase, orderly, bound, muxVars>>
  BY <1>2 DEF OrderlyInv, LoginUnderWay, muxVars
<1>3. ASSUME NEW w \in Workers, WorkerStep(w)
      PROVE  /\ phase'[d] \in {"leaving", "gone"}
             /\ \A a, b \in bound'[d] : a = b
             /\ ~LoginUnderWay(d)'
  <2>1. UNCHANGED <<phase, orderly>>
    BY <1>3 DEF WorkerStep, Local, TakeJob, Refuse, Lookup, Load, Bind, Authorize,
                Publish, UmTakeLogin, connVars, history
  <2>2. OrderlyInv /\ orderly[d]
    BY <2>1
  <2>3. CASE TakeJob(w)
    <3>1. /\ \A i \in DOMAIN jobs' : \E j \in DOMAIN jobs : jobs'[i] = jobs[j]
          /\ Head(jobs) = jobs[1] /\ 1 \in DOMAIN jobs
          /\ UNCHANGED bound
      BY <2>3 DEF TakeJob, history
    <3> QED BY <2>1, <2>2, <2>3, <3>1 DEF TakeJob, OrderlyInv, LoginUnderWay
  <2>4. CASE ~TakeJob(w)
    <3>1. /\ wpc[w] # "idle" /\ UNCHANGED jobs
          /\ Done(w) \/ \E pc \in {"load", "bind", "join", "publish"},
                             o \in Objs \cup {Nil} : GoTo(w, pc, o)
      <4>1. CASE Lookup(w)
        <5>1. users[wjob[w].id] \in Objs \cup {Nil}
          BY <4>1, JobFields DEF Lookup
        <5> QED BY <4>1, <5>1 DEF Lookup
      <4>2. CASE Load(w) \/ Bind(w)
        BY <4>2 DEF Load, Bind
      <4> QED BY <1>3, <2>4, <4>1, <4>2 DEF WorkerStep, Local, Refuse, Authorize,
              Publish, UmTakeLogin
    <3>2. \A v \in Workers :
            wpc'[v] # "idle" => wpc[v] # "idle" /\ wjob'[v] = wjob[v]
      BY <3>1, WorkerKeepsJob
    <3>3. ~LoginUnderWay(d)'
      BY <2>2, <3>1, <3>2 DEF OrderlyInv, LoginUnderWay
    <3>4. bound'[d] = bound[d]
      <4>1. CASE Bind(w)
        <5>1. wjob[w].cmd = "login" /\ wpc[w] # "idle"
          BY <4>1 DEF Bind
        <5>2. wjob[w].conn # d
          BY <2>2, <5>1 DEF OrderlyInv, LoginUnderWay, IsLoginOf
        <5> QED BY <4>1, <5>2 DEF Bind
      <4>2. CASE ~Bind(w)
        BY <1>3, <2>4, <4>2 DEF WorkerStep, Local, Refuse, Lookup, Load, Authorize,
                   Publish, UmTakeLogin, history
      <4> QED BY <4>1, <4>2
    <3> QED BY <2>1, <2>2, <3>3, <3>4 DEF OrderlyInv
  <2> QED BY <2>3, <2>4
<1>4. CASE CmClose \/ UmStep \/ \E z \in ZmqWorkers : RelayStep(z)
  BY <1>2, <1>4 DEF CmClose, RelayStep, RelayLookup, RelaySend, UmStep, UmAdd,
     UmTakeLeave, UmDel, UmCheck, UmDrop, UmBroadcast, connVars, muxVars, history
<1>5. CASE UNCHANGED vars
  BY <1>2, <1>5 DEF vars, connVars, muxVars, history
<1> QED BY <1>1, <1>3, <1>4, <1>5 DEF Next

SafeInv ==
  /\ TypeInv /\ LoginInv /\ IsolationInv /\ SessionInv /\ OrderlyInv

LEMMA SafeInvariant == Spec => []SafeInv
<1>1. Init => SafeInv
  BY TypeInit, LoginInit, IsolationInit, SessionInit DEF SafeInv
<1>2. SafeInv /\ [Next]_vars => SafeInv'
  BY TypeStep, LoginStep, IsolationStep, SessionStep, OrderlyStep DEF SafeInv
<1> QED BY <1>1, <1>2, PTL DEF Spec

(* um unlocks a mutex it does not hold only after a connection was logged  *)
(* in with two User objects (user.go:176-178, 182-184).                    *)
THEOREM CrashesNeedSecondUser == Spec => []CrashNeedsSecondUser
<1>1. SafeInv => CrashNeedsSecondUser
  <2> SUFFICES ASSUME SafeInv, Crashed PROVE Cardinality(ObjectsOf(umConn)) > 1
    BY DEF CrashNeedsSecondUser
  <2>1. umConn \in Conns /\ IsFiniteSet(bound[umConn])
    BY DEF SafeInv, TypeInv, ManagerOK, SessionInv, Crashed
  <2>2. IsFiniteSet(ObjectsOf(umConn))
    <3> DEFINE f == [b \in bound[umConn] |-> b.obj]
    <3>1. f \in Surjection(bound[umConn], ObjectsOf(umConn))
      BY DEF Surjection, ObjectsOf
    <3> QED BY <2>1, <3>1, FS_Surjection
  <2>3. \E a, b \in ObjectsOf(umConn) : a # b
    BY DEF SafeInv, SessionInv, ObjectsOf
  <2> QED BY <2>2, <2>3, FewElements
<1> QED BY <1>1, SafeInvariant, PTL

-----------------------------------------------------------------------------
(***************************************************************************)
(* CleanLeave and LastLeaverDropsUser.  um has taken the departure of a    *)
(* connection that has passed: if it left in order, um will not list it    *)
(* again, and lists it only until the deletion.                            *)
(***************************************************************************)
Passed(c) == phase[c] = "gone" /\ ~(cmPc = "handover" /\ cmConn = c)

GoneInv ==
  /\ \A c \in Conns : isClosed[c] => Passed(c)
  /\ \A c \in Conns : orderly[c] /\ Passed(c) /\ umConn = c => umPc # "add"
  /\ \A c \in Conns :
       orderly[c] /\ Passed(c) /\ ~(umPc = "del" /\ umConn = c)
         => \A o \in Objs : c \notin conns[o]

UsedBy(o) == {c \in Conns : o \in ObjectsOf(c)}

LastInv ==
  \A o \in Objs :
    UsedBy(o) # {} /\ (\A c \in UsedBy(o) : orderly[c] /\ Passed(c) /\ umConn # c)
      => \A i \in Ids : users[i] # o

LEMMA GoneInit == Init => GoneInv /\ LastInv
<1> SUFFICES ASSUME Init PROVE GoneInv /\ LastInv
  OBVIOUS
<1>1. GoneInv
  BY DEF Init, GoneInv, Passed
<1>2. \A i \in Ids, o \in Objs : users[i] # o
  BY NilAssumption DEF Init
<1>3. LastInv
  BY <1>2 DEF LastInv
<1> QED BY <1>1, <1>3

LEMMA GoneStep == SafeInv /\ GoneInv /\ [Next]_vars => GoneInv'
<1> SUFFICES ASSUME SafeInv, GoneInv, [Next]_vars PROVE GoneInv'
  OBVIOUS
<1> USE NilAssumption, NoConnAssumption
    DEF SafeInv, TypeInv, TypeOK, ManagerOK, LoginInv, PhaseInv, GoneInv, Passed
<1>1. CASE UNCHANGED <<conns, umPc, umConn, isClosed, phase, cmVars, orderly>>
  BY <1>1 DEF cmVars
<1>2. ASSUME NEW c \in Conns, ConnStep(c) PROVE GoneInv'
  <2>1. CASE Accept(c)
    BY <2>1 DEF Accept, OrderlyInv, registry, umVars, cmVars, history
  <2>2. ASSUME NEW job \in Jobs, Receive(c, job) PROVE GoneInv'
    BY <1>1, <2>2 DEF Receive, registry, umVars, history
  <2>3. CASE Leave(c)
    BY <2>3 DEF Leave, registry, umVars, cmVars
  <2>4. CASE CmUnregister(c)
    BY <2>4 DEF CmUnregister, registry, umVars, history
  <2> QED BY <1>2, <2>1, <2>2, <2>3, <2>4 DEF ConnStep
<1>3. CASE CmClose
  BY <1>3 DEF CmClose, registry, umVars, history
<1>4. ASSUME NEW w \in Workers, WorkerStep(w) PROVE GoneInv'
  <2>1. CASE Local(w) \/ Publish(w)
    BY <1>1, <2>1 DEF Local, TakeJob, Refuse, Lookup, Load, Bind, Authorize, Publish,
       registry, umVars, connVars, history
  <2>2. CASE UmTakeLogin(w)
    <3> DEFINE c == wjob[w].conn
    <3>1. c \in Conns /\ wpc[w] = "join" /\ wjob[w].cmd = "login"
      BY <2>2, JobFields DEF UmTakeLogin, WorkerOK, SessionInv
    <3>2. ~orderly[c]
      BY <3>1 DEF OrderlyInv, LoginUnderWay, IsLoginOf
    <3>3. /\ umPc = "idle" /\ umConn = NoConn
          /\ UNCHANGED <<conns, isClosed, phase, cmPc, cmConn, orderly>>
          /\ UNCHANGED umVars \/ (umPc' = "add" /\ umConn' = c)
      BY <2>2 DEF UmTakeLogin, registry, connVars, cmVars
    <3> HIDE DEF c
    <3> QED BY <3>1, <3>2, <3>3 DEF umVars
  <2> QED BY <1>4, <2>1, <2>2 DEF WorkerStep
<1>5. ASSUME NEW z \in ZmqWorkers, RelayStep(z) PROVE GoneInv'
  BY <1>1, <1>5 DEF RelayStep, RelayLookup, RelaySend, registry, umVars, connVars,
     history
<1>6. CASE UmStep
  <2>1. CASE UmAdd
    <3>1. /\ umPc = "add" /\ user[umConn] \in Objs /\ umConn \in Conns
          /\ conns' = [conns EXCEPT ![user[umConn]] = @ \cup {umConn}]
          /\ umPc' \in {"idle", "crashed"}
          /\ UNCHANGED <<isClosed, phase, cmPc, cmConn, orderly>>
      BY <2>1 DEF UmAdd, UmIdle, connVars, cmVars, history
    <3>2. umConn' # NoConn => umConn' = umConn
      BY <2>1 DEF UmAdd, UmIdle
    <3>3. ASSUME NEW d \in Conns, orderly[d], Passed(d)
          PROVE  \A o \in Objs : d \notin conns'[o]
      <4>1. d # umConn
        BY <3>1, <3>3
      <4> QED BY <3>1, <3>3, <4>1
    <3> QED BY <3>1, <3>2, <3>3
  <2>2. CASE UmTakeLeave
    <3>1. /\ umPc = "idle" /\ umConn = NoConn /\ cmPc = "handover" /\ cmPc' = "close"
          /\ cmConn \in Conns
          /\ UNCHANGED <<conns, isClosed, phase, cmConn, orderly>>
          /\ IF user[cmConn] = Nil THEN UNCHANGED <<umPc, umConn>>
             ELSE umPc' = "del" /\ umConn' = cmConn
      BY <2>2 DEF UmTakeLeave, umVars, registry, connVars, history
    <3>2. user[cmConn] = Nil => \A o \in Objs : cmConn \notin conns[o]
      BY <3>1 DEF SessionInv, IsolationInv, OwnerInv
    <3>3. \A c \in Conns : isClosed[c] => Passed(c)'
      BY <3>1
    <3>4. \A c \in Conns : umConn' = c => umPc' # "add"
      BY <3>1
    <3>5. ASSUME NEW c \in Conns, orderly[c], Passed(c)',
                 ~(umPc' = "del" /\ umConn' = c)
          PROVE  \A o \in Objs : c \notin conns[o]
      <4>1. CASE c = cmConn
        BY <3>1, <3>2, <3>5, <4>1
      <4>2. CASE c # cmConn
        BY <3>1, <3>5, <4>2
      <4> QED BY <4>1, <4>2
    <3> QED BY <3>1, <3>3, <3>4, <3>5
  <2>3. CASE UmDel
    <3>1. /\ umPc = "del" /\ user[umConn] \in Objs /\ umConn \in Conns
          /\ conns' = [conns EXCEPT ![user[umConn]] = @ \ {umConn}]
          /\ umPc' \in {"check", "crashed"}
          /\ UNCHANGED <<umConn, isClosed, phase, cmPc, cmConn, orderly>>
      BY <2>3 DEF UmDel, connVars, cmVars, history
    <3>2. orderly[umConn] => \A o \in Objs : umConn \in conns[o] => o = user[umConn]
      BY <3>1 DEF OrderlyInv, IsolationInv, OwnerInv
    <3> QED BY <3>1, <3>2
  <2>4. CASE UmCheck \/ UmDrop
    BY <2>4 DEF UmCheck, UmDrop, UmIdle, registry, connVars, cmVars, history
  <2>5. CASE UmBroadcast
    BY <1>1, <2>5 DEF UmBroadcast, umVars, connVars
  <2> QED BY <1>6, <2>1, <2>2, <2>3, <2>4, <2>5 DEF UmStep
<1>7. CASE UNCHANGED vars
  BY <1>1, <1>7 DEF vars, registry, umVars, connVars, history
<1> QED BY <1>2, <1>3, <1>4, <1>5, <1>6, <1>7 DEF Next

(* The map gets no object that was in use, and um is done with no member   *)
(* of an object that is still there without having dropped it.             *)
LEMMA LastStep == SafeInv /\ GoneInv /\ LastInv /\ [Next]_vars => LastInv'
<1> SUFFICES ASSUME SafeInv, GoneInv, LastInv, [Next]_vars,
                    NEW o \in Objs, UsedBy(o)' # {},
                    \A c \in UsedBy(o)' : orderly'[c] /\ Passed(c)' /\ umConn' # c
             PROVE  \A i \in Ids : users'[i] # o
  BY DEF LastInv
<1> USE NilAssumption, NoConnAssumption
    DEF SafeInv, TypeInv, TypeOK, ManagerOK, Passed
<1> DEFINE Out(c) == orderly[c] /\ Passed(c) /\ umConn # c
<1>1. UsedBy(o) # {} /\ (\A c \in UsedBy(o) : Out(c)) => \A i \in Ids : users[i] # o
  BY DEF LastInv
<1>2. CASE UNCHANGED <<users, umConn, phase, cmPc, cmConn, orderly, bound>>
  BY <1>1, <1>2 DEF UsedBy, ObjectsOf
<1>3. ASSUME NEW c \in Conns, ConnStep(c) PROVE \A i \in Ids : users'[i] # o
  <2>1. UNCHANGED <<users, umConn, bound>>
    BY <1>3 DEF ConnStep, Accept, Receive, Leave, CmUnregister, registry, umVars, history
  <2>2. UsedBy(o)' = UsedBy(o)
    BY <2>1 DEF UsedBy, ObjectsOf
  <2>3. \A d \in Conns : orderly'[d] /\ Passed(d)' => orderly[d] /\ Passed(d)
    BY <1>3 DEF ConnStep, Accept, Receive, Leave, CmUnregister, cmVars, history
  <2>4. UsedBy(o) \subseteq Conns
    BY DEF UsedBy
  <2> QED BY <1>1, <2>1, <2>2, <2>3, <2>4
<1>4. CASE CmClose
  <2>1. UNCHANGED <<users, umConn, bound, orderly, phase>> /\ cmPc = "close"
    BY <1>4 DEF CmClose, registry, umVars, history
  <2>2. UsedBy(o)' = UsedBy(o)
    BY <2>1 DEF UsedBy, ObjectsOf
  <2> QED BY <1>1, <2>1, <2>2
<1>5. ASSUME NEW w \in Workers, WorkerStep(w) PROVE \A i \in Ids : users'[i] # o
  <2>1. CASE TakeJob(w) \/ Refuse(w) \/ Lookup(w) \/ Authorize(w) \/ Publish(w)
    BY <1>2, <2>1 DEF TakeJob, Refuse, Lookup, Authorize, Publish,
       registry, umVars, connVars, cmVars, history
  <2>2. CASE Load(w)
    <3>1. PICK p \in Objs :
            /\ ownerOf[p] = Nil
            /\ users' = IF users[wjob[w].id] = Nil
                        THEN [users EXCEPT ![wjob[w].id] = p]
                        ELSE users
      BY <2>2 DEF Load
    <3>2. UNCHANGED <<umConn, phase, cmPc, cmConn, orderly, bound>>
      BY <2>2 DEF Load, umVars, connVars, cmVars, history
    <3>3. UsedBy(o)' = UsedBy(o)
      BY <3>2 DEF UsedBy, ObjectsOf
    <3>4. \A c \in Conns : \A b \in bound[c] : b.obj # p
      BY <3>1 DEF IsolationInv, OwnerInv
    <3>5. o # p
      BY <3>3, <3>4 DEF UsedBy, ObjectsOf
    <3> QED BY <1>1, <3>1, <3>2, <3>3, <3>5
  <2>3. CASE Bind(w)
    <3> DEFINE c == wjob[w].conn
    <3>1. c \in Conns /\ wpc[w] = "bind" /\ wjob[w].cmd = "login"
      BY <2>3, JobFields DEF Bind, WorkerOK, SessionInv
    <3>2. ~orderly[c]
      BY <3>1 DEF OrderlyInv, LoginUnderWay, IsLoginOf
    <3>3. /\ bound' = [bound EXCEPT
                        ![c] = @ \cup {[id |-> wjob[w].id, obj |-> wuser[w]]}]
          /\ UNCHANGED <<users, umConn, phase, cmPc, cmConn, orderly>>
      BY <2>3 DEF Bind, registry, umVars, cmVars
    <3> HIDE DEF c
    <3>4. c \notin UsedBy(o)'
      BY <3>2, <3>3
    <3>5. UsedBy(o)' = UsedBy(o)
      BY <3>1, <3>3, <3>4 DEF UsedBy, ObjectsOf
    <3> QED BY <1>1, <3>3, <3>5
  <2>4. CASE UmTakeLogin(w)
    <3>1. /\ umConn = NoConn
          /\ UNCHANGED <<users, phase, cmPc, cmConn, orderly, bound>>
      BY <2>4 DEF UmTakeLogin, registry, connVars, cmVars
    <3>2. UsedBy(o)' = UsedBy(o) /\ UsedBy(o) \subseteq Conns
      BY <3>1 DEF UsedBy, ObjectsOf
    <3> QED BY <1>1, <3>1, <3>2
  <2> QED BY <1>5, <2>1, <2>2, <2>3, <2>4 DEF WorkerStep, Local
<1>6. ASSUME NEW z \in ZmqWorkers, RelayStep(z) PROVE \A i \in Ids : users'[i] # o
  BY <1>2, <1>6 DEF RelayStep, RelayLookup, RelaySend, registry, umVars, connVars,
     cmVars, history
<1>7. CASE UmStep
  <2>1. UNCHANGED <<phase, orderly, bound>>
    BY <1>7 DEF UmStep, UmAdd, UmTakeLeave, UmDel, UmCheck, UmDrop, UmBroadcast,
                connVars, history
  <2>2. UsedBy(o)' = UsedBy(o) /\ UsedBy(o) \subseteq Conns
    BY <2>1 DEF UsedBy, ObjectsOf
  <2>3. CASE UmAdd
    <3>1. umPc = "add" /\ UNCHANGED <<users, cmPc, cmConn>>
      BY <2>3 DEF UmAdd, cmVars
    <3>2. \A c \in UsedBy(o) : umConn # c
      BY <2>1, <2>2, <3>1 DEF GoneInv
    <3> QED BY <1>1, <2>1, <2>2, <3>1, <3>2
  <2>4. CASE UmTakeLeave
    <3>1. /\ umConn = NoConn /\ cmPc = "handover" /\ cmPc' = "close"
          /\ UNCHANGED <<users, cmConn>>
          /\ user[cmConn] # Nil => umConn' = cmConn
      BY <2>4 DEF UmTakeLeave, registry
    <3>2. cmConn \notin UsedBy(o)
      <4>1. CASE user[cmConn] # Nil
        BY <2>2, <3>1, <4>1
      <4>2. CASE user[cmConn] = Nil
        BY <4>2 DEF SessionInv, UsedBy, ObjectsOf
      <4> QED BY <4>1, <4>2
    <3> QED BY <1>1, <2>1, <2>2, <3>1, <3>2
  <2>5. CASE UmDel
    <3>1. UNCHANGED <<users, umConn, cmPc, cmConn>>
      BY <2>5 DEF UmDel, cmVars
    <3> QED BY <1>1, <2>1, <2>2, <3>1
  <2>6. CASE UmCheck
    <3>1. umPc = "check" /\ UNCHANGED <<users, conns, cmPc, cmConn>>
      BY <2>6 DEF UmCheck, registry, cmVars
    <3>2. CASE umConn \notin UsedBy(o)
      BY <1>1, <2>1, <2>2, <3>1, <3>2
    <3>3. CASE umConn \in UsedBy(o)
      <4>1. umConn' # umConn
        BY <2>2, <3>3
      <4>2. conns[user[umConn]] # {}
        BY <2>6, <4>1 DEF UmCheck
      <4>3. user[umConn] = o
        <5>1. orderly[umConn] /\ umConn \in Conns /\ user[umConn] # Nil
          BY <2>1, <2>2, <3>1, <3>3
        <5> QED BY <3>3, <5>1 DEF UsedBy, ObjectsOf, OrderlyInv, IsolationInv, OwnerInv
      <4>4. PICK d \in conns[o] : d \in Conns
        BY <4>2, <4>3
      <4>5. d \in UsedBy(o)
        BY <4>4 DEF UsedBy, ObjectsOf, IsolationInv, OwnerInv
      <4>6. orderly[d] /\ Passed(d)
        BY <2>1, <2>2, <3>1, <4>5
      <4> QED BY <3>1, <4>4, <4>6 DEF GoneInv
    <3> QED BY <3>2, <3>3
  <2>7. CASE UmDrop
    <3>1. /\ umPc = "drop" /\ UNCHANGED <<cmPc, cmConn>>
          /\ umConn \in Conns /\ user[umConn] \in Objs
          /\ users' = [users EXCEPT ![ownerOf[user[umConn]]] = Nil]
      BY <2>7 DEF UmDrop, cmVars
    <3>2. CASE umConn \notin UsedBy(o)
      BY <1>1, <2>1, <2>2, <3>1, <3>2
    <3>3. CASE umConn \in UsedBy(o)
      <4>1. user[umConn] = o
        BY <2>1, <2>2, <3>1, <3>3
           DEF UsedBy, ObjectsOf, OrderlyInv, IsolationInv, OwnerInv
      <4> QED BY <3>1, <4>1 DEF IsolationInv, OwnerInv
    <3> QED BY <3>2, <3>3
  <2>8. CASE UmBroadcast
    BY <1>2, <2>8 DEF UmBroadcast, umVars, connVars, cmVars
  <2> QED BY <1>7, <2>3, <2>4, <2>5, <2>6, <2>7, <2>8 DEF UmStep
<1>8. CASE UNCHANGED vars
  BY <1>2, <1>8 DEF vars, registry, umVars, connVars, cmVars, history
<1> QED BY <1>3, <1>4, <1>5, <1>6, <1>7, <1>8 DEF Next

(* A connection that left in order is in no User.conns once um has dealt   *)
(* with its departure (user.go:180-184, connection.go:273-278).            *)
THEOREM LeaversAreForgotten == Spec => []CleanLeave
<1>1. GoneInv => CleanLeave
  BY DEF GoneInv, CleanLeave
<1> QED BY SafeInvariant, GoneInit, GoneStep, <1>1, PTL DEF Spec

(* The last of those who used a User object takes it out of the map when   *)
(* all of them left in order (user.go:185-189).                            *)
THEOREM UnusedUsersAreDropped == Spec => []LastLeaverDropsUser
<1>1. GoneInv /\ LastInv => LastLeaverDropsUser
  BY DEF GoneInv, LastInv, LastLeaverDropsUser, UsedBy
<1> QED BY SafeInvariant, GoneInit, GoneStep, LastStep, <1>1, PTL DEF Spec

-----------------------------------------------------------------------------
(***************************************************************************)
(* SoleSessionIsFound.  The only object of an id leaves the map only when  *)
(* a connection that used it has gone.                                     *)
(***************************************************************************)
Sole(o) == ownerOf[o] # Nil /\ \A p \in Objs : ownerOf[p] = ownerOf[o] => p = o

SoleInv ==
  \A o \in Objs :
    Sole(o) /\ users[ownerOf[o]] # o => \E c \in UsedBy(o) : phase[c] = "gone"

LEMMA SoleInit == Init => SoleInv
  BY DEF Init, SoleInv, Sole

LEMMA SoleStep == SafeInv /\ SoleInv /\ [Next]_vars => SoleInv'
<1> SUFFICES ASSUME SafeInv, SoleInv, [Next]_vars, NEW o \in Objs, Sole(o)',
                    users'[ownerOf'[o]] # o
             PROVE  \E c \in UsedBy(o)' : phase'[c] = "gone"
  BY DEF SoleInv
<1> USE NilAssumption, NoConnAssumption DEF SafeInv, TypeInv, TypeOK, ManagerOK
<1>1. \A c \in Conns : bound[c] \subseteq bound'[c]
  <2>1. ASSUME NEW w \in Workers, Bind(w) PROVE \A c \in Conns : bound[c] \subseteq bound'[c]
    BY <2>1 DEF Bind
  <2> QED BY <2>1 DEF Next, ConnStep, Accept, Receive, Leave, CmUnregister, CmClose,
      WorkerStep, Local, TakeJob, Refuse, Lookup, Load, Authorize, Publish, UmTakeLogin,
      RelayStep, RelayLookup, RelaySend, UmStep, UmAdd, UmTakeLeave, UmDel, UmCheck,
      UmDrop, UmBroadcast, vars, history
<1>2. \A c \in Conns : phase[c] = "gone" => phase'[c] = "gone"
  BY DEF Next, ConnStep, Accept, Receive, Leave, CmUnregister, CmClose,
      WorkerStep, Local, TakeJob, Refuse, Lookup, Load, Bind, Authorize, Publish,
      UmTakeLogin, RelayStep, RelayLookup, RelaySend, UmStep, UmAdd, UmTakeLeave, UmDel,
      UmCheck, UmDrop, UmBroadcast, vars, connVars
<1>3. ASSUME NEW c \in UsedBy(o), phase[c] = "gone"
      PROVE  \E d \in UsedBy(o)' : phase'[d] = "gone"
  BY <1>1, <1>2, <1>3 DEF UsedBy, ObjectsOf
<1>4. CASE Sole(o) /\ users[ownerOf[o]] # o
  BY <1>3, <1>4 DEF SoleInv
<1>5. CASE UNCHANGED <<users, ownerOf>>
  BY <1>4, <1>5 DEF Sole
<1>6. ASSUME NEW w \in Workers, Load(w)
      PROVE  Sole(o) /\ users[ownerOf[o]] # o
  <2>1. PICK p \in Objs :
          /\ ownerOf[p] = Nil
          /\ ownerOf' = [ownerOf EXCEPT ![p] = wjob[w].id]
          /\ users' = IF users[wjob[w].id] = Nil
                      THEN [users EXCEPT ![wjob[w].id] = p]
                      ELSE users
    BY <1>6 DEF Load
  <2>2. wjob[w].id \in Ids
    BY <1>6, JobFields DEF Load, WorkerOK
  <2>3. o # p
    <3> SUFFICES ASSUME o = p PROVE FALSE
      OBVIOUS
    <3>1. users[wjob[w].id] # Nil
      BY <2>1, <2>2
    <3>2. ownerOf[users[wjob[w].id]] = wjob[w].id
      BY <2>2, <3>1 DEF IsolationInv, OwnerInv
    <3>3. users[wjob[w].id] \in Objs /\ users[wjob[w].id] # p
      BY <2>1, <2>2, <3>1, <3>2
    <3> QED BY <2>1, <3>2, <3>3 DEF Sole
  <2>4. ownerOf'[o] = ownerOf[o] /\ ownerOf[o] # wjob[w].id
    BY <2>1, <2>3 DEF Sole
  <2> QED BY <2>1, <2>2, <2>3, <2>4 DEF Sole
<1>7. CASE UmDrop
  <2>1. /\ umConn \in Conns /\ user[umConn] \in Objs /\ phase[umConn] = "gone"
        /\ users' = [users EXCEPT ![ownerOf[user[umConn]]] = Nil] /\ UNCHANGED ownerOf
    BY <1>7 DEF UmDrop, LoginInv, PhaseInv
  <2>2. CASE ownerOf[user[umConn]] = ownerOf[o]
    <3>1. user[umConn] = o
      BY <2>1, <2>2 DEF Sole
    <3>2. umConn \in UsedBy(o)
      BY <2>1, <3>1 DEF UsedBy, ObjectsOf, IsolationInv, OwnerInv
    <3> QED BY <1>3, <2>1, <3>2
  <2>3. CASE ownerOf[user[umConn]] # ownerOf[o]
    BY <1>4, <2>1, <2>3 DEF Sole
  <2> QED BY <2>2, <2>3
<1>8. CASE ~UmDrop /\ ~\E w \in Workers : Load(w)
  <2>1. UNCHANGED <<users, ownerOf>>
    BY <1>8 DEF Next, ConnStep, Accept, Receive, Leave, CmUnregister, CmClose,
      WorkerStep, Local, TakeJob, Refuse, Lookup, Bind, Authorize, Publish, UmTakeLogin,
      RelayStep, RelayLookup, RelaySend, UmStep, UmAdd, UmTakeLeave, UmDel, UmCheck,
      UmBroadcast, vars, registry
  <2> QED BY <1>5, <2>1
<1> QED BY <1>4, <1>6, <1>7, <1>8

(* An open connection that is listed is found, if its id was loaded once   *)
(* and it is the only one that used the object (user.go:96-124, 185-189).  *)
THEOREM SoleSessionsAreFound == Spec => []SoleSessionIsFound
<1>1. SafeInv /\ SoleInv => SoleSessionIsFound
  <2> SUFFICES ASSUME SafeInv, SoleInv, NEW c \in Conns, NEW o \in Objs,
                      phase[c] = "open", c \in conns[o],
                      \A p \in Objs : ownerOf[p] = ownerOf[o] => p = o,
                      \A d \in Conns : o \in ObjectsOf(d) => d = c
               PROVE  users[ownerOf[o]] = o
    BY DEF SoleSessionIsFound
  <2>1. PICK b \in bound[c] : b.obj = o /\ ownerOf[b.obj] = b.id
    BY DEF SafeInv, IsolationInv, OwnerInv
  <2>2. ownerOf[o] # Nil
    BY <2>1, NilAssumption DEF SafeInv, TypeInv, TypeOK
  <2>3. \A d \in UsedBy(o) : phase[d] # "gone"
    BY DEF UsedBy
  <2> QED BY <2>2, <2>3 DEF SoleInv, Sole
<1> QED BY SafeInvariant, SoleInit, SoleStep, <1>1, PTL DEF Spec
=============================================================================
