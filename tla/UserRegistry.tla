---------------------------- MODULE UserRegistry ----------------------------
(***************************************************************************)
(* The connection registry of the websocket server.                        *)
(*                                                                         *)
(* A browser or phone is a Connection: a reader goroutine feeds its        *)
(* requests to the job channel of the packet mux, and a fixed pool of      *)
(* workers runs the handlers.  The goroutine ConnectionManager.run ("cm")  *)
(* accepts and closes connections, the goroutine UserManager.run ("um")    *)
(* owns the set of connections of every User object.  um.users maps the id *)
(* of a user to his User object; a User object is loaded on demand and may *)
(* be held by a worker, a connection or a queued message after the map has *)
(* forgotten it.                                                           *)
(*                                                                         *)
(* One action is one step between two points where another goroutine can   *)
(* get in: a channel operation, a lock, a Redis call.                      *)
(***************************************************************************)
EXTENDS Naturals, Sequences, FiniteSets

CONSTANTS
  Conns,         \* websocket connections
  Ids,           \* user ids
  Objs,          \* the heap: names of the User objects LoadUser may allocate
  Workers,       \* goroutines of PacketMux.Worker (4 in the code)
  ZmqWorkers,    \* goroutines that handle messages of the relay (4 in the code)
  JobCap,        \* capacity of mux.job (256 in the code)
  BroadcastCap,  \* capacity of um.broadcast (256 in the code)
  MaxRequests,   \* bound: requests read in all, over all connections
  Nil,           \* the nil *User, and the id of an object not yet allocated
  NoConn         \* the nil *Connection

ASSUME NilAssumption == Nil \notin Objs /\ Nil \notin Ids
ASSUME NoConnAssumption == NoConn \notin Conns
ASSUME BoundAssumption ==
  /\ JobCap \in Nat \ {0}
  /\ BroadcastCap \in Nat \ {0}
  /\ MaxRequests \in Nat

VARIABLES
  (* um and the User objects *)
  users,      \* um.users: the object an id is mapped to, or Nil
  ownerOf,    \* User.Id of every object; Nil while it is not allocated
  conns,      \* the key set of User.conns of every object
  broadcast,  \* um.broadcast
  umPc,       \* where UserManager.run is
  umConn,     \* the connection it is working on
  umUser,     \* the object whose lock it took
  (* the connections and cm *)
  user,       \* c.user
  isClosed,   \* c.isClosed, set together with close(c.send)
  phase,      \* what the goroutine wsHandler of the connection is doing
  reqs,       \* number of requests read so far, on any connection
  cmPc,       \* where ConnectionManager.run is
  cmConn,     \* the connection it is taking down
  (* the mux workers and the zmq workers *)
  jobs,       \* mux.job
  wpc,        \* where a worker is in the handler it runs
  wjob,       \* the job it runs
  wuser,      \* the local variable user of GetUserById
  zuser,      \* the object a zmq worker got from GetConnectedUser
  (* history, read by properties only *)
  bound,      \* every object c.user has pointed to, with the id logged in
  granted,    \* a login was granted after the last assignment of c.user
  orderly,    \* c left with no login under way and no second User object
  offered     \* ids of the users whose messages were offered to c

registry == <<users, ownerOf, conns, broadcast>>
umVars   == <<umPc, umConn, umUser>>
connVars == <<user, isClosed, phase, reqs>>
cmVars   == <<cmPc, cmConn>>
muxVars  == <<jobs, wpc, wjob, wuser>>
history  == <<bound, granted, orderly, offered>>
vars     == <<registry, umVars, connVars, cmVars, muxVars, zuser, history>>

(* A login carries the id its auth key resolves to, "register" the id      *)
(* Google answers; "sendLog" also stands for addServer: both end in        *)
(* User.Send.  Requests that leave the registry alone are not modelled.    *)
Jobs ==
  [cmd : {"login", "register"}, conn : Conns, id : Ids]
    \cup [cmd : {"sendLog"}, conn : Conns, id : {Nil}]

Messages == [user : Objs, from : Conns \cup {NoConn}]

(* UserManager.run is dead after it unlocked a mutex it did not hold: the  *)
(* Go runtime then ends the process.                                       *)
Crashed == umPc = "crashed"
Running == ~Crashed

TypeOK ==
  /\ users \in [Ids -> Objs \cup {Nil}]
  /\ ownerOf \in [Objs -> Ids \cup {Nil}]
  /\ conns \in [Objs -> SUBSET Conns]
  /\ broadcast \in Seq(Messages) /\ Len(broadcast) <= BroadcastCap
  /\ umPc \in {"idle", "add", "del", "check", "drop", "crashed"}
  /\ umConn \in Conns \cup {NoConn}
  /\ umUser \in Objs \cup {Nil}
  /\ user \in [Conns -> Objs \cup {Nil}]
  /\ isClosed \in [Conns -> BOOLEAN]
  /\ phase \in [Conns -> {"new", "open", "leaving", "gone"}]
  /\ reqs \in 0..MaxRequests
  /\ cmPc \in {"idle", "handover", "close"}
  /\ cmConn \in Conns \cup {NoConn}
  /\ jobs \in Seq(Jobs) /\ Len(jobs) <= JobCap
  /\ wpc \in [Workers -> {"idle", "start", "load", "bind", "join", "publish"}]
  /\ wjob \in [Workers -> Jobs \cup {Nil}]
  /\ wuser \in [Workers -> Objs \cup {Nil}]
  /\ zuser \in [ZmqWorkers -> Objs \cup {Nil}]
  /\ bound \in [Conns -> SUBSET [id : Ids, obj : Objs]]
  /\ granted \in [Conns -> BOOLEAN]
  /\ orderly \in [Conns -> BOOLEAN]
  /\ offered \in [Conns -> SUBSET (Ids \cup {Nil})]

Init ==
  /\ users = [i \in Ids |-> Nil]
  /\ ownerOf = [o \in Objs |-> Nil]
  /\ conns = [o \in Objs |-> {}]
  /\ broadcast = <<>>
  /\ umPc = "idle" /\ umConn = NoConn /\ umUser = Nil
  /\ user = [c \in Conns |-> Nil]
  /\ isClosed = [c \in Conns |-> FALSE]
  /\ phase = [c \in Conns |-> "new"]
  /\ reqs = 0
  /\ cmPc = "idle" /\ cmConn = NoConn
  /\ jobs = <<>>
  /\ wpc = [w \in Workers |-> "idle"]
  /\ wjob = [w \in Workers |-> Nil]
  /\ wuser = [w \in Workers |-> Nil]
  /\ zuser = [z \in ZmqWorkers |-> Nil]
  /\ bound = [c \in Conns |-> {}]
  /\ granted = [c \in Conns |-> FALSE]
  /\ orderly = [c \in Conns |-> FALSE]
  /\ offered = [c \in Conns |-> {}]

-----------------------------------------------------------------------------
(* wsHandler and Connection.reader *)

(* A new connection is handed to cm, which lists it. *)
Accept(c) ==
  /\ Running
  /\ phase[c] = "new"
  /\ cmPc = "idle"
  /\ phase' = [phase EXCEPT ![c] = "open"]
  /\ UNCHANGED <<registry, umVars, user, isClosed, reqs, cmVars, muxVars,
                 zuser, history>>

(* The reader queues a request; it blocks while mux.job is full. *)
Receive(c, job) ==
  /\ Running
  /\ phase[c] = "open"
  /\ job.conn = c
  /\ reqs < MaxRequests
  /\ Len(jobs) < JobCap
  /\ reqs' = reqs + 1
  /\ jobs' = Append(jobs, job)
  /\ UNCHANGED <<registry, umVars, user, isClosed, phase, cmVars,
                 wpc, wjob, wuser, zuser, history>>

(* A login of c is queued or in the hands of a worker. *)
IsLoginOf(job, c) == job.cmd = "login" /\ job.conn = c
LoginUnderWay(c) ==
  \/ \E i \in DOMAIN jobs : IsLoginOf(jobs[i], c)
  \/ \E w \in Workers : wpc[w] # "idle" /\ IsLoginOf(wjob[w], c)

(* The reader loop ends: read error, keepalive timeout or stoprecv.  The   *)
(* deferred unregister of wsHandler waits for cm from here on.             *)
Leave(c) ==
  /\ Running
  /\ phase[c] = "open"
  /\ phase' = [phase EXCEPT ![c] = "leaving"]
  /\ orderly' = [orderly EXCEPT
                   ![c] = ~LoginUnderWay(c) /\ Cardinality(bound[c]) <= 1]
  /\ UNCHANGED <<registry, umVars, user, isClosed, reqs, cmVars, muxVars,
                 zuser, bound, granted, offered>>

-----------------------------------------------------------------------------
(* ConnectionManager.run *)

CmUnregister(c) ==
  /\ Running
  /\ cmPc = "idle"
  /\ phase[c] = "leaving"
  /\ phase' = [phase EXCEPT ![c] = "gone"]
  /\ cmPc' = "handover"
  /\ cmConn' = c
  /\ UNCHANGED <<registry, umVars, user, isClosed, reqs, muxVars, zuser,
                 history>>

(* close(c.send); c.isClosed = true *)
CmClose ==
  /\ Running
  /\ cmPc = "close"
  /\ isClosed' = [isClosed EXCEPT ![cmConn] = TRUE]
  /\ cmPc' = "idle"
  /\ cmConn' = NoConn
  /\ UNCHANGED <<registry, umVars, user, phase, reqs, muxVars, zuser, history>>

-----------------------------------------------------------------------------
(* PacketMux.Worker and the handlers it runs *)

(* The handler of w returns; its response goes to c.Send, which never      *)
(* touches the registry.                                                   *)
Done(w) ==
  /\ wpc' = [wpc EXCEPT ![w] = "idle"]
  /\ wjob' = [wjob EXCEPT ![w] = Nil]
  /\ wuser' = [wuser EXCEPT ![w] = Nil]

GoTo(w, pc, o) ==
  /\ wpc' = [wpc EXCEPT ![w] = pc]
  /\ wuser' = [wuser EXCEPT ![w] = o]
  /\ UNCHANGED wjob

TakeJob(w) ==
  /\ Running
  /\ wpc[w] = "idle"
  /\ jobs # <<>>
  /\ jobs' = Tail(jobs)
  /\ wjob' = [wjob EXCEPT ![w] = Head(jobs)]
  /\ wpc' = [wpc EXCEPT ![w] = "start"]
  /\ UNCHANGED <<registry, umVars, connVars, cmVars, wuser, zuser, history>>

(* The handler answers an error at once: an expired auth key, a refused    *)
(* OAuth token, an inactive server, a request without a login.             *)
Refuse(w) ==
  /\ Running
  /\ wpc[w] = "start"
  /\ Done(w)
  /\ UNCHANGED <<registry, umVars, connVars, cmVars, jobs, zuser, history>>

(* GetUserById under the read lock.  A miss goes on to take the write      *)
(* lock; a hit continues a login and ends a register.                      *)
Lookup(w) ==
  /\ Running
  /\ wpc[w] = "start"
  /\ wjob[w].cmd \in {"login", "register"}
  /\ LET found == users[wjob[w].id]
     IN  \/ found = Nil /\ GoTo(w, "load", Nil)
         \/ found # Nil /\ wjob[w].cmd = "login" /\ GoTo(w, "bind", found)
         \/ found # Nil /\ wjob[w].cmd = "register" /\ Done(w)
  /\ UNCHANGED <<registry, umVars, connVars, cmVars, jobs, zuser, history>>

(* Defect: a login that misses in the map loads the object without storing *)
(* it there.                                                               *)
LoadWithoutStore(w) ==
  /\ Running
  /\ wpc[w] = "load"
  /\ \E o \in Objs :
       /\ ownerOf[o] = Nil
       /\ ownerOf' = [ownerOf EXCEPT ![o] = wjob[w].id]
       /\ \/ wjob[w].cmd = "login" /\ GoTo(w, "bind", o)
          \/ wjob[w].cmd = "register" /\ Done(w)
  /\ UNCHANGED <<users, conns, broadcast, umVars, connVars, cmVars, jobs,
                 zuser, history>>

(* GetUserById under the write lock: a fresh object is allocated, put in   *)
(* the map only if the id is still missing, and returned in either case.   *)
Load(w) ==
  /\ Running
  /\ wpc[w] = "load"
  /\ \E o \in Objs :
       /\ ownerOf[o] = Nil
       /\ ownerOf' = [ownerOf EXCEPT ![o] = wjob[w].id]
       /\ users' = IF users[wjob[w].id] = Nil
                   THEN [users EXCEPT ![wjob[w].id] = o]
                   ELSE users
       /\ \/ wjob[w].cmd = "login" /\ GoTo(w, "bind", o)
          \/ wjob[w].cmd = "register" /\ Done(w)
  /\ UNCHANGED <<conns, broadcast, umVars, connVars, cmVars, jobs, zuser,
                 history>>

(* login: c.user = user, then GetNotification, which may fail after the    *)
(* assignment.                                                             *)
Bind(w) ==
  LET c == wjob[w].conn
  IN  /\ Running
      /\ wpc[w] = "bind"
      /\ user' = [user EXCEPT ![c] = wuser[w]]
      /\ bound' = [bound EXCEPT
                      ![c] = @ \cup {[id |-> wjob[w].id, obj |-> wuser[w]]}]
      /\ granted' = [granted EXCEPT ![c] = FALSE]
      /\ \/ GoTo(w, "join", wuser[w])
         \/ Done(w)
      /\ UNCHANGED <<registry, umVars, isClosed, phase, reqs, cmVars, jobs,
                     zuser, orderly, offered>>

(* AuthUser lets the request of a logged in connection through. *)
Authorize(w) ==
  /\ Running
  /\ wpc[w] = "start"
  /\ wjob[w].cmd = "sendLog"
  /\ user[wjob[w].conn] # Nil
  /\ GoTo(w, "publish", Nil)
  /\ UNCHANGED <<registry, umVars, connVars, cmVars, jobs, zuser, history>>

(* Defect: the message is put in the queue without waiting for room.       *)
PublishWithoutRoom(w) ==
  LET c == wjob[w].conn
  IN  /\ Running
      /\ wpc[w] = "publish"
      /\ broadcast' = Append(broadcast, [user |-> user[c], from |-> c])
      /\ Done(w)
      /\ UNCHANGED <<users, ownerOf, conns, umVars, connVars, cmVars, jobs,
                     zuser, history>>

(* c.user.Send(packet, c): c.user is read again. *)
Publish(w) ==
  LET c == wjob[w].conn
  IN  /\ Running
      /\ wpc[w] = "publish"
      /\ Len(broadcast) < BroadcastCap
      /\ broadcast' = Append(broadcast, [user |-> user[c], from |-> c])
      /\ Done(w)
      /\ UNCHANGED <<users, ownerOf, conns, umVars, connVars, cmVars, jobs,
                     zuser, history>>

-----------------------------------------------------------------------------
(* The zmq handlers: GetConnectedUser, then User.Send to every connection. *)

RelayLookup(z, id) ==
  /\ Running
  /\ zuser[z] = Nil
  /\ users[id] # Nil
  /\ zuser' = [zuser EXCEPT ![z] = users[id]]
  /\ UNCHANGED <<registry, umVars, connVars, cmVars, muxVars, history>>

RelaySend(z) ==
  /\ Running
  /\ zuser[z] # Nil
  /\ Len(broadcast) < BroadcastCap
  /\ broadcast' = Append(broadcast, [user |-> zuser[z], from |-> NoConn])
  /\ zuser' = [zuser EXCEPT ![z] = Nil]
  /\ UNCHANGED <<users, ownerOf, conns, umVars, connVars, cmVars, muxVars,
                 history>>

-----------------------------------------------------------------------------
(* UserManager.run *)

UmIdle ==
  /\ umPc' = "idle"
  /\ umConn' = NoConn
  /\ umUser' = Nil

(* Defect: um skips a connection that some object already lists.           *)
TakeLoginOnce(w) ==
  LET c == wjob[w].conn
  IN  /\ umPc = "idle"
      /\ wpc[w] = "join"
      /\ Done(w)
      /\ granted' = [granted EXCEPT ![c] = TRUE]
      /\ IF isClosed[c] \/ \E o \in Objs : c \in conns[o]
         THEN UNCHANGED umVars
         ELSE umPc' = "add" /\ umConn' = c /\ umUser' = user[c]
      /\ UNCHANGED <<registry, connVars, cmVars, jobs, zuser, bound, orderly,
                     offered>>

(* Defect: um locks the object of the map instead of the one of c.user.    *)
TakeLoginByMap(w) ==
  LET c == wjob[w].conn
  IN  /\ umPc = "idle"
      /\ wpc[w] = "join"
      /\ Done(w)
      /\ granted' = [granted EXCEPT ![c] = TRUE]
      /\ IF isClosed[c]
         THEN UNCHANGED umVars
         ELSE umPc' = "add" /\ umConn' = c /\ umUser' = users[wjob[w].id]
      /\ UNCHANGED <<registry, connVars, cmVars, jobs, zuser, bound, orderly,
                     offered>>

(* Defect: um does not take the login of a connection that is closed.      *)
TakeLoginOfOpen(w) ==
  LET c == wjob[w].conn
  IN  /\ umPc = "idle"
      /\ wpc[w] = "join"
      /\ ~isClosed[c]
      /\ Done(w)
      /\ granted' = [granted EXCEPT ![c] = TRUE]
      /\ umPc' = "add" /\ umConn' = c /\ umUser' = user[c]
      /\ UNCHANGED <<registry, connVars, cmVars, jobs, zuser, bound, orderly,
                     offered>>

(* "case c := <-um.register": the worker's login is granted, c.user is     *)
(* locked unless c is already closed.                                      *)
UmTakeLogin(w) ==
  LET c == wjob[w].conn
  IN  /\ umPc = "idle"
      /\ wpc[w] = "join"
      /\ Done(w)
      /\ granted' = [granted EXCEPT ![c] = TRUE]
      /\ IF isClosed[c]
         THEN UNCHANGED umVars
         ELSE umPc' = "add" /\ umConn' = c /\ umUser' = user[c]
      /\ UNCHANGED <<registry, connVars, cmVars, jobs, zuser, bound, orderly,
                     offered>>

(* c.user.conns[c] = c.pushToken; c.user.Unlock().  c.user is read again:  *)
(* when another login of c changed it, a mutex that is not held is         *)
(* unlocked.                                                               *)
UmAdd ==
  /\ umPc = "add"
  /\ conns' = [conns EXCEPT ![user[umConn]] = @ \cup {umConn}]
  /\ IF user[umConn] = umUser
     THEN UmIdle
     ELSE umPc' = "crashed" /\ UNCHANGED <<umConn, umUser>>
  /\ UNCHANGED <<users, ownerOf, broadcast, connVars, cmVars, muxVars, zuser,
                 history>>

(* Defect: um ignores a connection whose object the map has forgotten.     *)
TakeLeaveByMap ==
  /\ umPc = "idle"
  /\ cmPc = "handover"
  /\ cmPc' = "close"
  /\ IF user[cmConn] = Nil \/ \A i \in Ids : users[i] # user[cmConn]
     THEN UNCHANGED umVars
     ELSE umPc' = "del" /\ umConn' = cmConn /\ umUser' = user[cmConn]
  /\ UNCHANGED <<registry, connVars, cmConn, muxVars, zuser, history>>

(* Defect: um waits for a login before it lets a connection leave.         *)
TakeLeaveOfUser ==
  /\ umPc = "idle"
  /\ cmPc = "handover"
  /\ user[cmConn] # Nil
  /\ cmPc' = "close"
  /\ umPc' = "del" /\ umConn' = cmConn /\ umUser' = user[cmConn]
  /\ UNCHANGED <<registry, connVars, cmConn, muxVars, zuser, history>>

(* "case c := <-um.unregister": cm hands over a connection.  One that      *)
(* never logged in is ignored, the user of any other is locked.            *)
UmTakeLeave ==
  /\ umPc = "idle"
  /\ cmPc = "handover"
  /\ cmPc' = "close"
  /\ IF user[cmConn] = Nil
     THEN UNCHANGED umVars
     ELSE umPc' = "del" /\ umConn' = cmConn /\ umUser' = user[cmConn]
  /\ UNCHANGED <<registry, connVars, cmConn, muxVars, zuser, history>>

(* delete(c.user.conns, c); c.user.Unlock() *)
UmDel ==
  /\ umPc = "del"
  /\ conns' = [conns EXCEPT ![user[umConn]] = @ \ {umConn}]
  /\ umPc' = IF user[umConn] = umUser THEN "check" ELSE "crashed"
  /\ UNCHANGED <<users, ownerOf, broadcast, umConn, umUser, connVars, cmVars,
                 muxVars, zuser, history>>

(* Defect: the check counts the departed connection. *)
CheckOffByOne ==
  /\ umPc = "check"
  /\ IF Cardinality(conns[user[umConn]]) = 1
     THEN umPc' = "drop" /\ UNCHANGED <<umConn, umUser>>
     ELSE UmIdle
  /\ UNCHANGED <<registry, connVars, cmVars, muxVars, zuser, history>>

(* if len(c.user.conns) == 0 *)
UmCheck ==
  /\ umPc = "check"
  /\ IF conns[user[umConn]] = {}
     THEN umPc' = "drop" /\ UNCHANGED <<umConn, umUser>>
     ELSE UmIdle
  /\ UNCHANGED <<registry, connVars, cmVars, muxVars, zuser, history>>

(* delete(um.users, c.user.Id) under the write lock of um *)
UmDrop ==
  /\ umPc = "drop"
  /\ users' = [users EXCEPT ![ownerOf[user[umConn]]] = Nil]
  /\ UmIdle
  /\ UNCHANGED <<ownerOf, conns, broadcast, connVars, cmVars, muxVars, zuser,
                 history>>

(* Defect: a message goes to every connection of the server.               *)
BroadcastToAll ==
  /\ umPc = "idle"
  /\ broadcast # <<>>
  /\ LET m == Head(broadcast)
     IN  offered' = [c \in Conns |->
                       IF phase[c] = "open" /\ user[c] # Nil /\ c # m.from
                       THEN offered[c] \cup {ownerOf[m.user]}
                       ELSE offered[c]]
  /\ broadcast' = Tail(broadcast)
  /\ UNCHANGED <<users, ownerOf, conns, umVars, connVars, cmVars, muxVars,
                 zuser, bound, granted, orderly>>

(* "case m := <-um.broadcast": one goroutine per connection of the object  *)
(* except the sender's; whether its Send gets through is not modelled.     *)
UmBroadcast ==
  /\ umPc = "idle"
  /\ broadcast # <<>>
  /\ LET m == Head(broadcast)
     IN  offered' = [c \in Conns |->
                       IF c \in conns[m.user] /\ c # m.from
                       THEN offered[c] \cup {ownerOf[m.user]}
                       ELSE offered[c]]
  /\ broadcast' = Tail(broadcast)
  /\ UNCHANGED <<users, ownerOf, conns, umVars, connVars, cmVars, muxVars,
                 zuser, bound, granted, orderly>>

-----------------------------------------------------------------------------
ConnStep(c) ==
  \/ Accept(c)
  \/ \E job \in Jobs : Receive(c, job)
  \/ Leave(c)
  \/ CmUnregister(c)

Local(w) ==
  \/ TakeJob(w)
  \/ Refuse(w)
  \/ Lookup(w)
  \/ Load(w)
  \/ Bind(w)
  \/ Authorize(w)

WorkerStep(w) ==
  \/ Local(w)
  \/ Publish(w)
  \/ UmTakeLogin(w)

RelayStep(z) ==
  \/ \E id \in Ids : RelayLookup(z, id)
  \/ RelaySend(z)

UmStep ==
  \/ UmAdd
  \/ UmTakeLeave
  \/ UmDel
  \/ UmCheck
  \/ UmDrop
  \/ UmBroadcast

Next ==
  \/ \E c \in Conns : ConnStep(c)
  \/ CmClose
  \/ \E w \in Workers : WorkerStep(w)
  \/ \E z \in ZmqWorkers : RelayStep(z)
  \/ UmStep

Spec == Init /\ [][Next]_vars

(* Every goroutine keeps running.  A select chooses among the channels that *)
(* are ready at random and the goroutines blocked on a channel are served   *)
(* in their order of arrival, so none of them is passed over for ever:      *)
(* strong fairness.  Requests and departures may stop.                      *)
Fairness ==
  /\ WF_vars(UmAdd \/ UmDel \/ UmCheck \/ UmDrop)
  /\ SF_vars(UmTakeLeave)
  /\ SF_vars(UmBroadcast)
  /\ WF_vars(CmClose)
  /\ \A c \in Conns : SF_vars(CmUnregister(c))
  /\ \A w \in Workers :
       /\ WF_vars(Local(w))
       /\ SF_vars(Publish(w))
       /\ SF_vars(UmTakeLogin(w))

LiveSpec == Spec /\ Fairness

-----------------------------------------------------------------------------
(* Properties *)

ObjectsOf(c) == {b.obj : b \in bound[c]}

(* A login that was answered with success holds: as long as the connection *)
(* is open, um has listed it under the object c.user points to, whatever   *)
(* logins of other users came before or went wrong (connection.go:78-109   *)
(* against user.go:172-179).                                               *)
LoginTakesEffect ==
  \A c \in Conns :
    phase[c] = "open" /\ granted[c] /\ umConn # c
      => user[c] # Nil /\ c \in conns[user[c]]

(* A connection is only offered messages of users whose auth key it has    *)
(* presented: from the key through GetUserById, c.user, User.conns and the *)
(* broadcast queue nothing is mixed up (user.go:83-124, 172-201).          *)
Isolation ==
  \A c \in Conns : \A i \in offered[c] : \E b \in bound[c] : b.id = i

(* A connection that left with no login under way, after logging in with   *)
(* one User object at most, is listed under no object once um has handled  *)
(* its departure: it is neither leaked nor written to (user.go:180-184,    *)
(* connection.go:273-278).                                                 *)
CleanLeave ==
  \A c \in Conns :
    orderly[c] /\ isClosed[c] /\ ~(umPc = "del" /\ umConn = c)
      => \A o \in Objs : c \notin conns[o]

(* When the last of the connections that ever used a User object has left  *)
(* in such a way, the map has forgotten the object (user.go:185-189).      *)
LastLeaverDropsUser ==
  \A o \in Objs :
    LET members == {c \in Conns : o \in ObjectsOf(c)}
    IN  /\ members # {}
        /\ \A c \in members : orderly[c] /\ isClosed[c] /\ umConn # c
        => \A i \in Ids : users[i] # o

(* A connection that is listed is found by GetConnectedUser, provided the  *)
(* id was loaded once and no other connection used the object: all that is *)
(* left of "every connected user is found" (user.go:96-124, 185-189).      *)
SoleSessionIsFound ==
  \A c \in Conns, o \in Objs :
    /\ phase[c] = "open" /\ c \in conns[o]
    /\ \A p \in Objs : ownerOf[p] = ownerOf[o] => p = o
    /\ \A d \in Conns : o \in ObjectsOf(d) => d = c
    => users[ownerOf[o]] = o

(* The manager goroutine never unlocks a mutex it does not hold unless a   *)
(* client logged one connection in with two different User objects         *)
(* (user.go:176-178, 182-184).                                             *)
CrashNeedsSecondUser ==
  Crashed => Cardinality(ObjectsOf(umConn)) > 1

(* A connection whose reader ended is closed, whatever cm, um and the      *)
(* workers are doing: the handover between the two managers cannot jam     *)
(* (connection.go:273-278, user.go:180).                                   *)
LeaverIsReaped ==
  \A c \in Conns : phase[c] = "leaving" ~> (isClosed[c] \/ Crashed)

(* Every handler returns: neither the rendezvous with um nor the bounded   *)
(* broadcast queue holds a worker for ever (connection.go:106, user.go:292)*)
(* and every queued request reaches a worker (packet_handler.go:79-86).    *)
RequestsAreServed ==
  /\ \A w \in Workers : wpc[w] # "idle" ~> (wpc[w] = "idle" \/ Crashed)
  /\ jobs # <<>> ~> (jobs = <<>> \/ Crashed)

(* "delete connection from user" (connection.go:275), "Ignore Closed       *)
(* Connection" (user.go:174): a closed connection is in no User.conns.     *)
(* The code violates it.                                                   *)
ClosedConnectionNotListed ==
  \A c \in Conns, o \in Objs :
    isClosed[c] /\ umConn # c => c \notin conns[o]

(* "add connection to user" (connection.go:105): a user with an open,      *)
(* listed connection is found by GetConnectedUser.  The code violates it.  *)
ConnectedUserIsFound ==
  \A c \in Conns, o \in Objs :
    phase[c] = "open" /\ user[c] = o /\ c \in conns[o]
      => users[ownerOf[o]] = o
=============================================================================
