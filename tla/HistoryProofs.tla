--------------------------- MODULE HistoryProofs ---------------------------
(***************************************************************************)
(* Proofs about History, for any finite sets of messages, any channels,    *)
(* workers and goroutines, any capacities, any size of a page and any      *)
(* number of operations and crashes.                                       *)
(***************************************************************************)
EXTENDS History, ZmqTransportProofs, FiniteSetTheorems

-----------------------------------------------------------------------------
(* The list of channels in Redis (RedisList), command by command.          *)

ListStepOrCrash == (\E p \in Procs : ListStep(p)) \/ LoadDb \/ ListCrash

NamesGiven == \A p \in Procs : step[p] # "idle" => name[p] \in Names

(* Nothing is removed while LoadDb runs, nothing runs before it.           *)
BootSteps ==
  /\ boot = "down" => channels = {} /\ \A p \in Procs : step[p] = "idle"
  /\ boot = "loading" => \A p \in Procs : step[p] \notin Removing
  /\ todo # {} => boot = "loading"

(* Saving and removing the same channel at once leaves its mark. *)
Apart ==
  \A p, q \in Procs :
    step[p] \in Saving /\ step[q] \in Removing /\ name[p] = name[q]
      => name[p] \in torn

(* The object is there before the key, and the key before the map's entry. *)
SavedInOrder ==
  \A p \in Procs :
    /\ step[p] = "sadd" => name[p] \in objects \cup torn
    /\ step[p] = "insert" => name[p] \in listed \cup torn

KeysHaveObjects ==
  \A n \in listed \ objects : n \in torn \/ Busy(n, {"srem"})

(* Without a mark, the map is in the list except for what is being removed,*)
(* and the list in the map except for what is being removed, inserted or   *)
(* loaded.                                                                 *)
Underway(n) ==
  \/ Busy(n, Removing \cup {"insert"})
  \/ boot = "down"
  \/ boot = "loading" /\ (n \in todo \/ Busy(n, Saving))

MapMatchesList ==
  torn = {} =>
    \A n \in Names :
      /\ Busy(n, Removing) => n \notin channels
      /\ n \in channels => n \in listed
      /\ n \in listed => n \in channels \/ Underway(n)

ListInv ==
  /\ ListType /\ NamesGiven /\ BootSteps /\ Apart
  /\ SavedInOrder /\ KeysHaveObjects /\ MapMatchesList

(* The list at the start is empty, and nothing is under way.               *)
LEMMA ListInitInv == ListInit => ListInv
<1> USE NameAssumption
<1> SUFFICES ASSUME ListInit PROVE ListInv
  OBVIOUS
<1>1. ListType
  BY DEF ListInit, ListType
<1> QED
  BY <1>1 DEF ListInit, ListInv, NamesGiven, BootSteps, Apart, SavedInOrder,
              KeysHaveObjects, MapMatchesList, Underway, Busy, Saving, Removing

LEMMA ListTypeStep ==
  ASSUME ListType, NamesGiven, ListStepOrCrash
  PROVE  ListType' /\ NamesGiven' /\ torn \subseteq torn'
<1> USE NameAssumption DEF ListType, NamesGiven, Saving, Removing
<1>1. ASSUME NEW p \in Procs, ListStep(p)
      PROVE  ListType' /\ NamesGiven' /\ torn \subseteq torn'
  <2>1. ASSUME NEW n \in Names,
               BeginSave(p, n) \/ BeginRemove(p, n) \/ BeginWrite(p, n)
        PROVE  ListType' /\ NamesGiven' /\ torn \subseteq torn'
    BY <2>1 DEF BeginSave, BeginRemove, BeginWrite, Begin, WithinBound,
                Overlap, relay
  <2>2. ASSUME NEW n \in Names, LoadDbAdds(p, n)
        PROVE  ListType' /\ NamesGiven' /\ torn \subseteq torn'
    BY <2>2 DEF LoadDbAdds, Begin
  <2>3. CASE SetObject(p) \/ DelObject(p) \/ AddKey(p)
    BY <2>3 DEF SetObject, DelObject, AddKey, GoOn, Finish, relay
  <2>4. CASE InsertChannel(p) \/ RemKey(p) \/ WriteObject(p)
    BY <2>4 DEF InsertChannel, RemKey, WriteObject, Finish, relay
  <2> QED BY <1>1, <2>1, <2>2, <2>3, <2>4 DEF ListStep
<1>2. CASE LoadDb
  BY <1>2 DEF LoadDb, LoadDbReads, LoadDbEnds, Load, work
<1>3. CASE ListCrash
  BY <1>3 DEF ListCrash, WithinBound
<1> QED BY <1>1, <1>2, <1>3 DEF ListStepOrCrash

LEMMA BootStep ==
  ASSUME ListInv, ListStepOrCrash
  PROVE  BootSteps' /\ Apart'
<1> USE NameAssumption DEF ListInv, ListType, BootSteps, Apart, NamesGiven, Saving, Removing
<1>1. ASSUME NEW p \in Procs, ListStep(p) PROVE BootSteps' /\ Apart'
  <2>1. ASSUME NEW n \in Names, BeginSave(p, n) PROVE BootSteps' /\ Apart'
    BY <2>1 DEF BeginSave, Begin, WithinBound, Overlap, Busy, relay
  <2>2. ASSUME NEW n \in Names, BeginRemove(p, n) PROVE BootSteps' /\ Apart'
    BY <2>2 DEF BeginRemove, Begin, WithinBound, Overlap, Busy, relay
  <2>3. ASSUME NEW n \in Names, BeginWrite(p, n) PROVE BootSteps' /\ Apart'
    BY <2>3 DEF BeginWrite, Begin, WithinBound, relay
  <2>4. ASSUME NEW n \in Names, LoadDbAdds(p, n) PROVE BootSteps' /\ Apart'
    BY <2>4 DEF LoadDbAdds, Begin
  <2>5. CASE SetObject(p) \/ DelObject(p)
    BY <2>5 DEF SetObject, DelObject, GoOn, relay
  <2>6. CASE AddKey(p)
    BY <2>6 DEF AddKey, GoOn, Finish, relay
  <2>7. CASE InsertChannel(p) \/ RemKey(p) \/ WriteObject(p)
    BY <2>7 DEF InsertChannel, RemKey, WriteObject, Finish, relay
  <2> QED BY <1>1, <2>1, <2>2, <2>3, <2>4, <2>5, <2>6, <2>7 DEF ListStep
<1>2. CASE LoadDb
  BY <1>2 DEF LoadDb, LoadDbReads, LoadDbEnds, work
<1>3. CASE ListCrash
  BY <1>3 DEF ListCrash
<1> QED BY <1>1, <1>2, <1>3 DEF ListStepOrCrash

LEMMA OrderStep ==
  ASSUME ListInv, ListStepOrCrash
  PROVE  SavedInOrder' /\ KeysHaveObjects'
<1> USE DEF ListInv, ListType, Apart, NamesGiven, SavedInOrder, KeysHaveObjects,
            Saving, Removing, Busy
<1>1. ASSUME NEW p \in Procs, ListStep(p)
      PROVE  SavedInOrder' /\ KeysHaveObjects'
  <2>1. ASSUME NEW n \in Names,
               BeginSave(p, n) \/ BeginRemove(p, n) \/ BeginWrite(p, n)
        PROVE  SavedInOrder' /\ KeysHaveObjects'
    BY <2>1, ListTypeStep, <1>1 DEF BeginSave, BeginRemove, BeginWrite, Begin, Overlap
  <2>2. ASSUME NEW n \in Names, LoadDbAdds(p, n)
        PROVE  SavedInOrder' /\ KeysHaveObjects'
    BY <2>2 DEF LoadDbAdds, Begin
  <2>3. CASE SetObject(p)
    BY <2>3 DEF SetObject, GoOn
  <2>4. CASE DelObject(p)
    BY <2>4 DEF DelObject, GoOn
  <2>5. CASE AddKey(p)
    BY <2>5 DEF AddKey, GoOn, Finish
  <2>6. CASE InsertChannel(p) \/ WriteObject(p)
    BY <2>6 DEF InsertChannel, WriteObject, Finish
  <2>7. CASE RemKey(p)
    BY <2>7 DEF RemKey, Finish
  <2> QED BY <1>1, <2>1, <2>2, <2>3, <2>4, <2>5, <2>6, <2>7 DEF ListStep
<1>2. CASE LoadDb
  BY <1>2 DEF LoadDb, LoadDbReads, LoadDbEnds, work
<1>3. CASE ListCrash
  BY <1>3 DEF ListCrash
<1> QED BY <1>1, <1>2, <1>3 DEF ListStepOrCrash

LEMMA MatchStep ==
  ASSUME ListInv, ListStepOrCrash
  PROVE  MapMatchesList'
<1> USE DEF ListInv, ListType, BootSteps, Apart, NamesGiven, SavedInOrder,
            MapMatchesList, Underway, Saving, Removing, Busy
<1>1. ASSUME NEW p \in Procs, ListStep(p) PROVE MapMatchesList'
  <2>1. ASSUME NEW n \in Names, BeginSave(p, n) PROVE MapMatchesList'
    BY <2>1 DEF BeginSave, Begin, Overlap, relay
  <2>2. ASSUME NEW n \in Names, BeginRemove(p, n) PROVE MapMatchesList'
    BY <2>2 DEF BeginRemove, Begin, Overlap, relay
  <2>3. ASSUME NEW n \in Names, BeginWrite(p, n) PROVE MapMatchesList'
    BY <2>3 DEF BeginWrite, Begin, relay
  <2>4. ASSUME NEW n \in Names, LoadDbAdds(p, n) PROVE MapMatchesList'
    BY <2>4 DEF LoadDbAdds, Begin
  <2>5. CASE SetObject(p)
    BY <2>5 DEF SetObject, GoOn, relay
  <2>6. CASE DelObject(p)
    BY <2>6 DEF DelObject, GoOn, relay
  <2>7. CASE AddKey(p)
    BY <2>7 DEF AddKey, GoOn, Finish, relay
  <2>8. CASE InsertChannel(p)
    BY <2>8 DEF InsertChannel, Finish, relay
  <2>9. CASE RemKey(p)
    BY <2>9 DEF RemKey, Finish, relay
  <2>10. CASE WriteObject(p)
    BY <2>10 DEF WriteObject, Finish, relay
  <2> QED BY <1>1, <2>1, <2>2, <2>3, <2>4, <2>5, <2>6, <2>7, <2>8, <2>9, <2>10
          DEF ListStep
<1>2. CASE LoadDbReads
  BY <1>2 DEF LoadDbReads, Load, KeysHaveObjects, work
<1>3. CASE LoadDbEnds
  BY <1>3 DEF LoadDbEnds, work
<1>4. CASE ListCrash
  BY <1>4 DEF ListCrash
<1> QED BY <1>1, <1>2, <1>3, <1>4 DEF ListStepOrCrash, LoadDb

LEMMA ListInvStep ==
  ASSUME ListInv, ListStepOrCrash
  PROVE  ListInv'
BY ListTypeStep, BootStep, OrderStep, MatchStep DEF ListInv

LEMMA ListInvStutter ==
  ASSUME ListInv, UNCHANGED redisList
  PROVE  ListInv'
BY DEF ListInv, redisList, work, relay, ListType, NamesGiven, BootSteps, Apart,
       SavedInOrder, KeysHaveObjects, MapMatchesList, Underway, Busy

LEMMA InvIsWhole == ListInv => ListIsWhole
BY DEF ListInv, ListType, ListIsWhole, KeysHaveObjects, MapMatchesList, Underway,
       Busy, Saving, Removing, BootSteps

-----------------------------------------------------------------------------
(* The inductive invariant of the history. *)

StoreType ==
  /\ logid \in Nat
  /\ id \in [Msgs -> Nat \cup {None}]
  /\ logs \subseteq {m \in Msgs : id[m] # None}
  /\ stage \in [Msgs -> {"new", "old", "asked", "drawn", "written", "done"}]
  /\ spread \subseteq Own

ViewType ==
  /\ client \in {"away", "listed", "asking"} /\ seen \subseteq Names
  /\ shown \subseteq Msgs /\ missed \subseteq Msgs /\ floor \in Nat \cup {None}
  /\ client = "away" => floor = None

(* An id is drawn once, when the relay begins to store the message, and a  *)
(* drawn id other than 0 is the id of one message.                         *)
Numbered ==
  /\ \A m \in Msgs : stage[m] \in {"new", "asked"} => id[m] = None
  /\ \A m \in Msgs : stage[m] \in {"old", "drawn", "written"} => id[m] # None
  /\ \A m \in Msgs : id[m] # None => id[m] <= logid
  /\ \A m, n \in Msgs : id[m] = id[n] /\ id[m] \notin {None, 0} => m = n

(* The transport has only messages that the relay is done with.            *)
Carried ==
  /\ TransportType(Theirs) /\ EachOnce
  /\ \A m \in Pending \cup gone : stage[m] = "done"

(* NoGap, and the oldest log of the replies itself.                        *)
Reached ==
  floor # None =>
    \A m \in logs :
      id[m] # 0 /\ id[m] >= floor => m \in shown \cup OnTheWay \cup missed

HistoryInv ==
  ListInv /\ StoreType /\ ViewType /\ Numbered /\ Carried /\ Reached

LEMMA MsgFacts ==
  /\ NoMsg \notin Theirs /\ None \notin Nat /\ IsFiniteSet(Msgs)
  /\ Theirs \subseteq Msgs /\ Own \subseteq Msgs
<1>1. IsFiniteSet(Msgs)
  BY HistoryAssumption, FS_Union DEF Msgs
<1>2. None \notin Nat
  BY HistoryAssumption
<1> QED BY <1>1, <1>2, HistoryAssumption DEF Msgs

LEMMA PendingIsTheirs ==
  ASSUME TransportType(Theirs) PROVE Pending \subseteq Theirs
<1>1. \A q \in Seq(Theirs) : Range(q) \subseteq Theirs
  BY ElementOfSeq, LenProperties DEF Range
<1> QED BY <1>1 DEF TransportType, Pending

-----------------------------------------------------------------------------
LEMMA HistoryInit == Init => HistoryInv
<1> SUFFICES ASSUME Init PROVE HistoryInv
  OBVIOUS
<1>1. ListInv
  BY ListInitInv DEF Init
<1>2. PICK old \in SUBSET Theirs :
        /\ logs = old /\ logid = NumOf(old)
        /\ id \in {f \in [Msgs -> 1..NumOf(old) \cup {None}] :
                    /\ \A m \in Msgs : f[m] = None <=> m \notin old
                    /\ \A m, n \in old : f[m] = f[n] => m = n}
        /\ stage = [m \in Msgs |-> IF m \in old THEN "old" ELSE "new"]
  BY DEF Init
<1>3. NumOf(old) \in Nat
  BY HistoryAssumption, FS_Subset, FS_CardinalityType DEF NumOf
<1>4. StoreType
  BY <1>2, <1>3, MsgFacts DEF Init, StoreType
<1>5. Numbered
  BY <1>2, <1>3, MsgFacts DEF Numbered
<1>6. ViewType /\ Reached
  BY MsgFacts DEF Init, ViewType, Reached
<1>7. Carried
  <2>1. sendq = <<>> /\ wire = <<>> /\ recvq = <<>> /\ gone = {}
        /\ held = [w \in Workers |-> NoMsg]
    BY DEF Init, TransportInit
  <2>2. <<>> \in Seq(Theirs) /\ Len(<<>>) = 0
    BY EmptySeq
  <2>3. TransportType(Theirs)
    BY <2>1, <2>2, CapAssumption DEF TransportType
  <2>4. Holding = {} /\ Pending = {}
    BY <2>1, NoElements DEF Holding, Pending
  <2>5. EachOnce
    BY <2>1, <2>4, NoElements DEF EachOnce
  <2> QED BY <2>1, <2>3, <2>4, <2>5 DEF Carried
<1> QED BY <1>1, <1>4, <1>5, <1>6, <1>7 DEF HistoryInv

-----------------------------------------------------------------------------
(* Parts that an action leaves alone. *)

LEMMA CarriedStays ==
  ASSUME Carried, UNCHANGED transport,
         \A m \in Theirs : stage[m] = "done" => stage'[m] = "done"
  PROVE  Carried' /\ Pending' = Pending
<1>1. UNCHANGED <<sendq, wire, recvq, held, gone, Pending, Holding>>
  BY DEF transport, Pending, Holding, Range
<1>2. TransportType(Theirs)' /\ EachOnce'
  BY <1>1 DEF Carried, TransportType, EachOnce, IsInjective
<1>3. Pending \cup gone \subseteq Theirs
  BY PendingIsTheirs DEF Carried, TransportType
<1> QED BY <1>1, <1>2, <1>3 DEF Carried

LEMMA ListStays ==
  ASSUME ListInv, UNCHANGED redisList PROVE ListInv'
  BY ListInvStutter

(* Something is sent to the client's connection, or given up. *)
LEMMA BroadcastCovers ==
  ASSUME ViewType, NEW m \in Msgs, Broadcast(m), UNCHANGED <<client, seen, floor>>
  PROVE  /\ ViewType' /\ shown \subseteq shown' /\ missed \subseteq missed'
         /\ floor # None => m \in shown' \cup missed'
  BY DEF ViewType, Broadcast, Gets, Misses

-----------------------------------------------------------------------------
(* A reply. *)

Below == {ss \in Nat \X Nat : ss[1] < ss[2]}

LEMMA OldestOf ==
  ASSUME NEW S, S # {}, StoreType, S \subseteq logs
  PROVE  /\ Oldest(S) \in Nat
         /\ \E m \in S : Oldest(S) = id[m]
         /\ \A m \in S : Oldest(S) <= id[m]
<1> DEFINE T == {id[m] : m \in S}
<1>1. T \subseteq Nat /\ T # {}
  BY MsgFacts DEF StoreType
<1>2. PICK x \in T : \A y \in T : <<y, x>> \notin Below
  <2>1. IsWellFoundedOn(Below, Nat)
    BY NatLessThanWellFounded DEF OpToRel, Below
  <2> HIDE DEF T
  <2> QED BY <1>1, <2>1, WFMin
<1>3. \A y \in T : x <= y
  <2> SUFFICES ASSUME NEW y \in T PROVE x <= y
    OBVIOUS
  <2>1. x \in Nat /\ y \in Nat
    BY <1>1
  <2>2. <<y, x>> \in Nat \X Nat /\ <<y, x>>[1] = y /\ <<y, x>>[2] = x
    BY <2>1
  <2>3. ~(y < x)
    BY <1>2, <2>2 DEF Below
  <2> QED BY <2>1, <2>3
<1>4. /\ Oldest(S) \in T /\ \A m \in S : Oldest(S) <= id[m]
  BY <1>3 DEF Oldest
<1> QED BY <1>1, <1>4

LEMMA NewestOf ==
  ASSUME StoreType, NEW part \in SUBSET logs, NEW S \in Newest(part)
  PROVE  /\ S \subseteq part
         /\ S = {} => part = {}
         /\ \A m \in part, n \in S : id[m] > id[n] => m \in S
<1>1. /\ S \subseteq part
      /\ NumOf(S) = IF NumOf(part) < Page THEN NumOf(part) ELSE Page
      /\ \A m \in S, n \in part \ S : id[m] >= id[n]
  BY DEF Newest
<1>2. IsFiniteSet(part)
  BY MsgFacts, FS_Subset DEF StoreType
<1>3. ASSUME S = {} PROVE part = {}
  <2>1. NumOf(S) = 0
    BY <1>3, FS_EmptySet DEF NumOf
  <2>2. NumOf(part) = 0
    BY <1>1, <2>1, HistoryAssumption
  <2> QED BY <1>2, <2>2, FS_EmptySet DEF NumOf
<1>4. ASSUME NEW m \in part, NEW n \in S, id[m] > id[n] PROVE m \in S
  <2>1. id[m] \in Nat /\ id[n] \in Nat
    BY <1>1 DEF StoreType
  <2> QED BY <1>1, <1>4, <2>1
<1> QED BY <1>1, <1>3, <1>4

(* After a reply from a part of the log that lacks only what was covered   *)
(* before, everything from the new floor on is covered.                    *)
LEMMA ReplyStep ==
  ASSUME HistoryInv, NEW part \in SUBSET logs, NEW S \in Newest(part), Reply(S),
         \A m \in logs \ part :
           id[m] # 0 => m \in shown \cup OnTheWay \cup missed,
         UNCHANGED <<store, OnTheWay>>,
         client \in {"listed", "asking"},
         client' \in {"listed", "asking"}, seen' \in SUBSET Names
  PROVE  ViewType' /\ Reached'
<1> USE DEF HistoryInv, StoreType, store
<1>1. /\ S \subseteq part
      /\ S = {} => part = {}
      /\ \A m \in part, n \in S : id[m] > id[n] => m \in S
  BY NewestOf
<1>2. /\ shown' = shown \cup S /\ missed' = missed
      /\ floor' = IF S = {} THEN 0 ELSE Oldest(S)
  BY DEF Reply, Gets
<1>3. floor' \in Nat
  BY <1>1, <1>2, OldestOf
<1>4. ViewType'
  BY <1>1, <1>2, <1>3, MsgFacts DEF ViewType
<1>5. ASSUME NEW m \in logs', id'[m] # 0, id'[m] >= floor'
      PROVE  m \in shown' \cup OnTheWay' \cup missed'
  <2>1. CASE m \notin part
    BY <1>2, <1>5, <2>1
  <2>2. CASE m \in part
    <3>1. S # {}
      BY <1>1, <2>2
    <3>2. PICK n \in S : floor' = id[n]
      BY <1>1, <1>2, <3>1, OldestOf
    <3>3. n \in Msgs /\ m \in Msgs /\ id[n] \in Nat /\ id[m] \in Nat
      BY <1>1, <1>5, <3>2
    <3>4. CASE id[m] = id[n]
      BY <1>2, <1>5, <3>2, <3>3, <3>4, MsgFacts DEF Numbered
    <3>5. CASE id[m] # id[n]
      BY <1>1, <1>2, <1>5, <2>2, <3>2, <3>3, <3>5
    <3> QED BY <3>4, <3>5
  <2> QED BY <2>1, <2>2
<1> QED BY <1>4, <1>5 DEF Reached

-----------------------------------------------------------------------------
(* The relay's steps on a message. *)

(* A message that is in no log gets its number. *)
LEMMA DrawIdStep ==
  ASSUME HistoryInv, NEW m \in Msgs, id[m] = None, m \notin Pending,
         stage[m] \in {"new", "asked"}, DrawId(m), m \in Theirs \/ stage[m] = "asked",
         UNCHANGED <<redisList, transport, spread, view>>
  PROVE  HistoryInv'
<1> USE MsgFacts DEF HistoryInv
<1>1. /\ stage' = [stage EXCEPT ![m] = "drawn"] /\ logs' = logs
      /\ \/ id' = [id EXCEPT ![m] = logid + 1] /\ logid' = logid + 1
         \/ id' = [id EXCEPT ![m] = 0] /\ logid' = logid
  BY DEF DrawId, Incr, Reach
<1>2. ListInv'
  BY ListStays
<1>3. StoreType' /\ Numbered'
  BY <1>1 DEF StoreType, Numbered
<1>4. Carried' /\ Pending' = Pending
  BY <1>1, CarriedStays DEF StoreType
<1>5. ViewType'
  BY DEF ViewType, view
<1>6. OnTheWay \subseteq OnTheWay'
  BY <1>1, <1>4 DEF OnTheWay, StoreType
<1>7. Reached'
  <2> SUFFICES ASSUME floor # None, NEW n \in logs, id'[n] # 0, id'[n] >= floor
               PROVE  n \in shown \cup OnTheWay' \cup missed
    BY <1>1 DEF Reached, view
  <2>1. n # m /\ id'[n] = id[n]
    BY <1>1 DEF StoreType
  <2> QED BY <1>6, <2>1 DEF Reached
<1> QED BY <1>2, <1>3, <1>4, <1>5, <1>7

(* Nothing that was covered is lost when the view and the log stay.        *)
LEMMA ReachedStays ==
  ASSUME Reached, UNCHANGED <<id, logs, floor>>, shown \subseteq shown',
         missed \subseteq missed',
         floor # None => OnTheWay \subseteq OnTheWay' \cup shown' \cup missed'
  PROVE  Reached'
BY DEF Reached

LEMMA LineStep ==
  ASSUME HistoryInv, NEW m \in Theirs, Hear(m) \/ StoreLine(m) \/ Announce(m)
  PROVE  HistoryInv'
<1> USE MsgFacts DEF HistoryInv
<1>1. CASE Hear(m)
  <2>1. stage[m] = "new" /\ id[m] = None /\ m \notin Pending
    BY <1>1 DEF Hear, Numbered, Carried
  <2> QED BY <1>1, <2>1, DrawIdStep DEF Hear
<1>2. CASE StoreLine(m)
  <2>1. /\ stage[m] = "drawn" /\ stage' = [stage EXCEPT ![m] = "written"]
        /\ logs' \subseteq logs \cup {m} /\ id' = id /\ logid' = logid
        /\ UNCHANGED <<redisList, transport, spread, view>>
    BY <1>2 DEF StoreLine, WriteLog, Reach
  <2>2. ListInv'
    BY <2>1, ListStays
  <2>3. StoreType' /\ Numbered'
    BY <2>1 DEF StoreType, Numbered
  <2>4. Carried' /\ Pending' = Pending
    BY <2>1, CarriedStays DEF StoreType
  <2>5. ViewType'
    BY <2>1 DEF ViewType, view
  <2>6. OnTheWay \cup {m} \subseteq OnTheWay'
    BY <2>1, <2>4 DEF OnTheWay, StoreType
  <2>7. Reached'
    BY <2>1, <2>6 DEF Reached, view
  <2> QED BY <2>2, <2>3, <2>4, <2>5, <2>7
<1>3. CASE Announce(m)
  <2>1. /\ stage[m] = "written" /\ stage' = [stage EXCEPT ![m] = "done"] /\ Send(m)
        /\ UNCHANGED <<redisList, store, spread, view>>
    BY <1>3 DEF Announce, Reach
  <2>2. ListInv'
    BY <2>1, ListStays
  <2>3. StoreType' /\ Numbered'
    BY <2>1 DEF StoreType, Numbered, store
  <2>4. m \notin Pending \cup gone
    BY <2>1 DEF Carried
  <2>5. /\ TransportType(Theirs)' /\ EachOnce'
        /\ Pending' = Pending \cup {m} /\ UNCHANGED gone
    BY <2>1, <2>4, SendStep DEF Carried
  <2>6. Carried'
    BY <2>1, <2>5, PendingIsTheirs DEF Carried, StoreType, TransportType
  <2>7. ViewType'
    BY <2>1 DEF ViewType, view
  <2>8. OnTheWay \subseteq OnTheWay'
    BY <2>1, <2>5 DEF OnTheWay, StoreType
  <2>9. Reached'
    BY <2>1, <2>8, ReachedStays DEF store, view
  <2> QED BY <2>2, <2>3, <2>6, <2>7, <2>9
<1> QED BY <1>1, <1>2, <1>3

LEMMA OwnStep ==
  ASSUME HistoryInv, NEW m \in Own,
         SendLog(m) \/ BroadcastOwn(m) \/ SayOwn(m) \/ StoreOwn(m)
  PROVE  HistoryInv'
<1> USE MsgFacts DEF HistoryInv
<1>1. CASE SendLog(m)
  <2>1. /\ stage[m] = "new" /\ stage' = [stage EXCEPT ![m] = "asked"]
        /\ logid' \in {logid, logid + 1} /\ id' = id /\ logs' = logs
        /\ UNCHANGED <<redisList, transport, spread, view>>
    BY <1>1 DEF SendLog, Reach
  <2>2. ListInv'
    BY <2>1, ListStays
  <2>3. StoreType' /\ Numbered'
    BY <2>1 DEF StoreType, Numbered
  <2>4. Carried' /\ Pending' = Pending
    BY <2>1, CarriedStays DEF StoreType
  <2>5. ViewType'
    BY <2>1 DEF ViewType, view
  <2>6. OnTheWay \subseteq OnTheWay'
    BY <2>1, <2>4 DEF OnTheWay, StoreType
  <2>7. Reached'
    BY <2>1, <2>6, ReachedStays DEF view
  <2> QED BY <2>2, <2>3, <2>4, <2>5, <2>7
<1>2. CASE BroadcastOwn(m)
  <2>1. /\ spread' = spread \cup {m} /\ Broadcast(m)
        /\ UNCHANGED <<redisList, transport, store, stage, client, seen, floor>>
    BY <1>2 DEF BroadcastOwn
  <2>2. ListInv'
    BY <2>1, ListStays
  <2>3. StoreType' /\ Numbered'
    BY <2>1 DEF StoreType, Numbered, store
  <2>4. Carried' /\ Pending' = Pending
    BY <2>1, CarriedStays
  <2>5. /\ ViewType' /\ shown \subseteq shown' /\ missed \subseteq missed'
        /\ floor # None => m \in shown' \cup missed'
    BY <2>1, BroadcastCovers
  <2>6. OnTheWay \subseteq OnTheWay' \cup {m}
    BY <2>1, <2>4 DEF OnTheWay
  <2>7. Reached'
    BY <2>1, <2>5, <2>6, ReachedStays DEF store
  <2> QED BY <2>2, <2>3, <2>4, <2>5, <2>7
<1>3. CASE SayOwn(m)
  <2>1. stage[m] = "asked" /\ id[m] = None /\ m \notin Pending
    BY <1>3 DEF SayOwn, Numbered, Carried
  <2> QED BY <1>3, <2>1, DrawIdStep DEF SayOwn
<1>4. CASE StoreOwn(m)
  <2>1. /\ stage[m] = "drawn" /\ stage' = [stage EXCEPT ![m] = "done"]
        /\ logs' \subseteq logs \cup {m} /\ id' = id /\ logid' = logid
        /\ UNCHANGED <<redisList, transport, spread, client, seen, shown, floor>>
    BY <1>4 DEF StoreOwn, WriteLog, Reach
  <2>2. /\ missed \subseteq missed' /\ missed' \subseteq missed \cup {m}
        /\ floor # None /\ m \in spread \ shown => m \in missed'
    BY <1>4 DEF StoreOwn, Misses
  <2>3. ListInv'
    BY <2>1, ListStays
  <2>4. StoreType' /\ Numbered'
    BY <2>1 DEF StoreType, Numbered
  <2>5. Carried' /\ Pending' = Pending
    BY <2>1, CarriedStays DEF StoreType
  <2>6. ViewType'
    BY <2>1, <2>2 DEF ViewType
  <2>7. OnTheWay \subseteq OnTheWay' /\ (m \notin spread => m \in OnTheWay')
    BY <2>1, <2>5, HistoryAssumption DEF OnTheWay, StoreType
  <2>8. Reached'
    BY <2>1, <2>2, <2>7 DEF Reached
  <2> QED BY <2>3, <2>4, <2>5, <2>6, <2>8
<1> QED BY <1>1, <1>2, <1>3, <1>4

-----------------------------------------------------------------------------
(* The messengers and the worker that broadcasts. *)

LEMMA TransferStep ==
  ASSUME HistoryInv, Transfer
  PROVE  HistoryInv' /\ Pending' = Pending /\ UNCHANGED gone
<1> USE MsgFacts DEF HistoryInv
<1>1. /\ Sender \/ Receiver \/ \E w \in Workers : Take(w)
      /\ UNCHANGED <<redisList, store, stage, spread, view>>
  BY DEF Transfer
<1>2. ListInv'
  BY <1>1, ListStays
<1>3. StoreType' /\ Numbered' /\ ViewType'
  BY <1>1 DEF StoreType, Numbered, ViewType, store, view
<1>4. /\ TransportType(Theirs)' /\ EachOnce' /\ Pending' = Pending /\ UNCHANGED gone
  BY <1>1, MoveStep DEF Carried
<1>5. Carried'
  BY <1>1, <1>4 DEF Carried
<1>6. OnTheWay' = OnTheWay
  BY <1>1, <1>4 DEF OnTheWay
<1>7. Reached'
  BY <1>1, <1>6, ReachedStays DEF store, view
<1> QED BY <1>2, <1>3, <1>4, <1>5, <1>7

LEMMA ChatStep ==
  ASSUME HistoryInv, NEW w \in Workers, Chat(w)
  PROVE  /\ HistoryInv' /\ held[w] \in Theirs /\ held[w] \in Pending
         /\ Pending' = Pending \ {held[w]} /\ gone' = gone \cup {held[w]}
<1> USE MsgFacts DEF HistoryInv
<1>1. /\ Return(w) /\ Broadcast(held[w])
      /\ UNCHANGED <<redisList, store, stage, spread, client, seen, floor>>
  BY DEF Chat
<1>2. ListInv'
  BY <1>1, ListStays
<1>3. StoreType' /\ Numbered'
  BY <1>1 DEF StoreType, Numbered, store
<1>4. /\ TransportType(Theirs)' /\ EachOnce'
      /\ held[w] \in Theirs /\ held[w] \in Pending
      /\ Pending' = Pending \ {held[w]} /\ gone' = gone \cup {held[w]}
  BY <1>1, ReturnStep DEF Carried
<1>5. Carried'
  BY <1>1, <1>4 DEF Carried
<1>6. /\ ViewType' /\ shown \subseteq shown' /\ missed \subseteq missed'
      /\ floor # None => held[w] \in shown' \cup missed'
  <2>1. held[w] \in Msgs
    BY <1>4
  <2> QED BY <1>1, <2>1, BroadcastCovers
<1>7. OnTheWay \subseteq OnTheWay' \cup {held[w]}
  BY <1>1, <1>4 DEF OnTheWay
<1>8. Reached'
  BY <1>1, <1>6, <1>7, ReachedStays DEF store
<1> QED BY <1>2, <1>3, <1>4, <1>5, <1>6, <1>8

-----------------------------------------------------------------------------
(* The client. *)

LEMMA ClientStep ==
  ASSUME HistoryInv, Login \/ AskLogs \/ InitLogs \/ PastLogs \/ Leave
  PROVE  HistoryInv'
<1> USE MsgFacts DEF HistoryInv
<1>1. UNCHANGED <<redisList, transport, store, stage, spread>>
  BY DEF Login, AskLogs, InitLogs, PastLogs, Leave
<1>2. ListInv'
  BY <1>1, ListStays
<1>3. StoreType' /\ Numbered'
  BY <1>1 DEF StoreType, Numbered, store
<1>4. Carried' /\ Pending' = Pending
  BY <1>1, CarriedStays
<1>5. OnTheWay' = OnTheWay
  BY <1>1, <1>4 DEF OnTheWay
<1>6. CASE Login \/ AskLogs
  <2>1. Load \subseteq Names
    BY DEF ListInv, ListType, Load
  <2>2. UNCHANGED <<shown, floor, missed>>
    BY <1>6 DEF Login, AskLogs
  <2>3. ViewType'
    BY <1>6, <2>1 DEF Login, AskLogs, ViewType
  <2>4. Reached'
    BY <1>1, <1>5, <2>2, ReachedStays DEF store
  <2> QED BY <1>2, <1>3, <1>4, <2>3, <2>4
<1>7. CASE InitLogs
  <2>1. client = "asking" /\ client' = "listed" /\ seen' = {}
    BY <1>7 DEF InitLogs
  <2>2. CASE Chan \in seen
    <3>1. PICK last \in {-1} \cup {id[m] : m \in shown \cap logs} :
            \E S \in GetLastLogs(last) : Reply(S)
      BY <1>7, <2>2 DEF InitLogs
    <3>2. {m \in logs : last = -1 => id[m] > last} = logs
      BY DEF StoreType
    <3>3. PICK S \in Newest(logs) : Reply(S)
      BY <3>1, <3>2 DEF GetLastLogs
    <3>4. ViewType' /\ Reached'
      <4> DEFINE part == logs
      <4>1. part \in SUBSET logs /\ logs \ part = {}
        OBVIOUS
      <4> HIDE DEF part
      <4>2. S \in Newest(part)
        BY <3>3 DEF part
      <4>3. HistoryInv
        OBVIOUS
      <4> QED BY <1>1, <1>5, <2>1, <3>3, <4>1, <4>2, <4>3, ReplyStep
    <3> QED BY <1>2, <1>3, <1>4, <3>4
  <2>3. CASE Chan \notin seen
    <3>1. UNCHANGED <<shown, floor, missed>>
      BY <1>7, <2>3 DEF InitLogs
    <3>2. ViewType' /\ Reached'
      BY <1>1, <1>5, <2>1, <3>1, ReachedStays DEF ViewType, store
    <3> QED BY <1>2, <1>3, <1>4, <3>2
  <2> QED BY <2>2, <2>3
<1>8. CASE PastLogs
  <2>1. /\ client = "listed" /\ floor \notin {None, 0}
        /\ UNCHANGED <<client, seen>>
    BY <1>8 DEF PastLogs
  <2> DEFINE part == {m \in logs : id[m] < floor}
  <2>2. PICK S \in Newest(part) : Reply(S)
    BY <1>8 DEF PastLogs, GetPastLogs
  <2>3. \A m \in logs \ part : id[m] # 0 => m \in shown \cup OnTheWay \cup missed
    <3> SUFFICES ASSUME NEW m \in logs \ part, id[m] # 0
                 PROVE  m \in shown \cup OnTheWay \cup missed
      OBVIOUS
    <3>1. id[m] \in Nat /\ floor \in Nat
      BY <2>1 DEF StoreType, ViewType
    <3>2. id[m] >= floor
      BY <3>1
    <3> QED BY <2>1, <3>2 DEF Reached
  <2>4. ViewType' /\ Reached'
    <3>1. part \in SUBSET logs /\ seen' \in SUBSET Names
      BY <2>1 DEF ViewType
    <3>2. HistoryInv
      OBVIOUS
    <3> HIDE DEF part
    <3> QED BY <1>1, <1>5, <2>1, <2>2, <2>3, <3>1, <3>2, ReplyStep
  <2> QED BY <1>2, <1>3, <1>4, <2>4
<1>9. CASE Leave
  <2>1. ViewType' /\ Reached'
    BY <1>9 DEF Leave, ViewType, Reached
  <2> QED BY <1>2, <1>3, <1>4, <2>1
<1> QED BY <1>6, <1>7, <1>8, <1>9

-----------------------------------------------------------------------------
(* The relay ends. *)

LEMMA CrashStep ==
  ASSUME HistoryInv, Crash
  PROVE  /\ HistoryInv' /\ Pending' = Pending \ (gone' \ gone)
         /\ gone' \ gone \subseteq Pending /\ gone \subseteq gone'
<1> USE MsgFacts DEF HistoryInv
<1> DEFINE lost == {m \in Theirs : stage[m] = "written"} \cup (gone' \ gone)
<1>1. /\ ListCrash /\ SenderDies /\ Misses(lost)
      /\ UNCHANGED <<store, spread, client, seen, shown, floor>>
      /\ stage' \in [Msgs -> {"new", "old", "asked", "done"}]
      /\ \A m \in Msgs :
           \/ stage'[m] = "done" /\ (InHand(m) \/ stage[m] = "asked")
           \/ stage'[m] = stage[m] /\ ~InHand(m)
  BY DEF Crash
<1>2. ListInv'
  BY <1>1, ListInvStep DEF ListStepOrCrash
<1>3. StoreType' /\ Numbered'
  <2>1. StoreType'
    BY <1>1 DEF StoreType, store
  <2>2. \A m \in Msgs : stage'[m] \in {"new", "asked", "old"} => stage'[m] = stage[m]
    BY <1>1
  <2>3. UNCHANGED <<logid, id>> /\ \A m \in Msgs : stage'[m] \notin {"drawn", "written"}
    BY <1>1 DEF store
  <2> QED BY <2>1, <2>2, <2>3 DEF Numbered
<1>4. /\ TransportType(Theirs)' /\ EachOnce'
      /\ Pending' = Pending \ (gone' \ gone)
      /\ gone' \ gone \subseteq Pending /\ gone \subseteq gone'
  BY <1>1, DiesStep DEF Carried
<1>5. Carried'
  <2>1. Pending' \cup gone' \subseteq Pending \cup gone
    BY <1>4
  <2>2. Pending \cup gone \subseteq Theirs
    BY PendingIsTheirs DEF Carried, TransportType
  <2>3. \A m \in Pending \cup gone : stage'[m] = "done"
    BY <1>1, <2>2 DEF Carried
  <2> QED BY <1>4, <2>1, <2>3 DEF Carried
<1>6. lost \subseteq Msgs
  BY <1>4, PendingIsTheirs DEF Carried
<1>7. /\ missed' \subseteq missed \cup lost /\ missed \subseteq missed'
      /\ floor # None => lost \subseteq missed'
  BY <1>1 DEF Misses
<1>8. ViewType'
  BY <1>1, <1>6, <1>7 DEF ViewType
<1>9. floor # None => OnTheWay \subseteq OnTheWay' \cup missed'
  <2>1. \A m \in Own : stage[m] # "new" => stage'[m] # "new"
    BY <1>1
  <2> HIDE DEF lost
  <2>2. Pending \cup {m \in Theirs : stage[m] = "written"} \subseteq Pending' \cup lost
    BY <1>4 DEF lost
  <2> QED BY <1>1, <1>7, <2>1, <2>2 DEF OnTheWay
<1>10. Reached'
  BY <1>1, <1>7, <1>9, ReachedStays DEF store
<1> QED BY <1>2, <1>3, <1>4, <1>5, <1>8, <1>10

LEMMA ListWorkStep ==
  ASSUME HistoryInv, ListWork
  PROVE  HistoryInv' /\ Pending' = Pending
<1> USE MsgFacts DEF HistoryInv
<1>1. UNCHANGED <<transport, store, stage, spread, view>>
  BY DEF ListWork
<1>2. ListInv'
  BY ListInvStep DEF ListWork, ListStepOrCrash
<1>3. StoreType' /\ Numbered' /\ ViewType'
  BY <1>1 DEF StoreType, Numbered, ViewType, store, view
<1>4. Carried' /\ Pending' = Pending
  BY <1>1, CarriedStays
<1>5. OnTheWay' = OnTheWay
  BY <1>1, <1>4 DEF OnTheWay
<1>6. Reached'
  BY <1>1, <1>5, ReachedStays DEF store, view
<1> QED BY <1>2, <1>3, <1>4, <1>6

LEMMA Stutter ==
  ASSUME HistoryInv, UNCHANGED vars
  PROVE  HistoryInv' /\ Pending' = Pending /\ UNCHANGED gone
<1> USE DEF HistoryInv
<1>1. UNCHANGED <<redisList, transport, store, stage, spread, view>>
  BY DEF vars
<1>2. ListInv'
  BY <1>1, ListStays
<1>3. StoreType' /\ Numbered' /\ ViewType'
  BY <1>1 DEF StoreType, Numbered, ViewType, store, view
<1>4. Carried' /\ Pending' = Pending
  BY <1>1, CarriedStays
<1>5. OnTheWay' = OnTheWay
  BY <1>1, <1>4 DEF OnTheWay
<1>6. Reached'
  BY <1>1, <1>5, ReachedStays DEF store, view
<1> QED BY <1>1, <1>2, <1>3, <1>4, <1>6 DEF transport

LEMMA HistoryStep == HistoryInv /\ [Next]_vars => HistoryInv'
<1> SUFFICES ASSUME HistoryInv, [Next]_vars PROVE HistoryInv'
  OBVIOUS
<1> QED BY LineStep, OwnStep, TransferStep, ChatStep, ClientStep, ListWorkStep,
           CrashStep, Stutter DEF Next

LEMMA Invariance == Spec => []HistoryInv
<1>1. Init => HistoryInv
  BY HistoryInit
<1>2. HistoryInv /\ [Next]_vars => HistoryInv'
  BY HistoryStep
<1> QED BY <1>1, <1>2, PTL DEF Spec

-----------------------------------------------------------------------------
(* A message in the log has an id, no queue of the messengers holds more   *)
(* than its capacity, and only lines that were heard are in them.          *)
THEOREM TypeCorrect == Spec => []TypeOK
<1>1. HistoryInv => TypeOK
  BY DEF HistoryInv, StoreType, ViewType, Carried, ListInv, TypeOK
<1> QED BY <1>1, Invariance, PTL

(* A key of the list of channels lacks its object only while it is being   *)
(* removed or after a failure, and the map of the relay and the list agree *)
(* whenever nobody works on them (redis.go:185-258, irc_client.go:272-333).*)
THEOREM ListsAreWhole == Spec => []ListIsWhole
<1>1. HistoryInv => ListIsWhole
  BY InvIsWhole DEF HistoryInv
<1> QED BY <1>1, Invariance, PTL

(* A client misses no log between the oldest one of its replies and now,   *)
(* but for the named exceptions (irc_struct.go:76-144).                    *)
THEOREM NoGaps == Spec => []NoGap
<1>1. HistoryInv => NoGap
  <2> SUFFICES ASSUME HistoryInv, floor # None, NEW m \in logs, id[m] > floor
               PROVE  m \in shown \cup OnTheWay \cup missed
    BY DEF NoGap
  <2>1. id[m] \in Nat /\ floor \in Nat
    BY MsgFacts DEF HistoryInv, StoreType, ViewType
  <2>2. id[m] # 0 /\ id[m] >= floor
    BY <2>1
  <2> QED BY <2>2 DEF HistoryInv, Reached
<1> QED BY <1>1, Invariance, PTL

(* The queues, the sockets and the workers of the messengers implement a   *)
(* channel without order that hands over a message at most once            *)
(* (zmq_message.go:100-163).                                               *)
THEOREM TransportImplementsChannel == Spec => TransportIsUnordered
<1>1. Init => Unordered!Init
  <2>1. Init => Pending = {} /\ gone = {}
    BY NoElements DEF Init, TransportInit, Pending
  <2> QED BY <2>1 DEF Unordered!Init
<1>2. HistoryInv /\ [Next]_vars => [Unordered!Next]_<<Pending, gone>>
  <2> SUFFICES ASSUME HistoryInv, [Next]_vars
               PROVE  [Unordered!Next]_<<Pending, gone>>
    OBVIOUS
  <2>1. CASE UNCHANGED transport
    BY <2>1 DEF transport, Pending, Range
  <2>2. ASSUME NEW m \in Theirs, Announce(m) PROVE Unordered!Next
    <3>1. m \notin Pending \cup gone /\ Send(m)
      BY <2>2, MsgFacts DEF Announce, HistoryInv, Carried
    <3>2. Pending' = Pending \cup {m} /\ UNCHANGED gone
      BY <3>1, MsgFacts, SendStep DEF HistoryInv, Carried
    <3> QED BY <3>1, <3>2 DEF Unordered!Next, Unordered!Send
  <2>3. CASE Transfer
    BY <2>3, TransferStep
  <2>4. ASSUME NEW w \in Workers, Chat(w) PROVE Unordered!Next
    BY <2>4, ChatStep DEF Unordered!Next, Unordered!Receive
  <2>5. CASE Crash
    <3> DEFINE lost == gone' \ gone
    <3>1. lost \in SUBSET Pending /\ Pending' = Pending \ lost /\ gone' = gone \cup lost
      BY <2>5, CrashStep
    <3> QED BY <3>1 DEF Unordered!Next, Unordered!Lose
  <2> QED BY <2>1, <2>2, <2>3, <2>4, <2>5
          DEF Next, vars, Hear, StoreLine, SendLog, BroadcastOwn, SayOwn, StoreOwn,
              Login, AskLogs, InitLogs, PastLogs, Leave, ListWork
<1> QED BY <1>1, <1>2, Invariance, PTL
        DEF Spec, TransportIsUnordered, Unordered!Spec
=============================================================================
