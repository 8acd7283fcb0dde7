----------------------------- MODULE RedisList -----------------------------
(***************************************************************************)
(* A list of objects as RedisSlice keeps it: a set of keys, and one object *)
(* under each key.  The two are written and removed one after the other,   *)
(* by several goroutines and without a transaction, and a reader gets them *)
(* with one SORT ... GET.  The list is a user's channels; the goroutines   *)
(* are those of the relay that run AddChannel, DelChannel, LoadDb and      *)
(* WriteChannelInfo.  Redis is external: single commands are atomic, and   *)
(* each may fail without an effect, except the SORT of a reader.           *)
(***************************************************************************)
EXTENDS Naturals

CONSTANTS
  Names,    \* keys of channels
  Procs,    \* goroutines of the relay that work on the list
  MaxOps,   \* bound: operations begun and crashes
  NoName    \* not a key

ASSUME NameAssumption == NoName \notin Names /\ MaxOps \in Nat

VARIABLES
  listed,   \* members of the set channels:<user>
  objects,  \* keys channel:<user>:... that exist
  channels, \* the relay's map of channels
  step,     \* next step of a goroutine
  name,     \* the channel it works on
  boot,     \* whether the relay is up, down or in LoadDb
  todo,     \* channels LoadDb has still to add
  ops,      \* bound: operations begun and crashes
  torn      \* history: channels that a failed command, a crash or two
            \* goroutines at once left half written

work == <<step, name, ops>>
relay == <<boot, todo>>
redisList == <<listed, objects, channels, work, relay, torn>>

Busy(n, steps) == \E p \in Procs : name[p] = n /\ step[p] \in steps
Saving   == {"set", "sadd", "insert"}
Removing == {"del", "srem"}

ListType ==
  /\ listed \subseteq Names /\ objects \subseteq Names /\ channels \subseteq Names
  /\ step \in [Procs -> {"idle", "write"} \cup Saving \cup Removing]
  /\ name \in [Procs -> Names \cup {NoName}]
  /\ boot \in {"up", "down", "loading"} /\ todo \subseteq Names
  /\ ops \in 0..MaxOps /\ torn \subseteq Names

ListInit ==
  /\ listed = Names /\ objects = Names /\ channels = Names
  /\ step = [p \in Procs |-> "idle"] /\ name = [p \in Procs |-> NoName]
  /\ boot = "up" /\ todo = {} /\ ops = 0 /\ torn = {}

(* Saving and removing one channel at the same time. *)
Overlap(n, others) == IF Busy(n, others) THEN torn \cup {n} ELSE torn

Begin(p, n, s) ==
  /\ step[p] = "idle"
  /\ step' = [step EXCEPT ![p] = s] /\ name' = [name EXCEPT ![p] = n]

GoOn(p, s) ==
  step' = [step EXCEPT ![p] = s] /\ UNCHANGED <<name, ops, relay>>

Finish(p) ==
  /\ step' = [step EXCEPT ![p] = "idle"] /\ name' = [name EXCEPT ![p] = NoName]
  /\ UNCHANGED <<ops, relay>>

(* Bound. *)
WithinBound == ops < MaxOps /\ ops' = ops + 1

(* AddChannel, asked for by the other process. *)
BeginSave(p, n) ==
  /\ boot = "up" /\ WithinBound /\ Begin(p, n, "set") /\ torn' = Overlap(n, Removing)
  /\ UNCHANGED <<listed, objects, channels, relay>>

(* DelChannel: the map first. *)
BeginRemove(p, n) ==
  /\ boot = "up" /\ n \in channels /\ channels' = channels \ {n}
  /\ WithinBound /\ Begin(p, n, "del") /\ torn' = Overlap(n, Saving \cup Removing)
  /\ UNCHANGED <<listed, objects, relay>>

(* WriteChannelInfo: a line for a channel of the map. *)
BeginWrite(p, n) ==
  /\ n \in channels /\ WithinBound /\ Begin(p, n, "write")
  /\ UNCHANGED <<listed, objects, channels, relay, torn>>

(* Defect: the key is added before the object is there. *)
SaddFirst(p) ==
  /\ step[p] = "set" /\ GoOn(p, "sadd")
  /\ listed' = listed \cup {name[p]}
  /\ UNCHANGED <<objects, channels, torn>>

(* RedisSlice.RedisSave: the result of SET is ignored. *)
SetObject(p) ==
  /\ step[p] = "set" /\ GoOn(p, "sadd")
  /\ \/ objects' = objects \cup {name[p]} /\ UNCHANGED torn
     \/ /\ UNCHANGED objects
        /\ torn' = torn \cup ({name[p]} \ objects)
  /\ UNCHANGED <<listed, channels>>

(* SADD, whose error ends AddChannel. *)
AddKey(p) ==
  /\ step[p] = "sadd"
  /\ \/ listed' = listed \cup {name[p]} /\ GoOn(p, "insert") /\ UNCHANGED torn
     \/ /\ UNCHANGED listed /\ Finish(p)
        /\ torn' = torn \cup ({name[p]} \cap (listed \ channels))
  /\ UNCHANGED <<objects, channels>>

InsertChannel(p) ==
  /\ step[p] = "insert" /\ Finish(p)
  /\ channels' = channels \cup {name[p]}
  /\ UNCHANGED <<listed, objects, torn>>

(* RedisSlice.RedisRemove: the result of DEL is ignored. *)
DelObject(p) ==
  /\ step[p] = "del" /\ GoOn(p, "srem")
  /\ objects' = objects \ {name[p]} \/ UNCHANGED objects
  /\ UNCHANGED <<listed, channels, torn>>

(* SREM; after an error the key stays. *)
RemKey(p) ==
  /\ step[p] = "srem" /\ Finish(p)
  /\ \/ listed' = listed \ {name[p]} /\ UNCHANGED torn
     \/ UNCHANGED listed /\ torn' = torn \cup {name[p]}
  /\ UNCHANGED <<objects, channels>>

(* RedisSave of one object; the key is not touched. *)
WriteObject(p) ==
  /\ step[p] = "write" /\ Finish(p)
  /\ objects' = objects \cup {name[p]} \/ UNCHANGED objects
  /\ UNCHANGED <<listed, channels, torn>>

(* RedisSlice.RedisLoad: without one of the objects nothing is returned,   *)
(* and no error either.                                                    *)
Load == IF listed \subseteq objects THEN listed ELSE {}

(* The relay ends between two steps. *)
ListCrash ==
  /\ WithinBound /\ channels' = {} /\ boot' = "down" /\ todo' = {}
  /\ torn' = torn \cup {n \in Names : Busy(n, {"srem"})}
  /\ step' = [p \in Procs |-> "idle"] /\ name' = [p \in Procs |-> NoName]
  /\ UNCHANGED <<listed, objects>>

(* LoadDb reads the list, adds its channels one after the other, and only  *)
(* then lets the handlers of messages start.                               *)
LoadDbReads ==
  /\ boot = "down" /\ boot' = "loading" /\ todo' = Load
  /\ UNCHANGED <<listed, objects, channels, work, torn>>

LoadDbAdds(p, n) ==
  /\ n \in todo /\ todo' = todo \ {n} /\ ~\E m \in Names : Busy(m, Saving)
  /\ Begin(p, n, "set") /\ UNCHANGED <<listed, objects, channels, boot, ops, torn>>

LoadDbEnds ==
  /\ boot = "loading" /\ todo = {} /\ ~\E m \in Names : Busy(m, Saving)
  /\ boot' = "up" /\ UNCHANGED <<listed, objects, channels, work, todo, torn>>

ListStep(p) ==
  \/ \E n \in Names :
       BeginSave(p, n) \/ BeginRemove(p, n) \/ BeginWrite(p, n) \/ LoadDbAdds(p, n)
  \/ SetObject(p) \/ AddKey(p) \/ InsertChannel(p)
  \/ DelObject(p) \/ RemKey(p)
  \/ WriteObject(p)

LoadDb == LoadDbReads \/ LoadDbEnds

(* A key of the list has no object, and the list loads as empty, only      *)
(* while its removal is between DEL and SREM, or after a failed command,   *)
(* a crash at that place or two goroutines at once; without these the      *)
(* relay's map and the list are the same whenever nobody works on them.    *)
(* redis.go:185-199, 242-258, irc_client.go:272-333.                       *)
ListIsWhole ==
  /\ \A n \in listed \ objects : n \in torn \/ Busy(n, {"srem"})
  /\ boot = "up" /\ torn = {} /\ (\A p \in Procs : step[p] = "idle")
       => channels = listed
=============================================================================
