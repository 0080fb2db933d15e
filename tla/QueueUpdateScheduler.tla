------------------------ MODULE QueueUpdateScheduler ------------------------
(***************************************************************************)
(* BattlegroundMgr::m_QueueUpdateScheduler: the list of queues to update.  *)
(* Handlers add to it, and so do map update threads, where a player whose  *)
(* inactivity aura runs out leaves a battleground.  BattlegroundMgr::      *)
(* Update, on the world thread after the maps, takes the list and updates  *)
(* the queues.                                                             *)
(*                                                                         *)
(* ScheduleQueueUpdate holds no lock.  Its std::find is one step, and its  *)
(* push_back three: read the end of the vector, store the element there,   *)
(* move the end on, either from the value read before or from memory.      *)
(* Growing the storage is not modelled.                                    *)
(***************************************************************************)
EXTENDS Integers, FiniteSets

CONSTANTS
  World,                    \* the world thread
  MapThreads,               \* the map update threads
  Ids,                      \* schedule ids: queue type, bracket, rating, ...
  Junk,                     \* memory that no element was stored in
  CounterRange              \* 2^8, the range of the loop's uint8

Threads == MapThreads \union {World}
\* Enough for ids listed twice, and for the holes that lost updates leave.
Slots == 1..(2 * Cardinality(Ids) + Cardinality(Threads))

VARIABLES
  phase,                    \* part of World::Update: "sessions", "maps", "queues"
  slots,                    \* storage of m_QueueUpdateScheduler
  size,                     \* its end
  at,                       \* where each thread is in ScheduleQueueUpdate
  adding,                   \* the id each thread adds
  end,                      \* the end as each thread has read it
  batch,                    \* "scheduled" of Update, a function on its indexes
  index,                    \* the loop's i
  asked                     \* history: ids whose call returned, not yet served

vars == <<phase, slots, size, at, adding, end, batch, index, asked>>

Init ==
  /\ phase = "sessions"
  /\ slots = [k \in Slots |-> Junk]
  /\ size = 0
  /\ at = [t \in Threads |-> "idle"]
  /\ adding = [t \in Threads |-> Junk]
  /\ end = [t \in Threads |-> 0]
  /\ batch = <<>>
  /\ index = 0
  /\ asked = {}

Listed == {slots[k] : k \in 1..size}
Running(t) == IF t = World THEN phase = "sessions" ELSE phase = "maps"

\* Slip: ids that are in the list already are added again.
CallWithoutFind(t, id) ==
  /\ Running(t) /\ at[t] = "idle"
  /\ size < Cardinality(Slots)
  /\ at' = [at EXCEPT ![t] = "end"]
  /\ adding' = [adding EXCEPT ![t] = id]
  /\ UNCHANGED <<phase, slots, size, end, batch, index, asked>>

\* Slip: another update of the same queue, for other ratings, is enough.
CallComparingQueue(t, id) ==
  /\ Running(t) /\ at[t] = "idle"
  /\ IF size > 0
     THEN asked' = asked \union {id} /\ UNCHANGED <<at, adding>>
     ELSE /\ at' = [at EXCEPT ![t] = "end"]
          /\ adding' = [adding EXCEPT ![t] = id]
          /\ UNCHANGED asked
  /\ UNCHANGED <<phase, slots, size, end, batch, index>>

(* ScheduleQueueUpdate: std::find, which may find the id in the list. *)
Call(t, id) ==
  /\ Running(t) /\ at[t] = "idle"
  /\ IF id \in Listed
     THEN asked' = asked \union {id} /\ UNCHANGED <<at, adding>>
     ELSE /\ at' = [at EXCEPT ![t] = "end"]
          /\ adding' = [adding EXCEPT ![t] = id]
          /\ UNCHANGED asked
  /\ UNCHANGED <<phase, slots, size, end, batch, index>>

ReadEnd(t) ==
  /\ at[t] = "end"
  /\ end' = [end EXCEPT ![t] = size]
  /\ at' = [at EXCEPT ![t] = "store"]
  /\ UNCHANGED <<phase, slots, size, adding, batch, index, asked>>

Store(t) ==
  /\ at[t] = "store"
  /\ slots' = [slots EXCEPT ![end[t] + 1] = adding[t]]
  /\ at' = [at EXCEPT ![t] = "grow"]
  /\ UNCHANGED <<phase, size, adding, end, batch, index, asked>>

Grow(t) ==
  /\ at[t] = "grow"
  /\ size' \in {end[t] + 1, size + 1}
  /\ at' = [at EXCEPT ![t] = "idle"]
  /\ asked' = asked \union {adding[t]}
  /\ UNCHANGED <<phase, slots, adding, end, batch, index>>

(* The handlers are done; MapManager::Update begins, and waits for the     *)
(* update threads before it returns.                                       *)
UpdateMaps ==
  /\ phase = "sessions"
  /\ at[World] = "idle"
  /\ phase' = "maps"
  /\ UNCHANGED <<slots, size, at, adding, end, batch, index, asked>>

(* BattlegroundMgr::Update: the list is swapped with an empty one. *)
Take ==
  /\ phase = "maps"
  /\ \A t \in MapThreads : at[t] = "idle"
  /\ phase' = "queues"
  /\ batch' = [k \in 1..size |-> slots[k]]
  /\ slots' = [k \in Slots |-> Junk]
  /\ size' = 0
  /\ index' = 0
  /\ UNCHANGED <<at, adding, end, asked>>

Pending == index < Cardinality(DOMAIN batch)

(* One BattlegroundQueueUpdate of the loop. *)
UpdateQueue ==
  /\ phase = "queues"
  /\ Pending
  /\ asked' = asked \ {batch[index + 1]}
  /\ index' = (index + 1) % CounterRange
  /\ UNCHANGED <<phase, slots, size, at, adding, end, batch>>

Done ==
  /\ phase = "queues"
  /\ ~Pending
  /\ phase' = "sessions"
  /\ batch' = <<>>
  /\ UNCHANGED <<slots, size, at, adding, end, index, asked>>

Add(t) == ReadEnd(t) \/ Store(t) \/ Grow(t)

Next ==
  \/ UpdateMaps \/ Take \/ UpdateQueue \/ Done
  \/ \E t \in Threads : Add(t) \/ \E id \in Ids : Call(t, id)

Spec == Init /\ [][Next]_vars

(* The world loop goes on, and a call that was made ends. *)
Fairness ==
  /\ WF_vars(UpdateMaps \/ Take \/ UpdateQueue \/ Done)
  /\ \A t \in Threads : WF_vars(Add(t))

FairSpec == Spec /\ Fairness

---------------------------------------------------------------------------
TypeOK ==
  /\ phase \in {"sessions", "maps", "queues"}
  /\ slots \in [Slots -> Ids \union {Junk}]
  /\ size \in 0..Cardinality(Slots)
  /\ at \in [Threads -> {"idle", "end", "store", "grow"}]
  /\ adding \in [Threads -> Ids \union {Junk}]
  /\ end \in [Threads -> 0..Cardinality(Slots)]
  /\ index \in 0..CounterRange
  /\ asked \subseteq Ids

(* An update whose call has returned is in the list, or in the part of the *)
(* batch that Update has yet to go through: none gets lost.                *)
NoneLost ==
  \A id \in asked :
    \/ id \in Listed
    \/ phase = "queues" /\ \E k \in DOMAIN batch : k > index /\ batch[k] = id

(* The loop over the batch ends, although its counter is eight bits wide.  *)
LoopEnds == phase = "queues" ~> phase = "sessions"

=============================================================================
