----------------------------- MODULE MapUpdater -----------------------------
(***************************************************************************)
(* The map update threads: MapManager::Update hands each map to            *)
(* MapUpdater, whose worker threads call Map::Update; the update of an     *)
(* instanceable map (MapInstanced) hands its instances over in turn, from  *)
(* within a worker.  The world thread then waits until nothing is pending  *)
(* and goes on to work on the maps alone.  MapUpdate.Threads says how many *)
(* of the workers are started.                                             *)
(*                                                                         *)
(* The critical sections of _lock are steps of their own, except that      *)
(* schedule_update takes a second lock in Push and so is two steps.        *)
(***************************************************************************)
EXTENDS ProducerConsumerQueue, Integers, FiniteSets

CONSTANTS
  World,                    \* the world thread
  Maps,                     \* MapManager::i_maps
  Instances,                \* the instances that may be loaded
  Parent,                   \* [Instances -> Maps], the MapInstanced of each
  NoMap,                    \* a null MapUpdateRequest
  NoThread,                 \* nobody holds _lock
  MaxRounds                 \* bound of the model on calls of Update

ASSUME ThreadAssumption == World \notin Workers /\ NoThread \notin Workers \union {World}
ASSUME MapAssumption ==
  /\ Maps \intersect Instances = {}
  /\ NoMap \notin Maps \union Instances
  /\ Parent \in [Instances -> Maps]
ASSUME RoundAssumption == MaxRounds \in Nat

Threads == Workers \union {World}
Requests == Maps \union Instances

VARIABLES
  pending,                  \* pending_requests
  lock,                     \* who holds _lock inside schedule_update
  asleep,                   \* the world thread is blocked in wait()
  canceled,                 \* _cancelationToken
  worldAt,                  \* where the world thread is
  workerAt,                 \* where each worker is in WorkerThread
  request,                  \* each worker's request
  handing,                  \* the map each thread is scheduling
  toSchedule,               \* the maps each thread has yet to schedule
  loaded,                   \* MapInstanced::m_InstancedMaps of all maps
  mapsLoaded,               \* MapManager::UnloadAll has not run yet
  updated,                  \* history: maps whose Update of this round is over
  rounds                    \* history: rounds begun

masterVars == <<worldAt, asleep, canceled, mapsLoaded, rounds>>
workVars == <<workerAt, request>>
vars == <<queueVars, pending, lock, asleep, canceled, worldAt, workerAt,
          request, handing, toSchedule, loaded, mapsLoaded, updated, rounds>>

Init ==
  /\ QueueInit
  /\ pending = 0
  /\ lock = NoThread
  /\ asleep = FALSE
  /\ canceled = FALSE
  /\ worldAt = "sessions"
  /\ \E started \in SUBSET Workers \ {{}} :
       workerAt = [w \in Workers |-> IF w \in started THEN "pop" ELSE "left"]
  /\ request = [w \in Workers |-> NoMap]
  /\ handing = [t \in Threads |-> NoMap]
  /\ toSchedule = [t \in Threads |-> {}]
  /\ loaded = {}
  /\ mapsLoaded = TRUE
  /\ updated = {}
  /\ rounds = 0

---------------------------------------------------------------------------
(* schedule_update, called by the world thread and by workers.             *)

\* Slip: only the requests of the world thread are counted.
ScheduleUncounted(t, m) ==
  /\ m \in toSchedule[t]
  /\ handing[t] = NoMap
  /\ lock = NoThread
  /\ lock' = t
  /\ pending' = IF t = World THEN pending + 1 ELSE pending
  /\ handing' = [handing EXCEPT ![t] = m]
  /\ toSchedule' = [toSchedule EXCEPT ![t] = @ \ {m}]
  /\ UNCHANGED <<queueVars, masterVars, workVars, loaded, updated>>

(* It takes _lock and counts the request ... *)
ScheduleUpdate(t, m) ==
  /\ m \in toSchedule[t]
  /\ handing[t] = NoMap
  /\ lock = NoThread
  /\ lock' = t
  /\ pending' = pending + 1
  /\ handing' = [handing EXCEPT ![t] = m]
  /\ toSchedule' = [toSchedule EXCEPT ![t] = @ \ {m}]
  /\ UNCHANGED <<queueVars, masterVars, workVars, loaded, updated>>

(* ... and, still holding _lock, pushes it. *)
PushRequest(t) ==
  /\ handing[t] # NoMap
  /\ Push(handing[t])
  /\ lock' = NoThread
  /\ handing' = [handing EXCEPT ![t] = NoMap]
  /\ UNCHANGED <<pending, masterVars, workVars, toSchedule, loaded, updated>>

---------------------------------------------------------------------------
(* WorkerThread.                                                           *)

(* WaitAndPop gives the worker a request, or nothing after Cancel. *)
PopRequest(w) ==
  /\ workerAt[w] = "pop"
  /\ \/ \E m \in Requests :
          /\ PopValue(w, m)
          /\ request' = [request EXCEPT ![w] = m]
     \/ PopNothing(w) /\ UNCHANGED request
  /\ workerAt' = [workerAt EXCEPT ![w] = "check"]
  /\ UNCHANGED <<pending, lock, masterVars, handing, toSchedule, loaded, updated>>

Block(w) ==
  /\ workerAt[w] = "pop"
  /\ PopWait(w)
  /\ UNCHANGED <<pending, lock, masterVars, workVars, handing, toSchedule,
                 loaded, updated>>

Wake(w) ==
  /\ SpuriousWakeup(w)
  /\ UNCHANGED <<pending, lock, masterVars, workVars, handing, toSchedule,
                 loaded, updated>>

(* A worker that sees the token leaves, its request not executed. *)
Leave(w) ==
  /\ workerAt[w] = "check"
  /\ canceled
  /\ workerAt' = [workerAt EXCEPT ![w] = "left"]
  /\ UNCHANGED <<queueVars, pending, lock, masterVars, request, handing,
                 toSchedule, loaded, updated>>

(* Map::Update begins; a MapInstanced has its instances to go through. *)
Call(w) ==
  /\ workerAt[w] = "check"
  /\ ~canceled
  /\ workerAt' = [workerAt EXCEPT ![w] = "update"]
  /\ toSchedule' = [toSchedule EXCEPT ![w] =
                      {i \in loaded : Parent[i] = request[w]}]
  /\ UNCHANGED <<queueVars, pending, lock, masterVars, request, handing,
                 loaded, updated>>

(* MapInstanced::Update destroys an instance that can be unloaded. *)
DestroyInstance(w, i) ==
  /\ i \in toSchedule[w]
  /\ handing[w] = NoMap
  /\ loaded' = loaded \ {i}
  /\ toSchedule' = [toSchedule EXCEPT ![w] = @ \ {i}]
  /\ UNCHANGED <<queueVars, pending, lock, masterVars, workVars, handing, updated>>

(* Map::Update returns. *)
FinishCall(w) ==
  /\ workerAt[w] = "update"
  /\ toSchedule[w] = {} /\ handing[w] = NoMap
  /\ workerAt' = [workerAt EXCEPT ![w] = "finish"]
  /\ updated' = updated \union {request[w]}
  /\ UNCHANGED <<queueVars, pending, lock, masterVars, request, handing,
                 toSchedule, loaded>>

\* Slip: nobody is notified.
UpdateFinishedSilently(w) ==
  /\ workerAt[w] = "finish"
  /\ lock = NoThread
  /\ pending' = pending - 1
  /\ workerAt' = [workerAt EXCEPT ![w] = "pop"]
  /\ request' = [request EXCEPT ![w] = NoMap]
  /\ UNCHANGED <<queueVars, lock, masterVars, handing, toSchedule, loaded,
                 updated>>

(* update_finished; the request is deleted and the loop goes on. *)
UpdateFinished(w) ==
  /\ workerAt[w] = "finish"
  /\ lock = NoThread
  /\ pending' = pending - 1
  /\ asleep' = FALSE
  /\ workerAt' = [workerAt EXCEPT ![w] = "pop"]
  /\ request' = [request EXCEPT ![w] = NoMap]
  /\ UNCHANGED <<queueVars, lock, canceled, worldAt, handing, toSchedule,
                 loaded, mapsLoaded, updated, rounds>>

---------------------------------------------------------------------------
(* The world thread: sessions, MapManager::Update, and at the end          *)
(* MapManager::UnloadAll with MapUpdater::deactivate.                      *)

(* A player enters an instance that is not loaded (session handlers). *)
CreateInstance(i) ==
  /\ worldAt = "sessions"
  /\ i \notin loaded
  /\ loaded' = loaded \union {i}
  /\ UNCHANGED <<queueVars, pending, lock, masterVars, workVars, handing,
                 toSchedule, updated>>

BeginUpdate ==
  /\ worldAt = "sessions"
  /\ rounds < MaxRounds
  /\ rounds' = rounds + 1
  /\ worldAt' = "schedule"
  /\ toSchedule' = [toSchedule EXCEPT ![World] = Maps]
  /\ UNCHANGED <<queueVars, pending, lock, asleep, canceled, mapsLoaded,
                 workVars, handing, loaded, updated>>

AllScheduled ==
  /\ worldAt = "schedule"
  /\ toSchedule[World] = {} /\ handing[World] = NoMap
  /\ worldAt' = "wait"
  /\ UNCHANGED <<queueVars, pending, lock, asleep, canceled, mapsLoaded,
                 rounds, workVars, handing, toSchedule, loaded, updated>>

(* wait(): the loop body, for MapManager::Update and for deactivate. *)
WaitBlocks ==
  /\ worldAt \in {"wait", "deactivate"}
  /\ ~asleep
  /\ lock = NoThread
  /\ pending > 0
  /\ asleep' = TRUE
  /\ UNCHANGED <<queueVars, pending, lock, canceled, worldAt, mapsLoaded,
                 rounds, workVars, handing, toSchedule, loaded, updated>>

WaitReturns ==
  /\ worldAt \in {"wait", "deactivate"}
  /\ ~asleep
  /\ lock = NoThread
  /\ pending = 0
  /\ worldAt' = IF worldAt = "wait" THEN "delayed" ELSE "cancel"
  /\ UNCHANGED <<queueVars, pending, lock, asleep, canceled, mapsLoaded,
                 rounds, workVars, handing, toSchedule, loaded, updated>>

WaitWakes ==
  /\ asleep
  /\ asleep' = FALSE
  /\ UNCHANGED <<queueVars, pending, lock, canceled, worldAt, mapsLoaded,
                 rounds, workVars, handing, toSchedule, loaded, updated>>

(* DelayedUpdate of all maps, and the rest of World::Update. *)
DelayedUpdate ==
  /\ worldAt = "delayed"
  /\ worldAt' = "sessions"
  /\ updated' = {}
  /\ UNCHANGED <<queueVars, pending, lock, asleep, canceled, mapsLoaded,
                 rounds, workVars, handing, toSchedule, loaded>>

(* UnloadAll deletes the maps, then deactivate sets the token ... *)
UnloadAll ==
  /\ worldAt = "sessions"
  /\ loaded' = {}
  /\ mapsLoaded' = FALSE
  /\ worldAt' = "unloaded"
  /\ UNCHANGED <<queueVars, pending, lock, asleep, canceled, rounds, workVars,
                 handing, toSchedule, updated>>

Deactivate ==
  /\ worldAt = "unloaded"
  /\ canceled' = TRUE
  /\ worldAt' = "deactivate"
  /\ UNCHANGED <<queueVars, pending, lock, asleep, mapsLoaded, rounds,
                 workVars, handing, toSchedule, loaded, updated>>

(* ... waits, cancels the queue and joins the threads. *)
CancelQueue ==
  /\ worldAt = "cancel"
  /\ Cancel
  /\ worldAt' = "join"
  /\ UNCHANGED <<pending, lock, asleep, canceled, mapsLoaded, rounds, workVars,
                 handing, toSchedule, loaded, updated>>

Join ==
  /\ worldAt = "join"
  /\ \A w \in Workers : workerAt[w] = "left"
  /\ worldAt' = "stopped"
  /\ UNCHANGED <<queueVars, pending, lock, asleep, canceled, mapsLoaded,
                 rounds, workVars, handing, toSchedule, loaded, updated>>

---------------------------------------------------------------------------
Schedule(t) == PushRequest(t) \/ \E m \in Requests : ScheduleUpdate(t, m)

Worker(w) ==
  \/ PopRequest(w) \/ Block(w) \/ Wake(w) \/ Leave(w) \/ Call(w)
  \/ FinishCall(w) \/ UpdateFinished(w)
  \/ \E i \in Instances : DestroyInstance(w, i)

Wait == AllScheduled \/ WaitBlocks \/ WaitReturns \/ WaitWakes
Stop == UnloadAll \/ Deactivate \/ CancelQueue \/ Join

WorldStep ==
  BeginUpdate \/ Wait \/ DelayedUpdate \/ Stop \/ \E i \in Instances : CreateInstance(i)

Next == WorldStep \/ (\E t \in Threads : Schedule(t)) \/ \E w \in Workers : Worker(w)

Spec == Init /\ [][Next]_vars

(***************************************************************************)
(* A thread that can run does.  Nothing makes the server begin an update,  *)
(* load an instance or shut down; wake-ups without a reason may not come.  *)
(***************************************************************************)
Fairness ==
  /\ \A t \in Threads : WF_vars(Schedule(t))
  /\ \A w \in Workers :
       /\ WF_vars(PopRequest(w) \/ Block(w))
       /\ WF_vars(Leave(w) \/ Call(w) \/ FinishCall(w) \/ UpdateFinished(w))
  /\ WF_vars(AllScheduled \/ WaitBlocks \/ WaitReturns \/ DelayedUpdate
             \/ Deactivate \/ CancelQueue \/ Join)

FairSpec == Spec /\ Fairness

---------------------------------------------------------------------------
Locations == {"sessions", "schedule", "wait", "delayed", "unloaded",
              "deactivate", "cancel", "join", "stopped"}

TypeOK ==
  /\ queue \in Seq(Requests)
  /\ shutdown \in BOOLEAN
  /\ waiting \subseteq Workers
  /\ pending \in Int
  /\ lock \in Threads \union {NoThread}
  /\ asleep \in BOOLEAN
  /\ canceled \in BOOLEAN
  /\ worldAt \in Locations
  /\ workerAt \in [Workers -> {"pop", "check", "update", "finish", "left"}]
  /\ request \in [Workers -> Requests \union {NoMap}]
  /\ handing \in [Threads -> Requests \union {NoMap}]
  /\ toSchedule \in [Threads -> SUBSET Requests]
  /\ loaded \subseteq Instances
  /\ mapsLoaded \in BOOLEAN
  /\ updated \subseteq Requests
  /\ rounds \in 0..MaxRounds

(* The world thread never waits for good: wait() returns in every round,    *)
(* and at the shutdown every worker leaves.                                *)
WaitsEnd ==
  /\ worldAt = "schedule" ~> worldAt = "delayed"
  /\ worldAt = "unloaded" ~> worldAt = "stopped"

(* Each round updates each loaded map once, between its begin and its end. *)
Phase ==
  CASE worldAt \in {"schedule", "wait", "delayed"} -> "round"
    [] worldAt = "sessions" -> "between"
    [] OTHER -> "stopped"

Rounds == INSTANCE MapRounds WITH
  phase <- Phase,
  updating <- {request[w] : w \in {v \in Workers : workerAt[v] = "update"}}

RoundsSpec == Rounds!Spec

=============================================================================
