----------------------------- MODULE WorldUpdate -----------------------------
(***************************************************************************)
(* World::Update: sessions, then the maps, then BattlegroundMgr.  The map  *)
(* update threads of MapUpdater meet the list of scheduled queue updates:  *)
(* a map under update may call ScheduleQueueUpdate (a player leaves a      *)
(* battleground), the handlers of sessions call it on the world thread,    *)
(* and BattlegroundMgr::Update takes the list.                             *)
(***************************************************************************)
EXTENDS MapUpdater

CONSTANTS
  Ids, Junk, CounterRange,  \* of QueueUpdateScheduler
  SeveralCall               \* bound of the model: may several map threads call at a time?

ASSUME SchedulerAssumption ==
  /\ Junk \notin Ids
  /\ IsFiniteSet(Workers) /\ IsFiniteSet(Ids)
  /\ CounterRange \in Nat \ {0}

VARIABLES phase, slots, size, at, adding, end, batch, index, asked

Scheduler == INSTANCE QueueUpdateScheduler WITH MapThreads <- Workers

schedulerVars == <<phase, slots, size, at, adding, end, batch, index, asked>>
systemVars == <<vars, schedulerVars>>

SystemInit == Init /\ Scheduler!Init

(* A thread is free to go on when it is not inside ScheduleQueueUpdate,    *)
(* and the world thread when BattlegroundMgr::Update is not running.       *)
Free(t) == at[t] = "idle" /\ (t = World => phase # "queues")

Started == {w \in Workers : workerAt[w] # "left"}

(* Where a thread may call ScheduleQueueUpdate. *)
Calling(t) ==
  /\ SeveralCall \/ Cardinality(Started) <= 1
  /\ IF t = World THEN worldAt = "sessions" ELSE workerAt[t] = "update" /\ handing[t] = NoMap

UpdateMaps == Free(World) /\ BeginUpdate /\ Scheduler!UpdateMaps

UpdateQueues == DelayedUpdate /\ Scheduler!Take

QueueStep ==
  /\ Scheduler!UpdateQueue \/ Scheduler!Done
  /\ UNCHANGED vars

ScheduleQueueUpdate(t) ==
  /\ Calling(t)
  /\ Scheduler!Add(t) \/ \E id \in Ids : Scheduler!Call(t, id)
  /\ UNCHANGED vars

Alone(t, step) == Free(t) /\ step /\ UNCHANGED schedulerVars

SystemNext ==
  \/ UpdateMaps \/ UpdateQueues \/ QueueStep
  \/ Alone(World, Wait \/ Stop \/ \E i \in Instances : CreateInstance(i))
  \/ \E t \in Threads : Alone(t, Schedule(t)) \/ ScheduleQueueUpdate(t)
  \/ \E w \in Workers : Alone(w, Worker(w))

SystemSpec == SystemInit /\ [][SystemNext]_systemVars

(***************************************************************************)
(* A thread that can run does.  Nothing makes the server begin an update,  *)
(* schedule an update of a queue, load an instance or shut down.           *)
(***************************************************************************)
SystemFairness ==
  /\ WF_systemVars(UpdateQueues)
  /\ WF_systemVars(QueueStep)
  /\ WF_systemVars(Alone(World, AllScheduled \/ WaitBlocks \/ WaitReturns
                               \/ Deactivate \/ CancelQueue \/ Join))
  /\ \A t \in Threads :
       /\ WF_systemVars(Alone(t, Schedule(t)))
       /\ WF_systemVars(Scheduler!Add(t) /\ UNCHANGED vars)
  /\ \A w \in Workers :
       /\ WF_systemVars(Alone(w, PopRequest(w) \/ Block(w)))
       /\ WF_systemVars(Alone(w, Leave(w) \/ Call(w) \/ FinishCall(w)
                                 \/ UpdateFinished(w)))

FairSystemSpec == SystemSpec /\ SystemFairness

---------------------------------------------------------------------------
(***************************************************************************)
(* With one map update thread, which is the default, an update of a queue  *)
(* whose ScheduleQueueUpdate has returned is in the list, or in the part   *)
(* of the batch that BattlegroundMgr::Update has yet to go through.        *)
(***************************************************************************)
NoneLost == Scheduler!NoneLost

(***************************************************************************)
(* The loop of BattlegroundMgr::Update over the batch ends, although its   *)
(* counter is eight bits wide and threads may have listed an id twice.     *)
(***************************************************************************)
LoopEnds == Scheduler!LoopEnds
=============================================================================
