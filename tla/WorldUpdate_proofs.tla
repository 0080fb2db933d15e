-------------------------- MODULE WorldUpdate_proofs --------------------------
(***************************************************************************)
(* Proofs about MapUpdater and WorldUpdate, for any number of map update   *)
(* threads, maps, instances and rounds.                                    *)
(***************************************************************************)
EXTENDS WorldUpdate, FiniteSetTheorems, TLAPS

(* Where a request can be, from the map that is to be scheduled on. *)
Listed == UNION {toSchedule[t] : t \in Threads}
Handed == {handing[t] : t \in Threads} \ {NoMap}
Queued == {queue[i] : i \in 1..Len(queue)}
Taken == {request[w] : w \in Workers} \ {NoMap}
Outstanding == Handed \union Queued \union Taken
Updating == {request[w] : w \in {v \in Workers : workerAt[v] = "update"}}

InRound == worldAt \in {"schedule", "wait", "delayed"}
Stopping == worldAt \in {"deactivate", "cancel", "join", "stopped"}

(* A request is in one place. *)
Once ==
  /\ \A t, u \in Threads : t # u => toSchedule[t] \intersect toSchedule[u] = {}
  /\ \A i, j \in 1..Len(queue) : queue[i] = queue[j] => i = j
  /\ \A v, w \in Workers : request[v] = request[w] /\ request[v] # NoMap => v = w
  /\ Listed \intersect Outstanding = {}
  /\ Handed \intersect Queued = {}
  /\ Taken \intersect (Handed \union Queued) = {}

(* Each thread is where its part of the work is. *)
Work ==
  /\ \A t \in Threads : handing[t] # NoMap <=> lock = t
  /\ \A w \in Workers :
       /\ handing[w] # NoMap \/ toSchedule[w] # {} => workerAt[w] = "update"
       /\ workerAt[w] \in {"update", "finish"} => request[w] # NoMap
       /\ workerAt[w] \in {"pop", "left"} => request[w] = NoMap
       /\ workerAt[w] = "check" /\ request[w] = NoMap => shutdown
       /\ request[w] # NoMap => (request[w] \in updated <=> workerAt[w] = "finish")
       /\ \A i \in toSchedule[w] : i \in loaded /\ Parent[i] = request[w]
  /\ handing[World] # NoMap \/ toSchedule[World] # {} => worldAt = "schedule"
  /\ toSchedule[World] \subseteq Maps
  /\ shutdown => canceled
  /\ canceled <=> Stopping

(* In a round every map has been or will be scheduled, and so has every    *)
(* instance whose map has been called; outside there is nothing to do.     *)
Progress ==
  /\ Listed \union Outstanding \union updated \subseteq Maps \union loaded
  /\ updated \intersect (Listed \union Handed \union Queued) = {}
  /\ InRound =>
       /\ Maps \subseteq Listed \union Outstanding \union updated
       /\ \A i \in loaded : i \in Listed \union Outstanding \union updated
                              <=> Parent[i] \in Updating \union updated
  /\ ~InRound => updated = {}
  /\ worldAt \notin {"schedule", "wait"} => Listed \union Outstanding = {}

(* What wait() relies on. *)
Counted == IsFiniteSet(Outstanding) /\ pending = Cardinality(Outstanding)

IInv == TypeOK /\ Once /\ Work /\ Progress /\ Counted

LEMMA InitIInv == Init => IInv
<1> SUFFICES ASSUME Init PROVE IInv
  OBVIOUS
<1>1. TypeOK
  <2>1. /\ workerAt \in [Workers -> {"pop", "check", "update", "finish", "left"}]
        /\ toSchedule \in [Threads -> SUBSET Requests] /\ rounds \in 0..MaxRounds
    BY RoundAssumption DEF Init, RoundAssumption
  <2>2. /\ queue \in Seq(Requests) /\ worldAt \in Locations /\ pending \in Int
        /\ request \in [Workers -> Requests \union {NoMap}]
        /\ handing \in [Threads -> Requests \union {NoMap}]
    BY DEF Init, QueueInit, Locations
  <2> QED BY <2>1, <2>2 DEF Init, QueueInit, TypeOK
<1>2. Listed = {} /\ Handed = {} /\ Queued = {} /\ Taken = {} /\ Outstanding = {}
  BY DEF Init, QueueInit, Listed, Handed, Queued, Taken, Outstanding
<1>3. Once
  BY <1>2 DEF Init, QueueInit, Once
<1>4. Work
  <2>1. \A w \in Workers : workerAt[w] \in {"pop", "left"} /\ request[w] = NoMap
    BY DEF Init
  <2>2. \A t \in Threads : handing[t] = NoMap /\ lock # t /\ toSchedule[t] = {}
    BY ThreadAssumption DEF ThreadAssumption, Init, Threads
  <2>3. canceled = FALSE /\ shutdown = FALSE /\ ~Stopping
    BY DEF Init, QueueInit, Stopping
  <2> QED BY <2>1, <2>2, <2>3 DEF Work, Threads
<1>5. Progress
  BY <1>2 DEF Init, Progress, InRound
<1>6. Counted
  BY <1>2, FS_EmptySet DEF Init, Counted
<1> QED BY <1>1, <1>3, <1>4, <1>5, <1>6 DEF IInv

-----------------------------------------------------------------------------
(***************************************************************************)
(* How a request goes from place to place.                                 *)
(***************************************************************************)
LEMMA Constants ==
  /\ World \in Threads /\ World \notin Workers /\ Workers \subseteq Threads
  /\ NoThread \notin Threads /\ NoMap \notin Requests
  /\ Maps \intersect Instances = {} /\ Maps \subseteq Requests /\ Instances \subseteq Requests
  /\ Parent \in [Instances -> Maps]
BY ThreadAssumption, MapAssumption DEF ThreadAssumption, MapAssumption, Threads, Requests

LEMMA NoLongerListed ==
  ASSUME TypeOK, Once, NEW t \in Threads, NEW m \in toSchedule[t],
         toSchedule' = [toSchedule EXCEPT ![t] = @ \ {m}]
  PROVE  /\ Listed' = Listed \ {m} /\ m \in Listed
         /\ toSchedule' \in [Threads -> SUBSET Requests]
         /\ toSchedule'[t] = toSchedule[t] \ {m}
         /\ \A u \in Threads \ {t} : toSchedule'[u] = toSchedule[u]
         /\ \A u, v \in Threads : u # v => toSchedule'[u] \intersect toSchedule'[v] = {}
<1>1. /\ toSchedule' \in [Threads -> SUBSET Requests]
      /\ toSchedule'[t] = toSchedule[t] \ {m}
      /\ \A u \in Threads \ {t} : toSchedule'[u] = toSchedule[u]
  BY DEF TypeOK
<1>2. \A u \in Threads \ {t} : m \notin toSchedule[u]
  BY DEF Once
<1>3. \A r : r \in Listed' <=> r \in Listed \ {m}
  BY <1>1, <1>2 DEF Listed
<1>4. \A u, v \in Threads : u # v => toSchedule'[u] \intersect toSchedule'[v] = {}
  BY <1>1 DEF Once
<1> QED BY <1>1, <1>3, <1>4 DEF Listed

\* Whoever holds the lock hands one request over.
LEMMA HandedByOne ==
  ASSUME TypeOK, Work
  PROVE  /\ lock = NoThread => Handed = {}
         /\ \A t \in Threads : handing[t] # NoMap => Handed = {handing[t]} /\ lock = t
<1>1. lock = NoThread => \A t \in Threads : handing[t] = NoMap
  BY Constants DEF Work
<1>2. ASSUME NEW t \in Threads, handing[t] # NoMap PROVE Handed = {handing[t]} /\ lock = t
  <2>1. lock = t /\ \A u \in Threads \ {t} : handing[u] = NoMap
    BY <1>2 DEF Work
  <2> QED BY <1>2, <2>1 DEF Handed
<1> QED BY <1>1, <1>2 DEF Handed

LEMMA QueuedLonger ==
  ASSUME queue \in Seq(Requests), NEW m \in Requests, queue' = Append(queue, m)
  PROVE  /\ Queued' = Queued \union {m} /\ queue' \in Seq(Requests)
         /\ (m \notin Queued /\ \A i, j \in 1..Len(queue) : queue[i] = queue[j] => i = j)
              => \A i, j \in 1..Len(queue') : queue'[i] = queue'[j] => i = j
<1>1. /\ Len(queue) \in Nat /\ Len(queue') = Len(queue) + 1 /\ queue' \in Seq(Requests)
      /\ \A i \in 1..Len(queue) : queue'[i] = queue[i]
      /\ queue'[Len(queue) + 1] = m
  OBVIOUS
<1>2. \A i \in 1..Len(queue') : i \in 1..Len(queue) \/ i = Len(queue) + 1
  BY <1>1
<1>3. \A i \in 1..Len(queue) : i \in 1..Len(queue')
  BY <1>1
<1>4. Len(queue) + 1 \in 1..Len(queue')
  BY <1>1
<1>5. \A r : r \in Queued' <=> r \in Queued \union {m}
  BY <1>1, <1>2, <1>3, <1>4 DEF Queued
<1>6. m \notin Queued => \A i \in 1..Len(queue) : queue[i] # m
  BY DEF Queued
<1> QED BY <1>1, <1>2, <1>5, <1>6

LEMMA QueuedShorter ==
  ASSUME queue \in Seq(Requests), queue # <<>>, queue' = Tail(queue),
         \A i, j \in 1..Len(queue) : queue[i] = queue[j] => i = j
  PROVE  /\ Queued' = Queued \ {Head(queue)} /\ Head(queue) \in Queued
         /\ queue' \in Seq(Requests)
         /\ \A i, j \in 1..Len(queue') : queue'[i] = queue'[j] => i = j
<1>1. /\ Len(queue) \in Nat \ {0} /\ Len(queue') = Len(queue) - 1 /\ queue' \in Seq(Requests)
      /\ Head(queue) = queue[1]
      /\ \A i \in 1..Len(queue') : queue'[i] = queue[i + 1]
  OBVIOUS
<1>2. \A i \in 1..Len(queue') : i + 1 \in 1..Len(queue) /\ i + 1 # 1
  BY <1>1
<1>3. \A i \in 1..Len(queue) : i = 1 \/ (i - 1 \in 1..Len(queue') /\ (i - 1) + 1 = i)
  BY <1>1
<1>4. 1 \in 1..Len(queue)
  BY <1>1
<1>5. \A r : r \in Queued' => r \in Queued \ {queue[1]}
  BY <1>1, <1>2, <1>4 DEF Queued
<1>6. ASSUME NEW r \in Queued \ {queue[1]} PROVE r \in Queued'
  <2>1. PICK i \in 1..Len(queue) : r = queue[i] /\ i # 1
    BY DEF Queued
  <2>2. i - 1 \in 1..Len(queue') /\ queue'[i - 1] = r
    BY <1>1, <1>3, <2>1
  <2> QED BY <2>2 DEF Queued
<1>7. \A i, j \in 1..Len(queue') : queue'[i] = queue'[j] => i = j
  <2> SUFFICES ASSUME NEW i \in 1..Len(queue'), NEW j \in 1..Len(queue'), queue'[i] = queue'[j]
               PROVE  i = j
    OBVIOUS
  <2>1. i + 1 = j + 1
    BY <1>1, <1>2
  <2> QED BY <2>1, <1>1
<1> QED BY <1>1, <1>4, <1>5, <1>6, <1>7 DEF Queued

LEMMA TakenMore ==
  ASSUME TypeOK, NEW w \in Workers, request[w] = NoMap, NEW m \in Requests,
         request' = [request EXCEPT ![w] = m]
  PROVE  /\ Taken' = Taken \union {m} /\ request'[w] = m
         /\ \A v \in Workers \ {w} : request'[v] = request[v]
         /\ request' \in [Workers -> Requests \union {NoMap}]
<1>1. /\ request'[w] = m /\ \A v \in Workers \ {w} : request'[v] = request[v]
      /\ request' \in [Workers -> Requests \union {NoMap}]
  BY DEF TypeOK
<1> QED BY <1>1, Constants DEF Taken

LEMMA TakenLess ==
  ASSUME TypeOK, Once, NEW w \in Workers, request[w] # NoMap,
         request' = [request EXCEPT ![w] = NoMap]
  PROVE  /\ Taken' = Taken \ {request[w]} /\ request[w] \in Taken /\ request'[w] = NoMap
         /\ \A v \in Workers \ {w} : request'[v] = request[v]
         /\ request' \in [Workers -> Requests \union {NoMap}]
<1>1. /\ request'[w] = NoMap /\ \A v \in Workers \ {w} : request'[v] = request[v]
      /\ request' \in [Workers -> Requests \union {NoMap}]
  BY DEF TypeOK
<1>2. \A v \in Workers \ {w} : request[v] # request[w]
  BY DEF Once
<1> QED BY <1>1, <1>2 DEF Taken

-----------------------------------------------------------------------------
(***************************************************************************)
(* Scheduling.                                                             *)
(***************************************************************************)
LEMMA ScheduleUpdateKeeps ==
  ASSUME IInv, NEW t \in Threads, NEW m \in Requests, ScheduleUpdate(t, m)
  PROVE  IInv'
<1>1. /\ m \in toSchedule[t] /\ handing[t] = NoMap /\ lock = NoThread /\ lock' = t
      /\ pending' = pending + 1 /\ handing' = [handing EXCEPT ![t] = m]
      /\ toSchedule' = [toSchedule EXCEPT ![t] = @ \ {m}]
      /\ UNCHANGED <<queue, shutdown, waiting, worldAt, asleep, canceled, mapsLoaded, rounds,
                     workerAt, request, loaded, updated>>
  BY DEF ScheduleUpdate, queueVars, masterVars, workVars
<1>2. TypeOK /\ Once /\ Work /\ Progress /\ Counted /\ m # NoMap
  BY Constants DEF IInv
<1>3. /\ Listed' = Listed \ {m} /\ m \in Listed
      /\ toSchedule' \in [Threads -> SUBSET Requests]
      /\ toSchedule'[t] = toSchedule[t] \ {m}
      /\ \A u \in Threads \ {t} : toSchedule'[u] = toSchedule[u]
      /\ \A u, v \in Threads : u # v => toSchedule'[u] \intersect toSchedule'[v] = {}
  BY <1>1, <1>2, NoLongerListed
<1>4. /\ handing' \in [Threads -> Requests \union {NoMap}] /\ handing'[t] = m
      /\ \A u \in Threads : handing[u] = NoMap
      /\ \A u \in Threads \ {t} : handing'[u] = NoMap
  <2>1. \A u \in Threads : handing[u] = NoMap
    BY <1>1, <1>2, Constants DEF Work
  <2> QED BY <1>1, <1>2, <2>1 DEF TypeOK
<1>5. Handed = {} /\ Handed' = {m}
  BY <1>2, <1>4 DEF Handed
<1>6. Queued' = Queued /\ Taken' = Taken /\ Updating' = Updating
  BY <1>1 DEF Queued, Taken, Updating
<1>7. Outstanding' = Outstanding \union {m} /\ m \notin Outstanding
  BY <1>2, <1>3, <1>5, <1>6 DEF Outstanding, Once
<1>8. TypeOK'
  BY <1>1, <1>2, <1>3, <1>4 DEF TypeOK
<1>9. Once'
  BY <1>1, <1>2, <1>3, <1>5, <1>6, <1>7 DEF Once, Outstanding
<1>10. Work'
  <2>1. \A u \in Threads : handing'[u] # NoMap <=> lock' = u
    BY <1>1, <1>2, <1>4
  <2>2. \A w \in Workers : toSchedule'[w] \subseteq toSchedule[w]
    BY <1>3, Constants
  <2>3. \A w \in Workers : handing'[w] # NoMap => toSchedule[w] # {}
    BY <1>1, <1>4, Constants
  <2>4. handing'[World] # NoMap \/ toSchedule'[World] # {} => worldAt = "schedule"
    BY <1>1, <1>2, <1>3, <1>4, Constants DEF Work
  <2>5. toSchedule'[World] \subseteq Maps
    BY <1>1, <1>2, <1>3, Constants DEF Work
  <2>6. Stopping' = Stopping
    BY <1>1 DEF Stopping
  <2> QED BY <1>1, <1>2, <2>1, <2>2, <2>3, <2>4, <2>5, <2>6 DEF Work
<1>11. Progress'
  <2>1. InRound' = InRound
    BY <1>1 DEF InRound
  <2>2. Listed' \union Outstanding' = Listed \union Outstanding
    BY <1>3, <1>7
  <2>3. Listed' \union Handed' \union Queued' = Listed \union Handed \union Queued
    BY <1>3, <1>5, <1>6
  <2> QED BY <1>1, <1>2, <1>6, <2>1, <2>2, <2>3 DEF Progress
<1>12. Counted'
  BY <1>1, <1>2, <1>7, FS_AddElement DEF Counted
<1> QED BY <1>8, <1>9, <1>10, <1>11, <1>12 DEF IInv

LEMMA PushRequestKeeps ==
  ASSUME IInv, NEW t \in Threads, PushRequest(t)
  PROVE  IInv'
<1>1. /\ handing[t] # NoMap /\ queue' = Append(queue, handing[t]) /\ lock' = NoThread
      /\ handing' = [handing EXCEPT ![t] = NoMap]
      /\ UNCHANGED <<shutdown, pending, worldAt, asleep, canceled, mapsLoaded, rounds,
                     workerAt, request, toSchedule, loaded, updated>>
  BY DEF PushRequest, Push, masterVars, workVars
<1>2. TypeOK /\ Once /\ Work /\ Progress /\ Counted
  BY DEF IInv
<1>3. PICK m \in Requests : m = handing[t]
  BY <1>1, <1>2 DEF TypeOK
<1>4. waiting' \subseteq Workers
  BY <1>2 DEF PushRequest, Push, NotifyOne, TypeOK
<1>5. Handed = {m} /\ lock = t
  BY <1>1, <1>2, <1>3, HandedByOne
<1>6. /\ handing' \in [Threads -> Requests \union {NoMap}]
      /\ \A u \in Threads : handing'[u] = NoMap
  <2>1. \A u \in Threads \ {t} : handing[u] = NoMap
    BY <1>2, <1>5 DEF Work
  <2> QED BY <1>1, <1>2, <2>1 DEF TypeOK
<1>7. Handed' = {}
  BY <1>6 DEF Handed
<1>8. m \notin Queued
  BY <1>2, <1>5 DEF Once
<1>9. /\ Queued' = Queued \union {m} /\ queue' \in Seq(Requests)
      /\ \A i, j \in 1..Len(queue') : queue'[i] = queue'[j] => i = j
  <2>1. queue \in Seq(Requests) /\ queue' = Append(queue, m)
        /\ \A i, j \in 1..Len(queue) : queue[i] = queue[j] => i = j
    BY <1>1, <1>2, <1>3 DEF TypeOK, Once
  <2> QED BY <1>8, <2>1, QueuedLonger
<1>10. Listed' = Listed /\ Taken' = Taken /\ Updating' = Updating
  BY <1>1 DEF Listed, Taken, Updating
<1>11. /\ Outstanding' = Outstanding
       /\ Listed' \union Handed' \union Queued' = Listed \union Handed \union Queued
  BY <1>5, <1>7, <1>9, <1>10 DEF Outstanding
<1>12. TypeOK'
  BY <1>1, <1>2, <1>4, <1>6, <1>9 DEF TypeOK
<1>13. Once'
  BY <1>1, <1>2, <1>5, <1>7, <1>9, <1>10, <1>11 DEF Once
<1>14. Work'
  <2>1. \A u \in Threads : handing'[u] # NoMap <=> lock' = u
    BY <1>1, <1>6, Constants
  <2>2. Stopping' = Stopping
    BY <1>1 DEF Stopping
  <2> QED BY <1>1, <1>2, <1>6, <2>1, <2>2, Constants DEF Work
<1>15. Progress'
  <2>1. InRound' = InRound
    BY <1>1 DEF InRound
  <2> QED BY <1>1, <1>2, <1>10, <1>11, <2>1 DEF Progress
<1>16. Counted'
  BY <1>1, <1>2, <1>11 DEF Counted
<1> QED BY <1>12, <1>13, <1>14, <1>15, <1>16 DEF IInv

-----------------------------------------------------------------------------
(***************************************************************************)
(* The workers.                                                            *)
(***************************************************************************)
LEMMA AtUpdate ==
  ASSUME TypeOK, NEW w \in Workers
  PROVE  /\ workerAt[w] = "update" => request[w] \in Updating
         /\ request[w] # NoMap => request[w] \in Taken /\ request[w] \in Outstanding
         /\ Updating \subseteq Taken \union {NoMap}
BY DEF Updating, Taken, Outstanding

LEMMA PopRequestKeeps ==
  ASSUME IInv, NEW w \in Workers, PopRequest(w)
  PROVE  IInv'
<1>1. /\ workerAt[w] = "pop" /\ workerAt' = [workerAt EXCEPT ![w] = "check"]
      /\ UNCHANGED <<shutdown, waiting, pending, lock, worldAt, asleep, canceled, mapsLoaded,
                     rounds, handing, toSchedule, loaded, updated>>
  BY DEF PopRequest, PopValue, PopNothing, masterVars, queueVars
<1>2. TypeOK /\ Once /\ Work /\ Progress /\ Counted
  BY DEF IInv
<1>3. /\ workerAt' \in [Workers -> {"pop", "check", "update", "finish", "left"}]
      /\ workerAt'[w] = "check" /\ \A v \in Workers \ {w} : workerAt'[v] = workerAt[v]
  BY <1>1, <1>2 DEF TypeOK
<1>4. request[w] = NoMap /\ toSchedule[w] = {} /\ handing[w] = NoMap
  BY <1>1, <1>2, Constants DEF Work
<1>5. Listed' = Listed /\ Handed' = Handed /\ InRound' = InRound /\ Stopping' = Stopping
  BY <1>1 DEF Listed, Handed, InRound, Stopping
<1>6. CASE UNCHANGED <<queue, request>> /\ shutdown
  <2>1. Queued' = Queued /\ Taken' = Taken
    BY <1>6 DEF Queued, Taken
  <2>2. Updating' = Updating
    BY <1>1, <1>3, <1>6 DEF Updating
  <2>3. Outstanding' = Outstanding
    BY <1>5, <2>1 DEF Outstanding
  <2>4. TypeOK'
    BY <1>1, <1>2, <1>3, <1>6 DEF TypeOK
  <2>5. Once'
    BY <1>1, <1>2, <1>5, <1>6, <2>1, <2>3 DEF Once
  <2>6. Work'
    BY <1>1, <1>2, <1>3, <1>4, <1>5, <1>6 DEF Work
  <2>7. Progress'
    BY <1>1, <1>2, <1>5, <2>1, <2>2, <2>3 DEF Progress
  <2>8. Counted'
    BY <1>1, <1>2, <2>3 DEF Counted
  <2> QED BY <2>4, <2>5, <2>6, <2>7, <2>8 DEF IInv
<1>7. CASE \E m \in Requests : PopValue(w, m) /\ request' = [request EXCEPT ![w] = m]
  <2>1. PICK m \in Requests : PopValue(w, m) /\ request' = [request EXCEPT ![w] = m]
    BY <1>7
  <2>2. queue \in Seq(Requests) /\ queue # <<>> /\ m = Head(queue) /\ queue' = Tail(queue)
    BY <1>2, <2>1 DEF PopValue, TypeOK
  <2>3. /\ Queued' = Queued \ {m} /\ m \in Queued /\ queue' \in Seq(Requests)
        /\ \A i, j \in 1..Len(queue') : queue'[i] = queue'[j] => i = j
    BY <1>2, <2>2, QueuedShorter DEF Once
  <2>4. /\ Taken' = Taken \union {m} /\ request'[w] = m
        /\ \A v \in Workers \ {w} : request'[v] = request[v]
        /\ request' \in [Workers -> Requests \union {NoMap}]
    BY <1>2, <1>4, <2>1, TakenMore
  <2>5. Outstanding' = Outstanding
    BY <1>5, <2>3, <2>4 DEF Outstanding
  <2>6. Updating' = Updating
    BY <1>1, <1>3, <2>4 DEF Updating
  <2>7. m # NoMap /\ m \notin updated /\ m \notin Taken /\ m \notin Handed
    BY <1>2, <2>3, Constants DEF Progress, Once
  <2>8. TypeOK'
    BY <1>1, <1>2, <1>3, <2>3, <2>4 DEF TypeOK
  <2>9. Once'
    <3>1. \A v \in Workers : request[v] # m
      BY <2>7 DEF Taken
    <3>2. \A u, v \in Workers : request'[u] = request'[v] /\ request'[u] # NoMap => u = v
      BY <1>2, <2>4, <3>1 DEF Once
    <3> QED BY <1>1, <1>2, <1>5, <2>3, <2>4, <2>5, <2>7, <3>2 DEF Once
  <2>10. Work'
    BY <1>1, <1>2, <1>3, <1>4, <1>5, <2>4, <2>7 DEF Work
  <2>11. Progress'
    BY <1>1, <1>2, <1>5, <2>3, <2>5, <2>6 DEF Progress
  <2>12. Counted'
    BY <1>1, <1>2, <2>5 DEF Counted
  <2> QED BY <2>8, <2>9, <2>10, <2>11, <2>12 DEF IInv
<1> QED BY <1>6, <1>7 DEF PopRequest, PopNothing, queueVars

LEMMA LeaveKeeps ==
  ASSUME IInv, NEW w \in Workers, Leave(w)
  PROVE  IInv'
<1>1. /\ workerAt[w] = "check" /\ canceled /\ workerAt' = [workerAt EXCEPT ![w] = "left"]
      /\ UNCHANGED <<queue, shutdown, waiting, pending, lock, worldAt, asleep, canceled,
                     mapsLoaded, rounds, request, handing, toSchedule, loaded, updated>>
  BY DEF Leave, masterVars, queueVars
<1>2. TypeOK /\ Once /\ Work /\ Progress /\ Counted
  BY DEF IInv
<1>3. /\ workerAt' \in [Workers -> {"pop", "check", "update", "finish", "left"}]
      /\ workerAt'[w] = "left" /\ \A v \in Workers \ {w} : workerAt'[v] = workerAt[v]
  BY <1>1, <1>2 DEF TypeOK
<1>4. request[w] = NoMap
  <2>1. Outstanding = {}
    BY <1>1, <1>2 DEF Work, Progress, Stopping
  <2> QED BY <1>2, <2>1, AtUpdate
<1>5. /\ Listed' = Listed /\ Handed' = Handed /\ InRound' = InRound /\ Stopping' = Stopping
      /\ Queued' = Queued /\ Taken' = Taken /\ Outstanding' = Outstanding
  BY <1>1 DEF Listed, Handed, InRound, Stopping, Queued, Taken, Outstanding
<1>6. Updating' = Updating
  BY <1>1, <1>3 DEF Updating
<1>7. TypeOK'
  BY <1>1, <1>2, <1>3 DEF TypeOK
<1>8. Once'
  BY <1>1, <1>2, <1>5 DEF Once
<1>9. Work'
  BY <1>1, <1>2, <1>3, <1>4, <1>5 DEF Work
<1>10. Progress' /\ Counted'
  BY <1>1, <1>2, <1>5, <1>6 DEF Progress, Counted
<1> QED BY <1>7, <1>8, <1>9, <1>10 DEF IInv

LEMMA WhatIsCalled ==
  ASSUME IInv, NEW w \in Workers, workerAt[w] = "check", ~canceled
  PROVE  /\ request[w] \in Requests /\ request[w] \in Taken
         /\ request[w] \in Maps \union loaded
         /\ request[w] \notin Updating \union updated
         /\ InRound /\ worldAt \in {"schedule", "wait"}
<1>1. TypeOK /\ Once /\ Work /\ Progress
  BY DEF IInv
<1>2. request[w] # NoMap
  BY <1>1 DEF Work
<1>3. request[w] \in Requests /\ request[w] \in Taken /\ request[w] \in Outstanding
  BY <1>1, <1>2, AtUpdate DEF TypeOK
<1>4. request[w] \notin updated
  BY <1>1, <1>2 DEF Work
<1>5. request[w] \notin Updating
  BY <1>1, <1>2 DEF Once, Updating
<1> QED BY <1>1, <1>3, <1>4, <1>5 DEF Progress, InRound

LEMMA CallKeeps ==
  ASSUME IInv, NEW w \in Workers, Call(w)
  PROVE  IInv' /\ Updating' = Updating \union {request[w]}
<1> DEFINE C == {i \in loaded : Parent[i] = request[w]}
<1>1. /\ workerAt[w] = "check" /\ ~canceled /\ workerAt' = [workerAt EXCEPT ![w] = "update"]
      /\ toSchedule' = [toSchedule EXCEPT ![w] = C]
      /\ UNCHANGED <<queue, shutdown, waiting, pending, lock, worldAt, asleep, canceled,
                     mapsLoaded, rounds, request, handing, loaded, updated>>
  BY DEF Call, masterVars, queueVars
<1>2. TypeOK /\ Once /\ Work /\ Progress /\ Counted
  BY DEF IInv
<1>3. /\ workerAt' \in [Workers -> {"pop", "check", "update", "finish", "left"}]
      /\ workerAt'[w] = "update" /\ \A v \in Workers \ {w} : workerAt'[v] = workerAt[v]
  BY <1>1, <1>2 DEF TypeOK
<1>4. /\ request[w] \in Requests /\ request[w] \in Taken
      /\ request[w] \notin Updating \union updated
      /\ InRound /\ worldAt \in {"schedule", "wait"}
  BY <1>1, WhatIsCalled
<1>5. /\ Handed' = Handed /\ InRound' = InRound /\ Stopping' = Stopping
      /\ Queued' = Queued /\ Taken' = Taken /\ Outstanding' = Outstanding
  BY <1>1 DEF Handed, InRound, Stopping, Queued, Taken, Outstanding
<1>6. Updating' = Updating \union {request[w]}
  <2>1. \A r : r \in Updating' <=> r \in Updating \union {request[w]}
    BY <1>1, <1>3 DEF Updating
  <2> QED BY <2>1
<1>7. C \subseteq Requests /\ C \subseteq loaded
  BY <1>2, Constants DEF TypeOK
<1>8. C \intersect (Listed \union Outstanding \union updated) = {}
  BY <1>2, <1>4 DEF Progress
<1>9. /\ toSchedule' \in [Threads -> SUBSET Requests] /\ toSchedule'[w] = C
      /\ \A t \in Threads \ {w} : toSchedule'[t] = toSchedule[t]
      /\ toSchedule[w] = {}
  BY <1>1, <1>2, <1>7, Constants DEF TypeOK, Work
<1> HIDE DEF C
<1>10. Listed' = Listed \union C
  <2>1. \A r : r \in Listed' <=> r \in Listed \union C
    BY <1>9, Constants DEF Listed
  <2> QED BY <2>1
<1>11. \A t \in Threads : C \intersect toSchedule[t] = {}
  BY <1>8 DEF Listed
<1>12. TypeOK'
  BY <1>1, <1>2, <1>3, <1>9 DEF TypeOK
<1>13. Once'
  <2>1. \A t, u \in Threads : t # u => toSchedule'[t] \intersect toSchedule'[u] = {}
    BY <1>2, <1>9, <1>11 DEF Once
  <2> QED BY <1>1, <1>2, <1>5, <1>8, <1>10, <2>1 DEF Once
<1>14. Work'
  <2>1. \A v \in Workers :
          /\ \A i \in toSchedule'[v] : i \in loaded' /\ Parent[i] = request'[v]
          /\ handing'[v] # NoMap \/ toSchedule'[v] # {} => workerAt'[v] = "update"
    BY <1>1, <1>2, <1>3, <1>9, Constants DEF Work, C
  <2>2. toSchedule'[World] = toSchedule[World]
    BY <1>9, Constants
  <2>3. \A v \in Workers :
          /\ workerAt'[v] \in {"update", "finish"} => request'[v] # NoMap
          /\ workerAt'[v] \in {"pop", "left"} => request'[v] = NoMap
          /\ workerAt'[v] = "check" /\ request'[v] = NoMap => shutdown'
          /\ request'[v] # NoMap => (request'[v] \in updated' <=> workerAt'[v] = "finish")
    BY <1>1, <1>2, <1>3, <1>4, Constants DEF Work
  <2> QED BY <1>1, <1>2, <1>5, <2>1, <2>2, <2>3 DEF Work
<1>15. Progress'
  <2>1. /\ Listed' \union Outstanding' \union updated' \subseteq Maps \union loaded'
        /\ updated' \intersect (Listed' \union Handed' \union Queued') = {}
    BY <1>1, <1>2, <1>5, <1>7, <1>8, <1>10 DEF Progress
  <2>2. Maps \subseteq Listed' \union Outstanding' \union updated'
    BY <1>1, <1>2, <1>4, <1>5, <1>10 DEF Progress
  <2>3. ASSUME NEW i \in loaded
        PROVE  i \in Listed' \union Outstanding' \union updated'
                 <=> Parent[i] \in Updating' \union updated'
    <3>1. i \in C <=> Parent[i] = request[w]
      BY DEF C
    <3> QED BY <1>1, <1>2, <1>4, <1>5, <1>6, <1>10, <3>1 DEF Progress
  <2> QED BY <1>1, <1>4, <1>5, <2>1, <2>2, <2>3 DEF Progress
<1>16. Counted'
  BY <1>1, <1>2, <1>5 DEF Counted
<1> QED BY <1>6, <1>12, <1>13, <1>14, <1>15, <1>16 DEF IInv

LEMMA DestroyInstanceKeeps ==
  ASSUME IInv, NEW w \in Workers, NEW i \in Instances, DestroyInstance(w, i)
  PROVE  /\ IInv' /\ Updating' = Updating
         /\ InRound /\ i \in loaded /\ i \notin Updating \union updated
<1>1. /\ i \in toSchedule[w] /\ loaded' = loaded \ {i}
      /\ toSchedule' = [toSchedule EXCEPT ![w] = @ \ {i}]
      /\ UNCHANGED <<queue, shutdown, waiting, pending, lock, worldAt, asleep, canceled,
                     mapsLoaded, rounds, workerAt, request, handing, updated>>
  BY DEF DestroyInstance, masterVars, queueVars, workVars
<1>2. TypeOK /\ Once /\ Work /\ Progress /\ Counted
  BY DEF IInv
<1>3. /\ Listed' = Listed \ {i} /\ i \in Listed
      /\ toSchedule' \in [Threads -> SUBSET Requests]
      /\ toSchedule'[w] = toSchedule[w] \ {i}
      /\ \A u \in Threads \ {w} : toSchedule'[u] = toSchedule[u]
      /\ \A u, v \in Threads : u # v => toSchedule'[u] \intersect toSchedule'[v] = {}
  BY <1>1, <1>2, NoLongerListed, Constants
<1>4. /\ Handed' = Handed /\ InRound' = InRound /\ Stopping' = Stopping
      /\ Queued' = Queued /\ Taken' = Taken /\ Outstanding' = Outstanding
      /\ Updating' = Updating
  BY <1>1 DEF Handed, InRound, Stopping, Queued, Taken, Outstanding, Updating
<1>5. i \in loaded /\ i \notin Outstanding /\ i \notin updated /\ i \notin Maps
  BY <1>1, <1>2, <1>3, Constants DEF Once, Progress, Work
<1>6. InRound
  BY <1>2, <1>3 DEF Progress, InRound
<1>7. i \notin Updating
  BY <1>2, <1>5, Constants, AtUpdate DEF Updating, Outstanding
<1>8. TypeOK'
  BY <1>1, <1>2, <1>3 DEF TypeOK
<1>9. Once'
  BY <1>1, <1>2, <1>3, <1>4 DEF Once
<1>10. Work'
  <2>1. \A v \in Workers : \A j \in toSchedule'[v] : j \in loaded' /\ Parent[j] = request[v]
    <3>1. \A v \in Workers \ {w} : i \notin toSchedule[v]
      BY <1>1, <1>2, Constants DEF Once
    <3> QED BY <1>1, <1>2, <1>3, <3>1, Constants DEF Work
  <2>2. \A v \in Threads : toSchedule'[v] \subseteq toSchedule[v]
    BY <1>3
  <2> QED BY <1>1, <1>2, <1>4, <2>1, <2>2, Constants DEF Work
<1>11. Progress'
  BY <1>1, <1>2, <1>3, <1>4, <1>5 DEF Progress
<1>12. Counted'
  BY <1>1, <1>2, <1>4 DEF Counted
<1> QED BY <1>4, <1>5, <1>6, <1>7, <1>8, <1>9, <1>10, <1>11, <1>12 DEF IInv

LEMMA FinishCallKeeps ==
  ASSUME IInv, NEW w \in Workers, FinishCall(w)
  PROVE  /\ IInv' /\ request[w] \in Updating
         /\ Updating' = Updating \ {request[w]}
<1>1. /\ workerAt[w] = "update" /\ workerAt' = [workerAt EXCEPT ![w] = "finish"]
      /\ toSchedule[w] = {} /\ handing[w] = NoMap
      /\ updated' = updated \union {request[w]}
      /\ UNCHANGED <<queue, shutdown, waiting, pending, lock, worldAt, asleep, canceled,
                     mapsLoaded, rounds, request, handing, toSchedule, loaded>>
  BY DEF FinishCall, masterVars, queueVars
<1>2. TypeOK /\ Once /\ Work /\ Progress /\ Counted
  BY DEF IInv
<1>3. /\ workerAt' \in [Workers -> {"pop", "check", "update", "finish", "left"}]
      /\ workerAt'[w] = "finish" /\ \A v \in Workers \ {w} : workerAt'[v] = workerAt[v]
  BY <1>1, <1>2 DEF TypeOK
<1>4. /\ request[w] # NoMap /\ request[w] \in Requests /\ request[w] \in Taken
      /\ request[w] \in Outstanding /\ request[w] \in Updating
      /\ \A v \in Workers \ {w} : request[v] # request[w]
  BY <1>1, <1>2, AtUpdate DEF TypeOK, Work, Once
<1>5. /\ Listed' = Listed /\ Handed' = Handed /\ InRound' = InRound /\ Stopping' = Stopping
      /\ Queued' = Queued /\ Taken' = Taken /\ Outstanding' = Outstanding
  BY <1>1 DEF Listed, Handed, InRound, Stopping, Queued, Taken, Outstanding
<1>6. Updating' = Updating \ {request[w]}
  <2>1. \A r : r \in Updating' <=> r \in Updating \ {request[w]}
    BY <1>1, <1>3, <1>4 DEF Updating
  <2> QED BY <2>1
<1>7. TypeOK'
  BY <1>1, <1>2, <1>3, <1>4 DEF TypeOK
<1>8. Once'
  BY <1>1, <1>2, <1>5 DEF Once
<1>9. Work'
  BY <1>1, <1>2, <1>3, <1>4, <1>5 DEF Work
<1>10. Progress'
  <2>1. worldAt \in {"schedule", "wait"} /\ InRound
    BY <1>2, <1>4 DEF Progress, InRound
  <2>2. updated' \intersect (Listed' \union Handed' \union Queued') = {}
    BY <1>1, <1>2, <1>4, <1>5 DEF Progress, Once
  <2>3. /\ Listed' \union Outstanding' \union updated' = Listed \union Outstanding \union updated
        /\ Updating' \union updated' = Updating \union updated
    BY <1>1, <1>4, <1>5, <1>6
  <2> QED BY <1>1, <1>2, <1>5, <2>1, <2>2, <2>3 DEF Progress
<1>11. Counted'
  BY <1>1, <1>2, <1>5 DEF Counted
<1> QED BY <1>4, <1>6, <1>7, <1>8, <1>9, <1>10, <1>11 DEF IInv

LEMMA UpdateFinishedKeeps ==
  ASSUME IInv, NEW w \in Workers, UpdateFinished(w)
  PROVE  IInv' /\ Updating' = Updating
<1>1. /\ workerAt[w] = "finish" /\ workerAt' = [workerAt EXCEPT ![w] = "pop"]
      /\ request' = [request EXCEPT ![w] = NoMap] /\ pending' = pending - 1 /\ asleep' = FALSE
      /\ UNCHANGED <<queue, shutdown, waiting, lock, worldAt, canceled,
                     mapsLoaded, rounds, handing, toSchedule, loaded, updated>>
  BY DEF UpdateFinished, queueVars
<1>2. TypeOK /\ Once /\ Work /\ Progress /\ Counted
  BY DEF IInv
<1>3. /\ workerAt' \in [Workers -> {"pop", "check", "update", "finish", "left"}]
      /\ workerAt'[w] = "pop" /\ \A v \in Workers \ {w} : workerAt'[v] = workerAt[v]
  BY <1>1, <1>2 DEF TypeOK
<1>4. /\ request[w] # NoMap /\ request[w] \in updated /\ request[w] \in Outstanding
      /\ toSchedule[w] = {} /\ handing[w] = NoMap
  BY <1>1, <1>2, AtUpdate, Constants DEF Work
<1>5. /\ Taken' = Taken \ {request[w]} /\ request[w] \in Taken /\ request'[w] = NoMap
      /\ \A v \in Workers \ {w} : request'[v] = request[v]
      /\ request' \in [Workers -> Requests \union {NoMap}]
  BY <1>1, <1>2, <1>4, TakenLess
<1>6. /\ Listed' = Listed /\ Handed' = Handed /\ InRound' = InRound /\ Stopping' = Stopping
      /\ Queued' = Queued
  BY <1>1 DEF Listed, Handed, InRound, Stopping, Queued
<1>7. Outstanding' = Outstanding \ {request[w]}
  BY <1>2, <1>5, <1>6 DEF Outstanding, Once
<1>8. Updating' = Updating
  BY <1>1, <1>3, <1>5 DEF Updating
<1>9. TypeOK'
  <2>1. pending' \in Int
    <3>1. pending \in Int
      BY <1>2 DEF TypeOK
    <3> QED BY <1>1, <3>1
  <2>2. asleep' \in BOOLEAN
    BY <1>1
  <2> QED BY <1>1, <1>2, <1>3, <1>5, <2>1, <2>2 DEF TypeOK
<1>10. Once'
  <2>1. \A u, v \in Workers : request'[u] = request'[v] /\ request'[u] # NoMap => u = v
    BY <1>2, <1>5 DEF Once
  <2> QED BY <1>1, <1>2, <1>5, <1>6, <1>7, <2>1 DEF Once
<1>11. Work'
  BY <1>1, <1>2, <1>3, <1>4, <1>5, <1>6 DEF Work
<1>12. Progress'
  <2>1. Listed' \union Outstanding' \union updated' = Listed \union Outstanding \union updated
    BY <1>1, <1>4, <1>6, <1>7
  <2>2. Listed \union Outstanding = {} => Listed' \union Outstanding' = {}
    BY <1>6, <1>7
  <2> QED BY <1>1, <1>2, <1>6, <1>8, <2>1, <2>2 DEF Progress
<1>13. Counted'
  BY <1>1, <1>2, <1>4, <1>7, FS_RemoveElement DEF Counted
<1> QED BY <1>8, <1>9, <1>10, <1>11, <1>12, <1>13 DEF IInv

-----------------------------------------------------------------------------
(***************************************************************************)
(* The world thread.                                                       *)
(***************************************************************************)
LEMMA NothingToDo ==
  ASSUME IInv, Outstanding = {}
  PROVE  /\ Listed = toSchedule[World] /\ Updating = {}
         /\ \A w \in Workers : request[w] = NoMap /\ toSchedule[w] = {} /\ handing[w] = NoMap
<1>1. TypeOK /\ Work
  BY DEF IInv
<1>2. \A w \in Workers : request[w] = NoMap
  BY <1>1, AtUpdate
<1>3. \A w \in Workers : workerAt[w] # "update"
  BY <1>1, <1>2 DEF Work
<1>4. \A w \in Workers : toSchedule[w] = {} /\ handing[w] = NoMap
  BY <1>1, <1>3, Constants DEF Work
<1>5. \A r : r \in Listed <=> r \in toSchedule[World]
  BY <1>4, Constants DEF Listed, Threads
<1> QED BY <1>2, <1>3, <1>4, <1>5 DEF Updating, Listed

LEMMA CreateInstanceKeeps ==
  ASSUME IInv, NEW i \in Instances, CreateInstance(i)
  PROVE  IInv'
<1>1. /\ worldAt = "sessions" /\ loaded' = loaded \union {i}
      /\ UNCHANGED <<queue, shutdown, waiting, pending, lock, worldAt, asleep, canceled, mapsLoaded,
                     rounds, workerAt, request, handing, toSchedule, updated>>
  BY DEF CreateInstance, masterVars, queueVars, workVars
<1>2. TypeOK /\ Once /\ Work /\ Progress /\ Counted
  BY DEF IInv
<1>3. /\ Listed' = Listed /\ Handed' = Handed /\ InRound' = InRound /\ Stopping' = Stopping
      /\ Queued' = Queued /\ Taken' = Taken /\ Outstanding' = Outstanding
  BY <1>1 DEF Listed, Handed, InRound, Stopping, Queued, Taken, Outstanding
<1>4. TypeOK' /\ Once' /\ Counted'
  BY <1>1, <1>2, <1>3 DEF TypeOK, Once, Counted
<1>5. Work'
  BY <1>1, <1>2, <1>3 DEF Work
<1>6. Progress'
  BY <1>1, <1>2, <1>3 DEF Progress, InRound
<1> QED BY <1>4, <1>5, <1>6 DEF IInv

LEMMA BeginUpdateKeeps ==
  ASSUME IInv, BeginUpdate
  PROVE  IInv'
<1>1. /\ worldAt = "sessions" /\ worldAt' = "schedule" /\ rounds < MaxRounds /\ rounds' = rounds + 1
      /\ toSchedule' = [toSchedule EXCEPT ![World] = Maps]
      /\ UNCHANGED <<queue, shutdown, waiting, pending, lock, asleep, canceled, mapsLoaded,
                     workerAt, request, handing, loaded, updated>>
  BY DEF BeginUpdate, queueVars, workVars
<1>2. TypeOK /\ Once /\ Work /\ Progress /\ Counted
  BY DEF IInv
<1>3. Listed = {} /\ Outstanding = {} /\ updated = {}
  BY <1>1, <1>2 DEF Progress, InRound
<1>4. /\ Updating = {} /\ handing[World] = NoMap
      /\ \A w \in Workers : request[w] = NoMap /\ toSchedule[w] = {} /\ handing[w] = NoMap
  BY <1>1, <1>2, <1>3, NothingToDo DEF Work
<1>5. /\ toSchedule' \in [Threads -> SUBSET Requests] /\ toSchedule'[World] = Maps
      /\ \A t \in Threads \ {World} : toSchedule'[t] = {}
  BY <1>1, <1>2, <1>4, Constants DEF TypeOK, Threads
<1>6. Listed' = Maps
  <2>1. \A r : r \in Listed' <=> r \in Maps
    BY <1>5, Constants DEF Listed
  <2> QED BY <2>1
<1>7. Handed' = {} /\ Queued' = {} /\ Taken' = {} /\ Outstanding' = {} /\ Updating' = {}
  <2>1. Handed' = Handed /\ Queued' = Queued /\ Taken' = Taken
    BY <1>1 DEF Handed, Queued, Taken
  <2>2. Updating' = Updating
    BY <1>1 DEF Updating
  <2> QED BY <1>3, <1>4, <2>1, <2>2 DEF Outstanding
<1>8. InRound' /\ ~Stopping /\ ~Stopping'
  BY <1>1 DEF InRound, Stopping
<1>9. TypeOK'
  BY <1>1, <1>2, <1>5, RoundAssumption DEF TypeOK, Locations, RoundAssumption
<1>10. Once'
  BY <1>1, <1>2, <1>5, <1>7 DEF Once
<1>11. Work'
  BY <1>1, <1>2, <1>4, <1>5, <1>8, Constants DEF Work
<1>12. Progress'
  <2>1. \A j \in loaded : j \notin Maps
    BY <1>2, Constants DEF TypeOK
  <2> QED BY <1>1, <1>3, <1>6, <1>7, <1>8, <2>1 DEF Progress, Outstanding
<1>13. Counted'
  BY <1>1, <1>2, <1>3, <1>7 DEF Counted
<1> QED BY <1>9, <1>10, <1>11, <1>12, <1>13 DEF IInv

\* The world thread goes on while every request stays where it is.
LEMMA WorldMovesOn ==
  ASSUME IInv, UNCHANGED <<queue, pending, lock, workerAt, request, handing, toSchedule>>
  PROVE  /\ Listed' = Listed /\ Handed' = Handed /\ Queued' = Queued /\ Taken' = Taken
         /\ Outstanding' = Outstanding /\ Updating' = Updating
         /\ Once' /\ Counted'
<1>1. Once /\ Counted
  BY DEF IInv
<1>2. /\ Listed' = Listed /\ Handed' = Handed /\ Queued' = Queued /\ Taken' = Taken
      /\ Outstanding' = Outstanding /\ Updating' = Updating
  BY DEF Listed, Handed, Queued, Taken, Outstanding, Updating
<1>3. Once'
  BY <1>1, <1>2 DEF Once
<1>4. Counted'
  BY <1>1, <1>2 DEF Counted
<1> QED BY <1>2, <1>3, <1>4

LEMMA AllScheduledKeeps ==
  ASSUME IInv, AllScheduled
  PROVE  IInv'
<1>1. /\ worldAt = "schedule" /\ worldAt' = "wait" /\ toSchedule[World] = {} /\ handing[World] = NoMap
      /\ UNCHANGED <<queue, shutdown, waiting, pending, lock, asleep, canceled, mapsLoaded, rounds,
                     workerAt, request, handing, toSchedule, loaded, updated>>
  BY DEF AllScheduled, queueVars, workVars
<1>2. TypeOK /\ Once /\ Work /\ Progress /\ Counted
  BY DEF IInv
<1>3. /\ Listed' = Listed /\ Handed' = Handed /\ Queued' = Queued /\ Taken' = Taken
      /\ Outstanding' = Outstanding /\ Updating' = Updating
      /\ Once' /\ Counted'
  BY <1>1, WorldMovesOn
<1>4. InRound /\ InRound' /\ ~Stopping /\ ~Stopping'
  BY <1>1 DEF InRound, Stopping
<1>5. TypeOK'
  BY <1>1, <1>2 DEF TypeOK, Locations
<1>6. Work'
  BY <1>1, <1>2, <1>4 DEF Work
<1>7. Progress'
  BY <1>1, <1>2, <1>3, <1>4 DEF Progress
<1> QED BY <1>3, <1>5, <1>6, <1>7 DEF IInv

\* Only the world thread's sleep changes: wait() blocks or wakes up, Block and Wake.
LEMMA SleepKeeps ==
  ASSUME IInv, asleep' \in BOOLEAN, waiting' \subseteq Workers,
         UNCHANGED <<queue, shutdown, pending, lock, worldAt, canceled, mapsLoaded, rounds,
                     workerAt, request, handing, toSchedule, loaded, updated>>
  PROVE  IInv'
<1>1. TypeOK /\ Once /\ Work /\ Progress /\ Counted
  BY DEF IInv
<1>2. /\ Listed' = Listed /\ Handed' = Handed /\ Queued' = Queued /\ Taken' = Taken
      /\ Outstanding' = Outstanding /\ Updating' = Updating
      /\ Once' /\ Counted'
  BY WorldMovesOn
<1>3. InRound' = InRound /\ Stopping' = Stopping
  BY DEF InRound, Stopping
<1>4. TypeOK'
  BY <1>1 DEF TypeOK
<1>5. Work'
  BY <1>1, <1>3 DEF Work
<1>6. Progress'
  BY <1>1, <1>2, <1>3 DEF Progress
<1> QED BY <1>2, <1>4, <1>5, <1>6 DEF IInv

LEMMA WaitReturnsKeeps ==
  ASSUME IInv, WaitReturns
  PROVE  IInv'
<1>1. /\ pending = 0 /\ worldAt \in {"wait", "deactivate"}
      /\ worldAt' = IF worldAt = "wait" THEN "delayed" ELSE "cancel"
      /\ UNCHANGED <<queue, shutdown, waiting, pending, lock, asleep, canceled, mapsLoaded, rounds,
                     workerAt, request, handing, toSchedule, loaded, updated>>
  BY DEF WaitReturns, queueVars, workVars
<1>2. TypeOK /\ Once /\ Work /\ Progress /\ Counted
  BY DEF IInv
<1>3. /\ Listed' = Listed /\ Handed' = Handed /\ Queued' = Queued /\ Taken' = Taken
      /\ Outstanding' = Outstanding /\ Updating' = Updating
      /\ Once' /\ Counted'
  BY <1>1, WorldMovesOn
<1>4. Outstanding = {}
  BY <1>1, <1>2, FS_EmptySet DEF Counted
<1>5. Listed = {} /\ handing[World] = NoMap
  BY <1>1, <1>2, <1>4, NothingToDo DEF Work
<1>6. TypeOK'
  BY <1>1, <1>2 DEF TypeOK, Locations
<1>7. Work'
  <2>1. toSchedule[World] = {}
    BY <1>1, <1>2 DEF Work
  <2>2. Stopping' = Stopping
    BY <1>1 DEF Stopping
  <2> QED BY <1>1, <1>2, <1>5, <2>1, <2>2 DEF Work
<1>8. Progress'
  <2>1. InRound' = InRound
    BY <1>1 DEF InRound
  <2> QED BY <1>1, <1>2, <1>3, <1>4, <1>5, <2>1 DEF Progress
<1> QED BY <1>3, <1>6, <1>7, <1>8 DEF IInv

\* What remains of the world thread's steps is taken when nothing is to do.
LEMMA OutsideKeeps ==
  ASSUME IInv, worldAt \notin {"schedule", "wait"},
         DelayedUpdate \/ Stop
  PROVE  IInv'
<1>1. TypeOK /\ Once /\ Work /\ Progress /\ Counted
  BY DEF IInv
<1>2. Listed = {} /\ Outstanding = {}
  BY <1>1 DEF Progress
<1>3. /\ toSchedule[World] = {} /\ handing[World] = NoMap
      /\ \A w \in Workers : request[w] = NoMap /\ toSchedule[w] = {} /\ handing[w] = NoMap
  BY <1>1, <1>2, NothingToDo DEF Work
<1>4. queue = <<>>
  <2>1. 1 \notin 1..Len(queue)
    BY <1>2 DEF Outstanding, Queued
  <2> QED BY <1>1, <2>1 DEF TypeOK
<1>5. /\ queue' = <<>>
      /\ UNCHANGED <<pending, lock, asleep, rounds, workerAt, request, handing, toSchedule>>
      /\ waiting' \subseteq Workers /\ loaded' \subseteq loaded /\ mapsLoaded' \in BOOLEAN
      /\ shutdown' \in BOOLEAN /\ canceled' \in BOOLEAN
  BY <1>1, <1>4 DEF TypeOK, DelayedUpdate, Stop, UnloadAll, Deactivate, CancelQueue, Cancel, Join,
                    queueVars, workVars
<1>6. /\ Listed' = Listed /\ Handed' = Handed /\ Queued' = Queued /\ Taken' = Taken
      /\ Outstanding' = Outstanding /\ Updating' = Updating
      /\ Once' /\ Counted'
  BY <1>4, <1>5, WorldMovesOn
<1>7. /\ ~InRound' /\ updated' = {} /\ worldAt' \in Locations
      /\ worldAt' \notin {"schedule", "wait"}
      /\ shutdown' => canceled'
      /\ canceled' <=> Stopping'
  <2>1. CASE DelayedUpdate
    BY <1>1, <2>1 DEF DelayedUpdate, queueVars, InRound, Stopping, Work, Locations
  <2>2. CASE UnloadAll
    BY <1>1, <2>2 DEF UnloadAll, queueVars, InRound, Stopping, Work, Locations, Progress
  <2>3. CASE Deactivate
    BY <1>1, <2>3 DEF Deactivate, queueVars, InRound, Stopping, Work, Locations, Progress
  <2>4. CASE CancelQueue
    BY <1>1, <2>4 DEF CancelQueue, Cancel, InRound, Stopping, Work, Locations, Progress
  <2>5. CASE Join
    BY <1>1, <2>5 DEF Join, queueVars, InRound, Stopping, Work, Locations, Progress
  <2> QED BY <2>1, <2>2, <2>3, <2>4, <2>5 DEF Stop
<1>8. TypeOK'
  BY <1>1, <1>5, <1>7 DEF TypeOK
<1>9. Work'
  <2>1. \A w \in Workers : workerAt[w] \notin {"update", "finish"}
    BY <1>1, <1>3 DEF Work
  <2>2. shutdown => shutdown'
    BY DEF DelayedUpdate, Stop, UnloadAll, Deactivate, CancelQueue, Cancel, Join, queueVars
  <2> QED BY <1>1, <1>3, <1>5, <1>7, <2>1, <2>2 DEF Work
<1>10. Progress'
  BY <1>2, <1>6, <1>7 DEF Progress, Outstanding
<1> QED BY <1>6, <1>8, <1>9, <1>10 DEF IInv

LEMMA IInvNext == IInv /\ [Next]_vars => IInv'
<1> SUFFICES ASSUME IInv, [Next]_vars PROVE IInv'
  OBVIOUS
<1>1. TypeOK
  BY DEF IInv
<1>2. ASSUME NEW t \in Threads, Schedule(t) PROVE IInv'
  BY <1>2, ScheduleUpdateKeeps, PushRequestKeeps DEF Schedule
<1>3. ASSUME NEW w \in Workers, Worker(w) PROVE IInv'
  <2>1. CASE Block(w) \/ Wake(w)
    <3>1. /\ waiting' \subseteq Workers /\ asleep' \in BOOLEAN
          /\ UNCHANGED <<queue, shutdown, pending, lock, worldAt, canceled, mapsLoaded, rounds,
                         workerAt, request, handing, toSchedule, loaded, updated>>
      BY <1>1, <2>1 DEF TypeOK, Block, Wake, PopWait, SpuriousWakeup, masterVars, workVars
    <3> QED BY <3>1, SleepKeeps
  <2>2. CASE PopRequest(w) \/ Leave(w) \/ Call(w)
    BY <2>2, PopRequestKeeps, LeaveKeeps, CallKeeps
  <2>3. CASE FinishCall(w) \/ UpdateFinished(w)
    BY <2>3, FinishCallKeeps, UpdateFinishedKeeps
  <2>4. CASE \E i \in Instances : DestroyInstance(w, i)
    BY <2>4, DestroyInstanceKeeps
  <2> QED BY <1>3, <2>1, <2>2, <2>3, <2>4 DEF Worker
<1>4. ASSUME Wait PROVE IInv'
  <2>1. CASE WaitBlocks \/ WaitWakes
    <3>1. /\ waiting' \subseteq Workers /\ asleep' \in BOOLEAN
          /\ UNCHANGED <<queue, shutdown, pending, lock, worldAt, canceled, mapsLoaded, rounds,
                         workerAt, request, handing, toSchedule, loaded, updated>>
      BY <1>1, <2>1 DEF TypeOK, WaitBlocks, WaitWakes, queueVars, workVars
    <3> QED BY <3>1, SleepKeeps
  <2> QED BY <1>4, <2>1, AllScheduledKeeps, WaitReturnsKeeps DEF Wait
<1>5. ASSUME WorldStep PROVE IInv'
  <2>1. CASE DelayedUpdate \/ Stop
    <3>1. worldAt \notin {"schedule", "wait"}
      BY <2>1 DEF DelayedUpdate, Stop, UnloadAll, Deactivate, CancelQueue, Join
    <3> QED BY <2>1, <3>1, OutsideKeeps
  <2> QED BY <1>4, <1>5, <2>1, BeginUpdateKeeps, CreateInstanceKeeps DEF WorldStep
<1>6. CASE UNCHANGED vars
  <2>1. /\ waiting' \subseteq Workers /\ asleep' \in BOOLEAN
        /\ UNCHANGED <<queue, shutdown, pending, lock, worldAt, canceled, mapsLoaded, rounds,
                       workerAt, request, handing, toSchedule, loaded, updated>>
    BY <1>1, <1>6 DEF TypeOK, vars, queueVars
  <2> QED BY <2>1, SleepKeeps
<1> QED BY <1>2, <1>3, <1>5, <1>6 DEF Next

-----------------------------------------------------------------------------
(***************************************************************************)
(* The results about the maps.                                             *)
(***************************************************************************)
LEMMA SystemImplementsUpdater == SystemSpec => Spec
<1>1. SystemInit => Init
  BY DEF SystemInit
<1>2. SystemNext => Next \/ UNCHANGED vars
  BY DEF SystemNext, UpdateMaps, UpdateQueues, QueueStep, ScheduleQueueUpdate, Alone, Next,
         WorldStep
<1>3. [SystemNext]_systemVars => [Next]_vars
  BY <1>2 DEF systemVars, vars
<1> QED BY <1>1, <1>3, PTL DEF SystemSpec, Spec

(* The update threads keep IInv: a request is in one place, counted, and   *)
(* every map of the round has been updated, is under way or listed.        *)
THEOREM UpdaterInvariance == Spec => []IInv
BY InitIInv, IInvNext, PTL DEF Spec

(* The types of MapUpdater's variables, under World::Update as well.       *)
THEOREM UpdaterTypes == Spec => []TypeOK
<1>1. IInv => TypeOK
  BY DEF IInv
<1> QED BY <1>1, UpdaterInvariance, PTL

\* What the other threads see of the maps.
LEMMA PhaseOf ==
  /\ InRound => Phase = "round"
  /\ worldAt = "sessions" => Phase = "between"
  /\ Stopping \/ worldAt = "unloaded" => Phase = "stopped"
BY DEF InRound, Stopping, Phase

LEMMA PhaseStays == UNCHANGED worldAt => UNCHANGED Phase
BY DEF Phase

LEMMA ScheduleUnseen ==
  ASSUME NEW t \in Threads, Schedule(t)
  PROVE  UNCHANGED <<Phase, loaded, Updating, updated>>
<1>1. UNCHANGED <<worldAt, workerAt, request, loaded, updated>>
  BY DEF Schedule, ScheduleUpdate, PushRequest, masterVars, workVars
<1> QED BY <1>1, PhaseStays DEF Updating

LEMMA WorkerSeen ==
  ASSUME IInv, NEW w \in Workers, Worker(w)
  PROVE  \/ \E m \in Requests : Rounds!Start(m) \/ Rounds!Finish(m)
         \/ \E i \in Instances : Rounds!Unload(i)
         \/ UNCHANGED <<Phase, loaded, Updating, updated>>
<1>1. TypeOK
  BY DEF IInv
<1>2. UNCHANGED worldAt
  BY DEF Worker, PopRequest, Block, Wake, Leave, Call, FinishCall, UpdateFinished,
         DestroyInstance, masterVars
<1>3. UNCHANGED Phase
  BY <1>2, PhaseStays
<1>4. CASE Call(w)
  <2>1. /\ request[w] \in Requests /\ request[w] \in Maps \union loaded
        /\ request[w] \notin Updating \union updated /\ Phase = "round"
    BY <1>4, WhatIsCalled, PhaseOf DEF Call
  <2>2. Updating' = Updating \union {request[w]}
    BY <1>4, CallKeeps
  <2>3. PICK m \in Requests : m = request[w]
    BY <2>1
  <2>4. loaded' = loaded /\ updated' = updated
    BY <1>4 DEF Call
  <2>5. Rounds!Start(m)
    BY <1>3, <2>1, <2>2, <2>3, <2>4 DEF Rounds!Start, Updating
  <2> QED BY <2>5
<1>5. CASE FinishCall(w)
  <2>1. request[w] \in Requests /\ request[w] \in Updating /\ Updating' = Updating \ {request[w]}
    BY <1>1, <1>5, FinishCallKeeps, AtUpdate, Constants DEF TypeOK, IInv, Work, FinishCall
  <2>2. PICK m \in Requests : m = request[w]
    BY <2>1
  <2>3. loaded' = loaded /\ updated' = updated \union {m}
    BY <1>5, <2>2 DEF FinishCall
  <2>4. Rounds!Finish(m)
    BY <1>3, <2>1, <2>2, <2>3 DEF Rounds!Finish, Updating
  <2> QED BY <2>4
<1>6. CASE \E i \in Instances : DestroyInstance(w, i)
  <2>1. PICK i \in Instances : DestroyInstance(w, i)
    BY <1>6
  <2>2. /\ Updating' = Updating /\ Phase = "round" /\ i \in loaded
        /\ i \notin Updating \union updated
    BY <2>1, DestroyInstanceKeeps, PhaseOf
  <2>3. Rounds!Unload(i)
    BY <1>3, <2>1, <2>2 DEF Rounds!Unload, Updating, DestroyInstance
  <2> QED BY <2>3
<1>7. CASE UpdateFinished(w)
  BY <1>3, <1>7, UpdateFinishedKeeps DEF UpdateFinished
<1>8. CASE Block(w) \/ Wake(w)
  BY <1>3, <1>8 DEF Block, Wake, workVars, Updating
<1>9. CASE Leave(w)
  <2>1. workerAt[w] # "update" /\ workerAt'[w] # "update"
    BY <1>1, <1>9 DEF TypeOK, Leave
  <2>2. \A v \in Workers \ {w} : workerAt'[v] = workerAt[v]
    BY <1>1, <1>9 DEF TypeOK, Leave
  <2>3. Updating' = Updating
    BY <1>9, <2>1, <2>2 DEF Updating, Leave
  <2> QED BY <1>3, <1>9, <2>3 DEF Leave
<1>10. CASE PopRequest(w)
  <2>1. workerAt[w] # "update" /\ workerAt'[w] # "update"
    BY <1>1, <1>10 DEF TypeOK, PopRequest
  <2>2. \A v \in Workers \ {w} : workerAt'[v] = workerAt[v] /\ request'[v] = request[v]
    BY <1>1, <1>10 DEF TypeOK, PopRequest
  <2>3. Updating' = Updating
    BY <2>1, <2>2 DEF Updating
  <2> QED BY <1>3, <1>10, <2>3 DEF PopRequest
<1> QED BY <1>4, <1>5, <1>6, <1>7, <1>8, <1>9, <1>10 DEF Worker

LEMMA WorldSeen ==
  ASSUME IInv, WorldStep
  PROVE  \/ Rounds!Begin \/ Rounds!End \/ Rounds!Stop
         \/ \E i \in Instances : Rounds!Load(i)
         \/ UNCHANGED <<Phase, loaded, Updating, updated>>
<1>1. Progress /\ Work /\ TypeOK
  BY DEF IInv
<1>2. UNCHANGED Updating
  BY DEF WorldStep, Wait, Stop, BeginUpdate, AllScheduled, WaitBlocks, WaitReturns, WaitWakes,
         DelayedUpdate, UnloadAll, Deactivate, CancelQueue, Join, CreateInstance, workVars, Updating
<1>3. CASE BeginUpdate
  <2>1. Phase = "between" /\ Phase' = "round"
    BY <1>3 DEF BeginUpdate, Phase
  <2> QED BY <1>2, <1>3, <2>1 DEF Rounds!Begin, Updating, BeginUpdate
<1>4. CASE \E i \in Instances : CreateInstance(i)
  <2>1. PICK i \in Instances : CreateInstance(i)
    BY <1>4
  <2>2. Phase = "between" /\ Phase' = Phase
    BY <2>1 DEF CreateInstance, Phase, masterVars
  <2>3. Rounds!Load(i)
    BY <1>2, <2>1, <2>2 DEF Rounds!Load, Updating, CreateInstance
  <2> QED BY <2>3
<1>5. CASE DelayedUpdate
  <2>1. Phase = "round" /\ Phase' = "between"
    BY <1>5 DEF DelayedUpdate, Phase
  <2>2. Listed = {} /\ Outstanding = {} /\ InRound
    BY <1>1, <1>5 DEF Progress, DelayedUpdate, InRound
  <2>3. Updating = {}
    BY <2>2, NothingToDo
  <2>4. updated = Maps \union loaded
    <3>1. Maps \subseteq updated /\ updated \subseteq Maps \union loaded
      BY <1>1, <2>2 DEF Progress
    <3>2. \A i \in loaded : Parent[i] \in updated
      BY <1>1, <3>1, Constants DEF TypeOK
    <3>3. \A i \in loaded : i \in updated
      BY <1>1, <2>2, <3>2 DEF Progress
    <3> QED BY <3>1, <3>3
  <2> QED BY <1>2, <1>5, <2>1, <2>3, <2>4 DEF Rounds!End, Updating, DelayedUpdate
<1>6. CASE UnloadAll
  <2>1. Phase = "between" /\ Phase' = "stopped"
    BY <1>6 DEF UnloadAll, Phase
  <2> QED BY <1>2, <1>6, <2>1 DEF Rounds!Stop, Updating, UnloadAll
<1>7. CASE Wait
  <2>1. UNCHANGED <<loaded, updated>>
    BY <1>7 DEF Wait, AllScheduled, WaitBlocks, WaitReturns, WaitWakes
  <2>2. UNCHANGED Phase
    BY <1>7 DEF Wait, AllScheduled, WaitBlocks, WaitReturns, WaitWakes, Phase
  <2> QED BY <1>2, <2>1, <2>2
<1>8. CASE Deactivate \/ CancelQueue \/ Join
  <2>1. UNCHANGED <<loaded, updated>>
    BY <1>8 DEF Deactivate, CancelQueue, Join
  <2>2. UNCHANGED Phase
    BY <1>8 DEF Deactivate, CancelQueue, Join, Phase
  <2> QED BY <1>2, <2>1, <2>2
<1> QED BY <1>3, <1>4, <1>5, <1>6, <1>7, <1>8 DEF WorldStep, Stop

(* MapUpdater keeps the promise of MapManager::Update, for every number of *)
(* threads: a round updates each loaded map once, and when wait() returns  *)
(* no map is being updated and none is left out.                           *)
THEOREM UpdaterImplementsRounds == Spec => RoundsSpec
<1>1. Init => Rounds!Init
  <2> SUFFICES ASSUME Init PROVE Phase = "between" /\ loaded = {} /\ Updating = {} /\ updated = {}
    BY DEF Rounds!Init, Updating
  <2>1. \A w \in Workers : workerAt[w] # "update"
    BY DEF Init
  <2> QED BY <2>1 DEF Init, Phase, Updating
<1>2. IInv /\ [Next]_vars => [Rounds!Next]_Rounds!vars
  <2> SUFFICES ASSUME IInv, [Next]_vars
               PROVE  Rounds!Next \/ UNCHANGED <<Phase, loaded, Updating, updated>>
    BY DEF Rounds!vars, Updating
  <2>1. CASE UNCHANGED vars
    BY <2>1, PhaseStays DEF vars, Updating
  <2>2. CASE WorldStep
    BY <2>2, WorldSeen DEF Rounds!Next
  <2>3. ASSUME NEW t \in Threads, Schedule(t)
        PROVE  UNCHANGED <<Phase, loaded, Updating, updated>>
    BY <2>3, ScheduleUnseen
  <2>4. ASSUME NEW w \in Workers, Worker(w)
        PROVE  Rounds!Next \/ UNCHANGED <<Phase, loaded, Updating, updated>>
    BY <2>4, WorkerSeen DEF Rounds!Next, Requests
  <2> QED BY <2>1, <2>2, <2>3, <2>4 DEF Next
<1> QED BY <1>1, <1>2, UpdaterInvariance, PTL DEF Spec, RoundsSpec, Rounds!Spec

(* World::Update with its sessions and its queue updates keeps it too.     *)
THEOREM SystemImplementsRounds == SystemSpec => RoundsSpec
BY SystemImplementsUpdater, UpdaterImplementsRounds, PTL

-----------------------------------------------------------------------------
(***************************************************************************)
(* The list of scheduled queue updates, when one thread at a time adds.    *)
(***************************************************************************)
SchedulerThreads == Scheduler!Threads
ListedIds == Scheduler!Listed

SchedulerTypes ==
  /\ phase \in {"sessions", "maps", "queues"}
  /\ slots \in [Scheduler!Slots -> Ids \union {Junk}]
  /\ size \in Nat /\ index \in Nat
  /\ at \in [Threads -> {"idle", "end", "store", "grow"}]
  /\ adding \in [Threads -> Ids \union {Junk}]
  /\ end \in [Threads -> Nat]

(* One thread is inside ScheduleQueueUpdate, in the phase it runs in.      *)
OneAdds ==
  /\ \A t, u \in Threads : at[t] # "idle" /\ at[u] # "idle" => t = u
  /\ at[World] # "idle" => phase = "sessions"
  /\ \A w \in Workers : at[w] # "idle" => phase = "maps" /\ workerAt[w] = "update"

(* What it adds is not listed, and goes to the end of the list.            *)
AddsAtEnd ==
  \A t \in Threads :
    /\ at[t] # "idle" => adding[t] \in Ids \ ListedIds
    /\ at[t] \in {"store", "grow"} => end[t] = size
    /\ at[t] = "grow" => slots[size + 1] = adding[t]

(* Every id of the list is listed once.                                    *)
ListedOnce ==
  /\ ListedIds \subseteq Ids
  /\ size = Cardinality(ListedIds)
  /\ phase = "queues" => size = 0 /\ \E n \in Nat : DOMAIN batch = 1..n

SInv == ~SeveralCall /\ SchedulerTypes /\ OneAdds /\ AddsAtEnd /\ ListedOnce /\ NoneLost

\* The scheduler's module counts as this one does.
LEMMA SameCardinality == \A S : Scheduler!Cardinality(S) = Cardinality(S)
BY DEF Scheduler!Cardinality, Cardinality

LEMMA SchedulerConstants ==
  /\ Scheduler!Threads = Threads /\ IsFiniteSet(Ids) /\ IsFiniteSet(Workers)
  /\ Junk \notin Ids /\ CounterRange \in Nat \ {0}
  /\ \A n \in Nat : n <= Cardinality(Ids) => n \in Scheduler!Slots \union {0}
  /\ \A n \in Nat : n < Cardinality(Ids) => n + 1 \in Scheduler!Slots
<1>1. IsFiniteSet(Threads)
  BY SchedulerAssumption, FS_AddElement DEF SchedulerAssumption, Threads
<1>2. Scheduler!Threads = Threads
  BY DEF Scheduler!Threads, Threads
<1>3. Cardinality(Ids) \in Nat /\ Cardinality(Scheduler!Threads) \in Nat
  BY <1>1, <1>2, SchedulerAssumption, FS_CardinalityType DEF SchedulerAssumption
<1>4. PICK c \in Nat, d \in Nat : c = Cardinality(Ids) /\ d = Cardinality(Scheduler!Threads)
  BY <1>3
<1>5. Scheduler!Slots = 1..(2 * c + d)
  BY <1>4, SameCardinality DEF Scheduler!Slots
<1>6. /\ \A n \in Nat : n <= c => n \in 1..(2 * c + d) \union {0}
      /\ \A n \in Nat : n < c => n + 1 \in 1..(2 * c + d)
  OBVIOUS
<1> QED BY <1>2, <1>4, <1>5, <1>6, SchedulerAssumption DEF SchedulerAssumption

\* With at most one thread started, a thread that is in an update is that one.
LEMMA OnlyOneUpdates ==
  ASSUME Cardinality(Started) <= 1, NEW v \in Workers, NEW w \in Workers,
         workerAt[v] = "update", workerAt[w] = "update"
  PROVE  v = w
<1>1. v \in Started /\ w \in Started
  BY DEF Started
<1>2. IsFiniteSet(Started)
  BY SchedulerConstants, FS_Subset DEF Started
<1>3. IsFiniteSet(Started \ {v}) /\ Cardinality(Started \ {v}) = Cardinality(Started) - 1
  BY <1>1, <1>2, FS_RemoveElement
<1>4. Cardinality(Started \ {v}) = 0
  BY <1>2, <1>3, FS_CardinalityType
<1>5. Started \ {v} = {}
  BY <1>3, <1>4, FS_EmptySet
<1> QED BY <1>1, <1>5

LEMMA SInvInit == ~SeveralCall /\ SystemInit => SInv
<1> SUFFICES ASSUME ~SeveralCall, SystemInit PROVE SInv
  OBVIOUS
<1>1. Scheduler!Init
  BY DEF SystemInit
<1>2. SchedulerTypes
  BY <1>1, SchedulerConstants DEF Scheduler!Init, SchedulerTypes
<1>3. \A t \in Threads : at[t] = "idle"
  BY <1>1, SchedulerConstants DEF Scheduler!Init
<1>4. ListedIds = {} /\ size = 0 /\ asked = {} /\ phase = "sessions"
  BY <1>1 DEF Scheduler!Init, ListedIds, Scheduler!Listed
<1>5. OneAdds /\ AddsAtEnd
  BY <1>3, Constants DEF OneAdds, AddsAtEnd
<1>6. ListedOnce
  BY <1>4, FS_EmptySet DEF ListedOnce
<1> QED BY <1>2, <1>4, <1>5, <1>6 DEF SInv, NoneLost, Scheduler!NoneLost

\* As long as no thread is inside the list, nothing happens to it.
LEMMA UnscheduledKeeps ==
  ASSUME SInv, UNCHANGED schedulerVars,
         \A w \in Workers : workerAt'[w] = workerAt[w] \/ at[w] = "idle"
  PROVE  SInv'
<1>1. UNCHANGED <<phase, slots, size, at, adding, end, batch, index, asked>>
  BY DEF schedulerVars
<1>2. ListedIds' = ListedIds
  BY <1>1 DEF ListedIds, Scheduler!Listed
<1>3. SchedulerTypes'
  BY <1>1 DEF SInv, SchedulerTypes
<1>4. OneAdds'
  BY <1>1 DEF SInv, OneAdds
<1>5. AddsAtEnd' /\ ListedOnce'
  BY <1>1, <1>2 DEF SInv, AddsAtEnd, ListedOnce
<1>6. NoneLost'
  BY <1>1, <1>2 DEF SInv, NoneLost, Scheduler!NoneLost, ListedIds
<1> QED BY <1>3, <1>4, <1>5, <1>6 DEF SInv

LEMMA SchedulerUpdateMapsKeeps ==
  ASSUME IInv, SInv, UpdateMaps
  PROVE  SInv'
<1>1. /\ phase = "sessions" /\ phase' = "maps" /\ at[World] = "idle"
      /\ UNCHANGED <<slots, size, at, adding, end, batch, index, asked, workerAt>>
  BY DEF UpdateMaps, BeginUpdate, Scheduler!UpdateMaps, workVars
<1>2. SchedulerTypes /\ OneAdds /\ AddsAtEnd /\ ListedOnce /\ NoneLost
  BY DEF SInv
<1>3. ListedIds' = ListedIds
  BY <1>1 DEF ListedIds, Scheduler!Listed
<1>4. \A w \in Workers : at[w] = "idle"
  BY <1>1, <1>2 DEF OneAdds
<1>5. SchedulerTypes' /\ OneAdds'
  BY <1>1, <1>2, <1>4 DEF SchedulerTypes, OneAdds
<1>6. AddsAtEnd' /\ ListedOnce'
  BY <1>1, <1>2, <1>3 DEF AddsAtEnd, ListedOnce
<1>7. NoneLost'
  BY <1>1, <1>2, <1>3 DEF NoneLost, Scheduler!NoneLost, ListedIds
<1> QED BY <1>5, <1>6, <1>7 DEF SInv

LEMMA SchedulerTakeKeeps ==
  ASSUME IInv, SInv, UpdateQueues
  PROVE  SInv'
<1>1. /\ phase = "maps" /\ phase' = "queues" /\ \A w \in Workers : at[w] = "idle"
      /\ batch' = [k \in 1..size |-> slots[k]] /\ slots' = [k \in Scheduler!Slots |-> Junk]
      /\ size' = 0 /\ index' = 0 /\ UNCHANGED <<at, adding, end, asked, workerAt>>
  BY DEF UpdateQueues, DelayedUpdate, Scheduler!Take, workVars
<1>2. SchedulerTypes /\ OneAdds /\ AddsAtEnd /\ ListedOnce /\ NoneLost
  BY DEF SInv
<1>3. \A t \in Threads : at[t] = "idle"
  BY <1>1, <1>2 DEF OneAdds, Threads
<1>4. ListedIds' = {}
  BY <1>1 DEF ListedIds, Scheduler!Listed
<1>5. SchedulerTypes'
  BY <1>1, <1>2 DEF SchedulerTypes
<1>6. OneAdds' /\ AddsAtEnd'
  BY <1>1, <1>3, Constants DEF OneAdds, AddsAtEnd
<1>7. ListedOnce'
  <2>1. size \in Nat /\ DOMAIN batch' = 1..size
    BY <1>1, <1>2 DEF SchedulerTypes
  <2> QED BY <1>1, <1>4, <2>1, FS_EmptySet DEF ListedOnce
<1>8. NoneLost'
  <2> SUFFICES ASSUME NEW id \in asked PROVE \E k \in DOMAIN batch' : k > 0 /\ batch'[k] = id
    BY <1>1 DEF NoneLost, Scheduler!NoneLost
  <2>1. PICK k \in 1..size : slots[k] = id
    BY <1>1, <1>2 DEF NoneLost, Scheduler!NoneLost, Scheduler!Listed
  <2>2. k \in DOMAIN batch' /\ batch'[k] = id /\ k > 0
    BY <1>1, <1>2, <2>1 DEF SchedulerTypes
  <2> QED BY <2>2
<1> QED BY <1>5, <1>6, <1>7, <1>8 DEF SInv

\* The loop's counter never runs ahead.
LEMMA CounterStays ==
  ASSUME NEW n \in Nat, NEW m \in Nat \ {0}
  PROVE  n % m \in Nat /\ n % m <= n
OBVIOUS

LEMMA SchedulerQueueStepKeeps ==
  ASSUME IInv, SInv, QueueStep
  PROVE  SInv'
<1>1. /\ phase = "queues" /\ phase' \in {"queues", "sessions"}
      /\ UNCHANGED <<slots, size, at, adding, end, workerAt>>
  BY DEF QueueStep, Scheduler!UpdateQueue, Scheduler!Done, vars
<1>2. SchedulerTypes /\ OneAdds /\ AddsAtEnd /\ ListedOnce /\ NoneLost
  BY DEF SInv
<1>3. \A t \in Threads : at[t] = "idle"
  BY <1>1, <1>2 DEF OneAdds, Threads
<1>4. OneAdds' /\ AddsAtEnd'
  BY <1>1, <1>3, Constants DEF OneAdds, AddsAtEnd
<1>5. PICK n \in Nat : DOMAIN batch = 1..n
  BY <1>1, <1>2 DEF ListedOnce
<1>6. ListedIds = {} /\ ListedIds' = ListedIds
  BY <1>1, <1>2 DEF ListedIds, Scheduler!Listed, ListedOnce
<1>7. \A id \in asked : \E k \in DOMAIN batch : k > index /\ batch[k] = id
  BY <1>2, <1>6 DEF NoneLost, Scheduler!NoneLost, ListedIds
<1>8. CASE Scheduler!UpdateQueue
  <2>1. /\ phase' = phase /\ batch' = batch /\ asked' = asked \ {batch[index + 1]}
        /\ index' = (index + 1) % CounterRange
    BY <1>8 DEF Scheduler!UpdateQueue
  <2>2. index' \in Nat /\ index' <= index + 1
    BY <1>2, <2>1, CounterStays, SchedulerConstants DEF SchedulerTypes
  <2>3. SchedulerTypes' /\ ListedOnce'
    BY <1>1, <1>2, <1>6, <2>1, <2>2 DEF SchedulerTypes, ListedOnce
  <2>4. ASSUME NEW id \in asked' PROVE \E k \in DOMAIN batch' : k > index' /\ batch'[k] = id
    <3>1. PICK k \in 1..n : k > index /\ batch[k] = id
      BY <1>5, <1>7, <2>1
    <3>2. k # index + 1
      BY <2>1, <3>1
    <3>3. k > index'
      BY <1>2, <2>2, <3>1, <3>2 DEF SchedulerTypes
    <3> QED BY <1>5, <2>1, <3>1, <3>3
  <2> QED BY <1>1, <1>4, <2>1, <2>3, <2>4 DEF SInv, NoneLost, Scheduler!NoneLost
<1>9. CASE Scheduler!Done
  <2>1. /\ phase' = "sessions" /\ UNCHANGED <<index, asked>>
        /\ ~(index < Cardinality(DOMAIN batch))
    BY <1>9, SameCardinality DEF Scheduler!Done, Scheduler!Pending
  <2>2. index >= n
    <3>1. Cardinality(1..n) = n
      BY FS_Interval
    <3> QED BY <1>2, <1>5, <2>1, <3>1 DEF SchedulerTypes
  <2>3. asked = {}
    BY <1>2, <1>5, <1>7, <2>2 DEF SchedulerTypes
  <2>4. SchedulerTypes' /\ ListedOnce'
    BY <1>1, <1>2, <1>6, <2>1 DEF SchedulerTypes, ListedOnce
  <2> QED BY <1>4, <2>1, <2>3, <2>4 DEF SInv, NoneLost, Scheduler!NoneLost
<1> QED BY <1>8, <1>9 DEF QueueStep

LEMMA SchedulerCallKeeps ==
  ASSUME IInv, SInv, NEW t \in Threads, NEW id \in Ids, Calling(t), Scheduler!Call(t, id),
         UNCHANGED vars
  PROVE  SInv'
<1>1. /\ at[t] = "idle" /\ Scheduler!Running(t)
      /\ UNCHANGED <<phase, slots, size, end, batch, index, workerAt>>
  BY DEF Scheduler!Call, vars
<1>2. SchedulerTypes /\ OneAdds /\ AddsAtEnd /\ ListedOnce /\ NoneLost /\ ~SeveralCall
  BY DEF SInv
<1>3. phase \in {"sessions", "maps"} /\ (t = World => phase = "sessions")
      /\ (t # World => phase = "maps" /\ t \in Workers /\ workerAt[t] = "update")
  BY <1>1 DEF Scheduler!Running, Calling, Threads
<1>4. ListedIds' = ListedIds
  BY <1>1 DEF ListedIds, Scheduler!Listed
<1>5. asked \subseteq ListedIds
  BY <1>2, <1>3 DEF NoneLost, Scheduler!NoneLost, ListedIds
<1>6. \A u \in Threads : at[u] = "idle"
  <2>1. CASE t = World
    BY <1>1, <1>2, <1>3, <2>1 DEF OneAdds, Threads
  <2>2. CASE t # World
    <3>1. Cardinality(Started) <= 1
      BY <1>2 DEF Calling
    <3>2. at[World] = "idle"
      BY <1>2, <1>3, <2>2 DEF OneAdds
    <3>3. ASSUME NEW u \in Workers, at[u] # "idle" PROVE FALSE
      <4>1. workerAt[u] = "update" /\ workerAt[t] = "update" /\ t \in Workers
        BY <1>2, <1>3, <2>2, <3>3 DEF OneAdds
      <4>2. u = t
        BY <3>1, <4>1, OnlyOneUpdates
      <4> QED BY <1>1, <3>3, <4>2
    <3> QED BY <3>2, <3>3 DEF Threads
  <2> QED BY <2>1, <2>2
<1>7. CASE id \in ListedIds
  <2>1. asked' = asked \union {id} /\ UNCHANGED <<at, adding>>
    BY <1>7 DEF Scheduler!Call, ListedIds
  <2>2. SchedulerTypes'
    BY <1>1, <1>2, <2>1 DEF SchedulerTypes
  <2>3. OneAdds' /\ AddsAtEnd'
    BY <1>6, <2>1, Constants DEF OneAdds, AddsAtEnd
  <2>4. ListedOnce'
    BY <1>1, <1>2, <1>4 DEF ListedOnce
  <2>5. NoneLost'
    BY <1>4, <1>5, <1>7, <2>1 DEF NoneLost, Scheduler!NoneLost, ListedIds
  <2> QED BY <1>2, <2>2, <2>3, <2>4, <2>5 DEF SInv
<1>8. CASE id \notin ListedIds
  <2>1. /\ asked' = asked /\ at' = [at EXCEPT ![t] = "end"]
        /\ adding' = [adding EXCEPT ![t] = id]
    BY <1>8 DEF Scheduler!Call, ListedIds
  <2>2. SchedulerTypes'
    BY <1>1, <1>2, <2>1 DEF SchedulerTypes
  <2>3. /\ at'[t] = "end" /\ adding'[t] = id
        /\ \A u \in Threads \ {t} : at'[u] = "idle"
    BY <1>2, <1>6, <2>1 DEF SchedulerTypes
  <2>4. OneAdds'
    BY <1>1, <1>3, <2>3, Constants DEF OneAdds
  <2>5. AddsAtEnd'
    BY <1>4, <1>8, <2>3 DEF AddsAtEnd
  <2>6. ListedOnce'
    BY <1>1, <1>2, <1>4 DEF ListedOnce
  <2>7. NoneLost'
    BY <1>4, <1>5, <2>1 DEF NoneLost, Scheduler!NoneLost, ListedIds
  <2> QED BY <1>2, <2>2, <2>4, <2>5, <2>6, <2>7 DEF SInv
<1> QED BY <1>7, <1>8

LEMMA SchedulerAddKeeps ==
  ASSUME IInv, SInv, NEW t \in Threads, Scheduler!Add(t), UNCHANGED vars
  PROVE  SInv'
<1>1. at[t] # "idle" /\ UNCHANGED <<phase, adding, batch, index, workerAt>>
  BY DEF Scheduler!Add, Scheduler!ReadEnd, Scheduler!Store, Scheduler!Grow, vars
<1>2. SchedulerTypes /\ OneAdds /\ AddsAtEnd /\ ListedOnce /\ NoneLost /\ ~SeveralCall
  BY DEF SInv
<1>3. adding[t] \in Ids \ ListedIds /\ \A u \in Threads \ {t} : at[u] = "idle"
  BY <1>1, <1>2 DEF OneAdds, AddsAtEnd
<1>4. phase # "queues"
  BY <1>1, <1>2 DEF OneAdds, Threads
<1>5. asked \subseteq ListedIds
  BY <1>2, <1>4 DEF NoneLost, Scheduler!NoneLost, ListedIds
<1>6. PICK a \in Ids : a = adding[t]
  BY <1>3
<1>7. IsFiniteSet(ListedIds) /\ size < Cardinality(Ids) /\ size + 1 \in Scheduler!Slots
  <2>1. IsFiniteSet(ListedIds)
    BY <1>2, SchedulerConstants, FS_Subset DEF ListedOnce
  <2>2. Cardinality(ListedIds \union {a}) = size + 1
    BY <1>2, <1>3, <1>6, <2>1, FS_AddElement DEF ListedOnce
  <2>3. ListedIds \union {a} \in SUBSET Ids
    BY <1>2, <1>6 DEF ListedOnce
  <2>4. Cardinality(ListedIds \union {a}) <= Cardinality(Ids)
    BY <2>3, SchedulerConstants, FS_Subset
  <2>5. size < Cardinality(Ids)
    BY <1>2, <2>2, <2>4, SchedulerConstants, FS_CardinalityType DEF SchedulerTypes
  <2> QED BY <1>2, <2>1, <2>5, SchedulerConstants DEF SchedulerTypes
<1>8. CASE Scheduler!ReadEnd(t)
  <2>1. /\ end' = [end EXCEPT ![t] = size] /\ at' = [at EXCEPT ![t] = "store"]
        /\ UNCHANGED <<slots, size, asked>>
    BY <1>8 DEF Scheduler!ReadEnd
  <2>2. ListedIds' = ListedIds
    BY <2>1 DEF ListedIds, Scheduler!Listed
  <2>3. SchedulerTypes'
    BY <1>1, <1>2, <2>1 DEF SchedulerTypes
  <2>4. /\ at'[t] = "store" /\ end'[t] = size
        /\ \A u \in Threads \ {t} : at'[u] = "idle"
    BY <1>2, <1>3, <2>1 DEF SchedulerTypes
  <2>5. OneAdds'
    BY <1>1, <1>2, <2>4, Constants DEF OneAdds
  <2>6. AddsAtEnd'
    BY <1>1, <1>3, <2>1, <2>2, <2>4 DEF AddsAtEnd
  <2>7. ListedOnce' /\ NoneLost'
    BY <1>1, <1>2, <1>5, <2>1, <2>2 DEF ListedOnce, NoneLost, Scheduler!NoneLost, ListedIds
  <2> QED BY <1>2, <2>3, <2>5, <2>6, <2>7 DEF SInv
<1>9. CASE Scheduler!Store(t)
  <2>1. /\ slots' = [slots EXCEPT ![end[t] + 1] = adding[t]]
        /\ at' = [at EXCEPT ![t] = "grow"] /\ at[t] = "store"
        /\ UNCHANGED <<size, end, asked>>
    BY <1>9 DEF Scheduler!Store
  <2>2. end[t] = size
    BY <1>2, <2>1 DEF AddsAtEnd
  <2>3. /\ slots' \in [Scheduler!Slots -> Ids \union {Junk}]
        /\ slots'[size + 1] = adding[t]
        /\ \A k \in Nat : k # size + 1 => slots'[k] = slots[k]
    BY <1>2, <1>6, <1>7, <2>1, <2>2 DEF SchedulerTypes
  <2>4. ListedIds' = ListedIds
    <3>1. \A k \in 1..size : slots'[k] = slots[k]
      BY <1>2, <2>3 DEF SchedulerTypes
    <3> QED BY <2>1, <3>1 DEF ListedIds, Scheduler!Listed
  <2>5. SchedulerTypes'
    BY <1>1, <1>2, <2>1, <2>3 DEF SchedulerTypes
  <2>6. /\ at'[t] = "grow" /\ \A u \in Threads \ {t} : at'[u] = "idle"
    BY <1>2, <1>3, <2>1 DEF SchedulerTypes
  <2>7. OneAdds'
    BY <1>1, <1>2, <2>6, Constants DEF OneAdds
  <2>8. AddsAtEnd'
    BY <1>1, <1>3, <2>1, <2>2, <2>3, <2>4, <2>6 DEF AddsAtEnd
  <2>9. ListedOnce' /\ NoneLost'
    BY <1>1, <1>2, <1>5, <2>1, <2>4 DEF ListedOnce, NoneLost, Scheduler!NoneLost, ListedIds
  <2> QED BY <1>2, <2>5, <2>7, <2>8, <2>9 DEF SInv
<1>10. CASE Scheduler!Grow(t)
  <2>1. /\ size' \in {end[t] + 1, size + 1} /\ at' = [at EXCEPT ![t] = "idle"] /\ at[t] = "grow"
        /\ asked' = asked \union {a} /\ UNCHANGED <<slots, end>>
    BY <1>6, <1>10 DEF Scheduler!Grow
  <2>2. size' = size + 1 /\ slots[size + 1] = a
    BY <1>2, <1>6, <2>1 DEF AddsAtEnd
  <2>3. ListedIds' = ListedIds \union {a}
    <3>1. \A k : k \in 1..(size + 1) <=> k \in 1..size \/ k = size + 1
      BY <1>2 DEF SchedulerTypes
    <3>2. \A id : id \in ListedIds' <=> id \in ListedIds \union {a}
      BY <2>1, <2>2, <3>1 DEF ListedIds, Scheduler!Listed
    <3> QED BY <3>2
  <2>4. SchedulerTypes'
    BY <1>1, <1>2, <2>1, <2>2 DEF SchedulerTypes
  <2>5. \A u \in Threads : at'[u] = "idle"
    BY <1>2, <1>3, <2>1 DEF SchedulerTypes
  <2>6. OneAdds' /\ AddsAtEnd'
    BY <2>5, Constants DEF OneAdds, AddsAtEnd
  <2>7. ListedOnce'
    <3>1. Cardinality(ListedIds \union {a}) = size + 1
      BY <1>2, <1>3, <1>6, <1>7, FS_AddElement DEF ListedOnce
    <3> QED BY <1>1, <1>2, <1>4, <1>6, <2>2, <2>3, <3>1 DEF ListedOnce
  <2>8. NoneLost'
    <3>1. \A id \in asked' : id \in ListedIds'
      BY <1>5, <2>1, <2>3
    <3> QED BY <3>1 DEF NoneLost, Scheduler!NoneLost, ListedIds
  <2> QED BY <1>2, <2>4, <2>6, <2>7, <2>8 DEF SInv
<1> QED BY <1>8, <1>9, <1>10 DEF Scheduler!Add

LEMMA SInvNext == IInv /\ SInv /\ [SystemNext]_systemVars => SInv'
<1> SUFFICES ASSUME IInv, SInv, [SystemNext]_systemVars PROVE SInv'
  OBVIOUS
<1>1. TypeOK
  BY DEF IInv
<1>2. ASSUME UNCHANGED schedulerVars, UNCHANGED workerAt PROVE SInv'
  BY <1>2, UnscheduledKeeps
<1>3. CASE Alone(World, Wait \/ Stop \/ \E i \in Instances : CreateInstance(i))
  <2>1. UNCHANGED schedulerVars
    BY <1>3 DEF Alone
  <2>2. Wait \/ Stop \/ \E i \in Instances : CreateInstance(i)
    BY <1>3 DEF Alone
  <2>3. UNCHANGED workerAt
    BY <2>2 DEF Wait, Stop, AllScheduled, WaitBlocks, WaitReturns, WaitWakes, UnloadAll, Deactivate,
                CancelQueue, Join, CreateInstance, workVars
  <2> QED BY <1>2, <2>1, <2>3
<1>4. ASSUME NEW t \in Threads, Alone(t, Schedule(t)) PROVE SInv'
  <2>1. UNCHANGED schedulerVars /\ Schedule(t)
    BY <1>4 DEF Alone
  <2>2. UNCHANGED workerAt
    BY <2>1 DEF Schedule, ScheduleUpdate, PushRequest, workVars
  <2> QED BY <1>2, <2>1, <2>2
<1>5. ASSUME NEW w \in Workers, Alone(w, Worker(w)) PROVE SInv'
  <2>1. UNCHANGED schedulerVars /\ Worker(w) /\ at[w] = "idle"
    BY <1>5 DEF Alone, Free
  <2>2. \A v \in Workers \ {w} : workerAt'[v] = workerAt[v]
    BY <1>1, <2>1 DEF Worker, PopRequest, Block, Wake, Leave, Call, FinishCall, UpdateFinished,
                      DestroyInstance, workVars, TypeOK
  <2> QED BY <2>1, <2>2, UnscheduledKeeps
<1>6. ASSUME NEW t \in Threads, ScheduleQueueUpdate(t) PROVE SInv'
  BY <1>6, SchedulerAddKeeps, SchedulerCallKeeps DEF ScheduleQueueUpdate
<1>7. CASE UNCHANGED systemVars
  BY <1>2, <1>7 DEF systemVars, vars
<1> QED BY <1>3, <1>4, <1>5, <1>6, <1>7, SchedulerUpdateMapsKeeps, SchedulerTakeKeeps,
           SchedulerQueueStepKeeps DEF SystemNext

(* While one thread at a time calls ScheduleQueueUpdate - the default of   *)
(* one map update thread - no update of a queue is lost, whatever ids      *)
(* there are and whether or not the loop's eight-bit counter wraps.        *)
THEOREM NoUpdateIsLost == ~SeveralCall /\ SystemSpec => []NoneLost
<1>1. SInv => NoneLost
  BY DEF SInv
<1>2. Spec => []IInv
  BY UpdaterInvariance
<1> QED BY <1>1, <1>2, SystemImplementsUpdater, SInvInit, SInvNext, PTL DEF SystemSpec

=============================================================================
