---------------------- MODULE DatabaseWorkerPool_proofs ----------------------
(***************************************************************************)
(* Proofs about DatabaseWorkerPool, for any number of workers, operations, *)
(* statements, retries and lost connections.                               *)
(***************************************************************************)
EXTENDS DatabaseWorkerPool, TLAPS

(* What is true of a thread: where it can be, and the statements of its    *)
(* operation that the server has seen.                                     *)
Session(x) ==
  /\ at[x] \in {"pop", "idle"} => op[x] = NoOp
  /\ at[x] \in {"statement", "commit", "lock"} => op[x] \in Ops
  /\ at[x] \in {"pop", "check", "lock", "left"} => x \in Workers
  /\ at[x] = "statement" /\ op[x] \in Single => pos[x] = 1 /\ ~inTrans[x]
  /\ at[x] \in {"commit", "lock"} => op[x] \notin Single
  /\ at[x] \in {"statement", "commit"} /\ op[x] \notin Single \union struck =>
       /\ inTrans[x]
       /\ open[x] = IF at[x] = "commit" THEN 1..Size ELSE 1..(pos[x] - 1)

Holds(x, o) == op[x] = o /\ at[x] # "left"

(* An operation that is not settled is in one place only. *)
Owners ==
  /\ \A x \in Executors, o \in Ops : Holds(x, o) =>
       /\ fate[o] = "issued"
       /\ \A i \in 1..Len(queue) : queue[i] # o
       /\ \A y \in Executors \ {x} : ~Holds(y, o)
  /\ \A i \in 1..Len(queue) : fate[queue[i]] = "issued" /\ queue[i] \notin struck

Effects ==
  \A o \in Ops : IF o \in struck THEN fate[o] # "new"
                ELSE IF fate[o] = "done" THEN Whole(o) ELSE Nothing(o)

(* What is queued is the end of what was issued. *)
Order ==
  /\ Len(queue) <= Len(issued)
  /\ \A i \in 1..Len(queue) : queue[i] = issued[Len(issued) - Len(queue) + i]
  /\ \A i, j \in 1..Len(issued) : issued[i] = issued[j] => i = j
  /\ \A i \in 1..Len(issued) : fate[issued[i]] # "new"

IInv == TypeOK /\ (\A x \in Executors : Session(x)) /\ Owners /\ Effects /\ Order

LEMMA IInvInit == Init => IInv
<1> SUFFICES ASSUME Init PROVE IInv
  OBVIOUS
<1> USE DatabaseAssumption DEF DatabaseAssumption
<1>1. TypeOK
  <2>1. queue \in Seq(Ops) /\ issued \in Seq(Ops) /\ struck \subseteq Ops /\ losses \in 0..MaxLosses
    BY DEF Init, QueueInit
  <2>2. /\ pos \in [Executors -> 1..Size] /\ try \in [Executors -> 0..LoopBreaker]
        /\ open \in [Executors -> SUBSET (1..Size)]
    BY DEF Init
  <2>3. applied \in [Ops -> [1..Size -> Nat]]
    BY DEF Init
  <2> QED BY <2>1, <2>2, <2>3 DEF Init, QueueInit, TypeOK
<1>2. \A x \in Executors : Session(x)
  BY DEF Init, Session, Executors
<1>3. Owners
  BY DEF Init, QueueInit, Owners, Holds
<1>4. Effects
  BY DEF Init, Effects, Nothing
<1>5. Order
  BY DEF Init, QueueInit, Order
<1> QED BY <1>1, <1>2, <1>3, <1>4, <1>5 DEF IInv

-----------------------------------------------------------------------------
(***************************************************************************)
(* What most steps leave alone.                                            *)
(***************************************************************************)
LEMMA OrderKept ==
  ASSUME TypeOK, Order, UNCHANGED <<queue, issued>>,
         \A o \in Ops : fate[o] # "new" => fate'[o] # "new"
  PROVE  Order'
<1>1. \A i \in 1..Len(issued) : issued[i] \in Ops
  BY DEF TypeOK
<1> QED BY <1>1 DEF Order

\* The sessions of other threads are as they were.
LEMMA OthersKept ==
  ASSUME NEW x \in Executors, \A y \in Executors : Session(y), struck \subseteq struck',
         \A y \in Executors \ {x} :
            /\ at'[y] = at[y] /\ op'[y] = op[y] /\ pos'[y] = pos[y]
            /\ inTrans'[y] = inTrans[y] /\ open'[y] = open[y]
  PROVE  \A y \in Executors \ {x} : Session(y)'
BY DEF Session

LEMMA SessionsKept ==
  ASSUME \A x \in Executors : Session(x), UNCHANGED <<sessionVars, struck>>
  PROVE  \A x \in Executors : Session(x)'
BY DEF Session, sessionVars

LEMMA OwnersKept ==
  ASSUME Owners, UNCHANGED <<queue, at, op, fate, struck>>
  PROVE  Owners'
BY DEF Owners, Holds

LEMMA EffectsKept ==
  ASSUME Effects, UNCHANGED <<fate, applied, struck>>
  PROVE  Effects'
BY DEF Effects, Whole, Nothing

\* A thread moves on with the operation that it has to itself.
LEMMA StillOwned ==
  ASSUME TypeOK, Owners, NEW x \in Executors, at[x] # "left",
         UNCHANGED <<queue, op, fate>>,
         \A y \in Executors \ {x} : at'[y] = at[y],
         struck' = struck \/ (op[x] \in Ops /\ struck' = struck \union {op[x]})
  PROVE  Owners'
<1>1. \A i \in 1..Len(queue) : queue[i] # op[x] \/ op[x] \notin Ops
  BY DEF Owners, Holds
<1>2. \A y \in Executors, o \in Ops : Holds(y, o)' => Holds(y, o)
  BY DEF Holds
<1>3. \A i \in 1..Len(queue) : queue[i] \notin struck'
  BY <1>1 DEF Owners
<1> QED BY <1>2, <1>3 DEF Owners

\* A thread is through with its operation.
LEMMA NotOwned ==
  ASSUME TypeOK, Owners, NEW x \in Executors, op[x] \in Ops, at[x] # "left",
         UNCHANGED <<queue, struck>>,
         \A y \in Executors \ {x} : op'[y] = op[y] /\ at'[y] = at[y],
         at'[x] = "left" \/ op'[x] = NoOp,
         \A o \in Ops \ {op[x]} : fate'[o] = fate[o]
  PROVE  Owners'
<1>1. \A i \in 1..Len(queue) : queue[i] \in Ops \ {op[x]}
  <2>1. \A i \in 1..Len(queue) : queue[i] \in Ops
    BY DEF TypeOK
  <2> QED BY <2>1 DEF Owners, Holds
<1>2. \A i \in 1..Len(queue) : fate'[queue[i]] = "issued" /\ queue[i] \notin struck'
  BY <1>1 DEF Owners
<1>3. \A y \in Executors, o \in Ops : Holds(y, o)' => Holds(y, o) /\ o # op[x]
  BY DatabaseAssumption DEF Holds, Owners, DatabaseAssumption
<1> QED BY <1>2, <1>3 DEF Owners
-----------------------------------------------------------------------------
(***************************************************************************)
(* Issuing operations, and closing.                                        *)
(***************************************************************************)
LEMMA EnqueueKeeps == ASSUME IInv, NEW o \in Ops, Enqueue(o) PROVE IInv'
<1>1. /\ fate' = [fate EXCEPT ![o] = "issued"] /\ fate[o] = "new"
      /\ queue' = Append(queue, o) /\ issued' = Append(issued, o)
      /\ UNCHANGED <<sessionVars, applied, deadlockLock, token, joining, struck, losses, shutdown>>
  BY DEF Enqueue, Push, Becomes
<1>2. /\ queue \in Seq(Ops) /\ issued \in Seq(Ops)
      /\ fate \in [Ops -> {"new", "issued", "done", "lost"}]
  BY DEF IInv, TypeOK
<1>3. \A i \in 1..Len(issued) : issued[i] \in Ops /\ issued[i] # o
  BY <1>1, <1>2 DEF IInv, Order
<1>4. \A i \in 1..Len(queue) : queue[i] \in Ops /\ queue[i] # o
  BY <1>1, <1>2 DEF IInv, Owners
<1>5. \A x \in Executors : ~Holds(x, o)
  BY <1>1 DEF IInv, Owners
<1>6. TypeOK'
  <2>1. waiting' \subseteq Workers
    BY DEF IInv, TypeOK, Enqueue, Push, NotifyOne
  <2> QED BY <1>1, <2>1 DEF IInv, TypeOK, sessionVars
<1>7. \A x \in Executors : Session(x)'
  BY <1>1, SessionsKept DEF IInv
<1>8. /\ Len(issued') = Len(issued) + 1 /\ Len(queue') = Len(queue) + 1
      /\ Len(issued) \in Nat /\ Len(queue) \in Nat
      /\ \A i \in 1..Len(issued) : issued'[i] = issued[i]
      /\ issued'[Len(issued) + 1] = o
      /\ \A i \in 1..Len(queue) : queue'[i] = queue[i]
      /\ queue'[Len(queue) + 1] = o
  BY <1>1, <1>2
<1>9. Owners'
  <2>1. \A q \in Ops : fate[q] = "issued" => fate'[q] = "issued"
    BY <1>1, <1>2
  <2>2. fate'[o] = "issued" /\ o \notin struck'
    BY <1>1, <1>2 DEF IInv, Effects
  <2>3. \A i \in 1..Len(queue) : fate'[queue[i]] = "issued" /\ queue[i] \notin struck'
    BY <1>1, <1>4, <2>1 DEF IInv, Owners
  <2>4. \A i \in 1..Len(queue') : i = Len(queue) + 1 \/ i \in 1..Len(queue)
    BY <1>8
  <2>5. \A i \in 1..Len(queue') : fate'[queue'[i]] = "issued" /\ queue'[i] \notin struck'
    BY <1>8, <2>2, <2>3, <2>4
  <2>6. \A x \in Executors, q \in Ops : Holds(x, q)' <=> Holds(x, q)
    BY <1>1 DEF Holds, sessionVars
  <2>7. \A x \in Executors, q \in Ops : Holds(x, q) =>
           \A i \in 1..Len(queue') : queue'[i] # q
    BY <1>5, <1>8, <2>4 DEF IInv, Owners
  <2> QED BY <2>1, <2>5, <2>6, <2>7 DEF IInv, Owners
<1>10. Effects'
  BY <1>1, <1>2 DEF IInv, Effects, Whole, Nothing
<1>11. Order'
  <2>1. /\ Len(queue) <= Len(issued)
        /\ \A i \in 1..Len(queue) : queue[i] = issued[Len(issued) - Len(queue) + i]
        /\ \A i, j \in 1..Len(issued) : issued[i] = issued[j] => i = j
        /\ \A i \in 1..Len(issued) : fate[issued[i]] # "new"
    BY DEF IInv, Order
  <2>2. \A i \in 1..Len(queue') : queue'[i] = issued'[Len(issued') - Len(queue') + i]
    <3> SUFFICES ASSUME NEW i \in 1..(Len(queue) + 1)
                 PROVE  queue'[i] = issued'[Len(issued') - Len(queue') + i]
      BY <1>8
    <3>1. Len(issued') - Len(queue') + i = Len(issued) - Len(queue) + i
      BY <1>8
    <3>2. CASE i = Len(queue) + 1
      BY <3>1, <3>2, <1>8
    <3>3. CASE i \in 1..Len(queue)
      <4>1. Len(issued) - Len(queue) + i \in 1..Len(issued)
        BY <3>3, <1>8, <2>1
      <4>2. queue'[i] = queue[i] /\ queue[i] = issued[Len(issued) - Len(queue) + i]
        BY <3>3, <2>1, <1>8
      <4> QED BY <3>1, <4>1, <4>2, <1>8
    <3> QED BY <3>2, <3>3, <1>8
  <2>3. \A i \in 1..Len(issued') : i = Len(issued) + 1 \/ i \in 1..Len(issued)
    BY <1>8
  <2>4. \A i, j \in 1..Len(issued') : issued'[i] = issued'[j] => i = j
    BY <1>8, <1>3, <2>1, <2>3
  <2>5. \A i \in 1..Len(issued') : fate'[issued'[i]] # "new"
    BY <1>8, <1>1, <1>2, <1>3, <2>1, <2>3
  <2>6. Len(queue') <= Len(issued')
    BY <1>8, <2>1
  <2> QED BY <2>2, <2>4, <2>5, <2>6 DEF Order
<1> QED BY <1>6, <1>7, <1>9, <1>10, <1>11 DEF IInv

LEMMA DirectCommitKeeps == ASSUME IInv, NEW o \in Ops, DirectCommit(o) PROVE IInv'
<1>1. World \in Executors /\ World \notin Workers /\ 1 \in 1..Size /\ 0 \in 0..LoopBreaker
      /\ NoOp \notin Ops
  BY DatabaseAssumption DEF DatabaseAssumption, Executors
<1>2. /\ fate' = [fate EXCEPT ![o] = "issued"] /\ fate[o] = "new"
      /\ op' = [op EXCEPT ![World] = o] /\ at' = [at EXCEPT ![World] = "statement"]
      /\ pos' = [pos EXCEPT ![World] = 1] /\ try' = [try EXCEPT ![World] = 0]
      /\ inTrans' = [inTrans EXCEPT ![World] = TRUE] /\ open' = [open EXCEPT ![World] = {}]
      /\ at[World] = "idle" /\ o \notin Single /\ o # NoOp
      /\ UNCHANGED <<queue, shutdown, waiting, applied, deadlockLock, token, joining, struck, issued, losses>>
  BY DatabaseAssumption
  DEF DirectCommit, Becomes, Begin, Goto, historyVars, queueVars, DatabaseAssumption
<1>3. TypeOK
  BY DEF IInv
<1>4. TypeOK'
  <2>1. at' \in [Executors -> {"idle", "pop", "check", "left", "statement", "commit", "lock"}]
    BY <1>2, <1>3 DEF TypeOK
  <2>2. op' \in [Executors -> Ops \union {NoOp}]
    BY <1>2, <1>3 DEF TypeOK
  <2>3. pos' \in [Executors -> 1..Size] /\ try' \in [Executors -> 0..LoopBreaker]
    BY <1>1, <1>2, <1>3 DEF TypeOK
  <2>4. inTrans' \in [Executors -> BOOLEAN] /\ open' \in [Executors -> SUBSET (1..Size)]
    BY <1>2, <1>3 DEF TypeOK
  <2>5. fate' \in [Ops -> {"new", "issued", "done", "lost"}]
    BY <1>2, <1>3 DEF TypeOK
  <2> QED BY <1>2, <1>3, <2>1, <2>2, <2>3, <2>4, <2>5 DEF TypeOK
<1>5. op'[World] = o /\ at'[World] = "statement" /\ pos'[World] = 1 /\ inTrans'[World] /\ open'[World] = {}
  BY <1>1, <1>2, <1>3 DEF TypeOK
<1>6. \A y \in Executors \ {World} :
        /\ at'[y] = at[y] /\ op'[y] = op[y] /\ pos'[y] = pos[y]
        /\ inTrans'[y] = inTrans[y] /\ open'[y] = open[y]
  BY <1>1, <1>2, <1>3 DEF TypeOK
<1>7. \A x \in Executors : Session(x)'
  <2>1. Session(World)'
    <3>1. 1..(1 - 1) = {}
      OBVIOUS
    <3> QED BY <1>2, <1>5, <3>1 DEF Session
  <2>2. \A y \in Executors \ {World} : Session(y)'
    BY <1>1, <1>2, <1>6, OthersKept DEF IInv
  <2> QED BY <2>1, <2>2
<1>8. \A q \in Ops \ {o} : fate'[q] = fate[q]
  BY <1>2, <1>3 DEF TypeOK
<1>9. fate'[o] = "issued"
  BY <1>2, <1>3 DEF TypeOK
<1>10. Owners'
  <2>1. \A i \in 1..Len(queue) : queue[i] \in Ops \ {o}
    <3>1. \A i \in 1..Len(queue) : queue[i] \in Ops
      BY <1>3 DEF TypeOK
    <3> QED BY <3>1, <1>2 DEF IInv, Owners
  <2>2. \A x \in Executors : ~Holds(x, o)
    BY <1>2 DEF IInv, Owners
  <2>3. \A x \in Executors, q \in Ops : Holds(x, q)' <=> (x = World /\ q = o) \/ Holds(x, q)
    <3>1. op[World] = NoOp
      BY <1>1, <1>2 DEF IInv, Session
    <3>2. \A q \in Ops : ~Holds(World, q) /\ (Holds(World, q)' <=> q = o)
      BY <1>1, <3>1, <1>5 DEF Holds
    <3>3. \A y \in Executors \ {World}, q \in Ops : Holds(y, q)' <=> Holds(y, q)
      BY <1>6 DEF Holds
    <3> QED BY <3>2, <3>3
  <2>4. UNCHANGED <<queue, struck>>
    BY <1>2
  <2>5. \A i \in 1..Len(queue') : fate'[queue'[i]] = "issued" /\ queue'[i] \notin struck'
    BY <2>1, <2>4, <1>8 DEF IInv, Owners
  <2>6. ASSUME NEW x \in Executors, NEW q \in Ops, Holds(x, q)'
        PROVE  /\ fate'[q] = "issued"
               /\ \A i \in 1..Len(queue') : queue'[i] # q
               /\ \A y \in Executors \ {x} : ~Holds(y, q)'
    <3>1. CASE q = o
      <4>1. x = World
        BY <2>2, <2>3, <2>6, <3>1
      <4> QED BY <4>1, <2>1, <2>2, <2>3, <2>4, <1>9, <3>1
    <3>2. CASE q # o
      <4>1. Holds(x, q)
        BY <2>3, <2>6, <3>2
      <4> QED BY <4>1, <2>3, <2>4, <1>8, <3>2 DEF IInv, Owners
    <3> QED BY <3>1, <3>2
  <2> QED BY <2>5, <2>6 DEF Owners
<1>11. Effects'
  BY <1>2, <1>8, <1>9 DEF IInv, Effects, Whole, Nothing
<1>12. Order'
  BY <1>2, <1>3, <1>8, <1>9, OrderKept DEF IInv
<1> QED BY <1>4, <1>7, <1>10, <1>11, <1>12 DEF IInv

LEMMA CloseWorkerKeeps == ASSUME IInv, NEW w \in Workers, CloseWorker(w) PROVE IInv'
<1>1. /\ queue' = <<>> /\ shutdown' = TRUE /\ waiting' = {}
      /\ token' = token \union {w} /\ joining' = w
      /\ fate' = [o \in Ops |-> IF Contains(queue, o) THEN "lost" ELSE fate[o]]
      /\ UNCHANGED <<sessionVars, applied, deadlockLock, struck, issued, losses>>
  BY DEF CloseWorker, Cancel, historyVars
<1>2. TypeOK
  BY DEF IInv
<1>3. \A o \in Ops : Contains(queue, o) <=> \E i \in 1..Len(queue) : queue[i] = o
  BY <1>2 DEF Contains, TypeOK
<1>4. \A o \in Ops : fate'[o] = IF Contains(queue, o) THEN "lost" ELSE fate[o]
  BY <1>1
<1>5. TypeOK'
  <2>1. fate' \in [Ops -> {"new", "issued", "done", "lost"}]
    BY <1>1, <1>2 DEF TypeOK
  <2> QED BY <1>1, <1>2, <2>1 DEF TypeOK, sessionVars
<1>6. \A x \in Executors : Session(x)'
  BY <1>1, SessionsKept DEF IInv
<1>7. Owners'
  <2>1. \A x \in Executors, o \in Ops : Holds(x, o)' <=> Holds(x, o)
    BY <1>1 DEF Holds, sessionVars
  <2>2. \A x \in Executors, o \in Ops : Holds(x, o) => fate'[o] = "issued"
    BY <1>3, <1>4 DEF IInv, Owners
  <2>3. Len(queue') = 0
    BY <1>1
  <2> QED BY <2>1, <2>2, <2>3 DEF IInv, Owners
<1>8. Effects'
  <2>1. \A o \in Ops : Contains(queue, o) => o \notin struck /\ fate[o] = "issued"
    BY <1>3 DEF IInv, Owners
  <2> QED BY <1>1, <1>4, <2>1 DEF IInv, Effects, Whole, Nothing
<1>9. Order'
  <2>1. \A i \in 1..Len(issued) : issued[i] \in Ops
    BY <1>2 DEF TypeOK
  <2>2. Len(queue') = 0 /\ Len(issued) \in Nat
    BY <1>1, <1>2 DEF TypeOK
  <2> QED BY <1>1, <1>4, <2>1, <2>2 DEF IInv, Order
<1> QED BY <1>5, <1>6, <1>7, <1>8, <1>9 DEF IInv


-----------------------------------------------------------------------------
(***************************************************************************)
(* The steps of one thread.                                                *)
(***************************************************************************)
Places == {"idle", "pop", "check", "left", "statement", "commit", "lock"}

\* No thread but x moves.
Alone(x) ==
  \A y \in Executors \ {x} :
    /\ at'[y] = at[y] /\ op'[y] = op[y] /\ pos'[y] = pos[y]
    /\ inTrans'[y] = inTrans[y] /\ open'[y] = open[y]

\* It goes on with the operation it has.
LEMMA MovesOn ==
  ASSUME IInv, NEW x \in Executors, TypeOK', Session(x)', Alone(x), at[x] # "left",
         UNCHANGED <<queue, issued, op, fate, applied, struck>>
  PROVE  IInv'
<1>1. \A y \in Executors : Session(y)'
  BY OthersKept DEF IInv, Alone
<1>2. Owners'
  BY StillOwned DEF IInv, Alone
<1>3. Effects'
  BY EffectsKept DEF IInv
<1>4. Order'
  BY OrderKept DEF IInv
<1> QED BY <1>1, <1>2, <1>3, <1>4 DEF IInv

\* It is through with it, and its statements have taken effect or have not.
LEMMA IsThrough ==
  ASSUME IInv, NEW x \in Executors, TypeOK', Session(x)', Alone(x),
         NEW o \in Ops, op[x] = o, at[x] # "left",
         at'[x] = "left" \/ op'[x] = NoOp,
         NEW what \in {"done", "lost"}, fate' = [fate EXCEPT ![o] = what],
         \A q \in Ops \ {o} : applied'[q] = applied[q],
         o \in struck \/ IF what = "done" THEN Whole(o)' ELSE Nothing(o)',
         UNCHANGED <<queue, issued, struck>>
  PROVE  IInv'
<1>1. \A y \in Executors : Session(y)'
  BY OthersKept DEF IInv, Alone
<1>2. \A q \in Ops \ {o} : fate'[q] = fate[q]
  BY DEF IInv, TypeOK
<1>3. fate'[o] = what
  BY DEF IInv, TypeOK
<1>4. Owners'
  BY <1>2, NotOwned DEF IInv, Alone
<1>5. Effects'
  <2>1. \A q \in Ops \ {o} : (Whole(q)' <=> Whole(q)) /\ (Nothing(q)' <=> Nothing(q))
    BY DEF Whole, Nothing
  <2>2. IF o \in struck' THEN fate'[o] # "new"
        ELSE IF fate'[o] = "done" THEN Whole(o)' ELSE Nothing(o)'
    BY <1>3
  <2>3. \A q \in Ops \ {o} :
           IF q \in struck' THEN fate'[q] # "new"
           ELSE IF fate'[q] = "done" THEN Whole(q)' ELSE Nothing(q)'
    BY <1>2, <2>1 DEF IInv, Effects
  <2> QED BY <2>2, <2>3 DEF Effects
<1>6. Order'
  <2>1. \A q \in Ops : fate[q] # "new" => fate'[q] # "new"
    BY <1>2, <1>3
  <2> QED BY <2>1, OrderKept DEF IInv
<1> QED BY <1>1, <1>4, <1>5, <1>6 DEF IInv

LEMMA BeginType ==
  ASSUME TypeOK, NEW x \in Executors, NEW b \in BOOLEAN, Begin(x, b)
  PROVE  /\ at' \in [Executors -> Places] /\ pos' \in [Executors -> 1..Size]
         /\ inTrans' \in [Executors -> BOOLEAN] /\ open' \in [Executors -> SUBSET (1..Size)]
         /\ at'[x] = "statement" /\ pos'[x] = 1 /\ inTrans'[x] = b /\ open'[x] = {}
         /\ (op \in [Executors -> Ops \union {NoOp}] /\ op' = op) => Alone(x)
<1>1. 1 \in 1..Size
  BY DatabaseAssumption DEF DatabaseAssumption
<1>2. at' \in [Executors -> Places] /\ pos' \in [Executors -> 1..Size]
  BY <1>1 DEF TypeOK, Begin, Goto, Places
<1>3. inTrans' \in [Executors -> BOOLEAN]
  BY DEF TypeOK, Begin
<1>4. open' \in [Executors -> SUBSET (1..Size)]
  BY DEF TypeOK, Begin
<1> QED BY <1>2, <1>3, <1>4 DEF TypeOK, Begin, Goto, Alone

\* A transaction's first statement comes next.
LEMMA BeginSession ==
  ASSUME NEW x \in Executors, at'[x] = "statement", op'[x] \in Ops, pos'[x] = 1,
         inTrans'[x] = (op'[x] \notin Single), open'[x] = {}
  PROVE  Session(x)'
<1>1. 1..(1 - 1) = {}
  OBVIOUS
<1> QED BY <1>1 DEF Session

LEMMA FinishType ==
  ASSUME TypeOK, NEW x \in Executors, op[x] \in Ops, NEW what \in {"done", "lost"},
         Finish(x, what)
  PROVE  /\ at' \in [Executors -> Places] /\ op' \in [Executors -> Ops \union {NoOp}]
         /\ fate' \in [Ops -> {"new", "issued", "done", "lost"}]
         /\ deadlockLock' \in Workers \union {NoThread}
         /\ op'[x] = NoOp /\ Session(x)'
         /\ \A y \in Executors \ {x} : at'[y] = at[y] /\ op'[y] = op[y]
<1>1. at' \in [Executors -> Places]
  BY DEF TypeOK, Finish, Goto, Places
<1>2. op' \in [Executors -> Ops \union {NoOp}]
  BY DEF TypeOK, Finish
<1>3. fate' \in [Ops -> {"new", "issued", "done", "lost"}]
  BY DEF TypeOK, Finish, Becomes
<1>4. deadlockLock' \in Workers \union {NoThread}
  BY DEF TypeOK, Finish
<1>5. op'[x] = NoOp /\ at'[x] = IF x = World THEN "idle" ELSE "pop"
  BY DEF TypeOK, Finish, Goto
<1>6. \A y \in Executors \ {x} : at'[y] = at[y] /\ op'[y] = op[y]
  BY DEF TypeOK, Finish, Goto
<1>7. Session(x)'
  BY <1>5 DEF Session, Executors
<1> QED BY <1>1, <1>2, <1>3, <1>4, <1>5, <1>6, <1>7

LEMMA TakeDeadlockLockKeeps ==
  ASSUME IInv, NEW w \in Workers, TakeDeadlockLock(w)
  PROVE  IInv'
<1>1. w \in Executors /\ 1 \in 0..LoopBreaker
  BY DatabaseAssumption DEF DatabaseAssumption, Executors
<1>2. /\ at[w] = "lock" /\ deadlockLock' = w /\ try' = [try EXCEPT ![w] = 1] /\ Begin(w, TRUE)
      /\ UNCHANGED <<queue, shutdown, waiting, op, applied, token, joining, fate, struck, issued, losses>>
  BY DEF TakeDeadlockLock, queueVars, historyVars
<1>3. TypeOK /\ op[w] \in Ops
  BY <1>1, <1>2 DEF IInv, Session
<1>4. op \in [Executors -> Ops \union {NoOp}]
  BY <1>3 DEF TypeOK
<1>5. TypeOK'
  <2>1. try' \in [Executors -> 0..LoopBreaker]
    BY <1>1, <1>2, <1>3 DEF TypeOK
  <2> QED BY <1>1, <1>2, <1>3, <2>1, BeginType DEF TypeOK, Places
<1>6. Alone(w) /\ at'[w] = "statement" /\ pos'[w] = 1 /\ inTrans'[w] /\ open'[w] = {}
  BY <1>1, <1>2, <1>3, <1>4, BeginType
<1>7. Session(w)'
  BY <1>1, <1>2, <1>3, <1>6, BeginSession DEF IInv, Session
<1> QED BY <1>1, <1>2, <1>5, <1>6, <1>7, MovesOn

LEMMA CallKeeps ==
  ASSUME IInv, NEW w \in Workers, Call(w)
  PROVE  IInv'
<1>1. w \in Executors /\ 0 \in 0..LoopBreaker
  BY DatabaseAssumption DEF DatabaseAssumption, Executors
<1>2. /\ at[w] = "check" /\ op[w] # NoOp /\ try' = [try EXCEPT ![w] = 0]
      /\ Begin(w, op[w] \notin Single)
      /\ UNCHANGED <<queue, shutdown, waiting, op, applied, deadlockLock, token, joining, fate,
                     struck, issued, losses>>
  BY DEF Call, queueVars, historyVars
<1>3. TypeOK /\ op \in [Executors -> Ops \union {NoOp}] /\ op[w] \in Ops
  BY <1>1, <1>2 DEF IInv, TypeOK
<1>4. (op[w] \notin Single) \in BOOLEAN
  OBVIOUS
<1>5. TypeOK'
  <2>1. try' \in [Executors -> 0..LoopBreaker]
    BY <1>1, <1>2, <1>3 DEF TypeOK
  <2> QED BY <1>1, <1>2, <1>3, <1>4, <2>1, BeginType DEF TypeOK, Places
<1>6. /\ Alone(w) /\ at'[w] = "statement" /\ pos'[w] = 1 /\ inTrans'[w] = (op[w] \notin Single)
      /\ open'[w] = {}
  BY <1>1, <1>2, <1>3, <1>4, BeginType
<1>7. Session(w)'
  BY <1>1, <1>2, <1>3, <1>6, BeginSession
<1> QED BY <1>1, <1>2, <1>5, <1>6, <1>7, MovesOn

LEMMA LeaveKeeps ==
  ASSUME IInv, NEW w \in Workers, Leave(w)
  PROVE  IInv'
<1>1. w \in Executors
  BY DEF Executors
<1>2. /\ at[w] = "check" /\ at' = [at EXCEPT ![w] = "left"]
      /\ fate' = [o \in Ops |-> IF o = op[w] THEN "lost" ELSE fate[o]]
      /\ UNCHANGED <<queue, shutdown, waiting, op, pos, try, inTrans, open, applied, deadlockLock,
                     token, joining, struck, issued, losses>>
  BY DEF Leave, Goto, queueVars, historyVars
<1>3. TypeOK
  BY DEF IInv
<1>4. TypeOK'
  <2>1. at' \in [Executors -> Places]
    BY <1>2, <1>3 DEF TypeOK, Places
  <2>2. fate' \in [Ops -> {"new", "issued", "done", "lost"}]
    BY <1>2, <1>3 DEF TypeOK
  <2> QED BY <1>2, <1>3, <2>1, <2>2 DEF TypeOK, Places
<1>5. at'[w] = "left" /\ Alone(w)
  BY <1>1, <1>2, <1>3 DEF TypeOK, Alone
<1>6. Session(w)'
  BY <1>5 DEF Session
<1>7. ASSUME NEW o \in Ops, op[w] = o PROVE IInv'
  <2>1. fate' = [fate EXCEPT ![o] = "lost"]
    BY <1>2, <1>3, <1>7 DEF TypeOK
  <2>2. fate[o] = "issued"
    BY <1>1, <1>2, <1>7 DEF IInv, Owners, Holds
  <2>3. o \in struck \/ Nothing(o)'
    BY <1>2, <2>2 DEF IInv, Effects, Nothing
  <2> QED BY <1>1, <1>2, <1>4, <1>5, <1>6, <1>7, <2>1, <2>3, IsThrough
<1>8. CASE op[w] \notin Ops
  <2>1. fate' = fate
    BY <1>2, <1>3, <1>8 DEF TypeOK
  <2> QED BY <1>1, <1>2, <1>4, <1>5, <1>6, <2>1, MovesOn
<1> QED BY <1>7, <1>8

LEMMA StatementKeeps ==
  ASSUME IInv, NEW x \in Executors, Statement(x)
  PROVE  IInv'
<1>1. /\ at[x] = "statement" /\ pos[x] < Length(op[x]) /\ TakeEffect(x)
      /\ pos' = [pos EXCEPT ![x] = @ + 1]
      /\ UNCHANGED <<queue, shutdown, waiting, at, op, try, inTrans, deadlockLock, token, joining,
                     fate, struck, issued, losses>>
  BY DEF Statement, queueVars, historyVars
<1>2. /\ TypeOK /\ Session(x) /\ op[x] \in Ops /\ pos[x] \in 1..Size /\ inTrans[x] \in BOOLEAN
      /\ Size \in Nat
  BY <1>1, DatabaseAssumption DEF IInv, TypeOK, Session, DatabaseAssumption
<1>3. op[x] \notin Single /\ pos[x] + 1 \in 1..Size /\ pos[x] < Size
  BY <1>1, <1>2 DEF Session, Length
<1>4. pos' \in [Executors -> 1..Size] /\ pos'[x] = pos[x] + 1
      /\ \A y \in Executors \ {x} : pos'[y] = pos[y]
  BY <1>1, <1>2, <1>3 DEF TypeOK
<1>5. CASE inTrans[x]
  <2>1. open' = [open EXCEPT ![x] = @ \union {pos[x]}] /\ applied' = applied
    BY <1>1, <1>5 DEF TakeEffect
  <2>2. /\ open' \in [Executors -> SUBSET (1..Size)] /\ open'[x] = open[x] \union {pos[x]}
        /\ \A y \in Executors \ {x} : open'[y] = open[y]
    BY <1>2, <2>1 DEF TypeOK
  <2>3. TypeOK'
    BY <1>1, <1>2, <1>4, <2>1, <2>2 DEF TypeOK
  <2>4. Session(x)'
    <3>1. 1..((pos[x] + 1) - 1) = (1..(pos[x] - 1)) \union {pos[x]}
      BY <1>2
    <3> QED BY <1>1, <1>2, <1>3, <1>4, <2>2, <3>1 DEF Session
  <2> QED BY <1>1, <1>4, <2>1, <2>2, <2>3, <2>4, MovesOn DEF Alone
<1>6. CASE ~inTrans[x]
  <2>1. applied' = [applied EXCEPT ![op[x]][pos[x]] = @ + 1] /\ open' = open
    BY <1>1, <1>6 DEF TakeEffect
  <2>2. op[x] \in struck
    BY <1>1, <1>2, <1>3, <1>6 DEF Session
  <2>3. /\ applied' \in [Ops -> [1..Size -> Nat]]
        /\ \A o \in Ops \ {op[x]} : applied'[o] = applied[o]
    BY <1>2, <2>1 DEF TypeOK
  <2>4. TypeOK'
    BY <1>1, <1>2, <1>4, <2>1, <2>3 DEF TypeOK
  <2>5. Session(x)'
    BY <1>1, <1>2, <1>3, <2>2 DEF Session
  <2>6. \A y \in Executors : Session(y)'
    BY <1>1, <1>4, <2>1, <2>5, OthersKept DEF IInv
  <2>7. Owners' /\ Order'
    BY <1>1, OwnersKept, OrderKept DEF IInv
  <2>8. Effects'
    <3>1. \A o \in Ops \ {op[x]} : (Whole(o)' <=> Whole(o)) /\ (Nothing(o)' <=> Nothing(o))
      BY <2>3 DEF Whole, Nothing
    <3> QED BY <1>1, <2>2, <3>1 DEF IInv, Effects
  <2> QED BY <2>4, <2>6, <2>7, <2>8 DEF IInv
<1> QED BY <1>5, <1>6, <1>2

LEMMA LastStatementKeeps ==
  ASSUME IInv, NEW x \in Executors, LastStatement(x)
  PROVE  IInv'
<1>1. /\ at[x] = "statement" /\ pos[x] = Length(op[x]) /\ TakeEffect(x) /\ op[x] \notin Single
      /\ at' = [at EXCEPT ![x] = "commit"]
      /\ UNCHANGED <<queue, shutdown, waiting, pos, op, try, inTrans, deadlockLock, token, joining,
                     fate, struck, issued, losses>>
  BY DEF LastStatement, Goto, queueVars, historyVars
<1>2. /\ TypeOK /\ Session(x) /\ op[x] \in Ops /\ pos[x] \in 1..Size /\ inTrans[x] \in BOOLEAN
      /\ Size \in Nat \ {0}
  BY <1>1, DatabaseAssumption DEF IInv, TypeOK, Session, DatabaseAssumption
<1>3. pos[x] = Size
  BY <1>1 DEF Length
<1>4. at' \in [Executors -> Places] /\ at'[x] = "commit"
      /\ \A y \in Executors \ {x} : at'[y] = at[y]
  BY <1>1, <1>2 DEF TypeOK, Places
<1>5. CASE inTrans[x]
  <2>1. open' = [open EXCEPT ![x] = @ \union {pos[x]}] /\ applied' = applied
    BY <1>1, <1>5 DEF TakeEffect
  <2>2. /\ open' \in [Executors -> SUBSET (1..Size)] /\ open'[x] = open[x] \union {pos[x]}
        /\ \A y \in Executors \ {x} : open'[y] = open[y]
    BY <1>2, <2>1 DEF TypeOK
  <2>3. TypeOK'
    BY <1>1, <1>2, <1>4, <2>1, <2>2 DEF TypeOK, Places
  <2>4. Session(x)'
    <3>1. 1..Size = (1..(Size - 1)) \union {Size}
      BY <1>2
    <3> QED BY <1>1, <1>2, <1>3, <1>4, <2>2, <3>1 DEF Session
  <2> QED BY <1>1, <1>4, <2>1, <2>2, <2>3, <2>4, MovesOn DEF Alone
<1>6. CASE ~inTrans[x]
  <2>1. applied' = [applied EXCEPT ![op[x]][pos[x]] = @ + 1] /\ open' = open
    BY <1>1, <1>6 DEF TakeEffect
  <2>2. op[x] \in struck
    BY <1>1, <1>2, <1>6 DEF Session
  <2>3. /\ applied' \in [Ops -> [1..Size -> Nat]]
        /\ \A o \in Ops \ {op[x]} : applied'[o] = applied[o]
    BY <1>2, <2>1 DEF TypeOK
  <2>4. TypeOK'
    BY <1>1, <1>2, <1>4, <2>1, <2>3 DEF TypeOK, Places
  <2>5. Session(x)'
    BY <1>1, <1>2, <1>4, <2>2 DEF Session
  <2>6. \A y \in Executors : Session(y)'
    BY <1>1, <1>4, <2>1, <2>5, OthersKept DEF IInv
  <2>7. Owners' /\ Order'
    BY <1>1, <1>4, StillOwned, OrderKept DEF IInv
  <2>8. Effects'
    <3>1. \A o \in Ops \ {op[x]} : (Whole(o)' <=> Whole(o)) /\ (Nothing(o)' <=> Nothing(o))
      BY <2>3 DEF Whole, Nothing
    <3> QED BY <1>1, <2>2, <3>1 DEF IInv, Effects
  <2> QED BY <2>4, <2>6, <2>7, <2>8 DEF IInv
<1> QED BY <1>5, <1>6, <1>2

LEMMA SingleStatementKeeps ==
  ASSUME IInv, NEW x \in Executors, SingleStatement(x)
  PROVE  IInv'
<1>1. /\ at[x] = "statement" /\ op[x] \in Single /\ TakeEffect(x) /\ Finish(x, "done")
      /\ UNCHANGED <<queue, shutdown, waiting, pos, try, inTrans, token, joining, struck, issued,
                     losses>>
  BY DEF SingleStatement, queueVars, historyVars
<1>2. /\ TypeOK /\ op[x] \in Ops /\ pos[x] = 1 /\ ~inTrans[x] /\ 1 \in 1..Size
  BY <1>1, DatabaseAssumption DEF IInv, Session, DatabaseAssumption
<1>3. PICK o \in Ops : o = op[x]
  BY <1>2
<1>4. applied' = [applied EXCEPT ![o] = [applied[o] EXCEPT ![1] = @ + 1]] /\ open' = open
  BY <1>1, <1>2, <1>3 DEF TakeEffect
<1>5. /\ applied' \in [Ops -> [1..Size -> Nat]]
      /\ applied'[o][1] = applied[o][1] + 1
      /\ \A q \in Ops \ {o} : applied'[q] = applied[q]
  <2>1. applied[o] \in [1..Size -> Nat] /\ applied[o][1] \in Nat
    BY <1>2 DEF TypeOK
  <2>2. [applied[o] EXCEPT ![1] = @ + 1] \in [1..Size -> Nat]
    <3>1. applied[o][1] + 1 \in Nat
      BY <2>1
    <3> QED BY <2>1, <3>1
  <2> QED BY <1>2, <1>4, <2>1, <2>2 DEF TypeOK
<1>6. /\ at' \in [Executors -> Places] /\ op' \in [Executors -> Ops \union {NoOp}]
      /\ fate' \in [Ops -> {"new", "issued", "done", "lost"}]
      /\ deadlockLock' \in Workers \union {NoThread}
      /\ op'[x] = NoOp /\ Session(x)'
      /\ \A y \in Executors \ {x} : at'[y] = at[y] /\ op'[y] = op[y]
  BY <1>1, <1>2, FinishType
<1>7. TypeOK'
  BY <1>1, <1>2, <1>4, <1>5, <1>6 DEF TypeOK, Places
<1>8. o \in struck \/ Whole(o)'
  <2>1. fate[o] = "issued"
    BY <1>1, <1>3 DEF IInv, Owners, Holds
  <2>2. o \in struck \/ applied[o][1] = 0
    BY <1>2, <2>1 DEF IInv, Effects, Nothing
  <2>3. 1..Length(o) = {1}
    BY <1>1, <1>3 DEF Length
  <2> QED BY <1>5, <2>2, <2>3 DEF Whole
<1>9. Alone(x)
  BY <1>1, <1>4, <1>6 DEF Alone
<1>10. fate' = [fate EXCEPT ![o] = "done"]
  BY <1>1, <1>3 DEF Finish, Becomes
<1> QED BY <1>1, <1>3, <1>5, <1>6, <1>7, <1>8, <1>9, <1>10, IsThrough

LEMMA CommitKeeps ==
  ASSUME IInv, NEW x \in Executors, Commit(x)
  PROVE  IInv'
<1>1. /\ at[x] = "commit" /\ Finish(x, "done")
      /\ applied' = [applied EXCEPT ![op[x]] =
                       [k \in 1..Size |-> IF k \in open[x] THEN @[k] + 1 ELSE @[k]]]
      /\ open' = [open EXCEPT ![x] = {}] /\ inTrans' = [inTrans EXCEPT ![x] = FALSE]
      /\ UNCHANGED <<queue, shutdown, waiting, pos, try, token, joining, struck, issued, losses>>
  BY DEF Commit, queueVars, historyVars
<1>2. /\ TypeOK /\ op[x] \in Ops /\ op[x] \notin Single
      /\ op[x] \in struck \/ open[x] = 1..Size
  BY <1>1 DEF IInv, Session
<1>3. PICK o \in Ops : o = op[x]
  BY <1>2
<1>4. /\ applied' \in [Ops -> [1..Size -> Nat]]
      /\ \A k \in 1..Size : applied'[o][k] = IF k \in open[x] THEN applied[o][k] + 1
                                               ELSE applied[o][k]
      /\ \A q \in Ops \ {o} : applied'[q] = applied[q]
  <2> DEFINE row == [k \in 1..Size |-> IF k \in open[x] THEN applied[o][k] + 1 ELSE applied[o][k]]
  <2>1. applied[o] \in [1..Size -> Nat]
    BY <1>2 DEF TypeOK
  <2>2. \A k \in 1..Size : applied[o][k] \in Nat
    BY <2>1
  <2>3. row \in [1..Size -> Nat]
    BY <2>2
  <2>4. applied' = [applied EXCEPT ![o] = row]
    BY <1>1, <1>3
  <2>5. \A k \in 1..Size : row[k] = IF k \in open[x] THEN applied[o][k] + 1 ELSE applied[o][k]
    OBVIOUS
  <2> HIDE DEF row
  <2> QED BY <1>2, <2>3, <2>4, <2>5 DEF TypeOK
<1>5. /\ open' \in [Executors -> SUBSET (1..Size)] /\ inTrans' \in [Executors -> BOOLEAN]
      /\ \A y \in Executors \ {x} : open'[y] = open[y] /\ inTrans'[y] = inTrans[y]
  BY <1>1, <1>2 DEF TypeOK
<1>6. /\ at' \in [Executors -> Places] /\ op' \in [Executors -> Ops \union {NoOp}]
      /\ fate' \in [Ops -> {"new", "issued", "done", "lost"}]
      /\ deadlockLock' \in Workers \union {NoThread}
      /\ op'[x] = NoOp /\ Session(x)'
      /\ \A y \in Executors \ {x} : at'[y] = at[y] /\ op'[y] = op[y]
  BY <1>1, <1>2, FinishType
<1>7. TypeOK'
  BY <1>1, <1>2, <1>4, <1>5, <1>6 DEF TypeOK, Places
<1>8. o \in struck \/ Whole(o)'
  <2>1. fate[o] = "issued"
    BY <1>1, <1>3 DEF IInv, Owners, Holds
  <2>2. o \in struck \/ \A k \in 1..Size : applied[o][k] = 0
    BY <1>2, <2>1 DEF IInv, Effects, Nothing
  <2>3. Length(o) = Size
    BY <1>2, <1>3 DEF Length
  <2>4. ASSUME o \notin struck, NEW k \in 1..Size PROVE applied'[o][k] = 1
    <3>1. k \in open[x] /\ applied[o][k] = 0
      BY <1>2, <1>3, <2>2, <2>4
    <3>2. applied'[o][k] = applied[o][k] + 1
      BY <1>4, <3>1
    <3> QED BY <3>1, <3>2
  <2> QED BY <2>3, <2>4 DEF Whole
<1>9. Alone(x)
  BY <1>1, <1>5, <1>6 DEF Alone
<1>10. fate' = [fate EXCEPT ![o] = "done"]
  BY <1>1, <1>3 DEF Finish, Becomes
<1> QED BY <1>1, <1>3, <1>4, <1>6, <1>7, <1>8, <1>9, <1>10, IsThrough

\* An attempt at a transaction ends with an error.
LEMMA TransactionFailsKeeps ==
  ASSUME IInv, NEW x \in Executors, at[x] = "statement", op[x] \notin Single,
         NEW deadlock \in BOOLEAN, TransactionFails(x, deadlock)
  PROVE  IInv'
<1>1. UNCHANGED <<queue, shutdown, waiting, applied, token, joining, struck, issued, losses>>
  BY DEF TransactionFails, queueVars, historyVars
<1>2. /\ TypeOK /\ op[x] \in Ops /\ op \in [Executors -> Ops \union {NoOp}]
      /\ try[x] \in 0..LoopBreaker /\ LoopBreaker \in Nat \ {0}
  BY DatabaseAssumption DEF IInv, TypeOK, Session, DatabaseAssumption
<1>3. RolledBack(x) =>
        /\ open' \in [Executors -> SUBSET (1..Size)] /\ inTrans' \in [Executors -> BOOLEAN]
        /\ pos' = pos
        /\ \A y \in Executors \ {x} : open'[y] = open[y] /\ inTrans'[y] = inTrans[y]
  BY <1>2 DEF TypeOK, RolledBack
<1>4. ASSUME x # World, Goto(x, "lock"), RolledBack(x), UNCHANGED <<op, try, deadlockLock, fate>>
      PROVE  IInv'
  <2>1. /\ at' \in [Executors -> Places] /\ at'[x] = "lock"
        /\ \A y \in Executors \ {x} : at'[y] = at[y]
    BY <1>2, <1>4 DEF TypeOK, Goto, Places
  <2>2. TypeOK'
    BY <1>1, <1>2, <1>3, <1>4, <2>1 DEF TypeOK, Places
  <2>3. Session(x)'
    BY <1>2, <1>4, <2>1 DEF Session, Executors
  <2>4. Alone(x)
    BY <1>3, <1>4, <2>1 DEF Alone
  <2> QED BY <1>1, <1>4, <2>2, <2>3, <2>4, MovesOn
<1>5. ASSUME try[x] < LoopBreaker, try' = [try EXCEPT ![x] = @ + 1], Begin(x, TRUE),
             UNCHANGED <<op, deadlockLock, fate>>
      PROVE  IInv'
  <2>1. try' \in [Executors -> 0..LoopBreaker]
    <3>1. try[x] + 1 \in 0..LoopBreaker
      BY <1>2, <1>5
    <3> QED BY <1>2, <1>5, <3>1 DEF TypeOK
  <2>2. /\ at' \in [Executors -> Places] /\ pos' \in [Executors -> 1..Size]
        /\ inTrans' \in [Executors -> BOOLEAN] /\ open' \in [Executors -> SUBSET (1..Size)]
        /\ at'[x] = "statement" /\ pos'[x] = 1 /\ inTrans'[x] /\ open'[x] = {} /\ Alone(x)
    BY <1>2, <1>5, BeginType
  <2>3. TypeOK'
    BY <1>1, <1>2, <1>5, <2>1, <2>2 DEF TypeOK, Places
  <2>4. Session(x)'
    BY <1>2, <1>5, <2>2, BeginSession
  <2> QED BY <1>1, <1>5, <2>2, <2>3, <2>4, MovesOn
<1>6. ASSUME Finish(x, "lost"), RolledBack(x), UNCHANGED try
      PROVE  IInv'
  <2>1. PICK o \in Ops : o = op[x]
    BY <1>2
  <2>2. /\ at' \in [Executors -> Places] /\ op' \in [Executors -> Ops \union {NoOp}]
        /\ fate' \in [Ops -> {"new", "issued", "done", "lost"}]
        /\ deadlockLock' \in Workers \union {NoThread}
        /\ op'[x] = NoOp /\ Session(x)'
        /\ \A y \in Executors \ {x} : at'[y] = at[y] /\ op'[y] = op[y]
    BY <1>2, <1>6, FinishType
  <2>3. TypeOK'
    BY <1>1, <1>2, <1>3, <1>6, <2>2 DEF TypeOK, Places
  <2>4. Alone(x)
    BY <1>3, <1>6, <2>2 DEF Alone
  <2>5. fate[o] = "issued"
    BY <2>1 DEF IInv, Owners, Holds
  <2>6. o \in struck \/ Nothing(o)'
    BY <1>1, <2>5 DEF IInv, Effects, Nothing
  <2>7. fate' = [fate EXCEPT ![o] = "lost"]
    BY <1>6, <2>1 DEF Finish, Becomes
  <2> QED BY <1>1, <2>1, <2>2, <2>3, <2>4, <2>6, <2>7, IsThrough
<1>7. try[x] = 0 \/ try[x] \in 1..(LoopBreaker - 1) => try[x] < LoopBreaker
  BY <1>2
<1> QED BY <1>4, <1>5, <1>6, <1>7 DEF TransactionFails

LEMMA StatementFailsKeeps ==
  ASSUME IInv, NEW x \in Executors, StatementFails(x)
  PROVE  IInv'
<1>1. at[x] = "statement"
  BY DEF StatementFails
<1>2. TypeOK /\ op[x] \in Ops
  BY <1>1 DEF IInv, Session
<1>3. CASE op[x] \in Single
  <2>1. /\ Finish(x, "lost")
        /\ UNCHANGED <<queue, shutdown, waiting, pos, try, inTrans, open, applied, token, joining,
                       struck, issued, losses>>
    BY <1>3 DEF StatementFails, queueVars, historyVars
  <2>2. PICK o \in Ops : o = op[x]
    BY <1>2
  <2>3. /\ at' \in [Executors -> Places] /\ op' \in [Executors -> Ops \union {NoOp}]
        /\ fate' \in [Ops -> {"new", "issued", "done", "lost"}]
        /\ deadlockLock' \in Workers \union {NoThread}
        /\ op'[x] = NoOp /\ Session(x)'
        /\ \A y \in Executors \ {x} : at'[y] = at[y] /\ op'[y] = op[y]
    BY <1>2, <2>1, FinishType
  <2>4. TypeOK'
    BY <1>2, <2>1, <2>3 DEF TypeOK, Places
  <2>5. Alone(x)
    BY <2>1, <2>3 DEF Alone
  <2>6. fate[o] = "issued"
    BY <1>1, <2>2 DEF IInv, Owners, Holds
  <2>7. o \in struck \/ Nothing(o)'
    BY <2>1, <2>6 DEF IInv, Effects, Nothing
  <2>8. fate' = [fate EXCEPT ![o] = "lost"]
    BY <2>1, <2>2 DEF Finish, Becomes
  <2> QED BY <1>1, <2>1, <2>2, <2>3, <2>4, <2>5, <2>7, <2>8, IsThrough
<1>4. CASE op[x] \notin Single
  BY <1>1, <1>4, TransactionFailsKeeps DEF StatementFails
<1> QED BY <1>3, <1>4

LEMMA DeadlockKeeps ==
  ASSUME IInv, NEW x \in Executors, Deadlock(x)
  PROVE  IInv'
<1>1. at[x] = "statement" /\ inTrans[x] /\ TransactionFails(x, TRUE)
  BY DEF Deadlock
<1>2. op[x] \notin Single
  BY <1>1 DEF IInv, Session
<1> QED BY <1>1, <1>2, TransactionFailsKeeps

LEMMA LoseConnectionKeeps ==
  ASSUME IInv, NEW x \in Executors, LoseConnection(x)
  PROVE  IInv'
<1>1. /\ at[x] \in {"statement", "commit"} /\ losses < MaxLosses /\ losses' = losses + 1
      /\ inTrans' = [inTrans EXCEPT ![x] = FALSE] /\ open' = [open EXCEPT ![x] = {}]
      /\ struck' = struck \union {op[x]}
      /\ UNCHANGED <<queue, shutdown, waiting, at, op, pos, try, deadlockLock, token, joining, fate,
                     issued>>
  BY DEF LoseConnection, queueVars
<1>2. TypeOK /\ op[x] \in Ops /\ pos[x] \in 1..Size /\ MaxLosses \in Nat
  BY <1>1, DatabaseAssumption DEF IInv, Session, TypeOK, DatabaseAssumption
<1>3. PICK o \in Ops : o = op[x]
  BY <1>2
<1>4. /\ applied' \in [Ops -> [1..Size -> Nat]]
      /\ \A q \in Ops \ {o} : applied'[q] = applied[q]
  <2> DEFINE once == [applied[o] EXCEPT ![pos[x]] = @ + 1]
             all == [k \in 1..Size |-> IF k \in open[x] THEN applied[o][k] + 1 ELSE applied[o][k]]
  <2>1. \/ applied' = applied \/ applied' = [applied EXCEPT ![o] = once]
        \/ applied' = [applied EXCEPT ![o] = all]
    BY <1>3 DEF LoseConnection
  <2>2. applied[o] \in [1..Size -> Nat]
    BY <1>2 DEF TypeOK
  <2>3. once \in [1..Size -> Nat]
    <3>1. applied[o][pos[x]] \in Nat
      BY <1>2, <2>2
    <3>2. applied[o][pos[x]] + 1 \in Nat
      BY <3>1
    <3> QED BY <2>2, <3>2
  <2>4. all \in [1..Size -> Nat]
    <3>1. \A k \in 1..Size : applied[o][k] \in Nat
      BY <2>2
    <3> QED BY <3>1
  <2> HIDE DEF once, all
  <2> QED BY <1>2, <2>1, <2>3, <2>4 DEF TypeOK
<1>5. /\ open' \in [Executors -> SUBSET (1..Size)] /\ inTrans' \in [Executors -> BOOLEAN]
      /\ ~inTrans'[x]
      /\ \A y \in Executors \ {x} : open'[y] = open[y] /\ inTrans'[y] = inTrans[y]
  BY <1>1, <1>2 DEF TypeOK
<1>6. TypeOK'
  <2>1. losses' \in 0..MaxLosses
    BY <1>1, <1>2 DEF TypeOK
  <2> QED BY <1>1, <1>2, <1>4, <1>5, <2>1 DEF TypeOK
<1>7. Session(x)'
  BY <1>1, <1>5 DEF IInv, Session
<1>8. \A y \in Executors : Session(y)'
  BY <1>1, <1>5, <1>7, OthersKept DEF IInv
<1>9. Owners'
  BY <1>1, <1>2, StillOwned DEF IInv
<1>10. Effects'
  <2>1. o \in struck' /\ fate'[o] # "new"
    BY <1>1, <1>3 DEF IInv, Owners, Holds
  <2>2. \A q \in Ops \ {o} : (Whole(q)' <=> Whole(q)) /\ (Nothing(q)' <=> Nothing(q))
    BY <1>4 DEF Whole, Nothing
  <2>3. \A q \in Ops \ {o} : (q \in struck' <=> q \in struck) /\ fate'[q] = fate[q]
    BY <1>1, <1>3
  <2>4. \A q \in Ops \ {o} :
           IF q \in struck' THEN fate'[q] # "new"
           ELSE IF fate'[q] = "done" THEN Whole(q)' ELSE Nothing(q)'
    BY <2>2, <2>3 DEF IInv, Effects
  <2> QED BY <2>1, <2>4 DEF Effects
<1>11. Order'
  BY <1>1, OrderKept DEF IInv
<1> QED BY <1>6, <1>8, <1>9, <1>10, <1>11 DEF IInv

LEMMA PopOperationKeeps ==
  ASSUME IInv, NEW w \in Workers, PopOperation(w)
  PROVE  IInv'
<1>1. w \in Executors
  BY DEF Executors
<1>2. /\ at[w] = "pop" /\ at' = [at EXCEPT ![w] = "check"]
      /\ UNCHANGED <<shutdown, waiting, pos, try, inTrans, open, applied, deadlockLock, token,
                     joining, fate, struck, issued, losses>>
  BY DEF PopOperation, PopValue, PopNothing, Goto, queueVars, historyVars
<1>3. TypeOK /\ op[w] = NoOp /\ NoOp \notin Ops
  BY <1>1, <1>2, DatabaseAssumption DEF IInv, Session, DatabaseAssumption
<1>4. /\ at' \in [Executors -> Places] /\ at'[w] = "check"
      /\ \A y \in Executors \ {w} : at'[y] = at[y]
  BY <1>1, <1>2, <1>3 DEF TypeOK, Places
<1>5. Session(w)'
  BY <1>4 DEF Session
<1>6. ASSUME UNCHANGED <<queue, op>> PROVE IInv'
  <2>1. TypeOK'
    BY <1>2, <1>3, <1>4, <1>6 DEF TypeOK, Places
  <2> QED BY <1>1, <1>2, <1>4, <1>5, <1>6, <2>1, MovesOn DEF Alone
<1>7. ASSUME NEW o \in Ops, PopValue(w, o), op' = [op EXCEPT ![w] = o] PROVE IInv'
  <2>1. /\ queue # <<>> /\ o = queue[1] /\ queue' = Tail(queue) /\ queue \in Seq(Ops)
        /\ issued \in Seq(Ops)
    BY <1>3, <1>7 DEF PopValue, TypeOK
  <2>2. /\ Len(queue) \in Nat \ {0} /\ Len(queue') = Len(queue) - 1 /\ queue' \in Seq(Ops)
        /\ Len(issued) \in Nat
        /\ \A i \in 1..Len(queue') : queue'[i] = queue[i + 1]
    BY <2>1
  <2>3. /\ op' \in [Executors -> Ops \union {NoOp}] /\ op'[w] = o
        /\ \A y \in Executors \ {w} : op'[y] = op[y]
    BY <1>1, <1>3, <1>7 DEF TypeOK
  <2>4. TypeOK'
    BY <1>2, <1>3, <1>4, <2>2, <2>3 DEF TypeOK, Places
  <2>5. \A y \in Executors : Session(y)'
    BY <1>1, <1>2, <1>4, <1>5, <2>3, OthersKept DEF IInv
  <2>6. /\ Len(queue) <= Len(issued)
        /\ \A i \in 1..Len(queue) : queue[i] = issued[Len(issued) - Len(queue) + i]
        /\ \A i, j \in 1..Len(issued) : issued[i] = issued[j] => i = j
        /\ \A i \in 1..Len(issued) : fate[issued[i]] # "new"
    BY DEF IInv, Order
  <2>7. Order'
    <3>1. \A i \in 1..Len(queue') : queue'[i] = issued[Len(issued) - Len(queue') + i]
      <4> SUFFICES ASSUME NEW i \in 1..Len(queue')
                   PROVE  queue'[i] = issued[Len(issued) - Len(queue') + i]
        OBVIOUS
      <4>1. i + 1 \in 1..Len(queue)
        BY <2>2
      <4>2. Len(issued) - Len(queue) + (i + 1) = Len(issued) - Len(queue') + i
        BY <2>2
      <4> QED BY <2>2, <2>6, <4>1, <4>2
    <3>2. Len(queue') <= Len(issued)
      BY <2>2, <2>6
    <3> QED BY <1>2, <2>6, <3>1, <3>2 DEF Order
  <2>8. \A i \in 1..Len(queue') : i + 1 \in 1..Len(queue) /\ queue'[i] # o
    <3> SUFFICES ASSUME NEW i \in 1..Len(queue') PROVE i + 1 \in 1..Len(queue) /\ queue'[i] # o
      OBVIOUS
    <3>1. i + 1 \in 1..Len(queue) /\ 1 \in 1..Len(queue)
      BY <2>2
    <3>2. /\ Len(issued) - Len(queue) + (i + 1) \in 1..Len(issued)
          /\ Len(issued) - Len(queue) + 1 \in 1..Len(issued)
          /\ Len(issued) - Len(queue) + (i + 1) # Len(issued) - Len(queue) + 1
      BY <2>2, <2>6, <3>1
    <3>3. issued[Len(issued) - Len(queue) + (i + 1)] # issued[Len(issued) - Len(queue) + 1]
      BY <2>6, <3>2
    <3>4. /\ queue[i + 1] = issued[Len(issued) - Len(queue) + (i + 1)]
          /\ queue[1] = issued[Len(issued) - Len(queue) + 1]
      BY <2>6, <3>1
    <3> QED BY <2>1, <2>2, <3>1, <3>3, <3>4
  <2>9. fate[o] = "issued" /\ \A x \in Executors : ~Holds(x, o)
    <3>1. 1 \in 1..Len(queue)
      BY <2>2
    <3> QED BY <2>1, <3>1 DEF IInv, Owners
  <2>10. Owners'
    <3>1. \A i \in 1..Len(queue') : fate'[queue'[i]] = "issued" /\ queue'[i] \notin struck'
      BY <1>2, <2>2, <2>8 DEF IInv, Owners
    <3>2. \A q \in Ops : Holds(w, q)' <=> q = o
      BY <1>4, <2>3 DEF Holds
    <3>3. \A y \in Executors \ {w}, q \in Ops : Holds(y, q)' <=> Holds(y, q)
      BY <1>4, <2>3 DEF Holds
    <3>4. ASSUME NEW x \in Executors, NEW q \in Ops, Holds(x, q)'
          PROVE  /\ fate'[q] = "issued"
                 /\ \A i \in 1..Len(queue') : queue'[i] # q
                 /\ \A y \in Executors \ {x} : ~Holds(y, q)'
      <4>1. CASE x = w
        <5>1. q = o
          BY <3>2, <3>4, <4>1
        <5> QED BY <1>2, <2>8, <2>9, <3>3, <4>1, <5>1
      <4>2. CASE x # w
        <5>1. Holds(x, q) /\ q # o
          BY <2>9, <3>3, <3>4, <4>2
        <5>2. \A i \in 1..Len(queue') : queue'[i] # q
          BY <2>2, <2>8, <5>1 DEF IInv, Owners
        <5> QED BY <1>2, <3>2, <3>3, <5>1, <5>2 DEF IInv, Owners
      <4> QED BY <4>1, <4>2
    <3> QED BY <3>1, <3>4 DEF Owners
  <2>11. Effects'
    BY <1>2, EffectsKept DEF IInv
  <2> QED BY <2>4, <2>5, <2>7, <2>10, <2>11 DEF IInv
<1> QED BY <1>6, <1>7 DEF PopOperation, PopNothing, queueVars

\* Steps that only concern the wait for the queue and for each other.
LEMMA WaitingKeeps ==
  ASSUME IInv, NEW w \in Workers, Block(w) \/ Wake(w) \/ Join
  PROVE  IInv'
<1>1. UNCHANGED <<queue, shutdown, sessionVars, applied, deadlockLock, token, fate, struck, issued, losses>>
  BY DEF Block, PopWait, Wake, SpuriousWakeup, Join, queueVars, historyVars
<1>2. waiting' \subseteq Workers /\ joining' \in Workers \union {NoThread}
  BY DEF IInv, TypeOK, Block, PopWait, Wake, SpuriousWakeup, Join, queueVars
<1>3. TypeOK'
  BY <1>1, <1>2 DEF IInv, TypeOK, sessionVars
<1>4. \A x \in Executors : Session(x)'
  BY <1>1, SessionsKept DEF IInv
<1>5. Owners' /\ Effects' /\ Order'
  BY <1>1, OwnersKept, EffectsKept, OrderKept DEF IInv, sessionVars
<1> QED BY <1>3, <1>4, <1>5 DEF IInv

-----------------------------------------------------------------------------
(***************************************************************************)
(* The invariant holds, and what follows from it.                          *)
(***************************************************************************)
LEMMA IInvNext == IInv /\ [Next]_vars => IInv'
<1> SUFFICES ASSUME IInv, [Next]_vars PROVE IInv'
  OBVIOUS
<1>1. ASSUME NEW o \in Ops, Enqueue(o) \/ DirectCommit(o) PROVE IInv'
  BY <1>1, EnqueueKeeps, DirectCommitKeeps
<1>2. ASSUME NEW x \in Executors, Execute(x) \/ LoseConnection(x) PROVE IInv'
  BY <1>2, StatementKeeps, LastStatementKeeps, SingleStatementKeeps, CommitKeeps, DeadlockKeeps,
     StatementFailsKeeps, LoseConnectionKeeps DEF Execute
<1>3. ASSUME NEW w \in Workers, WorkerStep(w) \/ Wake(w) \/ CloseWorker(w) PROVE IInv'
  BY <1>3, PopOperationKeeps, WaitingKeeps, LeaveKeeps, CallKeeps, TakeDeadlockLockKeeps,
     CloseWorkerKeeps DEF WorkerStep
<1>4. CASE Join
  <2>1. PICK w \in Workers : joining = w
    BY <1>4 DEF IInv, TypeOK, Join
  <2> QED BY <1>4, <2>1, WaitingKeeps
<1>5. CASE UNCHANGED vars
  <2>1. UNCHANGED <<queue, shutdown, waiting, at, op, pos, try, inTrans, open, applied, deadlockLock,
                    token, joining, fate, struck, issued, losses>>
    BY <1>5 DEF vars, queueVars, sessionVars, historyVars
  <2>2. TypeOK'
    BY <2>1 DEF IInv, TypeOK
  <2>3. \A x \in Executors : Session(x)'
    BY <2>1, SessionsKept DEF IInv, sessionVars
  <2>4. Owners' /\ Effects' /\ Order'
    BY <2>1, OwnersKept, EffectsKept, OrderKept DEF IInv
  <2> QED BY <2>2, <2>3, <2>4 DEF IInv
<1> QED BY <1>1, <1>2, <1>3, <1>4, <1>5 DEF Next

(* The invariant of the pool: sessions, owners, effects and order agree in  *)
(* every state.                                                             *)
THEOREM Invariance == Spec => []IInv
BY IInvInit, IInvNext, PTL DEF Spec

(* The types of the database pool's variables: pending operations, the     *)
(* sessions at the server and the outcome of each operation.               *)
THEOREM DatabaseTypes == Spec => []TypeOK
<1>1. IInv => TypeOK
  BY DEF IInv
<1> QED BY <1>1, Invariance, PTL

(* Whatever workers there are, and whatever fails, an operation has no     *)
(* effect before those that were enqueued ahead of it have left the queue. *)
THEOREM EffectsInIssueOrder == Spec => []InIssueOrder
<1>1. IInv => InIssueOrder
  <2> SUFFICES ASSUME IInv, NEW k \in DOMAIN issued, ~Nothing(issued[k]), NEW j \in 1..(k - 1)
               PROVE  ~Contains(queue, issued[j])
    BY DEF InIssueOrder
  <2>1. /\ queue \in Seq(Ops) /\ Len(queue) \in Nat /\ Len(issued) \in Nat
        /\ DOMAIN issued = 1..Len(issued)
    BY DEF IInv, TypeOK
  <2>2. /\ Len(queue) <= Len(issued)
        /\ \A i \in 1..Len(queue) : queue[i] = issued[Len(issued) - Len(queue) + i]
        /\ \A i, m \in 1..Len(issued) : issued[i] = issued[m] => i = m
    BY DEF IInv, Order
  <2>3. \A i \in 1..Len(queue) : Nothing(queue[i])
    <3>1. \A i \in 1..Len(queue) : queue[i] \in Ops
      BY <2>1
    <3> QED BY <3>1 DEF IInv, Owners, Effects
  <2>4. k <= Len(issued) - Len(queue)
    <3> SUFFICES ASSUME k > Len(issued) - Len(queue) PROVE FALSE
      BY <2>1
    <3> DEFINE i == k - (Len(issued) - Len(queue))
    <3>1. i \in 1..Len(queue) /\ Len(issued) - Len(queue) + i = k
      BY <2>1, <2>2
    <3>2. queue[i] = issued[k]
      BY <2>2, <3>1
    <3> QED BY <2>3, <3>1, <3>2
  <2>5. \A i \in 1..Len(queue) : queue[i] # issued[j]
    <3> SUFFICES ASSUME NEW i \in 1..Len(queue) PROVE queue[i] # issued[j]
      OBVIOUS
    <3>1. /\ j \in 1..Len(issued) /\ Len(issued) - Len(queue) + i \in 1..Len(issued)
          /\ Len(issued) - Len(queue) + i # j
      BY <2>1, <2>2, <2>4
    <3> QED BY <2>2, <3>1
  <2> QED BY <2>1, <2>5 DEF Contains
<1> QED BY <1>1, Invariance, PTL

-----------------------------------------------------------------------------
(***************************************************************************)
(* The pool implements TransactionStore.  A step changes what the store    *)
(* sees of an operation in one of five ways.                               *)
(***************************************************************************)
Issued(o) == fate[o] = "new" /\ fate' = [fate EXCEPT ![o] = "issued"] /\ struck' = struck
Settled(o, what) ==
  fate[o] = "issued" /\ fate' = [fate EXCEPT ![o] = what] /\ struck' = struck
Struck(o) == fate[o] = "issued" /\ fate' = fate /\ struck' = struck \union {o}
ThrownAway(ops) ==
  /\ \A o \in ops : fate[o] = "issued" /\ o \notin struck
  /\ fate' = [o \in Ops |-> IF o \in ops THEN "lost" ELSE fate[o]]
  /\ struck' = struck
Changed ==
  \/ UNCHANGED <<fate, struck>>
  \/ \E o \in Ops : Issued(o) \/ Struck(o) \/ \E what \in {"done", "lost"} : Settled(o, what)
  \/ \E ops \in SUBSET Ops : ThrownAway(ops)

LEMMA ExecuteChanges ==
  ASSUME IInv, NEW x \in Executors, Execute(x) \/ LoseConnection(x)
  PROVE  Changed
<1>1. at[x] \in {"statement", "commit"}
  BY DEF Execute, Statement, LastStatement, SingleStatement, Commit, Deadlock, StatementFails,
         LoseConnection
<1>2. op[x] \in Ops /\ fate[op[x]] = "issued"
  BY <1>1 DEF IInv, Session, Owners, Holds
<1>3. ASSUME NEW what \in {"done", "lost"}, Finish(x, what), UNCHANGED struck PROVE Changed
  BY <1>2, <1>3 DEF Changed, Settled, Finish, Becomes
<1>4. ASSUME NEW deadlock \in BOOLEAN, TransactionFails(x, deadlock) PROVE Changed
  BY <1>3, <1>4 DEF Changed, TransactionFails
<1>5. CASE Statement(x) \/ LastStatement(x)
  BY <1>5 DEF Changed, Statement, LastStatement
<1>6. CASE SingleStatement(x) \/ Commit(x)
  BY <1>3, <1>6 DEF SingleStatement, Commit
<1>7. CASE Deadlock(x)
  BY <1>4, <1>7 DEF Deadlock
<1>8. CASE StatementFails(x)
  BY <1>3, <1>4, <1>8 DEF StatementFails
<1>9. CASE LoseConnection(x)
  BY <1>2, <1>9 DEF Changed, Struck, LoseConnection
<1> QED BY <1>5, <1>6, <1>7, <1>8, <1>9 DEF Execute

LEMMA NextChanges == IInv /\ [Next]_vars => Changed
<1> SUFFICES ASSUME IInv, [Next]_vars PROVE Changed
  OBVIOUS
<1>1. ASSUME NEW o \in Ops, Enqueue(o) \/ DirectCommit(o) PROVE Changed
  BY <1>1 DEF Changed, Issued, Enqueue, DirectCommit, Becomes
<1>2. ASSUME NEW w \in Workers, Leave(w) PROVE Changed
  <2>1. /\ at[w] = "check" /\ struck' = struck
        /\ fate' = [o \in Ops |-> IF o = op[w] THEN "lost" ELSE fate[o]]
    BY <1>2 DEF Leave
  <2>2. w \in Executors /\ fate \in [Ops -> {"new", "issued", "done", "lost"}]
    BY DEF Executors, IInv, TypeOK
  <2>3. CASE op[w] \in Ops
    <3>1. fate[op[w]] = "issued"
      BY <2>1, <2>2, <2>3 DEF IInv, Owners, Holds
    <3>2. fate' = [fate EXCEPT ![op[w]] = "lost"]
      BY <2>1, <2>2, <2>3
    <3> QED BY <2>1, <2>3, <3>1, <3>2 DEF Changed, Settled
  <2>4. CASE op[w] \notin Ops
    BY <2>1, <2>2, <2>4 DEF Changed
  <2> QED BY <2>3, <2>4
<1>3. ASSUME NEW w \in Workers, CloseWorker(w) PROVE Changed
  <2> DEFINE ops == {o \in Ops : Contains(queue, o)}
  <2>1. struck' = struck /\ fate' = [o \in Ops |-> IF o \in ops THEN "lost" ELSE fate[o]]
    BY <1>3 DEF CloseWorker
  <2>2. \A o \in ops : fate[o] = "issued" /\ o \notin struck
    BY DEF IInv, TypeOK, Owners, Contains
  <2> QED BY <2>1, <2>2 DEF Changed, ThrownAway
<1>4. ASSUME NEW w \in Workers,
             PopOperation(w) \/ Block(w) \/ Call(w) \/ TakeDeadlockLock(w) \/ Wake(w)
      PROVE  Changed
  BY <1>4 DEF Changed, PopOperation, Block, Call, TakeDeadlockLock, Wake
<1>5. CASE Join \/ UNCHANGED vars
  BY <1>5 DEF Changed, Join, vars
<1> QED BY <1>1, <1>2, <1>3, <1>4, <1>5, ExecuteChanges DEF Next, WorkerStep

\* Under the invariant nothing is torn.
Seen ==
  [o \in Ops |-> IF o \in struck THEN "struck" ELSE IF fate[o] = "done" THEN "applied" ELSE fate[o]]

LEMMA NothingTorn == IInv => Outcome = Seen
<1> SUFFICES ASSUME IInv, NEW o \in Ops, o \notin struck
             PROVE  Outcome[o] = Seen[o]
  BY DEF Outcome, Seen
<1>1. 1 \in 1..Size /\ 1 \in 1..Length(o)
  BY DatabaseAssumption DEF DatabaseAssumption, Length
<1>2. Nothing(o) => ~Whole(o)
  BY <1>1 DEF Nothing, Whole
<1> QED BY <1>2 DEF IInv, Effects, Outcome, Seen

LEMMA SeenStep ==
  ASSUME IInv, Changed
  PROVE  \/ Seen' = Seen
         \/ \E o \in Ops :
              \/ Seen[o] = "new" /\ Seen' = [Seen EXCEPT ![o] = "issued"]
              \/ /\ Seen[o] = "issued"
                 /\ \E what \in {"applied", "lost", "struck"} : Seen' = [Seen EXCEPT ![o] = what]
         \/ \E ops \in SUBSET Ops :
              /\ ops # {} /\ \A o \in ops : Seen[o] = "issued"
              /\ Seen' = [o \in Ops |-> IF o \in ops THEN "lost" ELSE Seen[o]]
<1>1. fate \in [Ops -> {"new", "issued", "done", "lost"}] /\ struck \subseteq Ops
  BY DEF IInv, TypeOK
<1>2. \A o \in Ops : o \in struck => fate[o] # "new"
  BY DEF IInv, Effects
<1>3. CASE UNCHANGED <<fate, struck>>
  BY <1>3 DEF Seen
<1>4. ASSUME NEW o \in Ops, Issued(o)
      PROVE  Seen[o] = "new" /\ Seen' = [Seen EXCEPT ![o] = "issued"]
  BY <1>1, <1>2, <1>4 DEF Seen, Issued
<1>5. ASSUME NEW o \in Ops, NEW what \in {"done", "lost"}, Settled(o, what)
      PROVE  \/ Seen' = Seen
             \/ /\ Seen[o] = "issued"
                /\ Seen' = [Seen EXCEPT ![o] = IF what = "done" THEN "applied" ELSE "lost"]
  BY <1>1, <1>5 DEF Seen, Settled
<1>6. ASSUME NEW o \in Ops, Struck(o)
      PROVE  Seen' = Seen \/ (Seen[o] = "issued" /\ Seen' = [Seen EXCEPT ![o] = "struck"])
  BY <1>1, <1>6 DEF Seen, Struck
<1>7. ASSUME NEW ops \in SUBSET Ops, ThrownAway(ops)
      PROVE  /\ \A o \in ops : Seen[o] = "issued"
             /\ Seen' = [o \in Ops |-> IF o \in ops THEN "lost" ELSE Seen[o]]
             /\ ops = {} => Seen' = Seen
  BY <1>1, <1>7 DEF Seen, ThrownAway
<1> QED BY <1>3, <1>4, <1>5, <1>6, <1>7 DEF Changed

(* The pool implements the store its callers rely on: an operation whose   *)
(* connection is not lost takes effect as a whole and once, or not at all, *)
(* whatever deadlocks, failing statements and retries there are.           *)
THEOREM ImplementsStore == Spec => StoreSpec
<1>1. Init => Store!Init
  <2> SUFFICES ASSUME Init PROVE Outcome = [o \in Ops |-> "new"]
    BY DEF Store!Init
  <2>1. Outcome = Seen
    BY IInvInit, NothingTorn
  <2> QED BY <2>1 DEF Init, Seen
<1>2. IInv' => (Outcome = Seen)'
  BY NothingTorn, PTL
<1>3. IInv /\ IInv' /\ [Next]_vars => [Store!Next]_Outcome
  <2> SUFFICES ASSUME IInv, IInv', [Next]_vars PROVE [Store!Next]_Outcome
    OBVIOUS
  <2>1. Outcome = Seen /\ Outcome' = Seen'
    BY <1>2, NothingTorn
  <2> QED BY <2>1, NextChanges, SeenStep
          DEF Store!Next, Store!Issue, Store!Apply, Store!Lose, Store!Strike, Store!LoseSome
<1> QED BY <1>1, <1>3, Invariance, PTL DEF Spec, StoreSpec, Store!Spec

=============================================================================
