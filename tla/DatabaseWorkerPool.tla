------------------------- MODULE DatabaseWorkerPool -------------------------
(***************************************************************************)
(* Asynchronous and direct database access: operations go through a        *)
(* ProducerConsumerQueue to worker threads, each with its own connection,  *)
(* or are executed by the calling (world) thread on a synchronous          *)
(* connection.  A transaction that the server names the victim of a        *)
(* deadlock is tried again; a lost connection is opened again and the      *)
(* statement that failed is repeated.                                      *)
(*                                                                         *)
(* A step is one statement sent to the MySQL server.  Of the server, the   *)
(* effects are counted statement by statement, those of an open            *)
(* transaction apart; it rolls a transaction back when it is a deadlock's  *)
(* victim and when its connection is lost.                                 *)
(***************************************************************************)
EXTENDS ProducerConsumerQueue, Integers, FiniteSets, SequencesExt

CONSTANTS
  World,                    \* the calling thread, with a synchronous connection
  Ops,                      \* operations that are issued, each once
  Direct,                   \* those issued with DirectCommitTransaction
  Single,                   \* those that are one statement, not a transaction
  Faulty,                   \* those with a statement that may fail or lose the connection
  Size,                     \* number of statements of a transaction
  LoopBreaker,              \* retries after a deadlock, 5 in the code
  MaxIssued, MaxLosses,     \* bounds of the model on the asynchronous operations
                            \* issued and on lost connections
  NoOp, NoThread

ASSUME DatabaseAssumption ==
  /\ World \notin Workers /\ NoThread \notin Workers \union {World}
  /\ NoOp \notin Ops
  /\ Direct \subseteq Ops /\ Single \subseteq Ops \ Direct /\ Faulty \subseteq Ops
  /\ Size \in Nat \ {0} /\ LoopBreaker \in Nat \ {0} /\ {MaxIssued, MaxLosses} \subseteq Nat

Executors == Workers \union {World}
Length(op) == IF op \in Single THEN 1 ELSE Size

VARIABLES
  at,                       \* where each thread is
  op,                       \* the operation each thread executes
  pos,                      \* the statement it is at
  try,                      \* 0 at first, then the number of the retry
  inTrans,                  \* its session at the server is in a transaction
  open,                     \* statements done in that transaction
  applied,                  \* how often each statement took effect for good
  deadlockLock,             \* holder of TransactionTask::_deadlockLock
  token,                    \* workers whose _cancelationToken is set
  joining,                  \* the worker the world thread is joining
  fate,                     \* history: what became of each operation
  issued,                   \* history: asynchronous operations in order
  struck,                   \* history: operations during which a connection was lost
  losses                    \* history: lost connections

sessionVars == <<at, op, pos, try, inTrans, open>>
historyVars == <<issued, losses>>
vars == <<queueVars, sessionVars, applied, deadlockLock, token, joining, fate,
          struck, historyVars>>

Init ==
  /\ QueueInit
  /\ at = [x \in Executors |-> IF x = World THEN "idle" ELSE "pop"]
  /\ op = [x \in Executors |-> NoOp]
  /\ pos = [x \in Executors |-> 1]
  /\ try = [x \in Executors |-> 0]
  /\ inTrans = [x \in Executors |-> FALSE]
  /\ open = [x \in Executors |-> {}]
  /\ applied = [o \in Ops |-> [k \in 1..Size |-> 0]]
  /\ deadlockLock = NoThread
  /\ token = {}
  /\ joining = NoThread
  /\ fate = [o \in Ops |-> "new"]
  /\ issued = <<>>
  /\ struck = {}
  /\ losses = 0

Closing == token # {}
Goto(x, place) == at' = [at EXCEPT ![x] = place]
Becomes(o, what) == fate' = [fate EXCEPT ![o] = what]

(* START TRANSACTION touches no data and is one step with what precedes it. *)
Begin(x, transaction) ==
  /\ Goto(x, "statement")
  /\ inTrans' = [inTrans EXCEPT ![x] = transaction]
  /\ open' = [open EXCEPT ![x] = {}]
  /\ pos' = [pos EXCEPT ![x] = 1]

---------------------------------------------------------------------------
(* Issuing operations.                                                     *)

(* Execute, AsyncQuery and CommitTransaction: Enqueue. *)
Enqueue(o) ==
  /\ at[World] = "idle" /\ ~Closing
  /\ o \notin Direct /\ fate[o] = "new"
  /\ Len(issued) < MaxIssued
  /\ Push(o)
  /\ Becomes(o, "issued")
  /\ issued' = Append(issued, o)
  /\ UNCHANGED <<sessionVars, applied, deadlockLock, token, joining, struck, losses>>

(* DirectCommitTransaction, up to the first statement. *)
DirectCommit(o) ==
  /\ at[World] = "idle" /\ ~Closing
  /\ o \in Direct /\ fate[o] = "new"
  /\ Becomes(o, "issued")
  /\ op' = [op EXCEPT ![World] = o]
  /\ try' = [try EXCEPT ![World] = 0]
  /\ Begin(World, TRUE)
  /\ UNCHANGED <<queueVars, applied, deadlockLock, token, joining, struck,
                 historyVars>>

---------------------------------------------------------------------------
(* DatabaseWorker::WorkerThread.                                           *)

PopOperation(w) ==
  /\ at[w] = "pop"
  /\ \/ \E o \in Ops : PopValue(w, o) /\ op' = [op EXCEPT ![w] = o]
     \/ PopNothing(w) /\ UNCHANGED op
  /\ Goto(w, "check")
  /\ UNCHANGED <<pos, try, inTrans, open, applied, deadlockLock, token, joining,
                 fate, struck, historyVars>>

Block(w) ==
  /\ at[w] = "pop"
  /\ PopWait(w)
  /\ UNCHANGED <<sessionVars, applied, deadlockLock, token, joining, fate,
                 struck, historyVars>>

Wake(w) ==
  /\ SpuriousWakeup(w)
  /\ UNCHANGED <<sessionVars, applied, deadlockLock, token, joining, fate,
                 struck, historyVars>>

(* The worker returns, and whatever it has popped is not executed. *)
Leave(w) ==
  /\ at[w] = "check"
  /\ w \in token \/ op[w] = NoOp
  /\ Goto(w, "left")
  /\ fate' = [o \in Ops |-> IF o = op[w] THEN "lost" ELSE fate[o]]
  /\ UNCHANGED <<queueVars, op, pos, try, inTrans, open, applied, deadlockLock,
                 token, joining, struck, historyVars>>

Call(w) ==
  /\ at[w] = "check"
  /\ w \notin token /\ op[w] # NoOp
  /\ try' = [try EXCEPT ![w] = 0]
  /\ Begin(w, op[w] \notin Single)
  /\ UNCHANGED <<queueVars, op, applied, deadlockLock, token, joining, fate,
                 struck, historyVars>>

---------------------------------------------------------------------------
(* MySQLConnection::Execute and ExecuteTransaction, one statement a step.  *)

\* Slip: the lock is kept.
FinishLocked(x, what) ==
  /\ Becomes(op[x], what)
  /\ op' = [op EXCEPT ![x] = NoOp]
  /\ Goto(x, IF x = World THEN "idle" ELSE "pop")
  /\ UNCHANGED deadlockLock

(* The operation is over: the task is deleted, a retry gives its lock back. *)
Finish(x, what) ==
  /\ Becomes(op[x], what)
  /\ op' = [op EXCEPT ![x] = NoOp]
  /\ Goto(x, IF x = World THEN "idle" ELSE "pop")
  /\ deadlockLock' = IF deadlockLock = x THEN NoThread ELSE deadlockLock

(* The server executes the statement, in the session's transaction or, if  *)
(* there is none, for good (mysql_autocommit).                             *)
TakeEffect(x) ==
  IF inTrans[x]
  THEN open' = [open EXCEPT ![x] = @ \union {pos[x]}] /\ UNCHANGED applied
  ELSE applied' = [applied EXCEPT ![op[x]][pos[x]] = @ + 1] /\ UNCHANGED open

Statement(x) ==
  /\ at[x] = "statement"
  /\ pos[x] < Length(op[x])
  /\ TakeEffect(x)
  /\ pos' = [pos EXCEPT ![x] = @ + 1]
  /\ UNCHANGED <<queueVars, at, op, try, inTrans, deadlockLock, token, joining,
                 fate, struck, historyVars>>

LastStatement(x) ==
  /\ at[x] = "statement"
  /\ pos[x] = Length(op[x])
  /\ op[x] \notin Single
  /\ TakeEffect(x)
  /\ Goto(x, "commit")
  /\ UNCHANGED <<queueVars, op, pos, try, inTrans, deadlockLock, token, joining,
                 fate, struck, historyVars>>

SingleStatement(x) ==
  /\ at[x] = "statement"
  /\ op[x] \in Single
  /\ TakeEffect(x)
  /\ Finish(x, "done")
  /\ UNCHANGED <<queueVars, pos, try, inTrans, token, joining, struck, historyVars>>

\* Slip: COMMIT is not sent when a retry succeeds.
CommitFirstTry(x) ==
  /\ at[x] = "commit"
  /\ applied' = IF try[x] = 0
                THEN [applied EXCEPT ![op[x]] =
                       [k \in 1..Size |-> IF k \in open[x] THEN @[k] + 1 ELSE @[k]]]
                ELSE applied
  /\ open' = [open EXCEPT ![x] = {}]
  /\ inTrans' = [inTrans EXCEPT ![x] = FALSE]
  /\ Finish(x, "done")
  /\ UNCHANGED <<queueVars, pos, try, token, joining, struck, historyVars>>

Commit(x) ==
  /\ at[x] = "commit"
  /\ applied' = [applied EXCEPT ![op[x]] =
                   [k \in 1..Size |-> IF k \in open[x] THEN @[k] + 1 ELSE @[k]]]
  /\ open' = [open EXCEPT ![x] = {}]
  /\ inTrans' = [inTrans EXCEPT ![x] = FALSE]
  /\ Finish(x, "done")
  /\ UNCHANGED <<queueVars, pos, try, token, joining, struck, historyVars>>

RolledBack(x) ==
  /\ inTrans' = [inTrans EXCEPT ![x] = FALSE]
  /\ open' = [open EXCEPT ![x] = {}]
  /\ UNCHANGED pos

(* ExecuteTransaction returns an error, its transaction rolled back.       *)
(* TransactionTask::Execute and DirectCommitTransaction retry after a      *)
(* deadlock, LoopBreaker times; the first takes _deadlockLock before.      *)
TransactionFails(x, deadlock) ==
  /\ \/ /\ try[x] = 0 /\ deadlock /\ x # World
        /\ Goto(x, "lock") /\ RolledBack(x)
        /\ UNCHANGED <<op, try, deadlockLock, fate>>
     \/ /\ (try[x] = 0 /\ deadlock /\ x = World) \/ try[x] \in 1..(LoopBreaker - 1)
        /\ try' = [try EXCEPT ![x] = @ + 1]
        /\ Begin(x, TRUE)
        /\ UNCHANGED <<op, deadlockLock, fate>>
     \/ /\ try[x] = LoopBreaker \/ (try[x] = 0 /\ ~deadlock)
        /\ Finish(x, "lost") /\ RolledBack(x)
        /\ UNCHANGED try
  /\ UNCHANGED <<queueVars, applied, token, joining, struck, historyVars>>

(* The server picks x as a deadlock's victim: another session's            *)
(* transaction holds rows.                                                 *)
Deadlock(x) ==
  /\ at[x] = "statement"
  /\ inTrans[x] /\ open[x] # {}
  /\ \E y \in Executors \ {x} : open[y] # {}
  /\ TransactionFails(x, TRUE)

(* An error that _HandleMySQLErrno neither cures nor aborts for. *)
StatementFails(x) ==
  /\ at[x] = "statement"
  /\ op[x] \in Faulty
  /\ IF op[x] \in Single
     THEN /\ Finish(x, "lost")
          /\ UNCHANGED <<queueVars, pos, try, inTrans, open, applied, token,
                         joining, struck, historyVars>>
     ELSE TransactionFails(x, FALSE)

TakeDeadlockLock(w) ==
  /\ at[w] = "lock"
  /\ deadlockLock = NoThread
  /\ deadlockLock' = w
  /\ try' = [try EXCEPT ![w] = 1]
  /\ Begin(w, TRUE)
  /\ UNCHANGED <<queueVars, op, applied, token, joining, fate, struck,
                 historyVars>>

(* The connection is lost before or after the server has executed the      *)
(* statement or the COMMIT.  _HandleMySQLErrno opens it again, and Execute *)
(* sends the same statement to the new session.                            *)
LoseConnection(x) ==
  /\ at[x] \in {"statement", "commit"}
  /\ losses < MaxLosses /\ op[x] \in Faulty
  /\ losses' = losses + 1
  /\ inTrans' = [inTrans EXCEPT ![x] = FALSE]
  /\ open' = [open EXCEPT ![x] = {}]
  /\ struck' = struck \union {op[x]}
  /\ \/ UNCHANGED applied
     \/ /\ at[x] = "statement" /\ ~inTrans[x]
        /\ applied' = [applied EXCEPT ![op[x]][pos[x]] = @ + 1]
     \/ /\ at[x] = "commit"
        /\ applied' = [applied EXCEPT ![op[x]] =
             [k \in 1..Size |-> IF k \in open[x] THEN @[k] + 1 ELSE @[k]]]
  /\ UNCHANGED <<queueVars, at, op, pos, try, deadlockLock, token, joining,
                 fate, issued>>

---------------------------------------------------------------------------
(* Close: _connections[IDX_ASYNC].clear(), one ~DatabaseWorker after the   *)
(* other: the token, Cancel on the queue they all share, and the join.     *)

CloseWorker(w) ==
  /\ at[World] = "idle" /\ joining = NoThread
  /\ w \notin token
  /\ token' = token \union {w}
  /\ joining' = w
  /\ Cancel
  /\ fate' = [o \in Ops |-> IF Contains(queue, o) THEN "lost" ELSE fate[o]]
  /\ UNCHANGED <<sessionVars, applied, deadlockLock, struck, historyVars>>

Join ==
  /\ joining # NoThread
  /\ at[joining] = "left"
  /\ joining' = NoThread
  /\ UNCHANGED <<queueVars, sessionVars, applied, deadlockLock, token, fate,
                 struck, historyVars>>

---------------------------------------------------------------------------
Execute(x) ==
  \/ Statement(x) \/ LastStatement(x) \/ SingleStatement(x) \/ Commit(x)
  \/ Deadlock(x) \/ StatementFails(x)

WorkerStep(w) ==
  PopOperation(w) \/ Block(w) \/ Leave(w) \/ Call(w) \/ TakeDeadlockLock(w)

Next ==
  \/ \E o \in Ops : Enqueue(o) \/ DirectCommit(o)
  \/ \E x \in Executors : Execute(x) \/ LoseConnection(x)
  \/ \E w \in Workers : WorkerStep(w) \/ Wake(w) \/ CloseWorker(w)
  \/ Join

Spec == Init /\ [][Next]_vars

(* Threads run and the server answers; a mutex is not withheld for ever    *)
(* from a thread that waits for it.                                        *)
Fairness ==
  /\ \A x \in Executors : WF_vars(Execute(x))
  /\ \A w \in Workers :
       /\ WF_vars(PopOperation(w) \/ Block(w) \/ Leave(w) \/ Call(w))
       /\ SF_vars(TakeDeadlockLock(w))
  /\ WF_vars(Join)

FairSpec == Spec /\ Fairness

---------------------------------------------------------------------------
TypeOK ==
  /\ queue \in Seq(Ops) /\ issued \in Seq(Ops) /\ struck \subseteq Ops
  /\ waiting \subseteq Workers /\ shutdown \in BOOLEAN
  /\ at \in [Executors -> {"idle", "pop", "check", "left", "statement", "commit",
                           "lock"}]
  /\ op \in [Executors -> Ops \union {NoOp}]
  /\ pos \in [Executors -> 1..Size]
  /\ try \in [Executors -> 0..LoopBreaker]
  /\ inTrans \in [Executors -> BOOLEAN]
  /\ open \in [Executors -> SUBSET (1..Size)]
  /\ applied \in [Ops -> [1..Size -> Nat]]
  /\ deadlockLock \in Workers \union {NoThread}
  /\ token \subseteq Workers
  /\ joining \in Workers \union {NoThread}
  /\ fate \in [Ops -> {"new", "issued", "done", "lost"}]
  /\ losses \in 0..MaxLosses

Whole(o) == \A k \in 1..Length(o) : applied[o][k] = 1
Nothing(o) == \A k \in 1..Size : applied[o][k] = 0

(* An operation takes effect only when no earlier one is still queued: it  *)
(* may overtake those that other workers are at, and with one worker,      *)
(* which is the default, a later save of a character overtakes none.       *)
InIssueOrder ==
  \A k \in DOMAIN issued :
    ~Nothing(issued[k]) => \A j \in 1..(k - 1) : ~Contains(queue, issued[j])

(* Every operation is executed or given up, and closing the pool ends.     *)
OperationsSettle ==
  \A o \in Ops : fate[o] = "issued" ~> fate[o] \in {"done", "lost"}
CloseEnds == \A w \in Workers : joining = w ~> at[w] = "left"

(* The pool implements TransactionStore: whatever deadlocks, failures and  *)
(* retries there are, an operation whose connection was not lost takes     *)
(* effect as a whole, at most once, or not at all.                         *)
Outcome ==
  [o \in Ops |-> IF o \in struck THEN "struck"
                 ELSE IF Whole(o) THEN "applied"
                 ELSE IF Nothing(o) /\ fate[o] # "done" THEN fate[o]
                 ELSE "torn"]

Store == INSTANCE TransactionStore WITH fate <- Outcome
StoreSpec == Store!Spec
=============================================================================
