----------------------- MODULE ProducerConsumerQueue -----------------------
(***************************************************************************)
(* The locked queue of src/src/common/Threading/ProducerConsumerQueue.h,   *)
(* through which work reaches the map update threads and the database      *)
(* threads.  Every function holds _queueLock from its first to its last    *)
(* line and takes no other lock, so each is one step; only WaitAndPop lets *)
(* the lock go, in _condition.wait, and is one step per attempt.           *)
(***************************************************************************)
EXTENDS Naturals, Sequences

CONSTANT Workers            \* the threads that call WaitAndPop

VARIABLES
  queue,                    \* _queue
  shutdown,                 \* _shutdown
  waiting                   \* the threads blocked in _condition.wait

queueVars == <<queue, shutdown, waiting>>

QueueInit ==
  /\ queue = <<>>
  /\ shutdown = FALSE
  /\ waiting = {}

(* _condition.notify_one: one waiting thread, if there is one. *)
NotifyOne ==
  IF waiting = {} THEN UNCHANGED waiting
                  ELSE \E w \in waiting : waiting' = waiting \ {w}

Push(value) ==
  /\ queue' = Append(queue, value)
  /\ NotifyOne
  /\ UNCHANGED shutdown

\* Slip: a stack.
PopNewest(w, value) ==
  /\ w \notin waiting
  /\ ~shutdown
  /\ queue # <<>>
  /\ value = queue[Len(queue)]
  /\ queue' = SubSeq(queue, 1, Len(queue) - 1)
  /\ UNCHANGED <<shutdown, waiting>>

(* WaitAndPop returns with the oldest value. *)
PopValue(w, value) ==
  /\ w \notin waiting
  /\ ~shutdown
  /\ queue # <<>>
  /\ value = Head(queue)
  /\ queue' = Tail(queue)
  /\ UNCHANGED <<shutdown, waiting>>

(* WaitAndPop returns and leaves the caller's value as it was. *)
PopNothing(w) ==
  /\ w \notin waiting
  /\ shutdown
  /\ UNCHANGED queueVars

(* WaitAndPop blocks, or blocks again after a wake-up that found nothing. *)
PopWait(w) ==
  /\ w \notin waiting
  /\ ~shutdown
  /\ queue = <<>>
  /\ waiting' = waiting \union {w}
  /\ UNCHANGED <<queue, shutdown>>

(* std::condition_variable may wake a thread that nobody notified. *)
SpuriousWakeup(w) ==
  /\ w \in waiting
  /\ waiting' = waiting \ {w}
  /\ UNCHANGED <<queue, shutdown>>

\* Slip: nobody is woken.
CancelSilently ==
  /\ queue' = <<>>
  /\ shutdown' = TRUE
  /\ UNCHANGED waiting

(* Cancel throws away what is queued and wakes everybody. *)
Cancel ==
  /\ queue' = <<>>
  /\ shutdown' = TRUE
  /\ waiting' = {}

=============================================================================
