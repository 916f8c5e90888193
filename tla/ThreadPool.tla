----------------------------- MODULE ThreadPool -----------------------------
(***************************************************************************)
(* The worker pool of ThreadPool.cpp: a ring of tasks guarded by one mutex *)
(* and one condition variable.                                             *)
(*                                                                         *)
(* A critical section that unlocks what it locked is one step, enabled     *)
(* while the mutex is free.  `holder' is the thread that keeps the mutex   *)
(* after its step: a thread_pool_destory() that finds the pool already     *)
(* shut down returns without unlocking, and thread_pool_free() locks the   *)
(* mutex and then waits for it.  A worker woken from pthread_cond_wait has *)
(* to lock again and then tests the loop condition, exactly like a worker  *)
(* that has finished a task: both are at "lock".                           *)
(*                                                                         *)
(* pthread calls on the statically initialised mutex and condition         *)
(* variable do not fail; pthread_create may.  thread_pool_create() is      *)
(* called once, and the other operations after it has returned.            *)
(***************************************************************************)
EXTENDS Integers, FiniteSets

CONSTANTS
  num_threads, queue_size,   \* the arguments of thread_pool_create
  Tasks,                     \* the tasks added; bounds a run when finite
  Destroyers,                \* threads that call thread_pool_destory
  Options,                   \* the shutdown options they pass
  NULL                       \* an empty slot; no task; no holder

MAX_THREADS == 1024
MAX_QUEUE == 65535

immediate_shutdown == 1
graceful_shutdown == 2

ASSUME ArgumentAssumption == num_threads \in Int /\ queue_size \in Int
ASSUME NullAssumption == NULL \notin Tasks \union Destroyers
ASSUME OptionAssumption ==
  Options \subseteq {immediate_shutdown, graceful_shutdown}

VARIABLES
  created,       \* "no", "yes" (create returned 0), "failed" (returned -1)
  thread_count_, started_,
  queue_, head_, tail_, count_,
  shutdown_,
  holder,        \* the thread that keeps mutex_lock_, or NULL
  worker,        \* where each worker is
  task,          \* thread_pool_thread(): the task a worker runs
  destroyer,     \* where each caller of thread_pool_destory is
  accepted, done \* history: tasks added with result 0, tasks run

ring == <<queue_, head_, tail_, count_>>
vars == <<created, thread_count_, started_, ring, shutdown_, holder, worker,
          task, destroyer, accepted, done>>

\* Invalid arguments are replaced, both at once.
ValidArguments ==
  /\ num_threads > 0 /\ num_threads <= MAX_THREADS
  /\ queue_size > 0 /\ queue_size <= MAX_QUEUE
Threads == IF ValidArguments THEN num_threads ELSE 4
queue_size_ == IF ValidArguments THEN queue_size ELSE 1024

Workers == 1..Threads
Slots == 0..(queue_size_ - 1)

Alive == {w \in Workers : worker[w] \in {"lock", "wait", "run"}}

\* A successful destroy joins, then frees; "blocked" is the second lock of
\* thread_pool_free().  "refused" returned while workers were left, and
\* "left" returned with an error, keeping the mutex.
DestroyerStates == {"idle", "join", "free", "refused", "blocked", "left"}

Init ==
  /\ created = "no"
  /\ thread_count_ = 0
  /\ started_ = 0
  /\ queue_ = [s \in Slots |-> NULL]
  /\ head_ = 0
  /\ tail_ = 0
  /\ count_ = 0
  /\ shutdown_ = 0
  /\ holder = NULL
  /\ worker = [w \in Workers |-> "none"]
  /\ task = [w \in Workers |-> NULL]
  /\ destroyer = [d \in Destroyers |-> "idle"]
  /\ accepted = {}
  /\ done = {}

Unlocked == holder = NULL

-----------------------------------------------------------------------------
(* thread_pool_create                                                      *)

\* One turn of the creation loop: the worker may run before the counters
\* are incremented, but reads neither of them before a shutdown.
create_thread ==
  /\ created = "no"
  /\ thread_count_ < Threads
  /\ worker' = [worker EXCEPT ![thread_count_ + 1] = "lock"]
  /\ thread_count_' = thread_count_ + 1
  /\ started_' = started_ + 1
  /\ UNCHANGED <<created, ring, shutdown_, holder, task, destroyer, accepted,
                 done>>

\* The loop ends, or pthread_create fails; the threads that were created
\* stay, and the pool can be used.
thread_pool_create ==
  /\ created = "no"
  /\ created' = IF thread_count_ = Threads THEN "yes" ELSE "failed"
  /\ UNCHANGED <<thread_count_, started_, ring, shutdown_, holder, worker,
                 task, destroyer, accepted, done>>

-----------------------------------------------------------------------------
(* thread_pool_add                                                         *)

\* pthread_cond_signal: one waiting worker, if there is one, goes on.
Signal ==
  IF \E w \in Workers : worker[w] = "wait"
  THEN \E w \in Workers : /\ worker[w] = "wait"
                          /\ worker' = [worker EXCEPT ![w] = "lock"]
  ELSE UNCHANGED worker

\* A plausible slip: no worker is signalled.
thread_pool_add_NoSignal(t) ==
  /\ created # "no"
  /\ Unlocked
  /\ t \notin accepted
  /\ count_ # queue_size_
  /\ shutdown_ = 0
  /\ queue_' = [queue_ EXCEPT ![tail_] = t]
  /\ tail_' = (tail_ + 1) % queue_size_
  /\ count_' = count_ + 1
  /\ accepted' = accepted \union {t}
  /\ UNCHANGED <<created, thread_count_, started_, head_, shutdown_, holder,
                 worker, task, destroyer, done>>

\* A plausible slip: the full queue is not refused.
thread_pool_add_NoLimit(t) ==
  /\ created # "no"
  /\ Unlocked
  /\ t \notin accepted
  /\ shutdown_ = 0
  /\ queue_' = [queue_ EXCEPT ![tail_] = t]
  /\ tail_' = (tail_ + 1) % queue_size_
  /\ count_' = count_ + 1
  /\ accepted' = accepted \union {t}
  /\ Signal
  /\ UNCHANGED <<created, thread_count_, started_, head_, shutdown_, holder,
                 task, destroyer, done>>

\* The task is put into the ring and a worker is signalled.  With the queue
\* full or the pool shut down thread_pool_add changes nothing.
thread_pool_add(t) ==
  /\ created # "no"
  /\ Unlocked
  /\ t \notin accepted
  /\ count_ # queue_size_
  /\ shutdown_ = 0
  /\ queue_' = [queue_ EXCEPT ![tail_] = t]
  /\ tail_' = (tail_ + 1) % queue_size_
  /\ count_' = count_ + 1
  /\ accepted' = accepted \union {t}
  /\ Signal
  /\ UNCHANGED <<created, thread_count_, started_, head_, shutdown_, holder,
                 task, destroyer, done>>

-----------------------------------------------------------------------------
(* thread_pool_thread                                                      *)

\* The worker has the mutex and nothing to do.
cond_wait(w) ==
  /\ worker[w] = "lock"
  /\ Unlocked
  /\ count_ = 0 /\ shutdown_ = 0
  /\ worker' = [worker EXCEPT ![w] = "wait"]
  /\ UNCHANGED <<created, thread_count_, started_, ring, shutdown_, holder,
                 task, destroyer, accepted, done>>

\* pthread_cond_wait may return without a signal.
spurious_wakeup(w) ==
  /\ worker[w] = "wait"
  /\ worker' = [worker EXCEPT ![w] = "lock"]
  /\ UNCHANGED <<created, thread_count_, started_, ring, shutdown_, holder,
                 task, destroyer, accepted, done>>

\* A plausible slip: a graceful shutdown does not wait for the queue.
MayExit_Undrained == shutdown_ # 0

MayExit ==
  \/ shutdown_ = immediate_shutdown
  \/ shutdown_ = graceful_shutdown /\ count_ = 0

\* A plausible slip: the counter of running workers is not lowered.
thread_exit_NotCounted(w) ==
  /\ worker[w] = "lock"
  /\ Unlocked
  /\ MayExit
  /\ worker' = [worker EXCEPT ![w] = "exited"]
  /\ UNCHANGED <<created, thread_count_, started_, ring, shutdown_, holder,
                 task, destroyer, accepted, done>>

\* --started_ happens before the mutex is unlocked.
thread_exit(w) ==
  /\ worker[w] = "lock"
  /\ Unlocked
  /\ MayExit
  /\ worker' = [worker EXCEPT ![w] = "exited"]
  /\ started_' = started_ - 1
  /\ UNCHANGED <<created, thread_count_, ring, shutdown_, holder, task,
                 destroyer, accepted, done>>

\* The worker takes the task at the head and unlocks.
take_task(w) ==
  /\ worker[w] = "lock"
  /\ Unlocked
  /\ ~(count_ = 0 /\ shutdown_ = 0)
  /\ ~MayExit
  /\ task' = [task EXCEPT ![w] = queue_[head_]]
  /\ queue_' = [queue_ EXCEPT ![head_] = NULL]
  /\ head_' = (head_ + 1) % queue_size_
  /\ count_' = count_ - 1
  /\ worker' = [worker EXCEPT ![w] = "run"]
  /\ UNCHANGED <<created, thread_count_, started_, tail_, shutdown_, holder,
                 destroyer, accepted, done>>

\* (task.func)(task.args) returns.
run_task(w) ==
  /\ worker[w] = "run"
  /\ done' = done \union {task[w]}
  /\ task' = [task EXCEPT ![w] = NULL]
  /\ worker' = [worker EXCEPT ![w] = "lock"]
  /\ UNCHANGED <<created, thread_count_, started_, ring, shutdown_, holder,
                 destroyer, accepted>>

-----------------------------------------------------------------------------
(* thread_pool_destory and thread_pool_free                                *)

\* A plausible slip: the shutdown signals one worker only.
Broadcast_One == Signal

\* pthread_cond_broadcast: every waiting worker goes on.
Broadcast ==
  worker' = [w \in Workers |->
               IF worker[w] = "wait" THEN "lock" ELSE worker[w]]

\* shutdown_ = shutdown_option; broadcast; unlock.
thread_pool_destory(d, option) ==
  /\ created # "no"
  /\ destroyer[d] = "idle"
  /\ Unlocked
  /\ shutdown_ = 0
  /\ shutdown_' = option
  /\ Broadcast
  /\ destroyer' = [destroyer EXCEPT ![d] = "join"]
  /\ UNCHANGED <<created, thread_count_, started_, ring, holder, task,
                 accepted, done>>

\* The pool is shut down already: THREADPOOL_SHUTDOWN is returned and the
\* mutex stays locked.
destory_again(d) ==
  /\ destroyer[d] = "idle"
  /\ Unlocked
  /\ shutdown_ # 0
  /\ holder' = d
  /\ destroyer' = [destroyer EXCEPT ![d] = "left"]
  /\ UNCHANGED <<created, thread_count_, started_, ring, shutdown_, worker,
                 task, accepted, done>>

\* pthread_join of threads_[0] .. threads_[thread_count_ - 1].
join(d) ==
  /\ destroyer[d] = "join"
  /\ \A w \in 1..thread_count_ : worker[w] = "exited"
  /\ destroyer' = [destroyer EXCEPT ![d] = "free"]
  /\ UNCHANGED <<created, thread_count_, started_, ring, shutdown_, holder,
                 worker, task, accepted, done>>

\* Refuses while a worker is left; otherwise locks the mutex and then waits
\* for it for ever.
thread_pool_free(d) ==
  /\ destroyer[d] = "free"
  /\ started_ > 0 \/ Unlocked
  /\ holder' = IF started_ > 0 THEN holder ELSE d
  /\ destroyer' = [destroyer EXCEPT ![d] = IF started_ > 0 THEN "refused"
                                                          ELSE "blocked"]
  /\ UNCHANGED <<created, thread_count_, started_, ring, shutdown_, worker,
                 task, accepted, done>>

-----------------------------------------------------------------------------
WorkerStep(w) ==
  cond_wait(w) \/ thread_exit(w) \/ take_task(w) \/ run_task(w)

DestroyerStep(d) ==
  \/ \E option \in Options : thread_pool_destory(d, option)
  \/ destory_again(d) \/ join(d) \/ thread_pool_free(d)

Next ==
  \/ create_thread \/ thread_pool_create
  \/ \E t \in Tasks : thread_pool_add(t)
  \/ \E w \in Workers : WorkerStep(w) \/ spurious_wakeup(w)
  \/ \E d \in Destroyers : DestroyerStep(d)

SafeSpec == Init /\ [][Next]_vars

\* A running thread keeps running: a worker that wants a free mutex gets it
\* and a task returns; a thread that waits in pthread_join goes on when it
\* can.  Nobody has to add a task or to destroy the pool.
Fairness ==
  /\ \A w \in Workers : WF_vars(WorkerStep(w))
  /\ \A d \in Destroyers : WF_vars(join(d)) /\ WF_vars(thread_pool_free(d))
Spec == SafeSpec /\ Fairness

-----------------------------------------------------------------------------
(* Properties.                                                             *)

TypeOK ==
  /\ created \in {"no", "yes", "failed"}
  /\ thread_count_ \in 0..Threads
  /\ started_ \in Int
  /\ queue_ \in [Slots -> Tasks \union {NULL}]
  /\ head_ \in Slots
  /\ tail_ \in Slots
  /\ count_ \in 0..queue_size_
  /\ shutdown_ \in {0, immediate_shutdown, graceful_shutdown}
  /\ holder \in Destroyers \union {NULL}
  /\ worker \in [Workers -> {"none", "lock", "wait", "run", "exited"}]
  /\ task \in [Workers -> Tasks \union {NULL}]
  /\ destroyer \in [Destroyers -> DestroyerStates]
  /\ accepted \in SUBSET Tasks
  /\ done \in SUBSET Tasks

\* Slot s is one of the count_ slots from head_ on.
Occupied(s) ==
  \/ head_ <= s /\ s < head_ + count_
  \/ s + queue_size_ < head_ + count_

\* The ring is consistent: tail_ is count_ slots behind head_, and exactly
\* the slots between them hold tasks, so no worker takes an empty slot and
\* no task is overwritten (thread_pool_add against take_task, around the
\* end of queue_ and with the queue full).
RingInv ==
  /\ \/ tail_ = head_ + count_
     \/ tail_ + queue_size_ = head_ + count_
  /\ \A s \in Slots : queue_[s] # NULL <=> Occupied(s)

\* The workers never all sleep on a queued task: pthread_cond_signal in
\* thread_pool_add is not lost on a worker that is between two tasks, and
\* the last worker to leave a graceful shutdown leaves no task behind.
NoIdlePool ==
  count_ > 0 /\ thread_count_ > 0 /\ shutdown_ # immediate_shutdown =>
    \E w \in Workers : worker[w] \in {"lock", "run"}

\* When the joins of a graceful thread_pool_destory are done, every task
\* that was ever accepted has run.
GracefulDrains ==
  \A d \in Destroyers :
    destroyer[d] \in {"free", "blocked"} /\ shutdown_ = graceful_shutdown
      /\ thread_count_ > 0 => accepted \subseteq done

\* thread_pool_free() is never refused once the joins are done: started_
\* counts the workers that have not exited (create_thread, thread_exit).
FreeNotRefused ==
  /\ started_ = Cardinality(Alive)
  /\ \A d \in Destroyers : destroyer[d] # "refused"

\* thread_pool_destory was called on a pool that was shut down.
DestroyedTwice == \E d \in Destroyers : destroyer[d] = "left"

\* Every accepted task runs, unless the pool is shut down immediately or a
\* second thread_pool_destory keeps the mutex (thread_pool_add against the
\* workers, creation and shutdown).
AcceptedTaskRunsOneDestroy ==
  \A t \in Tasks :
    t \in accepted /\ thread_count_ > 0
      ~> t \in done \/ shutdown_ = immediate_shutdown \/ DestroyedTwice

\* A thread_pool_destory that has started the shutdown gets past its joins:
\* every worker exits, wherever the shutdown found it, unless a second
\* thread_pool_destory keeps the mutex.
DestroyJoins ==
  \A d \in Destroyers :
    destroyer[d] = "join"
      ~> destroyer[d] \in {"free", "blocked"} \/ DestroyedTwice

\* The ring and the workers implement the bounded first-in first-out queue
\* that thread_pool_add offers.
TQ == INSTANCE TaskQueue
        WITH Capacity <- queue_size_,
             pending <- [i \in 1..count_ |->
                           queue_[(head_ + i - 1) % queue_size_]],
             running <- {task[w] : w \in Workers} \ {NULL},
             open <- (shutdown_ = 0)

ImplementsTaskQueue == TQ!Spec

-----------------------------------------------------------------------------
(* The inductive invariant behind NoIdlePool and GracefulDrains.           *)

\* Workers 1..thread_count_ were created, the others were not.
CreatedInv ==
  \A w \in Workers : worker[w] = "none" <=> w > thread_count_

\* Nobody waits on a pool that is shut down, and nobody leaves one that is
\* not.
ShutdownInv ==
  /\ shutdown_ # 0 => created # "no"
  /\ shutdown_ # 0 => \A w \in Workers : worker[w] # "wait"
  /\ shutdown_ = 0 => \A w \in Workers : worker[w] # "exited"
  /\ \A d \in Destroyers : destroyer[d] # "idle" => shutdown_ # 0

\* A worker that has left a graceful shutdown has seen the queue empty.
ExitInv ==
  shutdown_ = graceful_shutdown /\ (\E w \in Workers : worker[w] = "exited")
    => count_ = 0

\* A worker has a task exactly while it runs one.
TaskInv == \A w \in Workers : worker[w] = "run" <=> task[w] # NULL

\* An accepted task is in the ring, with a worker, or done.
AccountInv ==
  \A t \in accepted :
    \/ t \in done
    \/ \E w \in Workers : task[w] = t
    \/ \E s \in Slots : queue_[s] = t

\* Past the joins every worker that was created has exited.
JoinedInv ==
  \A d \in Destroyers : destroyer[d] \in {"free", "blocked"} =>
    \A w \in 1..thread_count_ : worker[w] = "exited"

PoolInv ==
  /\ TypeOK
  /\ RingInv
  /\ NoIdlePool
  /\ CreatedInv
  /\ ShutdownInv
  /\ ExitInv
  /\ TaskInv
  /\ AccountInv
  /\ JoinedInv

\* A task is at one place only, in one slot of the ring, with one worker or
\* done, so that it is taken once and runs once.
OnceInv ==
  /\ done \subseteq accepted
  /\ \A s \in Slots : queue_[s] # NULL => queue_[s] \in accepted \ done
  /\ \A w \in Workers : task[w] # NULL => task[w] \in accepted \ done
  /\ \A r, s \in Slots : queue_[r] = queue_[s] /\ queue_[r] # NULL => r = s
  /\ \A v, w \in Workers : task[v] = task[w] /\ task[v] # NULL => v = w
  /\ \A s \in Slots, w \in Workers : queue_[s] = task[w] => task[w] = NULL
=============================================================================
