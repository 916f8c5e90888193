-------------------------- MODULE ThreadPoolProofs --------------------------
(***************************************************************************)
(* Proof that PoolInv is an invariant of ThreadPool, for any arguments of  *)
(* thread_pool_create, any tasks and any threads that destroy the pool;    *)
(* that a graceful shutdown drains the queue; that started_ counts the     *)
(* workers that are left; and that the pool implements TaskQueue.          *)
(***************************************************************************)
EXTENDS ThreadPool, FiniteSetTheorems, SequenceTheorems, TLAPS

\* The next slot of a ring of Q slots, as thread_pool_add and
\* thread_pool_thread compute it.
LEMMA NextSlot ==
  ASSUME NEW Q \in Nat \ {0}, NEW x \in 0..(Q - 1)
  PROVE  (x + 1) % Q = IF x + 1 = Q THEN 0 ELSE x + 1
  OBVIOUS

\* Whatever the arguments, the pool has a thread and a slot
\* (the replacement of invalid arguments in thread_pool_create).
LEMMA Sizes == Threads \in Nat \ {0} /\ queue_size_ \in Nat \ {0}
  BY ArgumentAssumption
  DEF Threads, queue_size_, ValidArguments, MAX_THREADS, MAX_QUEUE

\* The constructor-like part of thread_pool_create establishes PoolInv.
LEMMA InitPoolInv == Init => PoolInv
<1> SUFFICES ASSUME Init PROVE PoolInv
  OBVIOUS
<1> USE Sizes DEF Init
<1>1. TypeOK
  BY DEF TypeOK, Slots, Workers, DestroyerStates
<1>2. RingInv
  BY DEF RingInv, Occupied, Slots
<1>3. NoIdlePool /\ CreatedInv /\ ShutdownInv /\ ExitInv
  BY DEF NoIdlePool, CreatedInv, ShutdownInv, ExitInv, Workers
<1>4. TaskInv /\ AccountInv /\ JoinedInv
  BY DEF TaskInv, AccountInv, JoinedInv
<1> QED
  BY <1>1, <1>2, <1>3, <1>4 DEF PoolInv

-----------------------------------------------------------------------------
(* Steps that leave the ring alone.                                        *)

\* thread_pool_create keeps PoolInv.
LEMMA CreatePoolInv ==
  PoolInv /\ (create_thread \/ thread_pool_create) => PoolInv'
<1> SUFFICES ASSUME PoolInv, create_thread \/ thread_pool_create
             PROVE  PoolInv'
  OBVIOUS
<1> USE Sizes DEF PoolInv, ring
<1>1. CASE create_thread
  <2>a. shutdown_ = 0
    BY <1>1 DEF create_thread, ShutdownInv, TypeOK
  <2>b. \A d \in Destroyers : destroyer[d] = "idle"
    BY <2>a DEF ShutdownInv
  <2>1. TypeOK'
    BY <1>1 DEF create_thread, TypeOK, Workers, Slots
  <2>2. RingInv'
    BY <1>1 DEF create_thread, RingInv, Occupied, Slots
  <2>3. (NoIdlePool /\ CreatedInv /\ ShutdownInv /\ ExitInv)'
    BY <1>1, <2>a, <2>b
    DEF create_thread, NoIdlePool, CreatedInv, ShutdownInv, ExitInv, TypeOK,
        Workers, immediate_shutdown, graceful_shutdown
  <2>4. (TaskInv /\ AccountInv)'
    BY <1>1 DEF create_thread, TaskInv, AccountInv, CreatedInv, TypeOK, Workers
  <2>5. JoinedInv'
    BY <1>1, <2>b DEF create_thread, JoinedInv
  <2> QED
    BY <2>1, <2>2, <2>3, <2>4, <2>5
<1>2. CASE thread_pool_create
  <2> USE <1>2 DEF thread_pool_create
  <2>1. TypeOK'
    BY DEF TypeOK
  <2>2. RingInv'
    BY DEF RingInv, Occupied
  <2>3. (NoIdlePool /\ CreatedInv /\ ShutdownInv /\ ExitInv)'
    BY DEF NoIdlePool, CreatedInv, ShutdownInv, ExitInv
  <2>4. (TaskInv /\ AccountInv /\ JoinedInv)'
    BY DEF TaskInv, AccountInv, JoinedInv
  <2> QED
    BY <2>1, <2>2, <2>3, <2>4
<1> QED
  BY <1>1, <1>2

\* A worker that waits, is woken, finishes its task or exits keeps PoolInv.
LEMMA WorkerPoolInv ==
  ASSUME NEW w \in Workers, PoolInv,
         cond_wait(w) \/ spurious_wakeup(w) \/ thread_exit(w) \/ run_task(w)
  PROVE  PoolInv'
<1> USE Sizes, NullAssumption DEF PoolInv, ring
<1>r. RingInv'
  BY DEF cond_wait, spurious_wakeup, thread_exit, run_task, RingInv, Occupied
<1>1. CASE cond_wait(w)
  <2> USE <1>1 DEF cond_wait
  <2>1. TypeOK'
    BY DEF TypeOK
  <2>2. (NoIdlePool /\ CreatedInv /\ ShutdownInv /\ ExitInv)'
    BY DEF NoIdlePool, CreatedInv, ShutdownInv, ExitInv, TypeOK
  <2>3. (TaskInv /\ AccountInv)'
    BY DEF TaskInv, AccountInv, TypeOK
  <2>4. JoinedInv'
    BY DEF JoinedInv, ShutdownInv
  <2> QED
    BY <1>r, <2>1, <2>2, <2>3, <2>4
<1>2. CASE spurious_wakeup(w)
  <2> USE <1>2 DEF spurious_wakeup
  <2>1. TypeOK'
    BY DEF TypeOK
  <2>2. (NoIdlePool /\ CreatedInv /\ ShutdownInv /\ ExitInv)'
    BY DEF NoIdlePool, CreatedInv, ShutdownInv, ExitInv, TypeOK
  <2>3. (TaskInv /\ AccountInv)'
    BY DEF TaskInv, AccountInv, TypeOK
  <2>4. JoinedInv'
    BY DEF JoinedInv, ShutdownInv
  <2> QED
    BY <1>r, <2>1, <2>2, <2>3, <2>4
<1>3. CASE thread_exit(w)
  <2> USE <1>3 DEF thread_exit
  <2>1. TypeOK'
    BY DEF TypeOK
  <2>2. (NoIdlePool /\ CreatedInv /\ ShutdownInv /\ ExitInv)'
    BY DEF NoIdlePool, CreatedInv, ShutdownInv, ExitInv, TypeOK, MayExit,
           immediate_shutdown, graceful_shutdown
  <2>3. (TaskInv /\ AccountInv)'
    BY DEF TaskInv, AccountInv, TypeOK
  <2>4. JoinedInv'
    BY DEF JoinedInv, TypeOK, Workers
  <2> QED
    BY <1>r, <2>1, <2>2, <2>3, <2>4
<1>4. CASE run_task(w)
  <2> USE <1>4 DEF run_task
  <2>1. TypeOK'
    BY DEF TypeOK, TaskInv
  <2>2. (NoIdlePool /\ CreatedInv /\ ShutdownInv /\ ExitInv)'
    BY DEF NoIdlePool, CreatedInv, ShutdownInv, ExitInv, TypeOK
  <2>3. TaskInv'
    BY DEF TaskInv, TypeOK
  <2>4. AccountInv'
    BY DEF AccountInv, TypeOK
  <2>5. JoinedInv'
    BY DEF JoinedInv, TypeOK, Workers
  <2> QED
    BY <1>r, <2>1, <2>2, <2>3, <2>4, <2>5
<1> QED
  BY <1>1, <1>2, <1>3, <1>4

\* thread_pool_destory and thread_pool_free keep PoolInv.
LEMMA DestroyerPoolInv ==
  ASSUME NEW d \in Destroyers, PoolInv, DestroyerStep(d)
  PROVE  PoolInv'
<1> USE Sizes, NullAssumption DEF PoolInv, ring
<1>r. RingInv'
  BY DEF DestroyerStep, thread_pool_destory, destory_again, join,
         thread_pool_free, RingInv, Occupied
<1>1. ASSUME NEW option \in Options, thread_pool_destory(d, option)
      PROVE  PoolInv'
  <2> USE <1>1 DEF thread_pool_destory, Broadcast
  <2>a. option \in {immediate_shutdown, graceful_shutdown}
    BY OptionAssumption
  <2>1. TypeOK'
    BY <2>a DEF TypeOK, DestroyerStates
  <2>2. (NoIdlePool /\ CreatedInv)'
    BY <2>a DEF NoIdlePool, CreatedInv, TypeOK, immediate_shutdown
  <2>3. (ShutdownInv /\ ExitInv)'
    BY <2>a DEF ShutdownInv, ExitInv, TypeOK, immediate_shutdown,
                graceful_shutdown
  <2>4. (TaskInv /\ AccountInv)'
    BY DEF TaskInv, AccountInv, TypeOK
  <2>5. JoinedInv'
    BY DEF JoinedInv, ShutdownInv, TypeOK
  <2> QED
    BY <1>r, <2>1, <2>2, <2>3, <2>4, <2>5
<1>2. CASE destory_again(d) \/ join(d) \/ thread_pool_free(d)
  <2> USE <1>2 DEF destory_again, join, thread_pool_free
  <2>1. TypeOK'
    BY DEF TypeOK, DestroyerStates
  <2>2. (NoIdlePool /\ CreatedInv /\ ShutdownInv /\ ExitInv)'
    BY DEF NoIdlePool, CreatedInv, ShutdownInv, ExitInv, TypeOK
  <2>3. (TaskInv /\ AccountInv)'
    BY DEF TaskInv, AccountInv
  <2>4. JoinedInv'
    BY DEF JoinedInv, TypeOK
  <2> QED
    BY <1>r, <2>1, <2>2, <2>3, <2>4
<1> QED
  BY <1>1, <1>2 DEF DestroyerStep

-----------------------------------------------------------------------------
(* Steps that change the ring.                                             *)

\* thread_pool_add fills the slot at tail_ and no other.
LEMMA AddRing ==
  ASSUME NEW t \in Tasks, PoolInv, thread_pool_add(t)
  PROVE  RingInv' /\ tail_' \in Slots
<1> USE Sizes, NullAssumption DEF thread_pool_add, PoolInv, TypeOK, Slots
<1>1. tail_' = IF tail_ + 1 = queue_size_ THEN 0 ELSE tail_ + 1
  BY NextSlot
<1>2. (tail_' = head_' + count_') \/ (tail_' + queue_size_ = head_' + count_')
  BY <1>1 DEF RingInv
<1>3. ASSUME NEW s \in Slots
      PROVE  queue_'[s] # NULL <=> Occupied(s)'
  <2>1. CASE s = tail_
    BY <2>1 DEF RingInv, Occupied
  <2>2. CASE s # tail_
    BY <2>2 DEF RingInv, Occupied
  <2> QED
    BY <2>1, <2>2
<1> QED
  BY <1>1, <1>2, <1>3 DEF RingInv

\* thread_pool_add keeps PoolInv: the signal goes to a waiting worker when
\* there is one, and when there is none every worker is at work.
LEMMA AddPoolInv ==
  ASSUME NEW t \in Tasks, PoolInv, thread_pool_add(t)
  PROVE  PoolInv'
<1> USE Sizes, NullAssumption DEF thread_pool_add, PoolInv
<1>r. RingInv' /\ tail_' \in Slots
  BY AddRing
<1>w. /\ worker' \in [Workers -> {"none", "lock", "wait", "run", "exited"}]
      /\ \A w \in Workers : \/ worker'[w] = worker[w]
                            \/ worker[w] = "wait" /\ worker'[w] = "lock"
      /\ (\E w \in Workers : worker[w] = "wait")
           => \E w \in Workers : worker'[w] = "lock"
  BY DEF Signal, TypeOK
<1>1. TypeOK'
  BY <1>r, <1>w DEF TypeOK, Slots
<1>2. NoIdlePool'
  <2>1. CASE \E w \in Workers : worker[w] = "wait"
    BY <1>w, <2>1 DEF NoIdlePool
  <2>2. CASE \A w \in Workers : worker[w] # "wait"
    <3> SUFFICES ASSUME thread_count_ > 0
                 PROVE  \E w \in Workers : worker'[w] \in {"lock", "run"}
      BY DEF NoIdlePool
    <3>1. 1 \in Workers /\ 1 <= thread_count_
      BY DEF Workers, TypeOK
    <3>2. worker[1] \in {"lock", "run"}
      BY <2>2, <3>1 DEF CreatedInv, ShutdownInv, TypeOK, Workers
    <3>3. worker'[1] \in {"lock", "run"}
      BY <1>w, <3>1, <3>2
    <3> QED
      BY <3>1, <3>3
  <2> QED
    BY <2>1, <2>2
<1>3. (CreatedInv /\ ShutdownInv /\ ExitInv)'
  BY <1>w DEF CreatedInv, ShutdownInv, ExitInv, graceful_shutdown
<1>4. TaskInv'
  BY <1>w DEF TaskInv
<1>5. AccountInv'
  <2>1. queue_[tail_] = NULL
    BY DEF RingInv, Occupied, TypeOK, Slots
  <2>2. queue_'[tail_] = t /\ tail_ \in Slots
    BY DEF TypeOK
  <2>3. \A s \in Slots : queue_[s] # NULL => queue_'[s] = queue_[s]
    BY <2>1 DEF TypeOK
  <2> QED
    BY <2>2, <2>3 DEF AccountInv, TypeOK
<1>6. JoinedInv'
  BY <1>w DEF JoinedInv, TypeOK, Workers
<1> QED
  BY <1>r, <1>1, <1>2, <1>3, <1>4, <1>5, <1>6

\* A worker empties the slot at head_ and no other, and takes a real task.
LEMMA TakeRing ==
  ASSUME NEW w \in Workers, PoolInv, take_task(w)
  PROVE  /\ RingInv' /\ head_' \in Slots
         /\ count_ > 0 /\ queue_[head_] \in Tasks
<1> USE Sizes, NullAssumption DEF take_task, PoolInv, TypeOK, Slots
<1>1. head_' = IF head_ + 1 = queue_size_ THEN 0 ELSE head_ + 1
  BY NextSlot
<1>2. count_ > 0
  BY DEF MayExit, immediate_shutdown, graceful_shutdown
<1>3. queue_[head_] \in Tasks
  BY <1>2 DEF RingInv, Occupied
<1>4. (tail_' = head_' + count_') \/ (tail_' + queue_size_ = head_' + count_')
  <2>1. count_' = count_ - 1 /\ tail_' = tail_
    OBVIOUS
  <2>2. /\ head_ \in 0..(queue_size_ - 1) /\ tail_ \in 0..(queue_size_ - 1)
        /\ count_ \in Nat
    OBVIOUS
  <2>3. (tail_ = head_ + count_) \/ (tail_ + queue_size_ = head_ + count_)
    BY DEF RingInv
  <2> HIDE DEF take_task, PoolInv, TypeOK, Slots
  <2> QED
    BY <1>1, <1>2, <2>1, <2>2, <2>3
<1>5. ASSUME NEW s \in Slots
      PROVE  queue_'[s] # NULL <=> Occupied(s)'
  <2>1. CASE s = head_
    BY <1>1, <1>2, <2>1 DEF RingInv, Occupied
  <2>2. CASE s # head_
    BY <1>1, <1>2, <2>2 DEF RingInv, Occupied
  <2> QED
    BY <2>1, <2>2
<1> QED
  BY <1>1, <1>2, <1>3, <1>4, <1>5 DEF RingInv

\* Taking a task keeps PoolInv: the taker itself is at work, and the task
\* moves from the ring to the worker.
LEMMA TakePoolInv ==
  ASSUME NEW w \in Workers, PoolInv, take_task(w)
  PROVE  PoolInv'
<1> USE Sizes, NullAssumption DEF take_task, PoolInv
<1>r. /\ RingInv' /\ head_' \in Slots
      /\ count_ > 0 /\ queue_[head_] \in Tasks
  BY TakeRing
<1>1. TypeOK'
  BY <1>r DEF TypeOK, Slots
<1>2. (NoIdlePool /\ CreatedInv /\ ShutdownInv)'
  BY DEF NoIdlePool, CreatedInv, ShutdownInv, TypeOK
<1>3. ExitInv'
  BY <1>r DEF ExitInv, TypeOK
<1>4. TaskInv'
  BY <1>r DEF TaskInv, TypeOK
<1>5. AccountInv'
  <2>1. task'[w] = queue_[head_]
    BY DEF TypeOK
  <2>2. \A s \in Slots : s # head_ => queue_'[s] = queue_[s]
    BY DEF TypeOK
  <2>3. task[w] = NULL
    BY DEF TaskInv
  <2>4. \A v \in Workers : task[v] # NULL => task'[v] = task[v]
    BY <2>3 DEF TypeOK
  <2> QED
    BY <2>1, <2>2, <2>4 DEF AccountInv, TypeOK
<1>6. JoinedInv'
  BY DEF JoinedInv, TypeOK, Workers
<1> QED
  BY <1>r, <1>1, <1>2, <1>3, <1>4, <1>5, <1>6

-----------------------------------------------------------------------------
\* Every step of the pool, of its workers and of its callers keeps PoolInv.
LEMMA NextPoolInv == PoolInv /\ [Next]_vars => PoolInv'
<1> SUFFICES ASSUME PoolInv, [Next]_vars PROVE PoolInv'
  OBVIOUS
<1>1. CASE create_thread \/ thread_pool_create
  BY <1>1, CreatePoolInv
<1>2. ASSUME NEW t \in Tasks, thread_pool_add(t) PROVE PoolInv'
  BY <1>2, AddPoolInv
<1>3. ASSUME NEW w \in Workers, WorkerStep(w) \/ spurious_wakeup(w)
      PROVE  PoolInv'
  BY <1>3, WorkerPoolInv, TakePoolInv DEF WorkerStep
<1>4. ASSUME NEW d \in Destroyers, DestroyerStep(d) PROVE PoolInv'
  BY <1>4, DestroyerPoolInv
<1>5. CASE UNCHANGED vars
  <2> USE <1>5 DEF vars, ring, PoolInv
  <2>1. (TypeOK /\ RingInv)'
    BY DEF TypeOK, RingInv, Occupied
  <2>2. (NoIdlePool /\ CreatedInv /\ ShutdownInv /\ ExitInv)'
    BY DEF NoIdlePool, CreatedInv, ShutdownInv, ExitInv
  <2>3. (TaskInv /\ AccountInv /\ JoinedInv)'
    BY DEF TaskInv, AccountInv, JoinedInv
  <2> QED
    BY <2>1, <2>2, <2>3
<1> QED
  BY <1>1, <1>2, <1>3, <1>4, <1>5 DEF Next

\* The ring of ThreadPool.cpp is consistent and its workers never all sleep
\* on a queued task, whatever the number of threads, slots and tasks.
THEOREM PoolInvariant == SafeSpec => []PoolInv
<1>1. Init => PoolInv
  BY InitPoolInv
<1>2. PoolInv /\ [Next]_vars => PoolInv'
  BY NextPoolInv
<1> QED
  BY <1>1, <1>2, PTL DEF SafeSpec

\* When the joins of a graceful thread_pool_destory are done every accepted
\* task has run.
THEOREM GracefulShutdownDrains == SafeSpec => []GracefulDrains
<1>1. PoolInv => GracefulDrains
  <2> SUFFICES ASSUME PoolInv, NEW d \in Destroyers,
                      destroyer[d] \in {"free", "blocked"},
                      shutdown_ = graceful_shutdown, thread_count_ > 0,
                      NEW t \in accepted
               PROVE  t \in done
    BY DEF GracefulDrains
  <2> USE Sizes, NullAssumption DEF PoolInv
  <2>1. \A w \in 1..thread_count_ : worker[w] = "exited"
    BY DEF JoinedInv
  <2>2. 1 \in 1..thread_count_ /\ 1 \in Workers
    BY DEF TypeOK, Workers
  <2>3. count_ = 0
    BY <2>1, <2>2 DEF ExitInv
  <2>4. \A s \in Slots : queue_[s] = NULL
    BY <2>3 DEF RingInv, Occupied, TypeOK, Slots
  <2>5. \A w \in Workers : task[w] = NULL
    BY <2>1 DEF TaskInv, CreatedInv, TypeOK, Workers
  <2> QED
    BY <2>4, <2>5 DEF AccountInv, TypeOK
<1> QED
  BY <1>1, PoolInvariant, PTL

-----------------------------------------------------------------------------
(* The workers that are left.                                              *)

LEMMA AliveFinite == IsFiniteSet(Alive) /\ Cardinality(Alive) \in Nat
<1>1. IsFiniteSet(Workers)
  BY Sizes, FS_Interval DEF Workers
<1>2. Alive \in SUBSET Workers
  BY DEF Alive
<1> QED
  BY <1>1, <1>2, FS_Subset, FS_CardinalityType

\* Past the joins no worker is left.
LEMMA JoinedNoneAlive ==
  ASSUME PoolInv, NEW d \in Destroyers, destroyer[d] \in {"free", "blocked"}
  PROVE  Alive = {}
<1> USE Sizes DEF PoolInv
<1>1. \A w \in Workers : worker[w] \in {"exited", "none"}
  BY DEF JoinedInv, CreatedInv, TypeOK, Workers
<1> QED
  BY <1>1 DEF Alive

LEMMA InitFree == Init => FreeNotRefused
<1> SUFFICES ASSUME Init PROVE FreeNotRefused
  OBVIOUS
<1>1. Alive = {}
  BY DEF Init, Alive
<1> QED
  BY <1>1, FS_EmptySet DEF Init, FreeNotRefused

LEMMA NextFree == PoolInv /\ FreeNotRefused /\ [Next]_vars => FreeNotRefused'
<1> SUFFICES ASSUME PoolInv, FreeNotRefused, [Next]_vars PROVE FreeNotRefused'
  OBVIOUS
<1> USE Sizes DEF PoolInv, ring
<1>0. worker \in [Workers -> {"none", "lock", "wait", "run", "exited"}]
  BY DEF TypeOK
<1>1. CASE create_thread
  <2>1. thread_count_ + 1 \in Workers /\ worker[thread_count_ + 1] = "none"
    BY <1>1 DEF create_thread, TypeOK, CreatedInv, Workers
  <2>2. Alive' = Alive \union {thread_count_ + 1} /\ thread_count_ + 1 \notin Alive
    BY <1>0, <1>1, <2>1 DEF create_thread, Alive
  <2>3. Cardinality(Alive') = Cardinality(Alive) + 1
    BY <2>2, AliveFinite, FS_AddElement
  <2> QED
    BY <1>1, <2>3 DEF create_thread, FreeNotRefused
<1>2. ASSUME NEW w \in Workers, thread_exit(w) PROVE FreeNotRefused'
  <2>1. Alive' = Alive \ {w} /\ w \in Alive
    BY <1>0, <1>2 DEF thread_exit, Alive
  <2>2. Cardinality(Alive') = Cardinality(Alive) - 1
    BY <2>1, AliveFinite, FS_RemoveElement
  <2> QED
    BY <1>2, <2>2 DEF thread_exit, FreeNotRefused
<1>3. ASSUME NEW w \in Workers,
             cond_wait(w) \/ take_task(w) \/ run_task(w) \/ spurious_wakeup(w)
      PROVE  FreeNotRefused'
  <2>1. Alive' = Alive
    BY <1>0, <1>3 DEF cond_wait, take_task, run_task, spurious_wakeup, Alive
  <2> QED
    BY <1>3, <2>1
    DEF cond_wait, take_task, run_task, spurious_wakeup, FreeNotRefused
<1>4. ASSUME NEW t \in Tasks, thread_pool_add(t) PROVE FreeNotRefused'
  <2>1. Alive' = Alive
    BY <1>0, <1>4 DEF thread_pool_add, Signal, Alive
  <2> QED
    BY <1>4, <2>1 DEF thread_pool_add, FreeNotRefused
<1>5. ASSUME NEW d \in Destroyers, NEW option \in Options,
             thread_pool_destory(d, option)
      PROVE  FreeNotRefused'
  <2>1. Alive' = Alive
    BY <1>0, <1>5 DEF thread_pool_destory, Broadcast, Alive
  <2> QED
    BY <1>5, <2>1 DEF thread_pool_destory, FreeNotRefused, TypeOK
<1>6. ASSUME NEW d \in Destroyers, destory_again(d) \/ join(d)
      PROVE  FreeNotRefused'
  BY <1>6 DEF destory_again, join, FreeNotRefused, TypeOK, Alive
<1>7. ASSUME NEW d \in Destroyers, thread_pool_free(d)
      PROVE  FreeNotRefused'
  <2>1. started_ = 0
    <3> HIDE DEF PoolInv
    <3>1. Alive = {}
      BY <1>7, JoinedNoneAlive DEF thread_pool_free
    <3> QED
      BY <3>1, FS_EmptySet DEF FreeNotRefused
  <2>2. /\ destroyer' = [destroyer EXCEPT ![d] = "blocked"]
        /\ started_' = started_ /\ Alive' = Alive
    BY <1>7, <2>1 DEF thread_pool_free, Alive
  <2> QED
    BY <2>2 DEF FreeNotRefused, TypeOK
<1>8. CASE thread_pool_create \/ UNCHANGED vars
  BY <1>8 DEF thread_pool_create, vars, FreeNotRefused, Alive
<1> QED
  BY <1>1, <1>2, <1>3, <1>4, <1>5, <1>6, <1>7, <1>8
  DEF Next, WorkerStep, DestroyerStep

\* started_ counts the workers that are left, so that thread_pool_free() is
\* not refused after the joins, whatever the shutdown found them doing.
THEOREM FreeIsNotRefused == SafeSpec => []FreeNotRefused
BY InitFree, NextFree, PoolInvariant, PTL DEF SafeSpec

-----------------------------------------------------------------------------
(* The bounded first-in first-out queue.                                   *)

LEMMA InitOnce == Init => OnceInv
BY DEF Init, OnceInv

LEMMA NextOnce == PoolInv /\ OnceInv /\ [Next]_vars => OnceInv'
<1> SUFFICES ASSUME PoolInv, OnceInv, [Next]_vars PROVE OnceInv'
  OBVIOUS
<1> USE Sizes, NullAssumption DEF PoolInv, ring
<1>1. ASSUME NEW t \in Tasks, thread_pool_add(t) PROVE OnceInv'
  <2>1. /\ queue_' = [queue_ EXCEPT ![tail_] = t] /\ tail_ \in Slots
        /\ UNCHANGED <<task, done>> /\ accepted' = accepted \union {t}
        /\ t \notin accepted /\ t # NULL
        /\ queue_ \in [Slots -> Tasks \union {NULL}]
    BY <1>1 DEF thread_pool_add, TypeOK
  <2> HIDE DEF PoolInv
  <2> QED
    BY <2>1 DEF OnceInv
<1>2. ASSUME NEW w \in Workers, take_task(w) PROVE OnceInv'
  <2>1. /\ task' = [task EXCEPT ![w] = queue_[head_]]
        /\ queue_' = [queue_ EXCEPT ![head_] = NULL]
        /\ head_ \in Slots
        /\ UNCHANGED <<accepted, done>>
        /\ task \in [Workers -> Tasks \union {NULL}]
        /\ queue_ \in [Slots -> Tasks \union {NULL}]
    BY <1>2 DEF take_task, TypeOK
  <2>2. queue_[head_] # NULL
    BY <1>2, TakeRing
  <2> HIDE DEF PoolInv
  <2> QED
    BY <2>1, <2>2 DEF OnceInv
<1>3. ASSUME NEW w \in Workers, run_task(w) PROVE OnceInv'
  <2>1. /\ task' = [task EXCEPT ![w] = NULL]
        /\ UNCHANGED <<accepted, queue_>> /\ done' = done \union {task[w]}
        /\ task \in [Workers -> Tasks \union {NULL}]
        /\ task[w] # NULL
    BY <1>3 DEF run_task, TypeOK, TaskInv
  <2> HIDE DEF PoolInv
  <2> QED
    BY <2>1 DEF OnceInv
<1>4. CASE UNCHANGED <<task, queue_, accepted, done>>
  BY <1>4 DEF OnceInv
<1> QED
  BY <1>1, <1>2, <1>3, <1>4
  DEF Next, vars, WorkerStep, DestroyerStep, create_thread, thread_pool_create,
      cond_wait, thread_exit, spurious_wakeup, thread_pool_destory,
      destory_again, join, thread_pool_free

\* The slot of a task that is k places behind the head of a ring of Q slots.
LEMMA SlotBehind ==
  ASSUME NEW Q \in Nat \ {0}, NEW h \in 0..(Q - 1), NEW k \in 0..(Q - 1)
  PROVE  /\ (h + k) % Q \in 0..(Q - 1)
         /\ (h + k) % Q = IF h + k < Q THEN h + k ELSE h + k - Q
  OBVIOUS

\* The tasks in the ring, oldest first: what the refinement mapping gives for
\* `pending'.
Pending == [i \in 1..count_ |-> queue_[(head_ + i - 1) % queue_size_]]

\* Place i of the queue is an occupied slot.
LEMMA PlaceOccupied ==
  ASSUME PoolInv, NEW i \in 1..count_
  PROVE  /\ (head_ + i - 1) % queue_size_ \in Slots
         /\ (head_ + i - 1) % queue_size_ =
              IF head_ + i - 1 < queue_size_ THEN head_ + i - 1
                                             ELSE head_ + i - 1 - queue_size_
         /\ queue_[(head_ + i - 1) % queue_size_] \in Tasks
<1> DEFINE s == (head_ + i - 1) % queue_size_
<1>1. /\ head_ \in 0..(queue_size_ - 1) /\ count_ \in 0..queue_size_
      /\ queue_ \in [Slots -> Tasks \union {NULL}]
  BY DEF PoolInv, TypeOK, Slots
<1>2. i - 1 \in 0..(queue_size_ - 1) /\ head_ + (i - 1) = head_ + i - 1
  BY <1>1, Sizes
<1>3. /\ s \in 0..(queue_size_ - 1)
      /\ s = IF head_ + i - 1 < queue_size_ THEN head_ + i - 1
                                            ELSE head_ + i - 1 - queue_size_
  BY <1>1, <1>2, Sizes, SlotBehind
<1>4. Occupied(s)
  <2> HIDE DEF s
  <2> QED
    BY <1>1, <1>3, Sizes DEF Occupied
<1>5. s \in Slots /\ queue_[s] # NULL
  BY <1>3, <1>4 DEF PoolInv, RingInv, Slots
<1> QED
  BY <1>1, <1>3, <1>5

LEMMA PendingType ==
  PoolInv => Pending \in Seq(Tasks) /\ Len(Pending) = count_
<1> SUFFICES ASSUME PoolInv
             PROVE  Pending \in Seq(Tasks) /\ Len(Pending) = count_
  OBVIOUS
<1>1. count_ \in Nat
  BY Sizes DEF PoolInv, TypeOK
<1>2. Pending \in [1..count_ -> Tasks]
  BY PlaceOccupied DEF Pending
<1>3. Pending \in Seq(Tasks)
  BY <1>1, <1>2, SeqDef
<1> QED
  BY <1>1, <1>2, <1>3, LenProperties

\* thread_pool_add puts the task behind all others.
LEMMA AddPending ==
  ASSUME PoolInv, PoolInv', NEW t \in Tasks, thread_pool_add(t)
  PROVE  Pending' = Append(Pending, t)
<1>1. /\ queue_' = [queue_ EXCEPT ![tail_] = t] /\ count_' = count_ + 1
      /\ head_' = head_ /\ tail_ \in Slots
      /\ head_ \in 0..(queue_size_ - 1) /\ count_ \in 0..(queue_size_ - 1)
      /\ queue_ \in [Slots -> Tasks \union {NULL}]
  BY Sizes DEF thread_pool_add, PoolInv, TypeOK, Slots
<1>2. /\ Pending \in Seq(Tasks) /\ Len(Pending) = count_
      /\ Pending' \in Seq(Tasks) /\ Len(Pending') = count_ + 1
  <2>1. (PoolInv => Pending \in Seq(Tasks) /\ Len(Pending) = count_)'
    BY PendingType, PTL
  <2> HIDE DEF Pending
  <2> QED BY <1>1, <2>1, PendingType
<1>3. /\ Append(Pending, t) \in Seq(Tasks)
      /\ Len(Append(Pending, t)) = count_ + 1
      /\ \A i \in 1..count_ : Append(Pending, t)[i] = Pending[i]
      /\ Append(Pending, t)[count_ + 1] = t
  BY <1>2, AppendProperties
<1>4. ASSUME NEW i \in 1..(count_ + 1)
      PROVE  Pending'[i] = Append(Pending, t)[i]
  <2>1. Pending'[i] = queue_'[(head_ + i - 1) % queue_size_]
    BY <1>1, <1>4 DEF Pending
  <2>2. CASE i <= count_
    <3>1. i \in 1..count_ /\ Pending[i] = queue_[(head_ + i - 1) % queue_size_]
      BY <1>1, <2>2 DEF Pending
    <3>2. queue_[(head_ + i - 1) % queue_size_] # NULL
      BY <3>1, PlaceOccupied, NullAssumption
    <3>3. queue_[tail_] = NULL
      BY <1>1, Sizes DEF PoolInv, RingInv, Occupied, Slots
    <3>4. (head_ + i - 1) % queue_size_ \in Slots
      BY <3>1, PlaceOccupied
    <3> QED BY <1>1, <1>3, <2>1, <3>1, <3>2, <3>3, <3>4
  <2>3. CASE i = count_ + 1
    <3>1. (head_ + count_) % queue_size_ =
            IF head_ + count_ < queue_size_ THEN head_ + count_
                                            ELSE head_ + count_ - queue_size_
      BY <1>1, Sizes, SlotBehind
    <3>2. tail_ = (head_ + count_) % queue_size_
      BY <1>1, <3>1, Sizes DEF PoolInv, RingInv, Slots
    <3>3. head_ + i - 1 = head_ + count_
      BY <1>1, <2>3
    <3> QED BY <1>1, <1>3, <2>1, <2>3, <3>2, <3>3
  <2>4. i <= count_ \/ i = count_ + 1
    BY <1>1, Sizes
  <2> QED BY <2>2, <2>3, <2>4
<1> HIDE DEF Pending
<1> QED BY <1>1, <1>2, <1>3, <1>4, SeqEqual

\* take_task takes the oldest one.
LEMMA TakePending ==
  ASSUME PoolInv, PoolInv', NEW w \in Workers, take_task(w)
  PROVE  /\ Pending # <<>>
         /\ Head(Pending) = queue_[head_]
         /\ Pending' = Tail(Pending)
<1>1. /\ queue_' = [queue_ EXCEPT ![head_] = NULL] /\ count_' = count_ - 1
      /\ head_' = (head_ + 1) % queue_size_
      /\ head_ \in 0..(queue_size_ - 1) /\ count_ \in 0..queue_size_
      /\ queue_ \in [Slots -> Tasks \union {NULL}]
  BY Sizes DEF take_task, PoolInv, TypeOK, Slots
<1>2. count_ > 0
  BY TakeRing
<1>3. head_' = IF head_ + 1 = queue_size_ THEN 0 ELSE head_ + 1
  BY <1>1, Sizes, NextSlot
<1>4. /\ Pending \in Seq(Tasks) /\ Len(Pending) = count_
      /\ Pending' \in Seq(Tasks) /\ Len(Pending') = count_ - 1
  <2>1. (PoolInv => Pending \in Seq(Tasks) /\ Len(Pending) = count_)'
    BY PendingType, PTL
  <2> HIDE DEF Pending
  <2> QED BY <1>1, <2>1, PendingType
<1>5. Pending # <<>>
  BY <1>1, <1>2, <1>4, EmptySeq
<1>6. Head(Pending) = queue_[head_]
  <2>1. Pending[1] = queue_[(head_ + 1 - 1) % queue_size_]
    BY <1>1, <1>2 DEF Pending
  <2>2. head_ + 1 - 1 = head_ /\ head_ % queue_size_ = head_
    BY <1>1, Sizes
  <2> HIDE DEF Pending
  <2> QED BY <1>4, <1>5, <2>1, <2>2
<1>7. /\ Tail(Pending) \in Seq(Tasks) /\ Len(Tail(Pending)) = count_ - 1
      /\ \A i \in 1..(count_ - 1) : Tail(Pending)[i] = Pending[i + 1]
  <2> HIDE DEF Pending
  <2> QED BY <1>4, <1>5, HeadTailProperties
<1>8. ASSUME NEW i \in 1..(count_ - 1)
      PROVE  Pending'[i] = Tail(Pending)[i]
  <2>1. Pending'[i] = queue_'[(head_' + i - 1) % queue_size_]
    BY <1>1, <1>8 DEF Pending
  <2>2. i + 1 \in 1..count_ /\ Pending[i + 1] = queue_[(head_ + (i + 1) - 1) % queue_size_]
    BY <1>1, <1>2 DEF Pending
  <2>3. i \in 1..count_'
    BY <1>1
  <2>4. (head_ + (i + 1) - 1) % queue_size_ =
          IF head_ + (i + 1) - 1 < queue_size_
          THEN head_ + (i + 1) - 1 ELSE head_ + (i + 1) - 1 - queue_size_
    BY <2>2, PlaceOccupied
  <2>5. (head_' + i - 1) % queue_size_ =
          IF head_' + i - 1 < queue_size_
          THEN head_' + i - 1 ELSE head_' + i - 1 - queue_size_
    <3>1. head_' \in 0..(queue_size_ - 1) /\ i - 1 \in 0..(queue_size_ - 1)
          /\ head_' + (i - 1) = head_' + i - 1
      BY <1>1, <1>3, Sizes
    <3> QED BY <3>1, Sizes, SlotBehind
  <2> DEFINE r == (head_ + (i + 1) - 1) % queue_size_
             s == (head_' + i - 1) % queue_size_
  <2>6. r = s /\ r # head_ /\ r \in Slots
    <3>1. r = IF head_ + i < queue_size_ THEN head_ + i ELSE head_ + i - queue_size_
      BY <1>1, <2>4
    <3>2. s = IF head_' + i - 1 < queue_size_
              THEN head_' + i - 1 ELSE head_' + i - 1 - queue_size_
      BY <2>5
    <3> HIDE DEF r, s
    <3> QED BY <1>1, <1>3, <3>1, <3>2, Sizes DEF Slots
  <2> HIDE DEF r, s
  <2>7. queue_'[r] = queue_[r]
    BY <1>1, <2>6
  <2> QED BY <1>7, <2>1, <2>2, <2>6, <2>7 DEF r, s
<1> HIDE DEF Pending
<1> QED BY <1>1, <1>4, <1>5, <1>6, <1>7, <1>8, SeqEqual

\* What the refinement mapping gives for `running'.
Running == {task[w] : w \in Workers} \ {NULL}

LEMMA InitQueue == Init => TQ!Init
<1> SUFFICES ASSUME Init PROVE TQ!Init
  OBVIOUS
<1>1. Pending \in Seq(Tasks) /\ Len(Pending) = 0
  BY InitPoolInv, PendingType DEF Init
<1>2. Pending = <<>>
  <2> HIDE DEF Pending
  <2> QED BY <1>1, EmptySeq
<1>3. Running = {}
  BY DEF Init, Running
<1> QED
  BY <1>2, <1>3 DEF Init, TQ!Init, Pending, Running

\* Each critical section of the pool is one step of the queue or none.
LEMMA NextQueue ==
  PoolInv /\ PoolInv' /\ OnceInv /\ [Next]_vars => [TQ!Next]_TQ!vars
<1> SUFFICES ASSUME PoolInv, PoolInv', OnceInv, [Next]_vars
             PROVE  [TQ!Next]_TQ!vars
  OBVIOUS
<1>1. ASSUME NEW t \in Tasks, thread_pool_add(t) PROVE TQ!Accept(t)
  <2>1. Pending' = Append(Pending, t)
    BY <1>1, AddPending
  <2>2. Len(Pending) < queue_size_
    BY <1>1, PendingType, Sizes DEF thread_pool_add, PoolInv, TypeOK
  <2>3. shutdown_ = 0 /\ UNCHANGED <<shutdown_, done>> /\ Running' = Running
    BY <1>1 DEF thread_pool_add, Running
  <2> QED
    BY <2>1, <2>2, <2>3 DEF TQ!Accept, Pending, Running
<1>2. ASSUME NEW w \in Workers, take_task(w) PROVE TQ!TakeOldest
  <2>1. /\ Pending # <<>>
        /\ Head(Pending) = queue_[head_]
        /\ Pending' = Tail(Pending)
    BY <1>2, TakePending
  <2>2. queue_[head_] \in Tasks /\ queue_[head_] # NULL
    BY <1>2, TakeRing, NullAssumption
  <2>3. /\ task' = [task EXCEPT ![w] = queue_[head_]]
        /\ task \in [Workers -> Tasks \union {NULL}] /\ task[w] = NULL
        /\ head_ \in Slots
        /\ UNCHANGED <<shutdown_, done>>
    BY <1>2 DEF take_task, PoolInv, TypeOK, TaskInv
  <2>4. queue_[head_] \notin Running \union done
    BY <2>2, <2>3 DEF OnceInv, Running
  <2>5. Running' = Running \union {queue_[head_]}
    BY <2>2, <2>3 DEF Running
  <2> QED
    BY <2>1, <2>3, <2>4, <2>5 DEF TQ!TakeOldest, Pending, Running
<1>3. ASSUME NEW w \in Workers, run_task(w) PROVE \E t \in Tasks : TQ!Finish(t)
  <2>1. /\ task' = [task EXCEPT ![w] = NULL] /\ done' = done \union {task[w]}
        /\ task \in [Workers -> Tasks \union {NULL}] /\ task[w] # NULL
        /\ UNCHANGED <<shutdown_, queue_, head_, count_>>
    BY <1>3 DEF run_task, PoolInv, TypeOK, TaskInv, ring
  <2>2. PICK t \in Tasks : t = task[w]
    BY <2>1
  <2>3. Running' = Running \ {t} /\ t \in Running
    BY <2>1, <2>2 DEF OnceInv, Running
  <2>4. Pending' = Pending
    BY <2>1 DEF Pending
  <2>5. TQ!Finish(t)
    BY <2>1, <2>2, <2>3, <2>4 DEF TQ!Finish, Pending, Running
  <2> QED
    BY <2>5
<1>4. ASSUME NEW d \in Destroyers, NEW option \in Options,
             thread_pool_destory(d, option)
      PROVE  TQ!Close
  <2>1. shutdown_ = 0 /\ shutdown_' # 0
        /\ UNCHANGED <<task, queue_, head_, count_, done>>
    BY <1>4, OptionAssumption
    DEF thread_pool_destory, immediate_shutdown, graceful_shutdown, ring
  <2> QED
    BY <2>1 DEF TQ!Close
<1>5. CASE UNCHANGED <<task, queue_, head_, count_, done, shutdown_>>
  BY <1>5 DEF TQ!vars
<1>6. \/ \E t \in Tasks : thread_pool_add(t)
      \/ \E w \in Workers : take_task(w) \/ run_task(w)
      \/ \E d \in Destroyers, option \in Options : thread_pool_destory(d, option)
      \/ UNCHANGED <<task, queue_, head_, count_, done, shutdown_>>
  BY DEF Next, vars, ring, WorkerStep, DestroyerStep, create_thread,
         thread_pool_create, cond_wait, thread_exit, spurious_wakeup,
         destory_again, join, thread_pool_free
<1>7. CASE \E t \in Tasks : thread_pool_add(t)
  BY <1>1, <1>7 DEF TQ!Next
<1>8. CASE \E w \in Workers : take_task(w)
  BY <1>2, <1>8 DEF TQ!Next
<1>9. CASE \E w \in Workers : run_task(w)
  BY <1>3, <1>9 DEF TQ!Next
<1>10. CASE \E d \in Destroyers, option \in Options : thread_pool_destory(d, option)
  BY <1>4, <1>10 DEF TQ!Next
<1> QED
  BY <1>5, <1>6, <1>7, <1>8, <1>9, <1>10

\* The ring, the mutex and the workers are a bounded first-in first-out queue
\* whose tasks run once, for any number of threads, slots and tasks.
THEOREM PoolIsTaskQueue == SafeSpec => ImplementsTaskQueue
<1>1. OnceInv /\ PoolInv /\ [Next]_vars => OnceInv'
  BY NextOnce
<1>2. SafeSpec => []OnceInv
  BY InitOnce, <1>1, PoolInvariant, PTL DEF SafeSpec
<1> QED
  BY <1>2, InitQueue, NextQueue, PoolInvariant, PTL
  DEF SafeSpec, ImplementsTaskQueue, TQ!Spec
=============================================================================
