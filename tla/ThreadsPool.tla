---------------------------- MODULE ThreadsPool ----------------------------
(***************************************************************************)
(* The elastic pool of threads in lib/threads_pool.cpp: workers that drop  *)
(* themselves when there is little to do, the scan thread that adds one    *)
(* when the turning list stays long, and threads_pool_stop.  Contexts are  *)
(* only counted here; ContextsPool says what happens to each of them.      *)
(***************************************************************************)
EXTENDS Naturals, FiniteSets, Sequences, SequencesExt

CONSTANTS
    Threads,              \* THR_DATA objects and the threads they belong to
    NoThread,             \* the null pointer
    InitNum,              \* the init_pool_num argument of threads_pool_init
    ContextNum,           \* MAX_CONTEXTS_NUM
    ContextsPerThr,       \* CONTEXTS_PER_THR
    MaxTimesNotServed,    \* MAX_TIMES_NOT_SERVED
    MaxNotEmptyTimes,     \* MAX_NOT_EMPTY_TIMES
    MayStop               \* whether threads_pool_stop may be called

\* threads_pool_init: the limits follow from the contexts pool.
MaxNum == (ContextNum + ContextsPerThr - 1) \div ContextsPerThr
MinNum == IF InitNum > MaxNum THEN MaxNum ELSE InitNum

ASSUME PoolAssumption ==
    /\ InitNum \in Nat \ {0} /\ ContextNum \in Nat \ {0} /\ ContextsPerThr \in Nat \ {0}
    /\ MaxTimesNotServed \in Nat /\ MaxNotEmptyTimes \in Nat \ {0}
    /\ MayStop \in BOOLEAN
    /\ IsFiniteSet(Threads) /\ Cardinality(Threads) >= MaxNum
    /\ NoThread \notin Threads

VARIABLES
    thr,        \* what each thread is doing
    list,       \* g_threads_data_list
    cur,        \* g_threads_pool_cur_thr_num
    missed,     \* cannot_served_times of each thread
    notified,   \* notify_stop of each THR_DATA
    waiting,    \* contexts in use that are neither on the turning list nor being served
    queued,     \* contexts on the turning list
    notEmpty,   \* not_empty_times of the scan thread
    scan,       \* whether the scan thread runs
    stop,       \* how far threads_pool_stop has come
    pthr        \* the THR_DATA threads_pool_stop works on, and b_should_exit

poolVars == <<thr, list, cur, missed, notified, waiting, queued, notEmpty, scan, stop, pthr>>

worker   == <<missed, notified>>
contexts == <<waiting, queued>>
stopper  == <<scan, stop, pthr>>

Serving == {t \in Threads : thr[t] = "serve"}

\* CUR_VALID_CONTEXTS
ValidContexts == waiting + queued + Cardinality(Serving)

\* threads_pool_init and threads_pool_run: MinNum threads are on the list.
PoolInit ==
    /\ \E s \in [1..MinNum -> Threads] :
        /\ \A i, j \in 1..MinNum : s[i] = s[j] => i = j
        /\ list = s
        /\ thr = [t \in Threads |-> IF t \in {s[i] : i \in 1..MinNum} THEN "top" ELSE "none"]
    /\ cur = MinNum
    /\ missed = [t \in Threads |-> 0]
    /\ notified = [t \in Threads |-> FALSE]
    /\ waiting = 0
    /\ queued = 0
    /\ notEmpty = 0
    /\ scan = "run"
    /\ stop = "no"
    /\ pthr = [thread |-> NoThread, last |-> FALSE]

-----------------------------------------------------------------------------
(* tpol_thrwork                                                            *)

\* Mutant of LeaveList: g_threads_pool_cur_thr_num is not decremented.
LeaveListUncounted(t) ==
    /\ list' = RemoveFirst(list, t)
    /\ thr' = [thr EXCEPT ![t] = "none"]
    /\ UNCHANGED <<cur, worker, contexts, notEmpty, stopper>>

\* A thread takes its THR_DATA off the list and deletes it, under the data lock.
LeaveList(t) ==
    /\ list' = RemoveFirst(list, t)
    /\ cur' = cur - 1
    /\ thr' = [thr EXCEPT ![t] = "none"]
    /\ UNCHANGED <<worker, contexts, notEmpty, stopper>>

\* A context of the turning list is served.
Serve(t) ==
    /\ thr[t] = "top" /\ ~notified[t]
    /\ queued > 0
    /\ queued' = queued - 1
    /\ thr' = [thr EXCEPT ![t] = "serve"]
    /\ missed' = [missed EXCEPT ![t] = 0]
    /\ UNCHANGED <<list, cur, notified, waiting, notEmpty, stopper>>

\* The served context goes back to the turning list, to another list, or is freed.
PutContext(t) ==
    /\ thr[t] = "serve"
    /\ thr' = [thr EXCEPT ![t] = "top"]
    /\ \/ queued' = queued + 1 /\ UNCHANGED waiting
       \/ waiting' = waiting + 1 /\ UNCHANGED queued
       \/ UNCHANGED contexts
    /\ UNCHANGED <<list, cur, worker, notEmpty, stopper>>

\* The turning list was empty: one more miss, or the test for too many threads.
Miss(t) ==
    /\ thr[t] = "top" /\ ~notified[t]
    /\ queued = 0
    /\ IF missed[t] = MaxTimesNotServed
       THEN thr' = [thr EXCEPT ![t] = "spare"] /\ UNCHANGED missed
       ELSE /\ thr' = [thr EXCEPT ![t] = "wait"]
            /\ missed' = [missed EXCEPT ![t] = @ + 1]
    /\ UNCHANGED <<list, cur, notified, contexts, notEmpty, stopper>>

\* More threads than the contexts in use need, and more than the minimum.
TooManyThreads == cur > MinNum /\ cur * (ContextsPerThr \div 4) > ValidContexts

\* The thread drops itself and detaches.
Drop(t) ==
    /\ thr[t] = "spare"
    /\ TooManyThreads
    /\ LeaveList(t)

\* It is still needed and waits.
Stay(t) ==
    /\ thr[t] = "spare"
    /\ ~TooManyThreads
    /\ thr' = [thr EXCEPT ![t] = "wait"]
    /\ UNCHANGED <<list, cur, worker, contexts, notEmpty, stopper>>

\* Mutant of WaitEnds: the wait has no timeout and only new work ends it.
WaitEndsForWork(t) ==
    /\ thr[t] = "wait"
    /\ queued > 0
    /\ thr' = [thr EXCEPT ![t] = "top"]
    /\ UNCHANGED <<list, cur, worker, contexts, notEmpty, stopper>>

\* Mutant of WaitEnds: the misses are counted from zero after every wait.
WaitEndsForgetting(t) ==
    /\ thr[t] = "wait"
    /\ thr' = [thr EXCEPT ![t] = "top"]
    /\ missed' = [missed EXCEPT ![t] = 0]
    /\ UNCHANGED <<list, cur, notified, contexts, notEmpty, stopper>>

\* wait_for ends: notified, or after a second.
WaitEnds(t) ==
    /\ thr[t] = "wait"
    /\ thr' = [thr EXCEPT ![t] = "top"]
    /\ UNCHANGED <<list, cur, worker, contexts, notEmpty, stopper>>

\* notify_stop is seen at the top of the loop.
Leave(t) ==
    /\ thr[t] = "top" /\ notified[t]
    /\ LeaveList(t)

Worker(t) == Serve(t) \/ PutContext(t) \/ Miss(t) \/ Drop(t) \/ Stay(t) \/ WaitEnds(t) \/ Leave(t)

-----------------------------------------------------------------------------
(* tpol_scanwork                                                           *)

\* What the scan thread does with not_empty_times after another second.
LongEnough == queued > 1 /\ notEmpty + 1 >= MaxNotEmptyTimes

Spawn(t) ==
    /\ thr[t] = "none"
    /\ thr' = [thr EXCEPT ![t] = "top"]
    /\ list' = Append(list, t)
    /\ cur' = cur + 1
    /\ missed' = [missed EXCEPT ![t] = 0]
    /\ notified' = [notified EXCEPT ![t] = FALSE]
    /\ notEmpty' = 0

MayGrow == cur < MaxNum

\* One round: count, and spawn a thread once the list has been long often enough; the
\* allocation or pthread_create may fail.  The loop ends when g_notify_stop is set.
ScanRound ==
    /\ scan = "run"
    /\ scan' = IF stop = "no" THEN "run" ELSE "ended"
    /\ \/ queued <= 1 /\ notEmpty' = 0 /\ UNCHANGED <<thr, list, cur, worker>>
       \/ /\ queued > 1 /\ ~LongEnough
          /\ notEmpty' = notEmpty + 1
          /\ UNCHANGED <<thr, list, cur, worker>>
       \/ /\ LongEnough /\ ~MayGrow
          /\ notEmpty' = MaxNotEmptyTimes
          /\ UNCHANGED <<thr, list, cur, worker>>
       \/ /\ LongEnough /\ MayGrow
          /\ \/ \E t \in Threads : Spawn(t)
             \/ notEmpty' = 0 /\ UNCHANGED <<thr, list, cur, worker>>
    /\ UNCHANGED <<contexts, stop, pthr>>

-----------------------------------------------------------------------------
(* threads_pool_stop                                                       *)

\* g_notify_stop is set and the scan thread is interrupted.
StopBegin ==
    /\ MayStop /\ stop = "no"
    /\ stop' = "scan"
    /\ UNCHANGED <<thr, list, cur, worker, contexts, notEmpty, scan, pthr>>

StopJoinScan ==
    /\ stop = "scan" /\ scan = "ended"
    /\ stop' = "head"
    /\ UNCHANGED <<thr, list, cur, worker, contexts, notEmpty, scan, pthr>>

\* The head of the list is read under the data lock, which is then released.
StopHead ==
    /\ stop = "head"
    /\ stop' = "notify"
    /\ pthr' = [thread |-> IF list = <<>> THEN NoThread ELSE Head(list),
                last   |-> pthr.last \/ Len(list) = 1]
    /\ UNCHANGED <<thr, list, cur, worker, contexts, notEmpty, scan>>

\* The thread is told to stop, through the pointer read before.  After a THR_DATA was
\* deleted, or where there was none, nothing is defined: the model ends there.
StopNotify ==
    /\ stop = "notify"
    /\ pthr.thread \in ToSet(list)
    /\ stop' = "join"
    /\ notified' = [notified EXCEPT ![pthr.thread] = TRUE]
    /\ UNCHANGED <<thr, list, cur, missed, contexts, notEmpty, scan, pthr>>

StopJoin ==
    /\ stop = "join"
    /\ thr[pthr.thread] = "none"
    /\ stop' = IF pthr.last THEN "done" ELSE "head"
    /\ UNCHANGED <<thr, list, cur, worker, contexts, notEmpty, scan, pthr>>

Stop == StopBegin \/ StopJoinScan \/ StopHead \/ StopNotify \/ StopJoin

-----------------------------------------------------------------------------
\* The contexts pool: connections come, become ready, and none comes once the daemon stops
\* (the listeners are closed before the pool).
ContextArrives ==
    /\ stop = "no"
    /\ ValidContexts < ContextNum
    /\ waiting' = waiting + 1
    /\ UNCHANGED <<thr, list, cur, worker, queued, notEmpty, stopper>>

ContextReady ==
    /\ waiting > 0
    /\ waiting' = waiting - 1
    /\ queued' = queued + 1
    /\ UNCHANGED <<thr, list, cur, worker, notEmpty, stopper>>

PoolNext ==
    \/ \E t \in Threads : Worker(t)
    \/ ScanRound
    \/ Stop
    \/ ContextArrives
    \/ ContextReady

PoolSpec == PoolInit /\ [][PoolNext]_poolVars

\* Threads run.  A caller of threads_pool_stop is not promised; once called it runs.
Fairness ==
    /\ \A t \in Threads : WF_poolVars(Worker(t))
    /\ WF_poolVars(ScanRound)
    /\ WF_poolVars(StopJoinScan \/ StopHead \/ StopNotify \/ StopJoin)

PoolFairSpec == PoolSpec /\ Fairness

-----------------------------------------------------------------------------
(* Properties                                                              *)

\* Every variable has its type; the counter stays within the maximum
\* (threads_pool.cpp).
PoolTypeOK ==
    /\ thr \in [Threads -> {"none", "top", "serve", "spare", "wait"}]
    /\ list \in Seq(Threads)
    /\ cur \in 0..MaxNum
    /\ missed \in [Threads -> 0..MaxTimesNotServed]
    /\ notified \in [Threads -> BOOLEAN]
    /\ waiting \in 0..ContextNum /\ queued \in 0..ContextNum
    /\ notEmpty \in 0..MaxNotEmptyTimes
    /\ scan \in {"run", "ended"}
    /\ stop \in {"no", "scan", "head", "notify", "join", "done"}
    /\ pthr \in [thread : Threads \cup {NoThread}, last : BOOLEAN]

\* The atomic counter that both limits are checked against counts the threads that exist,
\* and the list holds each of them once, through spawning, dropping and stopping.
CounterCountsThreads ==
    /\ ToSet(list) = {t \in Threads : thr[t] # "none"}
    /\ cur = Len(list)
    /\ Len(list) = Cardinality(ToSet(list))

\* The pool never grows past its maximum, and until it is stopped never drops below its
\* minimum, although every worker decides for itself whether it is one too many.
WithinLimits == cur <= MaxNum /\ (stop \in {"no", "scan"} => cur >= MinNum)

\* When threads_pool_stop returns, no pool thread runs: none serves a context while the
\* daemon frees what contexts point to.
StoppedMeansGone == stop = "done" => \A t \in Threads : thr[t] = "none"

\* The accounts of the pool are right at every step of spawning, dropping and
\* stopping: the counter, the list, the limits, and nothing left after a stop.
Accounts == PoolTypeOK /\ CounterCountsThreads /\ WithinLimits /\ StoppedMeansGone

\* threads_pool_stop is at a THR_DATA that its thread has deleted: the worker dropped
\* itself after StopHead had given the data lock back.
StopHasStale == stop = "notify" /\ pthr.thread \in Threads /\ pthr.thread \notin ToSet(list)

\* threads_pool_stop has no THR_DATA at all: when it picked the thread before, another was
\* on the list, but that one has dropped itself, so the list is empty when the next head
\* is read (and dereferenced, threads_pool.cpp:127).
StopFindsNone == stop = "notify" /\ pthr.thread = NoThread

\* Once called, threads_pool_stop returns, whatever the workers are doing, unless a worker
\* that drops itself leaves it with a pointer to nothing, in one of the two ways above; and
\* without exception once no worker is above the minimum, so that none may drop itself.
StopReturns ==
    /\ stop = "scan" ~> stop = "done" \/ StopHasStale \/ StopFindsNone
    /\ (stop = "head" /\ cur \in 1..MinNum) ~> stop = "done"

\* If the connections go away for good and nobody stops the pool, it shrinks back to
\* its minimum.
ShrinksWhenIdle == <>[](ValidContexts = 0 /\ stop = "no") => <>[](cur = MinNum)
=============================================================================
