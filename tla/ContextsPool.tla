---------------------------- MODULE ContextsPool ----------------------------
(***************************************************************************)
(* The connection scheduler shared by the http, imap, pop3 and smtp        *)
(* daemons: lib/contexts_pool.cpp, with the callers that move a            *)
(* SCHEDULE_CONTEXT from list to list.                                     *)
(*                                                                         *)
(*  - listener threads take a free context for an accepted connection;     *)
(*  - pool threads (tpol_thrwork) serve contexts of the turning list and   *)
(*    put each one where the protocol parser says;                         *)
(*  - the epoll thread (ctxp_thrwork) moves contexts with socket events    *)
(*    from polling to turning;                                             *)
(*  - the scan thread (ctxp_scanwork) moves timed-out and idling contexts  *)
(*    to turning once a second;                                            *)
(*  - notifiers signal an idling or activate a polling context;            *)
(*  - the IMAP waker (imps_thrwork) wakes sleeping contexts.               *)
(*                                                                         *)
(* Each of the five lists has a mutex of its own and the type field of a   *)
(* context is the only thing that tells a thread which list a context is   *)
(* on.  An action is one critical section, or one unlocked stretch between *)
(* two of them.  A list is a set where its order decides nothing and a     *)
(* sequence where it does (turning, and the waker's g_sleeping_list).      *)
(***************************************************************************)
EXTENDS Naturals, FiniteSets, Sequences, Functions

CONSTANTS
    Ctx,         \* the schedule_context objects, all made by contexts_pool_init
    Listeners,   \* threads that accept connections (plain and TLS ports)
    Workers,     \* pool threads
    Notifiers,   \* threads that call contexts_pool_signal or context_pool_activate_context
    Epoll,       \* the thread ctxp_thrwork
    Waker,       \* the thread imps_thrwork
    NoCtx,       \* the null pointer
    AddMayFail   \* whether epoll_ctl(EPOLL_CTL_ADD) may fail (ENOMEM, ENOSPC)

Agents == Listeners \cup Workers \cup Notifiers \cup {Epoll, Waker}

ASSUME CtxAssumption == IsFiniteSet(Ctx) /\ NoCtx \notin Ctx

ASSUME AddAssumption == AddMayFail \in BOOLEAN

\* The threads are different threads.
ASSUME AgentsAssumption ==
    /\ Listeners \cap Workers = {}
    /\ Listeners \cap Notifiers = {}
    /\ Workers \cap Notifiers = {}
    /\ Epoll # Waker
    /\ {Epoll, Waker} \cap (Listeners \cup Workers \cup Notifiers) = {}

VARIABLES
    type,        \* schedule_context::type
    b_waiting,   \* schedule_context::b_waiting
    sock,        \* the context's connection: none, open, or shut down on both sides
    reg,         \* what the kernel's epoll set knows of that socket
    age,         \* time since connection.last_timestamp, against the two timeouts
    list,        \* the free, idling, polling and sleeping members of g_context_lists
    turning,     \* the turning member of g_context_lists
    temp,        \* temp_list of ctxp_scanwork
    scan,        \* which part of its round the scan thread does next
    evq,         \* the events epoll_wait returned and ctxp_thrwork has not looked at
    hand,        \* the context a thread has taken off every list
    dest,        \* where a pool thread will put the context it has processed
    slist,       \* g_sleeping_list of the IMAP parser
    wake         \* the context the waker wants to wake, still on the sleeping list

vars == <<type, b_waiting, sock, reg, age, list, turning, temp, scan, evq,
          hand, dest, slist, wake>>

connection == <<sock, age>>
scanner    == <<temp, scan>>
sleepers   == <<slist, wake>>

\* The members of g_context_lists that are modelled as sets.
SetLists == {"free", "idling", "polling", "sleeping"}

\* sctx_status, without invalid (which a context has only after contexts_pool_stop).
Statuses == SetLists \cup {"turning", "constructing", "switching"}

\* Age 1 is past the daemon's timeout (g_time_out), age 2 past g_autologout_time too.
MaxAge == 2

-----------------------------------------------------------------------------
(* The lists.                                                              *)

\* The orders in which the contexts of S can stand on a list.
Orders(S) == Bijection(1..Cardinality(S), S)

\* double_list_append_as_tail on g_context_lists[t].
AppendTo(t, c) ==
    IF t = "turning"
    THEN turning' = Append(turning, c) /\ UNCHANGED list
    ELSE list' = [list EXCEPT ![t] = @ \cup {c}] /\ UNCHANGED turning

\* double_list_remove from (or pop_front of) one of the set-like lists.
RemoveFrom(t, c) == list' = [list EXCEPT ![t] = @ \ {c}]

\* contexts_pool_init and the start of every thread: all contexts are free.
Init ==
    /\ type = [c \in Ctx |-> "free"]
    /\ b_waiting = [c \in Ctx |-> FALSE]
    /\ sock = [c \in Ctx |-> "none"]
    /\ reg = [c \in Ctx |-> "none"]
    /\ age = [c \in Ctx |-> 0]
    /\ list = [l \in SetLists |-> IF l = "free" THEN Ctx ELSE {}]
    /\ turning = <<>>
    /\ temp = {}
    /\ scan = "polling"
    /\ evq = {}
    /\ hand = [a \in Agents |-> NoCtx]
    /\ dest = [w \in Workers |-> "none"]
    /\ slist = <<>>
    /\ wake = NoCtx

-----------------------------------------------------------------------------
(* contexts_pool_insert                                                    *)

\* evqueue::mod with EPOLL_CTL_ADD: arms the socket, or fails.
AddOutcomes == IF AddMayFail THEN {TRUE, FALSE} ELSE {TRUE}

\* The polling branch for a context the listener has just constructed.
RegisterNew(c) ==
    \E ok \in AddOutcomes :
        /\ reg' = [reg EXCEPT ![c] = IF ok THEN "armed" ELSE "none"]
        /\ b_waiting' = [b_waiting EXCEPT ![c] = ok]
        /\ UNCHANGED sock

\* Mutant of Rearm: a socket that is still in the epoll set is taken for armed.
RearmForgotten(c) == reg[c] # "none" /\ UNCHANGED <<reg, b_waiting, sock>>

\* The polling branch for a context that was served before, when EPOLL_CTL_MOD succeeds.
Rearm(c) ==
    /\ reg[c] # "none"
    /\ reg' = [reg EXCEPT ![c] = "armed"]
    /\ UNCHANGED <<b_waiting, sock>>

\* The same branch when EPOLL_CTL_MOD says ENOENT because the scan thread took the
\* socket out of the epoll set.  mod returns 0 on success: the socket that was added
\* again is shut down, the one that could not be added is marked as waiting.
Readd(c) ==
    /\ reg[c] = "none"
    /\ \E ok \in AddOutcomes :
        /\ reg' = [reg EXCEPT ![c] = IF ok THEN "armed" ELSE "none"]
        /\ b_waiting' = [b_waiting EXCEPT ![c] = IF ok THEN @ ELSE TRUE]
        /\ sock' = [sock EXCEPT ![c] = IF ok THEN "shut" ELSE @]

\* Mutant of ForgetWaiting: b_waiting outlives the connection.
ForgetWaitingForgotten(c) == UNCHANGED <<b_waiting, reg, sock>>

\* A freed context leaves the epoll set with the close() of its socket.
ForgetWaiting(c) ==
    /\ b_waiting' = [b_waiting EXCEPT ![c] = IF type[c] = "turning" THEN FALSE ELSE @]
    /\ UNCHANGED <<reg, sock>>

\* contexts_pool_insert(c, t), one critical section under the lock of list t.
Insert(c, t) ==
    /\ type' = [type EXCEPT ![c] = t]
    /\ CASE t = "polling" ->
                IF type[c] = "constructing" THEN RegisterNew(c) ELSE Rearm(c) \/ Readd(c)
         [] t = "free" -> ForgetWaiting(c)
         [] OTHER -> UNCHANGED <<b_waiting, reg, sock>>
    /\ AppendTo(t, c)

\* Thread a puts the context it holds on list t.
PutDown(a, t) ==
    /\ hand[a] # NoCtx
    /\ Insert(hand[a], t)
    /\ hand' = [hand EXCEPT ![a] = NoCtx]

-----------------------------------------------------------------------------
(* Listener threads                                                        *)

\* Mutant of GetFree: contexts_pool_get_context changes the type it must leave alone.
GetFreeInvalidates(l) ==
    /\ hand[l] = NoCtx
    /\ \E c \in list["free"] :
        /\ RemoveFrom("free", c)
        /\ hand' = [hand EXCEPT ![l] = c]
        /\ type' = [type EXCEPT ![c] = "invalid"]
    /\ UNCHANGED <<b_waiting, reg, connection, turning, scanner, evq, dest, sleepers>>

\* contexts_pool_get_context(free): the type is left as it is.
GetFree(l) ==
    /\ hand[l] = NoCtx
    /\ \E c \in list["free"] :
        /\ RemoveFrom("free", c)
        /\ hand' = [hand EXCEPT ![l] = c]
    /\ UNCHANGED <<type, b_waiting, reg, connection, turning, scanner, evq, dest, sleepers>>

\* The assignment of sctx_status::constructing, under no lock.
Construct(l) ==
    /\ hand[l] # NoCtx
    /\ type[hand[l]] = "free"
    /\ type' = [type EXCEPT ![hand[l]] = "constructing"]
    /\ UNCHANGED <<b_waiting, reg, connection, list, turning, scanner, evq, hand, dest, sleepers>>

\* The address filter, or a limit, refuses the connection.
Refuse(l) ==
    /\ hand[l] # NoCtx
    /\ type[hand[l]] = "constructing"
    /\ sock[hand[l]] = "none"
    /\ PutDown(l, "free")
    /\ UNCHANGED <<age, scanner, evq, dest, sleepers>>

\* The connection is moved into the context.
Attach(l) ==
    /\ hand[l] # NoCtx
    /\ type[hand[l]] = "constructing"
    /\ sock[hand[l]] = "none"
    /\ sock' = [sock EXCEPT ![hand[l]] = "open"]
    /\ UNCHANGED <<type, b_waiting, reg, age, list, turning, scanner, evq, hand, dest, sleepers>>

\* The constructed context goes to the polling list.
StartPolling(l) ==
    /\ hand[l] # NoCtx
    /\ type[hand[l]] = "constructing"
    /\ sock[hand[l]] = "open"
    /\ PutDown(l, "polling")
    /\ UNCHANGED <<age, scanner, evq, dest, sleepers>>

Listener(l) == GetFree(l) \/ Construct(l) \/ Refuse(l) \/ Attach(l) \/ StartPolling(l)

-----------------------------------------------------------------------------
(* Pool threads                                                            *)

\* contexts_pool_get_context(turning): the type stays turning while it is served.
GetTurning(w) ==
    /\ hand[w] = NoCtx
    /\ turning # <<>>
    /\ hand' = [hand EXCEPT ![w] = Head(turning)]
    /\ turning' = Tail(turning)
    /\ UNCHANGED <<type, b_waiting, reg, connection, list, scanner, evq, dest, sleepers>>

\* What the parser does when it read or wrote something: last_timestamp is renewed and
\* any result may follow.  Without progress the socket is only polled again before the
\* timeout.
ParserResults(c, progress) ==
    {"turning", "idling", "sleeping", "free"} \cup
        (IF progress \/ age[c] = 0 THEN {"polling"} ELSE {})

\* threads_pool_process_func.  A result of close has closed the connection; the parser
\* that returns sleeping has pushed the context on g_sleeping_list before.
Process(w) ==
    /\ hand[w] # NoCtx
    /\ dest[w] = "none"
    /\ \E progress \in BOOLEAN : \E t \in ParserResults(hand[w], progress) :
        /\ dest' = [dest EXCEPT ![w] = t]
        /\ age' = [age EXCEPT ![hand[w]] = IF progress \/ t = "free" THEN 0 ELSE @]
        /\ sock' = [sock EXCEPT ![hand[w]] = IF t = "free" THEN "none" ELSE @]
        /\ reg' = [reg EXCEPT ![hand[w]] = IF t = "free" THEN "none" ELSE @]
        /\ slist' = IF t = "sleeping" THEN Append(slist, hand[w]) ELSE slist
    /\ UNCHANGED <<type, b_waiting, list, turning, scanner, evq, hand, wake>>

\* The switch on the result in tpol_thrwork.
PutResult(w) ==
    /\ dest[w] # "none"
    /\ PutDown(w, dest[w])
    /\ dest' = [dest EXCEPT ![w] = "none"]
    /\ UNCHANGED <<age, scanner, evq, sleepers>>

Worker(w) == GetTurning(w) \/ Process(w) \/ PutResult(w)

-----------------------------------------------------------------------------
(* The epoll thread                                                        *)

Armed == {c \in Ctx : reg[c] = "armed"}

\* evqueue::wait: a batch of armed sockets; EPOLLONESHOT disarms each of them.
EpollWait ==
    /\ evq = {} /\ hand[Epoll] = NoCtx
    /\ \E S \in SUBSET Armed :
        /\ S # {}
        /\ evq' = S
        /\ reg' = [c \in Ctx |-> IF c \in S THEN "disarmed" ELSE reg[c]]
    /\ UNCHANGED <<type, b_waiting, connection, list, turning, scanner, hand, dest, sleepers>>

\* Thread a takes c off list t, whose lock it holds, for the turning list.
TakeOff(a, t, c) ==
    /\ RemoveFrom(t, c)
    /\ type' = [type EXCEPT ![c] = "switching"]
    /\ hand' = [hand EXCEPT ![a] = c]

\* Mutant of EventTakes: the type is not looked at again under the polling lock.
EventTakesStale(c) == b_waiting[c]

\* One event of the batch, under the polling lock.
EventTakes(c) == type[c] = "polling" /\ b_waiting[c]

EpollTake ==
    /\ hand[Epoll] = NoCtx
    /\ \E c \in evq :
        /\ EventTakes(c)
        /\ TakeOff(Epoll, "polling", c)
        /\ evq' = evq \ {c}
    /\ UNCHANGED <<b_waiting, reg, connection, turning, scanner, dest, sleepers>>

\* An event of a context that moved on since, or that does not wait.
EpollSkip ==
    /\ hand[Epoll] = NoCtx
    /\ \E c \in evq : ~EventTakes(c) /\ evq' = evq \ {c}
    /\ UNCHANGED <<type, b_waiting, reg, connection, list, turning, scanner, hand, dest, sleepers>>

\* Mutant of EpollPut: the context goes back to the list it came from.
EpollPutBack ==
    /\ PutDown(Epoll, "polling")
    /\ UNCHANGED <<age, scanner, evq, dest, sleepers>>

EpollPut ==
    /\ PutDown(Epoll, "turning")
    /\ UNCHANGED <<age, scanner, evq, dest, sleepers>>

EpollThread == EpollWait \/ EpollTake \/ EpollSkip \/ EpollPut

-----------------------------------------------------------------------------
(* The scan thread                                                         *)

\* Mutant of NotWaiting: the scan leaves contexts alone that do not wait.
NotWaitingIgnored == {}

\* Contexts of the polling list that do not wait for the socket any more.
NotWaiting == {c \in list["polling"] : ~b_waiting[c]}

\* Contexts of the polling list past the timeout, whose EPOLL_CTL_DEL succeeds.
TimedOut == {c \in list["polling"] : b_waiting[c] /\ age[c] >= 1 /\ reg[c] # "none"}

\* The pass over the polling list, under its lock.
ScanPolling ==
    /\ scan = "polling"
    /\ scan' = "idling"
    /\ LET moved == NotWaiting \cup TimedOut IN
        /\ temp' = temp \cup moved
        /\ list' = [list EXCEPT !["polling"] = @ \ moved]
        /\ type' = [c \in Ctx |-> IF c \in moved THEN "switching" ELSE type[c]]
        /\ b_waiting' = [c \in Ctx |-> IF c \in TimedOut THEN FALSE ELSE b_waiting[c]]
        /\ reg' = [c \in Ctx |-> IF c \in TimedOut THEN "none" ELSE reg[c]]
    /\ UNCHANGED <<connection, turning, evq, hand, dest, sleepers>>

\* Mutant of ScanIdling: the contexts keep the type idling on the temporary list.
ScanIdlingSilent ==
    /\ scan = "idling"
    /\ scan' = "turning"
    /\ temp' = temp \cup list["idling"]
    /\ list' = [list EXCEPT !["idling"] = {}]
    /\ UNCHANGED <<type, b_waiting, reg, connection, turning, evq, hand, dest, sleepers>>

\* The pass over the idling list, under its lock.
ScanIdling ==
    /\ scan = "idling"
    /\ scan' = "turning"
    /\ temp' = temp \cup list["idling"]
    /\ list' = [list EXCEPT !["idling"] = {}]
    /\ type' = [c \in Ctx |-> IF c \in list["idling"] THEN "switching" ELSE type[c]]
    /\ UNCHANGED <<b_waiting, reg, connection, turning, evq, hand, dest, sleepers>>

\* The temporary list is appended to turning, under its lock; sleep(1) follows.
ScanTurning ==
    /\ scan = "turning"
    /\ scan' = "polling"
    /\ temp' = {}
    /\ type' = [c \in Ctx |-> IF c \in temp THEN "turning" ELSE type[c]]
    /\ \E s \in Orders(temp) : turning' = turning \o s
    /\ UNCHANGED <<b_waiting, reg, connection, list, evq, hand, dest, sleepers>>

ScanThread == ScanPolling \/ ScanIdling \/ ScanTurning

-----------------------------------------------------------------------------
(* Notifiers                                                               *)

\* contexts_pool_signal up to the unlock of the idling list.
Signal(n) ==
    /\ hand[n] = NoCtx
    /\ \E c \in Ctx : type[c] = "idling" /\ TakeOff(n, "idling", c)
    /\ UNCHANGED <<b_waiting, reg, connection, turning, scanner, evq, dest, sleepers>>

\* context_pool_activate_context up to the unlock of the polling list.
Activate(n) ==
    /\ hand[n] = NoCtx
    /\ \E c \in Ctx : type[c] = "polling" /\ TakeOff(n, "polling", c)
    /\ UNCHANGED <<b_waiting, reg, connection, turning, scanner, evq, dest, sleepers>>

\* The rest of either: the context is appended to turning.
NotifierPut(n) ==
    /\ PutDown(n, "turning")
    /\ UNCHANGED <<age, scanner, evq, dest, sleepers>>

Notifier(n) == Signal(n) \/ Activate(n) \/ NotifierPut(n)

-----------------------------------------------------------------------------
(* The IMAP waker                                                          *)

\* The head of g_sleeping_list has a notification, input, a lost peer, or is past the
\* autologout time: it is to be woken.
WakeFirst ==
    /\ wake = NoCtx /\ hand[Waker] = NoCtx
    /\ slist # <<>>
    /\ wake' = Head(slist)
    /\ slist' = Tail(slist)
    /\ UNCHANGED <<type, b_waiting, reg, connection, list, turning, scanner, evq, hand, dest>>

\* The head has nothing to report and goes to the end of g_sleeping_list.
KeepAsleep ==
    /\ wake = NoCtx /\ hand[Waker] = NoCtx
    /\ slist # <<>>
    /\ age[Head(slist)] < MaxAge
    /\ slist' = Append(Tail(slist), Head(slist))
    /\ UNCHANGED <<type, b_waiting, reg, connection, list, turning, scanner, evq, hand, dest, wake>>

\* Mutant of WakeTake: the waker does not wait for the context to fall asleep.
WakeTakeEarly ==
    /\ wake # NoCtx
    /\ RemoveFrom("sleeping", wake)
    /\ hand' = [hand EXCEPT ![Waker] = wake]
    /\ wake' = NoCtx
    /\ UNCHANGED <<type, b_waiting, reg, connection, turning, scanner, evq, dest, slist>>

\* contexts_pool_wakeup_context: waits, under no lock, until the type is sleeping, then
\* removes the context from the sleeping list under its lock.
WakeTake ==
    /\ wake # NoCtx
    /\ type[wake] = "sleeping"
    /\ RemoveFrom("sleeping", wake)
    /\ hand' = [hand EXCEPT ![Waker] = wake]
    /\ wake' = NoCtx
    /\ UNCHANGED <<type, b_waiting, reg, connection, turning, scanner, evq, dest, slist>>

WakePut ==
    /\ PutDown(Waker, "turning")
    /\ UNCHANGED <<age, scanner, evq, dest, sleepers>>

WakerThread == WakeFirst \/ KeepAsleep \/ WakeTake \/ WakePut

-----------------------------------------------------------------------------
\* Time passes for a connected context: now - last_timestamp reaches the next timeout.
Tick(c) ==
    /\ sock[c] # "none"
    /\ age[c] < MaxAge
    /\ age' = [age EXCEPT ![c] = @ + 1]
    /\ UNCHANGED <<type, b_waiting, reg, sock, list, turning, scanner, evq, hand, dest, sleepers>>

Next ==
    \/ \E l \in Listeners : Listener(l)
    \/ \E w \in Workers : Worker(w)
    \/ EpollThread
    \/ ScanThread
    \/ \E n \in Notifiers : Notifier(n)
    \/ WakerThread
    \/ \E c \in Ctx : Tick(c)

Spec == Init /\ [][Next]_vars

\* Threads run and time passes.  No event, connection or notification is promised, and
\* none of the listener's, epoll's or notifiers' choices is.
Fairness ==
    /\ \A w \in Workers : WF_vars(Worker(w))
    /\ WF_vars(EpollTake \/ EpollSkip \/ EpollPut)
    /\ WF_vars(ScanThread)
    /\ \A n \in Notifiers : WF_vars(NotifierPut(n))
    /\ WF_vars(WakerThread)
    /\ \A c \in Ctx : WF_vars(Tick(c))

FairSpec == Spec /\ Fairness

-----------------------------------------------------------------------------
(* Properties                                                              *)

\* Every variable has its type; what a thread holds is a context or nothing
\* (contexts_pool.cpp).
TypeOK ==
    /\ type \in [Ctx -> Statuses]
    /\ b_waiting \in [Ctx -> BOOLEAN]
    /\ sock \in [Ctx -> {"none", "open", "shut"}]
    /\ reg \in [Ctx -> {"none", "armed", "disarmed"}]
    /\ age \in [Ctx -> 0..MaxAge]
    /\ list \in [SetLists -> SUBSET Ctx]
    /\ turning \in Seq(Ctx)
    /\ temp \in SUBSET Ctx
    /\ scan \in {"polling", "idling", "turning"}
    /\ evq \in SUBSET Ctx
    /\ hand \in [Agents -> Ctx \cup {NoCtx}]
    /\ dest \in [Workers -> SetLists \cup {"turning", "none"}]
    /\ slist \in Seq(Ctx)
    /\ wake \in Ctx \cup {NoCtx}

\* The contexts at each place a context can be: a list, or the hand of a thread.
At(p) ==
    CASE p \in SetLists -> list[p]
      [] p = "turning" -> Range(turning)
      [] p = "temp" -> temp

Places == SetLists \cup {"turning", "temp"}

\* Every context is at exactly one place at every moment - one of the five lists, the
\* scan thread's temporary list, or the hands of one thread - and stands on the turning
\* list at most once.  So no connection is ever served by two pool threads, none is lost
\* by a hand-over between two locks, and double_list_append never links a linked node.
OnePlace ==
    /\ IsInjective(turning)
    /\ \A p, q \in Places : p # q => At(p) \cap At(q) = {}
    /\ \A a, b \in Agents : a # b /\ hand[a] # NoCtx => hand[a] # hand[b]
    /\ \A a \in Agents, p \in Places : hand[a] \notin At(p)
    /\ \A c \in Ctx : (\E p \in Places : c \in At(p)) \/ (\E a \in Agents : hand[a] = c)

\* The type field, which is written under five different locks and once under none, is
\* right whenever a thread relies on it: a context whose type says idling, polling or
\* sleeping under that list's lock is on that list, so that double_list_remove in
\* contexts_pool_signal, contexts_pool_wakeup_context, context_pool_activate_context and
\* ctxp_thrwork only ever unlinks a node of the list it locks.  (The waker reads the
\* type under no lock; between its own removal and insertion the type still says
\* sleeping, but the waker is then the only one that knows the context.)
TypeTellsList ==
    \A c \in Ctx :
        /\ type[c] = "idling" <=> c \in list["idling"]
        /\ type[c] = "polling" <=> c \in list["polling"]
        /\ type[c] = "sleeping" <=> c \in list["sleeping"] \/ c = hand[Waker]

\* A context on the free list has no connection, is not in the epoll set and does not
\* claim to wait, whatever events and timeouts it met in its last life: the next
\* connection starts from a clean context and EPOLL_CTL_ADD cannot meet EEXIST.
FreeIsClean ==
    \A c \in list["free"] : sock[c] = "none" /\ reg[c] = "none" /\ ~b_waiting[c]

\* No socket event is lost: a context that waits on the polling list has its socket armed
\* in the epoll set, or the event that disarmed it is still in the epoll thread's batch,
\* whatever stale events of earlier rounds that batch holds.  The exception is a socket
\* that could not be added again: it waits outside the epoll set.
NoLostEvent ==
    \A c \in list["polling"] : b_waiting[c] =>
        reg[c] = "armed" \/ c \in evq \/ (AddMayFail /\ reg[c] = "none")

\* Every sleeping context is known to the waker, exactly once, and whatever the waker
\* knows is asleep or about to be: nobody oversleeps, and the wait in
\* contexts_pool_wakeup_context ends.
SleepersKnown ==
    /\ IsInjective(slist)
    /\ wake \notin Range(slist)
    /\ list["sleeping"] \subseteq Range(slist) \cup {wake}
    /\ \A c \in Range(slist) \cup ({wake} \ {NoCtx}) :
        \/ c \in list["sleeping"]
        \/ \E w \in Workers : hand[w] = c /\ dest[w] = "sleeping"

\* Where a context is in its life: the refinement mapping to ConnectionLife.
StageOf(c) ==
    CASE c \in list["free"] -> "free"
      [] \E l \in Listeners : hand[l] = c -> "setup"
      [] c \in list["idling"] \cup list["polling"] \cup list["sleeping"] -> "waiting"
      [] \E w \in Workers : hand[w] = c -> "served"
      [] OTHER -> "ready"

Life == INSTANCE ConnectionLife WITH
    stage  <- [c \in Ctx |-> StageOf(c)],
    server <- [c \in Ctx |-> {w \in Workers : hand[w] = c}]

\* The pool with its lists, locks, events and timeouts implements the life of a connection
\* in ConnectionLife: whichever thread moves it, a context becomes free only at the end of
\* a service or when its listener refuses the connection, is ready before it is served,
\* and no pool thread serves two contexts, and no two threads one.
LifeSpec == Life!Spec

\* What waits is served: an idling context within a scan round, even if its signal came
\* before it was idling; a polling context by an event or at the latest by the timeout; a
\* sleeping one at the latest by the autologout; a turning one by its turn in the queue.
Served(c) == \E w \in Workers : hand[w] = c

Waiting(c) == c \in list["idling"] \cup list["polling"] \cup list["sleeping"]

WaitingServed == \A c \in Ctx : Waiting(c) ~> Served(c)

=============================================================================
