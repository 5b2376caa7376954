------------------------------ MODULE AsyncWaits ------------------------------
(***************************************************************************)
(* Asynchronous waits for notifications                                    *)
(* (exch/emsmdb/asyncemsmdb_interface.cpp), with both kinds of client:     *)
(* NotificationWait requests of MAPI over HTTP (exch/mh/emsmdb.cpp), which *)
(* occupy an HTTP context, and EcDoAsyncWaitEx calls of RPC over HTTP      *)
(* (exch/http/pdu_processor.cpp), which have an async_id.                  *)
(*                                                                         *)
(* A request that finds no notification is parked in g_tag_hash under the  *)
(* tag "user:cxr" of its session.  A wake-up takes it from there to        *)
(* g_wakeup_list for one of the wake-up threads; the scan thread takes it  *)
(* after WAITING_INTERVAL; a closed connection takes it back.  The sessions*)
(* (module EmsmdbHandles) appear as their outcomes: a request is for any   *)
(* tag, may be refused and may find a notification, and a wake-up may come *)
(* for any tag at any time.                                                *)
(***************************************************************************)
EXTENDS Naturals, Sequences, FiniteSets

CONSTANTS Waits,    \* ASYNC_WAIT objects
          Tags,     \* sessions as "user:cxr"
          Ctxs,     \* HTTP contexts (async_id 0)
          Calls,    \* async_ids of RPC calls
          Wakers,   \* threads of aemsi_thrwork
          Scan,     \* the thread of aemsi_scanwork
          MaxTags,  \* g_tag_hash_max
          MaxCalls, \* 2 * get_context_num()
          None

ASSUME WaitsAssumption ==
    /\ MaxTags \in Nat \ {0} /\ MaxCalls \in Nat \ {0}
    /\ Ctxs \cap Calls = {} /\ Scan \notin Wakers
    /\ None \notin Waits \cup Ctxs \cup Calls \cup Tags

Clients == Ctxs \cup Calls
Activators == Wakers \cup {Scan}

VARIABLES g_tag_hash, g_async_hash,  \* tag -> wait, async_id -> wait
          owner, tag,       \* of each wait: whose it is (None: not allocated)
          hand,             \* taken by a wakeup() that has not queued them yet
          g_wakeup_list,
          temp_list,        \* of the scan thread
          thr, act,         \* activators: place, and the wait in their hands
          pc, ctag,         \* clients: place and session of the request
          pending, notification,  \* status[] of MhEmsmdbPlugin
          keep,             \* its set of contexts to keep alive
          pdu,              \* g_async_hash of the PDU processor
          answers,          \* responses to the present request
          leftover          \* contexts that an earlier request's wait refers to

vars == <<g_tag_hash, g_async_hash, owner, tag, hand, g_wakeup_list, temp_list,
          thr, act, pc, ctag, pending, notification, keep, pdu, answers,
          leftover>>
hashes == <<g_tag_hash, g_async_hash>>
objects == <<owner, tag>>
queues == <<hand, g_wakeup_list, temp_list>>
threads == <<thr, act>>
clients == <<pc, ctag, answers, leftover>>
status == <<pending, notification, keep>>

Init ==
    /\ g_tag_hash = [t \in Tags |-> None] /\ g_async_hash = [c \in Calls |-> None]
    /\ owner = [w \in Waits |-> None] /\ tag = [w \in Waits |-> None]
    /\ hand = {} /\ g_wakeup_list = <<>> /\ temp_list = {}
    /\ thr = [k \in Activators |-> IF k = Scan THEN "idle" ELSE "wait"]
    /\ act = [k \in Activators |-> None]
    /\ pc = [c \in Clients |-> "idle"] /\ ctag = [c \in Clients |-> None]
    /\ pending = [c \in Ctxs |-> "none"]
    /\ notification = [c \in Ctxs |-> "none"] /\ keep = {}
    /\ pdu = [c \in Calls |-> "none"] /\ answers = [c \in Clients |-> 0]
    /\ leftover = {}

Goto(c, label) == pc' = [pc EXCEPT ![c] = label]
ThrGoto(k, label) == thr' = [thr EXCEPT ![k] = label]

Free(w) == /\ owner' = [owner EXCEPT ![w] = None]
           /\ tag' = [tag EXCEPT ![w] = None]

\* Erasing waits from both tables, one critical section under g_async_lock.
UnparkAll(S) ==
    /\ g_tag_hash' = [t \in Tags |-> IF g_tag_hash[t] \in S THEN None
                                     ELSE g_tag_hash[t]]
    /\ g_async_hash' = [c \in Calls |-> IF g_async_hash[c] \in S THEN None
                                        ELSE g_async_hash[c]]
Unpark(w) == UnparkAll({w})

Parked == {w \in Waits : \E t \in Tags : g_tag_hash[t] = w}

-----------------------------------------------------------------------------
\* The request: asyncemsmdb_interface_async_wait in the thread of the client.

Answer(c) == answers' = [answers EXCEPT ![c] = @ + 1]

\* A response at once (refused, or a notification is there already); for a call
\* cancel_async_id gives the async_id back.
AnswerAtOnce(c) ==
    /\ Answer(c) /\ Goto(c, "idle")
    /\ ctag' = [ctag EXCEPT ![c] = None]
    /\ pdu' = IF c \in Calls THEN [pdu EXCEPT ![c] = "none"] ELSE pdu

\* process() starts with a new status[] of the context.
ClearStatus(c) ==
    /\ pending' = IF c \in Ctxs THEN [pending EXCEPT ![c] = "none"] ELSE pending
    /\ notification' =
           IF c \in Ctxs THEN [notification EXCEPT ![c] = "none"] ELSE notification

\* A call draws an async_id, under which there is no node yet.
ApplyAsyncId(c) == pdu' = IF c \in Calls THEN [pdu EXCEPT ![c] = "null"] ELSE pdu

\* check_acxh finds the session, or refuses it.  No wait refers to the async_id
\* of a call yet.
Request(c, t) ==
    /\ pc[c] = "idle" /\ \A w \in Waits : c \in Calls => owner[w] # c
    /\ Cardinality({w \in Waits : owner[w] = None})    \* bound: enough objects
          > Cardinality({d \in Clients : pc[d] \in {"check", "park"}})
    /\ ClearStatus(c) /\ ApplyAsyncId(c)
    /\ ctag' = [ctag EXCEPT ![c] = t] /\ answers' = [answers EXCEPT ![c] = 0]
    /\ leftover' = IF \E w \in Waits : owner[w] = c THEN leftover \cup {c}
                   ELSE leftover \ {c}
    /\ Goto(c, "check")
    /\ UNCHANGED <<hashes, objects, queues, threads, keep>>

\* check_notify under the lock of the sessions; nothing protects the gap to
\* the next step.
CheckNotify(c) ==
    /\ pc[c] = "check"
    /\ \/ AnswerAtOnce(c)
       \/ Goto(c, "park") /\ UNCHANGED <<ctag, answers, pdu>>
    /\ UNCHANGED <<leftover, hashes, objects, queues, threads, status>>

TableHasRoom(c) ==
    /\ Cardinality({d \in Calls : g_async_hash[d] # None}) < MaxCalls \/ c \in Ctxs
    /\ Cardinality(Parked) < MaxTags

\* Mutant of MayPark: a wait of the session is replaced by the new one.
MayParkAgain(c) == TableHasRoom(c)

MayPark(c) == TableHasRoom(c) /\ g_tag_hash[ctag[c]] = None

\* Entering both tables, under g_async_lock.
Park(c) ==
    /\ pc[c] = "park"
    /\ \/ /\ ~MayPark(c) /\ AnswerAtOnce(c)
          /\ UNCHANGED <<hashes, objects>>
       \/ \E w \in Waits :
          /\ MayPark(c) /\ owner[w] = None
          /\ owner' = [owner EXCEPT ![w] = c]
          /\ tag' = [tag EXCEPT ![w] = ctag[c]]
          /\ g_tag_hash' = [g_tag_hash EXCEPT ![ctag[c]] = w]
          /\ g_async_hash' = IF c \in Calls THEN [g_async_hash EXCEPT ![c] = w]
                             ELSE g_async_hash
          /\ Goto(c, "mark") /\ UNCHANGED <<ctag, answers, pdu>>
    /\ UNCHANGED <<leftover, queues, threads, status>>

-----------------------------------------------------------------------------
\* The call of RPC over HTTP: its async node is made known (activate_async_id).
Activate(c) ==
    /\ c \in Calls /\ pc[c] = "mark"
    /\ pdu' = [pdu EXCEPT ![c] = "node"] /\ Goto(c, "sleep")
    /\ UNCHANGED <<leftover, hashes, objects, queues, threads, ctag, answers, status>>

\* The connection goes: free_context takes the node off and reclaims the wait.
CloseCall(c) ==
    /\ c \in Calls /\ pc[c] = "sleep"
    /\ pdu' = [pdu EXCEPT ![c] = "none"] /\ Goto(c, "reclaim")
    /\ UNCHANGED <<leftover, hashes, objects, queues, threads, ctag, answers, status>>

Reclaim(c) ==
    LET w == g_async_hash[c] IN
    /\ pc[c] = "reclaim" /\ Goto(c, "idle") /\ ctag' = [ctag EXCEPT ![c] = None]
    /\ IF w # None THEN Unpark(w) /\ Free(w) ELSE UNCHANGED <<hashes, objects>>
    /\ UNCHANGED <<leftover, queues, threads, answers, status, pdu>>

-----------------------------------------------------------------------------
\* The HTTP context: MhEmsmdbPlugin::wait, without a lock up to the last step.
MarkWaiting(c) ==
    /\ c \in Ctxs /\ pc[c] = "mark"
    /\ pending' = [pending EXCEPT ![c] = "waiting"] /\ Goto(c, "mark2")
    /\ UNCHANGED <<leftover, hashes, objects, queues, threads, ctag, answers, notification,
                   keep, pdu>>

MarkNone(c) ==
    /\ pc[c] = "mark2"
    /\ notification' = [notification EXCEPT ![c] = "none"] /\ Goto(c, "mark3")
    /\ UNCHANGED <<leftover, hashes, objects, queues, threads, ctag, answers, pending, keep,
                   pdu>>

MarkPending(c) ==
    /\ pc[c] = "mark3" /\ keep' = keep \cup {c} /\ Goto(c, "retr")
    /\ UNCHANGED <<leftover, hashes, objects, queues, threads, ctag, answers, pending,
                   notification, pdu>>

\* Mutant of RetrAnswer: notification_status is not reset.
RetrAnswerAgain(c) ==
    /\ pc[c] = "retr"
    /\ IF notification[c] # "none"
       THEN Answer(c) /\ UNCHANGED pc
       ELSE Goto(c, "retr2") /\ UNCHANGED answers
    /\ UNCHANGED <<leftover, hashes, objects, queues, threads, ctag, pending, keep,
                   notification, pdu>>

\* MhEmsmdbPlugin::retr, called whenever there is nothing left to write: first
\* it looks whether there is an answer ...
RetrAnswer(c) ==
    /\ pc[c] = "retr"
    /\ IF notification[c] # "none"
       THEN /\ Answer(c)
            /\ notification' = [notification EXCEPT ![c] = "none"]
            /\ UNCHANGED pc
       ELSE Goto(c, "retr2") /\ UNCHANGED <<notification, answers>>
    /\ UNCHANGED <<leftover, hashes, objects, queues, threads, ctag, pending, keep, pdu>>

\* ... then whether it is still waiting.
RetrPending(c) ==
    /\ pc[c] = "retr2"
    /\ Goto(c, CASE pending[c] = "none" -> "term"
                 [] pending[c] = "keepalive" -> "alive"
                 [] pending[c] = "waiting" -> "towait")
    /\ UNCHANGED <<leftover, hashes, objects, queues, threads, ctag, answers, status, pdu>>

\* "PENDING" is written to the client.
RetrKeepalive(c) ==
    /\ pc[c] = "alive"
    /\ pending' = [pending EXCEPT ![c] = "waiting"] /\ Goto(c, "retr")
    /\ UNCHANGED <<leftover, hashes, objects, queues, threads, ctag, answers, notification,
                   keep, pdu>>

\* htparse_wrrep_nobuf: sched_stat becomes wait.
GoToSleep(c) ==
    /\ pc[c] = "towait" /\ Goto(c, "sleep")
    /\ UNCHANGED <<leftover, hashes, objects, queues, threads, ctag, answers, status, pdu>>

\* hpm_processor_wakeup_context does nothing unless sched_stat is wait.
WakeContext(c) == pc' = IF pc[c] = "sleep" THEN [pc EXCEPT ![c] = "retr"] ELSE pc

\* MhEmsmdbPlugin::scanWork
Keepalive(c) ==
    /\ c \in keep
    /\ pending' = [pending EXCEPT ![c] = "keepalive"] /\ WakeContext(c)
    /\ UNCHANGED <<leftover, hashes, objects, queues, threads, ctag, answers, notification,
                   keep, pdu>>

\* The client closes its connection.
CloseCtx(c) ==
    /\ c \in Ctxs /\ pc[c] = "sleep" /\ Goto(c, "term")
    /\ UNCHANGED <<leftover, hashes, objects, queues, threads, ctag, answers, status, pdu>>

\* MhEmsmdbPlugin::term: at the end of a request and of a connection.
Term(c) ==
    /\ pc[c] = "term"
    /\ IF pending[c] = "none"
       THEN /\ Goto(c, "idle") /\ ctag' = [ctag EXCEPT ![c] = None]
            /\ UNCHANGED <<pending, keep>>
       ELSE /\ pending' = [pending EXCEPT ![c] = "none"] /\ keep' = keep \ {c}
            /\ Goto(c, "remove") /\ UNCHANGED ctag
    /\ UNCHANGED <<leftover, hashes, objects, queues, threads, answers, notification, pdu>>

\* asyncemsmdb_interface_remove: whatever waits under the tag of the session,
\* unless the session is gone.
RemoveWait(c) ==
    LET w == g_tag_hash[ctag[c]] IN
    /\ pc[c] = "remove" /\ Goto(c, "idle") /\ ctag' = [ctag EXCEPT ![c] = None]
    /\ \/ w # None /\ Unpark(w) /\ Free(w)
       \/ UNCHANGED <<hashes, objects>>
    /\ UNCHANGED <<leftover, queues, threads, answers, status, pdu>>

-----------------------------------------------------------------------------
\* asyncemsmdb_interface_wakeup, called for any session by the threads of
\* module EmsmdbHandles: out of the tables under g_async_lock ...
WakeTake(t) ==
    LET w == g_tag_hash[t] IN
    /\ w # None /\ Unpark(w) /\ hand' = hand \cup {w}
    /\ UNCHANGED <<objects, g_wakeup_list, temp_list, threads, clients, status,
                   pdu>>

\* ... and onto the list under g_list_lock; notify_one wakes up one of the
\* threads that wait, if one does.
WakeAppend(w) ==
    /\ w \in hand /\ hand' = hand \ {w}
    /\ g_wakeup_list' = Append(g_wakeup_list, w)
    /\ \/ \E k \in Wakers : thr[k] = "wait" /\ ThrGoto(k, "pop")
       \/ (\A k \in Wakers : thr[k] # "wait") /\ UNCHANGED thr
    /\ UNCHANGED <<hashes, objects, temp_list, act, clients, status, pdu>>

\* aemsi_thrwork: NEXT_WAKEUP
Pop(k) ==
    /\ thr[k] = "pop"
    /\ IF g_wakeup_list = <<>>
       THEN ThrGoto(k, "top") /\ UNCHANGED <<act, g_wakeup_list>>
       ELSE /\ act' = [act EXCEPT ![k] = Head(g_wakeup_list)]
            /\ g_wakeup_list' = Tail(g_wakeup_list) /\ ThrGoto(k, "act")
    /\ UNCHANGED <<hashes, objects, hand, temp_list, clients, status, pdu>>

\* The wait for the condition has no predicate and no time limit.
SleepWaker(k) ==
    /\ thr[k] = "top" /\ ThrGoto(k, "wait")
    /\ UNCHANGED <<hashes, objects, queues, act, clients, status, pdu>>

\* A thread also wakes up for a wait of another session, or spuriously.
OtherWakeup(k) ==
    /\ thr[k] = "wait" /\ ThrGoto(k, "pop")
    /\ UNCHANGED <<hashes, objects, queues, act, clients, status, pdu>>

\* Mutant of ScanTake: only the waits of calls have a time limit.
ScanTakeCalls(w) ==
    /\ thr[Scan] = "idle" /\ temp_list = {} /\ w \in Parked /\ owner[w] \in Calls
    /\ UnparkAll({w}) /\ temp_list' = {w}
    /\ UNCHANGED <<objects, hand, g_wakeup_list, threads, clients, status, pdu>>

\* aemsi_scanwork: one pass takes all waits that are too old (any may be, w
\* among them), then activates one after the other.
ScanTake(w) ==
    /\ thr[Scan] = "idle" /\ temp_list = {} /\ w \in Parked
    /\ \E S \in SUBSET Parked : w \in S /\ UnparkAll(S) /\ temp_list' = S
    /\ UNCHANGED <<objects, hand, g_wakeup_list, threads, clients, status, pdu>>

ScanNext(w) ==
    /\ thr[Scan] = "idle" /\ w \in temp_list
    /\ temp_list' = temp_list \ {w}
    /\ act' = [act EXCEPT ![Scan] = w] /\ ThrGoto(Scan, "act")
    /\ UNCHANGED <<hashes, objects, hand, g_wakeup_list, clients, status, pdu>>

-----------------------------------------------------------------------------
\* asyncemsmdb_interface_activate

Finished(k) ==
    /\ Free(act[k]) /\ act' = [act EXCEPT ![k] = None]
    /\ ThrGoto(k, IF k = Scan THEN "idle" ELSE "pop")

\* MhEmsmdbPlugin::async_wakeup, under pending_lock.
AsyncWakeup(k) ==
    LET c == owner[act[k]] IN
    /\ thr[k] = "act" /\ c \in Ctxs
    /\ IF pending[c] = "none"
       THEN Finished(k) /\ UNCHANGED status
       ELSE /\ notification' =
                  [notification EXCEPT ![c] = IF k = Scan THEN "timed" ELSE "pending"]
            /\ pending' = [pending EXCEPT ![c] = "none"]
            /\ keep' = keep \ {c}
            /\ ThrGoto(k, "signal") /\ UNCHANGED <<act, objects>>
    /\ UNCHANGED <<hashes, queues, clients, pdu>>

Signal(k) ==
    /\ thr[k] = "signal" /\ WakeContext(owner[act[k]]) /\ Finished(k)
    /\ UNCHANGED <<leftover, hashes, queues, ctag, answers, status, pdu>>

\* rpc_build_environment: waits for the node to be known, then takes the ID.
BuildEnvironment(k) ==
    LET c == owner[act[k]] IN
    /\ thr[k] = "act" /\ c \in Calls
    /\ \/ /\ pdu[c] = "none" /\ Finished(k) /\ UNCHANGED pdu
       \/ /\ pdu[c] = "node" /\ pdu' = [pdu EXCEPT ![c] = "none"]
          /\ ThrGoto(k, "reply") /\ UNCHANGED <<act, objects>>
    /\ UNCHANGED <<hashes, queues, clients, status>>

\* pdu_processor_async_reply: the node may have been freed in between.
AsyncReply(k) ==
    LET c == owner[act[k]] IN
    /\ thr[k] = "reply" /\ Finished(k)
    /\ IF pc[c] = "sleep"
       THEN Answer(c) /\ Goto(c, "idle") /\ ctag' = [ctag EXCEPT ![c] = None]
            /\ UNCHANGED leftover
       ELSE UNCHANGED clients
    /\ UNCHANGED <<hashes, queues, status, pdu>>
-----------------------------------------------------------------------------
ClientStep(c) ==
    \/ CheckNotify(c) \/ Park(c) \/ Activate(c) \/ Reclaim(c)
    \/ MarkWaiting(c) \/ MarkNone(c) \/ MarkPending(c)
    \/ RetrAnswer(c) \/ RetrPending(c) \/ RetrKeepalive(c) \/ GoToSleep(c)
    \/ Term(c) \/ RemoveWait(c)

ActivatorStep(k) ==
    \/ AsyncWakeup(k) \/ Signal(k) \/ BuildEnvironment(k) \/ AsyncReply(k)

Next ==
    \/ \E c \in Clients, t \in Tags : Request(c, t)
    \/ \E c \in Clients : ClientStep(c) \/ CloseCall(c) \/ CloseCtx(c)
    \/ \E c \in Ctxs : Keepalive(c)
    \/ \E t \in Tags : WakeTake(t)
    \/ \E w \in Waits : WakeAppend(w) \/ ScanTake(w) \/ ScanNext(w)
    \/ \E k \in Wakers : Pop(k) \/ SleepWaker(k) \/ OtherWakeup(k)
    \/ \E k \in Activators : ActivatorStep(k)

Spec == Init /\ [][Next]_vars

\* Threads that can go on do so; the scan thread looks every second and finds
\* every wait too old in the end.
Fairness ==
    /\ \A c \in Clients : WF_vars(ClientStep(c))
    /\ \A k \in Activators : WF_vars(ActivatorStep(k))
    /\ \A k \in Wakers : WF_vars(Pop(k) \/ SleepWaker(k))
    /\ \A w \in Waits : WF_vars(WakeAppend(w)) /\ SF_vars(ScanTake(w))
                        /\ WF_vars(ScanNext(w))

FairSpec == Spec /\ Fairness

-----------------------------------------------------------------------------
\* Every variable has its type (asyncemsmdb_interface.cpp, mh/emsmdb.cpp).
TypeOK ==
    /\ g_tag_hash \in [Tags -> Waits \cup {None}]
    /\ g_async_hash \in [Calls -> Waits \cup {None}]
    /\ owner \in [Waits -> Clients \cup {None}]
    /\ tag \in [Waits -> Tags \cup {None}]
    /\ hand \subseteq Waits /\ temp_list \subseteq Waits
    /\ g_wakeup_list \in Seq(Waits)
    /\ thr \in [Activators -> {"idle", "wait", "top", "pop", "act", "signal", "reply"}]
    /\ act \in [Activators -> Waits \cup {None}]
    /\ pc \in [Clients -> {"idle", "check", "park", "mark", "mark2", "mark3",
                           "retr", "retr2", "alive", "towait", "sleep", "term",
                           "remove", "reclaim"}]
    /\ ctag \in [Clients -> Tags \cup {None}] /\ keep \subseteq Ctxs
    /\ pending \in [Ctxs -> {"none", "waiting", "keepalive"}]
    /\ notification \in [Ctxs -> {"none", "timed", "pending"}]
    /\ pdu \in [Calls -> {"none", "null", "node"}]
    /\ answers \in [Clients -> Nat] /\ leftover \subseteq Ctxs

\* How often a wait is referred to, by any table, list or thread.
References(w) ==
    Cardinality({t \in Tags : g_tag_hash[t] = w})
    + Cardinality({i \in DOMAIN g_wakeup_list : g_wakeup_list[i] = w})
    + Cardinality({k \in Activators : act[k] = w})
    + Cardinality({q \in {"hand", "temp"} :
                     w \in (IF q = "hand" THEN hand ELSE temp_list)})

\* A wake-up, the time limit, a closing connection and a finished request all
\* take a wait out of the tables: only one of them gets it, so it is activated
\* or freed once, and none of them is left with one that has been freed.
WaitOnePlace == \A w \in Waits : References(w) = IF owner[w] = None THEN 0 ELSE 1

\* The two tables agree: a wait is parked under the tag of its session, and the
\* wait of a call is found under its async_id exactly as long as it is parked.
TablesAgree ==
    /\ \A t \in Tags : g_tag_hash[t] # None => tag[g_tag_hash[t]] = t
    /\ \A c \in Calls, w \in Waits :
          g_async_hash[c] = w <=> w \in Parked /\ owner[w] = c

\* The waits are sound: each in one place, and where both tables say it is.
WaitsSound == TypeOK /\ WaitOnePlace /\ TablesAgree

\* No request is answered twice, whatever late activations there are; only a
\* context that the wait of an earlier request still refers to (its connection
\* was closed after the wake-up had taken the wait) may get a second answer.
AtMostOneAnswer == \A c \in Clients : answers[c] <= 1 \/ c \in leftover

Unanswered(c) == pc[c] # "idle" /\ answers[c] = 0

Owned(c) == \E w \in Waits : owner[w] = c

\* Its wait is on g_wakeup_list, and all threads wait for the next wake-up.
Stranded(c) == /\ \E i \in DOMAIN g_wakeup_list : owner[g_wakeup_list[i]] = c
               /\ \A k \in Wakers : thr[k] = "wait"

\* It is still to be activated and has no wait any more: the activation came
\* before it was marked as waiting, or another request of the session removed
\* its wait.  An activation that is carried out leaves pending = "none".
Orphaned(c) ==
    /\ ~Owned(c)
    /\ IF c \in Calls
       THEN pc[c] = "sleep"
       ELSE /\ pc[c] \in {"retr", "retr2", "alive", "towait", "sleep"}
            /\ pending[c] # "none" /\ notification[c] = "none"

\* The answer is there and the activation is over, but its wake-up came just
\* before sched_stat was set.
Unnoticed(c) ==
    c \in Ctxs /\ pc[c] = "sleep" /\ notification[c] # "none" /\ ~Owned(c)

\* Every request that waits is over in the end, by a notification or by the
\* time limit or because the client closes, except in three races: the
\* notify_one of its wake-up found no thread waiting; it was activated before
\* it was marked as waiting, or its wait removed by another request of the
\* session; it went to sleep on its answer.  One that is activated between the
\* two halves of the marking is over without an answer (mh/emsmdb.cpp:699).
WaitIsOver ==
    \A c \in Clients :
        Unanswered(c) ~> \/ ~Unanswered(c) \/ Stranded(c)
                         \/ Orphaned(c) \/ Unnoticed(c)

=============================================================================
