------------------------------ MODULE EventHub ------------------------------
(***************************************************************************)
(* The event daemon (tools/event.cpp) with its clients, the proxy that     *)
(* sends (mra/event_proxy.cpp) and the stub that receives                  *)
(* (mra/event_stub.cpp).                                                   *)
(*                                                                         *)
(* A process is a host to the daemon, known by its res_id.  Its proxy      *)
(* connections are served by an enqueue thread each and carry SELECT,      *)
(* UNSELECT and the events; its stub connections say LISTEN, are handed    *)
(* over to the dequeue threads and get the events of the selected folders, *)
(* each event over one of them.  The threads of a pool are alike and are   *)
(* counted: asleep on the condition variable, notified, busy with a        *)
(* connection, and otherwise on their way to the wait.  A notification     *)
(* that finds nobody asleep is lost.                                       *)
(*                                                                         *)
(* A connection is <<c, g>>: the daemon may still hold one that client c   *)
(* has given up while c is at its next, and Generations bounds how many.   *)
(* Time is left out: what may happen after an interval may happen.         *)
(***************************************************************************)
EXTENDS Naturals, Sequences, FiniteSets, SequencesExt

CONSTANTS Hosts, Proxies, Stubs,
          Owner,        \* the host of each proxy and stub connection
          Folders,      \* user and folder
          Events,       \* each is sent once
          EnqThreads, DeqThreads,   \* g_threads_num
          FifoMax,      \* FIFO_AVERAGE_LENGTH
          Generations, MaxFaults

Clients == Proxies \cup Stubs
Socks == UNION {{c} \X (1..Generations[c]) : c \in Clients}

ASSUME HubAssumption ==
    /\ Proxies \cap Stubs = {} /\ Owner \in [Clients -> Hosts]
    /\ EnqThreads \in Nat /\ DeqThreads \in Nat /\ FifoMax \in Nat
    /\ Generations \in [Clients -> Nat] /\ MaxFaults \in Nat

VARIABLES
    g_enqueue_list1, g_enqueue_list,    \* connections accepted, and in service
    enq, deq,           \* threads that wait and that have been notified
    g_host_list,        \* hosts that have a HOST_NODE
    hash,               \* their selected folders
    list,               \* their DEQUEUE_NODEs, next one first
    g_dequeue_list1, served,    \* of these, those without and with a thread
    answering,          \* LISTEN is done but for its answer
    fifo,
    cur,                \* generation of a client's connection, 0 for none
    ready,              \* clients that have been answered TRUE
    ended,              \* stub threads that have returned
    wants,              \* folders that sessions of a host have selected
    unsent, got,        \* events to come, and received by a host
    faults              \* broken connections and restarts so far

conns   == <<g_enqueue_list1, g_enqueue_list, enq>>
hosts   == <<g_host_list, hash, list>>
nodes   == <<g_dequeue_list1, served, answering, deq, fifo>>
clients == <<cur, ready, ended, wants, unsent, got>>
vars == <<conns, hosts, nodes, clients, faults>>

Host(k) == Owner[k[1]]
Alive(k) == cur[k[1]] = k[2]
Rng(q) == {q[i] : i \in 1..Len(q)}

\* Everything the daemon refers to.
Held == Rng(g_enqueue_list1) \cup g_enqueue_list \cup Rng(g_dequeue_list1)
        \cup served \cup UNION {Rng(list[h]) : h \in Hosts}

NoThreads == [wait |-> 0, awake |-> 0]

Init ==
    /\ g_enqueue_list1 = <<>> /\ g_enqueue_list = {}
    /\ enq = NoThreads /\ deq = NoThreads
    /\ g_host_list = {}
    /\ hash = [h \in Hosts |-> {}] /\ list = [h \in Hosts |-> <<>>]
    /\ g_dequeue_list1 = <<>> /\ served = {} /\ answering = {}
    /\ fifo = [k \in Socks |-> <<>>]
    /\ cur = [c \in Clients |-> 0] /\ ready = {} /\ ended = {}
    /\ wants = [h \in Hosts |-> {}]
    /\ unsent = Events /\ got = [h \in Hosts |-> {}]
    /\ faults = 0

-----------------------------------------------------------------------------
\* The two pools of threads.

\* notify_one
Notified(pool) ==
    IF pool.wait > 0
    THEN [wait |-> pool.wait - 1, awake |-> pool.awake + 1] ELSE pool

EnqFree == EnqThreads - enq.wait - enq.awake - Cardinality(g_enqueue_list)
DeqFree == DeqThreads - deq.wait - deq.awake - Cardinality(served)

EnqWait ==
    /\ EnqFree > 0
    /\ enq' = [enq EXCEPT !.wait = @ + 1]
    /\ UNCHANGED <<g_enqueue_list1, g_enqueue_list, hosts, nodes, clients, faults>>

DeqWait ==
    /\ DeqFree > 0
    /\ deq' = [deq EXCEPT !.wait = @ + 1]
    /\ UNCHANGED <<conns, hosts, g_dequeue_list1, served, answering, fifo,
                   clients, faults>>

\* ev_enqwork: one connection for a notification, whichever is first.
EnqTake ==
    /\ enq.awake > 0
    /\ enq' = [enq EXCEPT !.awake = @ - 1]
    /\ IF g_enqueue_list1 = <<>>
       THEN UNCHANGED <<g_enqueue_list1, g_enqueue_list>>
       ELSE /\ g_enqueue_list' = g_enqueue_list \cup {Head(g_enqueue_list1)}
            /\ g_enqueue_list1' = Tail(g_enqueue_list1)
    /\ UNCHANGED <<hosts, nodes, clients, faults>>

\* ev_deqwork: the node is dropped when its host is not found.
DeqTake ==
    /\ deq.awake > 0
    /\ deq' = [deq EXCEPT !.awake = @ - 1]
    /\ IF g_dequeue_list1 = <<>>
       THEN UNCHANGED <<g_dequeue_list1, served>>
       ELSE /\ g_dequeue_list1' = Tail(g_dequeue_list1)
            /\ served' = served \cup {k \in {Head(g_dequeue_list1)} :
                                          Host(k) \in g_host_list}
    /\ UNCHANGED <<conns, hosts, answering, fifo, clients, faults>>

-----------------------------------------------------------------------------
\* Connecting: ev_acceptwork, and connect_event of proxy and stub.

Connect(c) ==
    /\ cur[c] = 0 /\ c \notin ended
    /\ Cardinality(g_enqueue_list) + 1 + Len(g_enqueue_list1) < EnqThreads
    /\ \E g \in 1..Generations[c] :
           /\ <<c, g>> \notin Held
           /\ cur' = [cur EXCEPT ![c] = g]
           /\ g_enqueue_list1' = Append(g_enqueue_list1, <<c, g>>)
    /\ enq' = Notified(enq)
    /\ UNCHANGED <<g_enqueue_list, hosts, nodes, ready, ended, wants, unsent,
                   got, faults>>

\* The connection breaks, or the client has waited SOCKET_TIMEOUT for an
\* answer, and closes.
Close(c) ==
    /\ cur' = [cur EXCEPT ![c] = 0]
    /\ ready' = ready \ {c}

Break(c) ==
    /\ cur[c] # 0 /\ faults < MaxFaults
    /\ faults' = faults + 1
    /\ Close(c)
    /\ UNCHANGED <<conns, hosts, nodes, ended, wants, unsent, got>>

\* read_mark fails.
EnqHangup(k) ==
    /\ k \in g_enqueue_list \ answering /\ ~Alive(k)
    /\ g_enqueue_list' = g_enqueue_list \ {k}
    /\ UNCHANGED <<g_enqueue_list1, enq, hosts, nodes, clients, faults>>

\* q_id
Identify(k) ==
    /\ k \in g_enqueue_list /\ Alive(k)
    /\ k[1] \in Proxies \ ready
    /\ ready' = ready \cup {k[1]}
    /\ UNCHANGED <<conns, hosts, nodes, cur, ended, wants, unsent, got, faults>>

\* q_listen, under g_host_lock: the node is published.
Listen(k) ==
    LET h == Host(k) IN
    /\ k \in g_enqueue_list \ answering /\ Alive(k) /\ k[1] \in Stubs
    /\ g_host_list' = g_host_list \cup {h}
    /\ list' = [list EXCEPT ![h] = Append(@, k)]
    /\ g_dequeue_list1' = Append(g_dequeue_list1, k)
    /\ answering' = answering \cup {k}
    /\ UNCHANGED <<conns, hash, served, deq, fifo, clients, faults>>

\* ... and then answered, and a dequeue thread is notified.
ListenDone(k) ==
    /\ k \in answering
    /\ answering' = answering \ {k}
    /\ g_enqueue_list' = g_enqueue_list \ {k}
    /\ ready' = ready \cup {c \in {k[1]} : Alive(k)}
    /\ deq' = Notified(deq)
    /\ UNCHANGED <<g_enqueue_list1, enq, hosts, g_dequeue_list1, served, fifo,
                   cur, ended, wants, unsent, got, faults>>

-----------------------------------------------------------------------------
\* What a process sends: broadcast_event takes a connection of g_back_list; if
\* there is none, or it turns out to be broken, nothing is sent, and no answer
\* of the daemon is looked at.

Connected(h) == \E k \in g_enqueue_list : k[1] \in ready /\ Alive(k)
                                          /\ Host(k) = h

\* q_select: only a host that has said LISTEN has a hash.
AddSelection(h, f) ==
    hash' = [hash EXCEPT ![h] =
        IF Connected(h) /\ h \in g_host_list THEN @ \cup {f} ELSE @]

\* The hosts that receive events.
Listening == {Owner[s] : s \in Stubs}

\* The first session of the host selects the folder: imap_parser_add_select.
Select(h, f) ==
    /\ f \notin wants[h] /\ h \in Listening
    /\ wants' = [wants EXCEPT ![h] = @ \cup {f}]
    /\ AddSelection(h, f)
    /\ UNCHANGED <<conns, g_host_list, list, nodes, cur, ready, ended, unsent,
                   got, faults>>

\* Mutant of Reselect: a selection the daemon does not know is not sent.
ReselectKnown(h, f) ==
    /\ f \in wants[h] \cap hash[h]
    /\ UNCHANGED vars

\* imps_scanwork sends the SELECT of every session again.
Reselect(h, f) ==
    /\ f \in wants[h]
    /\ AddSelection(h, f)
    /\ UNCHANGED <<conns, g_host_list, list, nodes, clients, faults>>

\* The last session leaves it: q_unselect.
Unselect(h, f) ==
    /\ f \in wants[h]
    /\ wants' = [wants EXCEPT ![h] = @ \ {f}]
    /\ hash' = [hash EXCEPT ![h] = IF Connected(h) THEN @ \ {f} ELSE @]
    /\ UNCHANGED <<conns, g_host_list, list, nodes, cur, ready, ended, unsent,
                   got, faults>>

\* Hosts that get an event of host h on folder f, each over its first node.
Targets(h, f) == {o \in g_host_list \ {h} : f \in hash[o] /\ list[o] # <<>>}
FirstNode(h) == Head(list[h])
Rotated(q) == Append(Tail(q), Head(q))

\* Mutant of SendEvent: every node of the host gets the event.
SendEventToAll(h, f, e) ==
    /\ e \in unsent
    /\ unsent' = unsent \ {e}
    /\ fifo' = [k \in Socks |->
           IF /\ Connected(h) /\ Len(fifo[k]) < FifoMax
              /\ \E o \in Targets(h, f) : k \in Rng(list[o])
           THEN Append(fifo[k], e) ELSE fifo[k]]
    /\ UNCHANGED <<conns, hosts, g_dequeue_list1, served, answering, deq, cur,
                   ready, ended, wants, got, faults>>

\* q_else.  The fifo is filled under the lock of the connection and emptied under
\* g_dequeue_lock (event.cpp:586, 677): what is put into one whose thread is at
\* work may not arrive.  (Where the race ends the daemon, that is a Restart.)
SendEvent(h, f, e) ==
    LET T == Targets(h, f)
        heads == {FirstNode(o) : o \in T}
    IN
    /\ e \in unsent
    /\ unsent' = unsent \ {e}
    /\ IF Connected(h)
       THEN /\ list' = [o \in Hosts |->
                   IF o \in T THEN Rotated(list[o]) ELSE list[o]]
            /\ \E lost \in SUBSET (heads \cap served) :
                   fifo' = [k \in Socks |->
                       IF k \in heads \ lost /\ Len(fifo[k]) < FifoMax
                       THEN Append(fifo[k], e) ELSE fifo[k]]
       ELSE UNCHANGED <<list, fifo>>
    /\ UNCHANGED <<conns, g_host_list, hash, g_dequeue_list1, served,
                   answering, deq, cur, ready, ended, wants, got, faults>>

-----------------------------------------------------------------------------
\* ev_deqwork with a node, and evst_thrwork at the other end.

DropNode(k) ==
    /\ list' = [list EXCEPT ![Host(k)] = RemoveFirst(@, k)]
    /\ fifo' = [fifo EXCEPT ![k] = <<>>]
    /\ served' = served \ {k}

\* An event is written, handled and answered.
Deliver(k) ==
    /\ k \in served /\ fifo[k] # <<>> /\ Alive(k) /\ k[1] \in ready
    /\ fifo' = [fifo EXCEPT ![k] = Tail(@)]
    /\ got' = [got EXCEPT ![Host(k)] = @ \cup {Head(fifo[k])}]
    /\ UNCHANGED <<conns, hosts, g_dequeue_list1, served, answering, deq, cur,
                   ready, ended, wants, unsent, faults>>

\* The stub has not yet read the answer to LISTEN and takes the event for it.
DeliverTooEarly(k) ==
    /\ k \in served /\ fifo[k] # <<>> /\ Alive(k) /\ k[1] \notin ready
    /\ DropNode(k) /\ Close(k[1])
    /\ UNCHANGED <<conns, g_host_list, hash, g_dequeue_list1, answering, deq,
                   ended, wants, unsent, got, faults>>

\* The connection breaks before the stub has written its answer: the thread of
\* the stub returns.
DeliverBreaks(k) ==
    /\ k \in served /\ fifo[k] # <<>> /\ Alive(k) /\ k[1] \in ready
    /\ faults < MaxFaults
    /\ faults' = faults + 1
    /\ got' = [got EXCEPT ![Host(k)] = @ \cup {Head(fifo[k])}]
    /\ ended' = ended \cup {k[1]}
    /\ DropNode(k) /\ Close(k[1])
    /\ UNCHANGED <<conns, g_host_list, hash, g_dequeue_list1, answering, deq,
                   wants, unsent>>

\* Writing an event or a PING fails, or there is no response.
NodeLost(k) ==
    /\ k \in served /\ ~Alive(k)
    /\ DropNode(k)
    /\ UNCHANGED <<conns, g_host_list, hash, g_dequeue_list1, answering, deq,
                   clients, faults>>

-----------------------------------------------------------------------------
\* Mutant of HostExpires: the connections are not looked at.
HostExpiresInUse(h) ==
    /\ h \in g_host_list
    /\ g_host_list' = g_host_list \ {h}
    /\ hash' = [hash EXCEPT ![h] = {}]
    /\ list' = [list EXCEPT ![h] = <<>>]
    /\ UNCHANGED <<conns, nodes, clients, faults>>

\* ev_scanwork: a host without connections goes after HOST_INTERVAL.
HostExpires(h) ==
    /\ h \in g_host_list /\ list[h] = <<>>
    /\ g_host_list' = g_host_list \ {h}
    /\ hash' = [hash EXCEPT ![h] = {}]
    /\ UNCHANGED <<conns, list, nodes, clients, faults>>

\* A selection that nobody has sent again for SELECT_INTERVAL.
SelectionExpires(h, f) ==
    /\ f \in hash[h] /\ (f \notin wants[h] \/ ~Connected(h))
    /\ hash' = [hash EXCEPT ![h] = @ \ {f}]
    /\ UNCHANGED <<conns, g_host_list, list, nodes, clients, faults>>

\* The daemon is restarted.  Its clients see their connections closed.
Restart ==
    /\ faults < MaxFaults
    /\ faults' = faults + 1
    /\ g_enqueue_list1' = <<>> /\ g_enqueue_list' = {}
    /\ enq' = NoThreads /\ deq' = NoThreads
    /\ g_host_list' = {}
    /\ hash' = [h \in Hosts |-> {}] /\ list' = [h \in Hosts |-> <<>>]
    /\ g_dequeue_list1' = <<>> /\ served' = {} /\ answering' = {}
    /\ fifo' = [k \in Socks |-> <<>>]
    /\ cur' = [c \in Clients |-> 0] /\ ready' = {}
    /\ UNCHANGED <<ended, wants, unsent, got>>

-----------------------------------------------------------------------------
Threads == EnqWait \/ DeqWait \/ EnqTake \/ DeqTake

Connection(k) ==
    \/ EnqHangup(k) \/ Identify(k) \/ Listen(k) \/ ListenDone(k)
    \/ Deliver(k) \/ DeliverTooEarly(k) \/ DeliverBreaks(k) \/ NodeLost(k)

Process(h) ==
    \/ \E f \in Folders : Select(h, f) \/ Reselect(h, f) \/ Unselect(h, f)
    \/ \E f \in Folders, e \in Events : SendEvent(h, f, e)

Scan ==
    \/ \E h \in Hosts : HostExpires(h)
    \/ \E h \in Hosts, f \in Folders : SelectionExpires(h, f)

Next ==
    \/ Threads \/ Scan \/ Restart
    \/ \E c \in Clients : Connect(c) \/ Break(c)
    \/ \E k \in Socks : Connection(k)
    \/ \E h \in Hosts : Process(h)

Spec == Init /\ [][Next]_vars

-----------------------------------------------------------------------------
\* Every variable has its type; no more threads are busy, asleep or notified
\* than there are, and a fifo stays within its length (event.cpp).
TypeOK ==
    /\ Rng(g_enqueue_list1) \subseteq Socks /\ g_enqueue_list \subseteq Socks
    /\ answering \subseteq g_enqueue_list
    /\ \A pool \in {enq, deq} : pool \in [wait : Nat, awake : Nat]
    /\ EnqFree >= 0 /\ DeqFree >= 0
    /\ g_host_list \subseteq Hosts /\ hash \in [Hosts -> SUBSET Folders]
    /\ \A h \in Hosts : Rng(list[h]) \subseteq {k \in Socks : Host(k) = h}
    /\ Rng(g_dequeue_list1) \subseteq Socks /\ served \subseteq Socks
    /\ \A k \in Socks : /\ Len(fifo[k]) <= FifoMax
                        /\ Rng(fifo[k]) \subseteq Events
    /\ \A c \in Clients : cur[c] \in 0..Generations[c]
    /\ ready \subseteq {c \in Clients : cur[c] # 0} /\ ended \subseteq Stubs
    /\ wants \in [Hosts -> SUBSET Folders]
    /\ unsent \subseteq Events /\ got \in [Hosts -> SUBSET Events]

\* Every node that a dequeue thread works with, or is going to, is in the list
\* of a host that still exists: ev_deqwork keeps its pointer to the HOST_NODE
\* without holding g_host_lock.
HostAlive ==
    \A k \in served \cup Rng(g_dequeue_list1) :
        Host(k) \in g_host_list /\ k \in Rng(list[Host(k)])

\* An event reaches a host at most once, however many connections it listens
\* on, and waits in at most one of their queues.
EventOnce ==
    \A h \in Hosts, e \in Events :
        Cardinality({k \in Socks : Host(k) = h /\ e \in Rng(fifo[k])})
            + (IF e \in got[h] THEN 1 ELSE 0) <= 1

\* Every node in the list of a host has a dequeue thread or is in the queue for
\* one; of the two it has exactly one, so no node is lost or served twice.  It may
\* stay in the queue for long: a notification that is lost leaves it there.
NodeServed ==
    \A h \in Hosts : Rng(list[h]) = {k \in served \cup Rng(g_dequeue_list1) :
                                         Host(k) = h}

\* The nodes of the daemon are sound: each has its host, and a thread or a
\* place in the queue for one.
NodesSound == TypeOK /\ HostAlive /\ NodeServed

-----------------------------------------------------------------------------
\* What threads and clients do by themselves: they run, connect again after a
\* few seconds and notice a broken connection by PING.
Progress ==
    \/ Threads
    \/ \E c \in Clients : Connect(c)
    \/ \E k \in Socks : \/ EnqHangup(k) \/ Identify(k) \/ Listen(k)
                        \/ ListenDone(k) \/ Deliver(k) \/ DeliverTooEarly(k)
                        \/ NodeLost(k)

\* ... and imps_scanwork repeats its SELECTs every hour.
Fairness ==
    /\ WF_vars(Progress)
    /\ \A h \in Listening, f \in Folders : WF_vars(Reselect(h, f))

FairSpec == Spec /\ Fairness

\* A connection of the host is not in service and nobody is on the way to it: the
\* notification of one accepted before it, or of its own, found no thread asleep.
Unserved(h) == enq.awake = 0 /\ \E k \in Rng(g_enqueue_list1) : Host(k) = h

Deaf(h) == \A s \in Stubs : Owner[s] = h => s \in ended

\* A folder that sessions of a host keep selected is selected at the daemon,
\* again after a restart, a broken connection or an expiry, unless every stub
\* thread of the host has returned or one of its connections is left over by a
\* notification that was lost (event.cpp:603).
SelectionRestored ==
    \A h \in Listening, f \in Folders :
        f \in wants[h] ~> (\/ f \notin wants[h] \/ f \in hash[h]
                           \/ Deaf(h) \/ Unserved(h))

=============================================================================
