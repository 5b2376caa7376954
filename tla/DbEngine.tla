------------------------------ MODULE DbEngine ------------------------------
(***************************************************************************)
(* The table of open mailboxes of the store (exch/exmdb/db_engine.cpp):    *)
(* db_engine_get_db and the references it hands out, the expiry thread,    *)
(* unload_store, and the threads that fill search folders.                 *)
(*                                                                         *)
(* A mailbox directory has at most one db_base in g_hash_table.  A base    *)
(* that has been erased is freed; its name is used again once no thread    *)
(* has a pointer to it.  giant_lock is held by the threads that are at     *)
(* "rd", "wr" or "enqueue".  What a base keeps for its clients is          *)
(* abstracted to one content table and one subscription.  SQL, the cached  *)
(* sqlite handles and the notifications themselves are left out, and so is *)
(* time: a base may grow older than g_cache_interval at any moment.        *)
(***************************************************************************)
EXTENDS Naturals, Sequences, FiniteSets

CONSTANTS Dirs, Bases, NoBase,
          Kinds,        \* "table", "nsub": what clients open by number
          Rpcs,         \* threads of the RPC server
          Populators,   \* threads of sf_popul_thread
          Expiry, Nobody,
          TableSize,    \* g_table_size
          MaxSearches   \* bound on the length of g_populating_list

Threads == Rpcs \cup Populators

ASSUME DbAssumption ==
    /\ NoBase \notin Bases \cup Dirs /\ Dirs # {} /\ Rpcs \cap Populators = {}
    /\ IsFiniteSet(Threads)
    /\ Expiry \notin Threads /\ Nobody \notin Threads \cup {Expiry}
    /\ Expiry # Nobody /\ Kinds \subseteq {"table", "nsub"}
    /\ TableSize \in Nat /\ MaxSearches \in Nat

VARIABLES
    g_hash_table,       \* the base of each directory
    hashlock,           \* who holds g_hash_lock over several steps
    left,               \* bases the expiry thread has still to look at
    reference,
    sqlite_lock,        \* bases whose open() is running
    aged,               \* bases created more than g_cache_interval ago
    has,                \* kinds of objects of a base
    held,               \* kinds of objects that clients of a mailbox hold
    lost,               \* mailboxes with a table that a reload has dropped
    pc, base, dir,      \* of each thread
    reload,             \* of a populator: "due" or "now", its table reload
    g_populating_list,
    lostwake            \* g_waken_cond was notified while nobody could see it

tablevars == <<g_hash_table, hashlock, left>>
basevars == <<reference, sqlite_lock, aged, has>>
clientvars == <<held, lost>>
searchvars == <<g_populating_list, lostwake>>
vars == <<tablevars, basevars, clientvars, pc, base, dir, reload, searchvars>>

InTable == {g_hash_table[d] : d \in Dirs} \ {NoBase}
Fresh(b) == b \notin InTable /\ \A t \in Threads : base[t] # b

\* Threads that have a db_conn, which counts in reference.
ConnStates == {"conn", "using", "rd", "wr", "done"}
LockStates == {"rd", "wr", "enqueue"}
At(b, states) == {t \in Threads : base[t] = b /\ pc[t] \in states}

AnyDir == CHOOSE d \in Dirs : TRUE
IdlePc == [t \in Threads |-> IF t \in Rpcs THEN "idle" ELSE "towait"]

Init ==
    /\ g_hash_table = [d \in Dirs |-> NoBase]
    /\ hashlock = Nobody /\ left = {}
    /\ reference = [b \in Bases |-> 0] /\ sqlite_lock = {} /\ aged = {}
    /\ has = [b \in Bases |-> {}] /\ held = [d \in Dirs |-> {}] /\ lost = {}
    /\ pc = IdlePc /\ base = [t \in Threads |-> NoBase]
    /\ dir = [t \in Threads |-> AnyDir]
    /\ reload = [t \in Populators |-> "no"]
    /\ g_populating_list = <<>> /\ lostwake = FALSE

Goto(t, label) == pc' = [pc EXCEPT ![t] = label]

\* An RPC or a search is over.
Return(t) ==
    /\ Goto(t, IF t \in Rpcs THEN "idle" ELSE "next")
    /\ base' = [base EXCEPT ![t] = NoBase]
    /\ dir' = [dir EXCEPT ![t] = AnyDir]
    /\ reload' = [p \in Populators |-> IF p = t THEN "no" ELSE reload[p]]

-----------------------------------------------------------------------------
\* db_engine_get_db

Request(t, d) ==
    /\ t \in Rpcs /\ pc[t] = "idle"
    /\ \E label \in {"get", "unload"} : Goto(t, label)
    /\ dir' = [dir EXCEPT ![t] = d]
    /\ UNCHANGED <<tablevars, basevars, clientvars, base, reload, searchvars>>

\* The base is there: db_conn counts itself under g_hash_lock.
GetFound(t) ==
    LET b == g_hash_table[dir[t]] IN
    /\ pc[t] = "get" /\ hashlock = Nobody /\ b # NoBase
    /\ reference' = [reference EXCEPT ![b] = @ + 1]
    /\ base' = [base EXCEPT ![t] = b]
    /\ Goto(t, "conn")
    /\ UNCHANGED <<tablevars, sqlite_lock, aged, has, clientvars, dir, reload,
                   searchvars>>

\* It is not: a new one, locked and counted by its constructor.
GetCreates(t) ==
    /\ pc[t] = "get" /\ hashlock = Nobody /\ g_hash_table[dir[t]] = NoBase
    /\ Cardinality(InTable) < TableSize
    /\ \E b \in Bases : Fresh(b)
    /\ LET b == CHOOSE b \in Bases : Fresh(b) IN
           /\ g_hash_table' = [g_hash_table EXCEPT ![dir[t]] = b]
           /\ reference' = [reference EXCEPT ![b] = 1]
           /\ sqlite_lock' = sqlite_lock \cup {b}
           /\ base' = [base EXCEPT ![t] = b]
    /\ Goto(t, "open")
    /\ UNCHANGED <<hashlock, left, aged, has, clientvars, dir, reload,
                   searchvars>>

\* Mutant of GetRefused: a populator goes on with its outer loop.
GetRefusedWaits(t) ==
    /\ pc[t] = "get" /\ hashlock = Nobody /\ g_hash_table[dir[t]] = NoBase
    /\ Goto(t, IF t \in Rpcs THEN "idle" ELSE "towait")
    /\ reload' = [p \in Populators |-> IF p = t THEN "no" ELSE reload[p]]
    /\ UNCHANGED <<tablevars, basevars, clientvars, base, dir, searchvars>>

\* The table is full, or there is no memory.
GetRefused(t) ==
    /\ pc[t] = "get" /\ hashlock = Nobody /\ g_hash_table[dir[t]] = NoBase
    /\ Return(t)
    /\ UNCHANGED <<tablevars, basevars, clientvars, searchvars>>

\* db_base::open: the lock and the constructor's reference are given up, and
\* the thread has a pointer that does not count.
OpenDone(t) ==
    /\ pc[t] = "open"
    /\ sqlite_lock' = sqlite_lock \ {base[t]}
    /\ reference' = [reference EXCEPT ![base[t]] = @ - 1]
    /\ Goto(t, "gap")
    /\ UNCHANGED <<tablevars, aged, has, clientvars, base, dir, reload,
                   searchvars>>

\* Mutant of OpenFails: only a successful open() unlocks.
OpenFailsLocked(t) ==
    /\ pc[t] = "open"
    /\ reference' = [reference EXCEPT ![base[t]] = @ - 1]
    /\ Return(t)
    /\ UNCHANGED <<tablevars, sqlite_lock, aged, has, clientvars, searchvars>>

\* Mutant of OpenFails: only a successful open() drops its reference.
OpenFailsCounted(t) ==
    /\ pc[t] = "open"
    /\ sqlite_lock' = sqlite_lock \ {base[t]}
    /\ Return(t)
    /\ UNCHANGED <<tablevars, reference, aged, has, clientvars, searchvars>>

\* It throws: the base stays in the table, and the next call finds it there.
OpenFails(t) ==
    /\ pc[t] = "open"
    /\ sqlite_lock' = sqlite_lock \ {base[t]}
    /\ reference' = [reference EXCEPT ![base[t]] = @ - 1]
    /\ Return(t)
    /\ UNCHANGED <<tablevars, aged, has, clientvars, searchvars>>

GapConn(t) ==
    /\ pc[t] = "gap" /\ base[t] \in InTable
    /\ reference' = [reference EXCEPT ![base[t]] = @ + 1]
    /\ Goto(t, "conn")
    /\ UNCHANGED <<tablevars, sqlite_lock, aged, has, clientvars, base, dir,
                   reload, searchvars>>

\* The base has been freed in between.  The process is taken to crash, and
\* the daemon, with the clients it serves in the same process, to start over.
GapDangling(t) ==
    /\ pc[t] = "gap" /\ base[t] \notin InTable
    /\ g_hash_table' = [d \in Dirs |-> NoBase]
    /\ hashlock' = Nobody /\ left' = {}
    /\ reference' = [b \in Bases |-> 0] /\ sqlite_lock' = {} /\ aged' = {}
    /\ has' = [b \in Bases |-> {}] /\ held' = [d \in Dirs |-> {}] /\ lost' = {}
    /\ pc' = IdlePc /\ base' = [u \in Threads |-> NoBase]
    /\ dir' = [u \in Threads |-> AnyDir]
    /\ reload' = [p \in Populators |-> "no"]
    /\ g_populating_list' = <<>> /\ lostwake' = FALSE

\* db_conn::open waits for the open() of another thread to end.
ConnOpen(t) ==
    /\ pc[t] = "conn" /\ base[t] \notin sqlite_lock
    /\ Goto(t, "using")
    /\ UNCHANGED <<tablevars, basevars, clientvars, base, dir, reload,
                   searchvars>>

ConnFails(t) ==
    /\ pc[t] = "conn" /\ base[t] \notin sqlite_lock
    /\ Goto(t, "done")
    /\ UNCHANGED <<tablevars, basevars, clientvars, base, dir, reload,
                   searchvars>>

\* db_conn::~db_conn.  A populator that has found content tables of its
\* folder then begins with reload_content_table.
Release(t) ==
    /\ pc[t] = "done"
    /\ reference' = [reference EXCEPT ![base[t]] = @ - 1]
    /\ IF t \in Populators /\ reload[t] = "due"
       THEN /\ Goto(t, "get")
            /\ base' = [base EXCEPT ![t] = NoBase]
            /\ reload' = [reload EXCEPT ![t] = "now"]
            /\ UNCHANGED dir
       ELSE Return(t)
    /\ UNCHANGED <<tablevars, sqlite_lock, aged, has, clientvars, searchvars>>

-----------------------------------------------------------------------------
\* What an RPC does with its connection: at most one lock, then the end.

\* An RPC that only talks to sqlite, and one that fails before its lock.
UseSql(t) ==
    /\ t \in Rpcs /\ pc[t] = "using"
    /\ Goto(t, "done")
    /\ UNCHANGED <<tablevars, basevars, clientvars, base, dir, reload,
                   searchvars>>

\* db_conn::lock_base_rd
LockRd(t) ==
    /\ t \in Rpcs /\ pc[t] = "using"
    /\ At(base[t], {"wr", "enqueue"}) = {}
    /\ Goto(t, "rd")
    /\ UNCHANGED <<tablevars, basevars, clientvars, base, dir, reload,
                   searchvars>>

\* db_conn::lock_base_wr
LockWr(t) ==
    /\ pc[t] = "using" /\ At(base[t], LockStates) = {}
    /\ Goto(t, "wr")
    /\ UNCHANGED <<tablevars, basevars, clientvars, base, dir, reload,
                   searchvars>>

\* The lock goes before the connection does.
Unlock(t) ==
    /\ pc[t] = "rd" \/ (pc[t] = "wr" /\ t \in Rpcs)
    /\ Goto(t, "done")
    /\ UNCHANGED <<tablevars, basevars, clientvars, base, dir, reload,
                   searchvars>>

\* load_*_table, subscribe_notification
AddObject(t, k) ==
    /\ t \in Rpcs /\ pc[t] = "wr" /\ k \notin held[dir[t]]
    /\ has' = [has EXCEPT ![base[t]] = @ \cup {k}]
    /\ held' = [held EXCEPT ![dir[t]] = @ \cup {k}]
    /\ Goto(t, "done")
    /\ UNCHANGED <<tablevars, reference, sqlite_lock, aged, lost, base, dir,
                   reload, searchvars>>

\* unload_table, unsubscribe_notification; fine too when it is not there.
RemoveObject(t, k) ==
    /\ t \in Rpcs /\ pc[t] = "wr" /\ k \in held[dir[t]]
    /\ has' = [has EXCEPT ![base[t]] = @ \ {k}]
    /\ held' = [held EXCEPT ![dir[t]] = @ \ {k}]
    /\ lost' = IF k = "table" THEN lost \ {dir[t]} ELSE lost
    /\ Goto(t, "done")
    /\ UNCHANGED <<tablevars, reference, sqlite_lock, aged, base, dir, reload,
                   searchvars>>

\* set_search_criteria: the connection goes while giant_lock is still held,
\* and the search is enqueued under it.
SetCriteria(t) ==
    /\ t \in Rpcs /\ pc[t] = "wr"
    /\ reference' = [reference EXCEPT ![base[t]] = @ - 1]
    /\ Goto(t, "enqueue")
    /\ UNCHANGED <<tablevars, sqlite_lock, aged, has, clientvars, base, dir,
                   reload, searchvars>>

\* db_engine_enqueue_populating_criteria, and the return that unlocks.  A
\* notification is lost on a populator that is on its way to the wait.
Enqueue(t) ==
    LET waiting == {p \in Populators : pc[p] = "wait"} IN
    /\ pc[t] = "enqueue" /\ Len(g_populating_list) < MaxSearches
    /\ g_populating_list' = Append(g_populating_list, dir[t])
    /\ lostwake' = (lostwake \/ \A p \in Populators : pc[p] = "towait")
    /\ \E woken \in IF waiting = {} THEN {{}} ELSE {{p} : p \in waiting} :
           pc' = [u \in Threads |-> IF u = t THEN "idle"
                                    ELSE IF u \in woken THEN "next"
                                    ELSE pc[u]]
    /\ base' = [base EXCEPT ![t] = NoBase]
    /\ dir' = [dir EXCEPT ![t] = AnyDir]
    /\ UNCHANGED <<tablevars, basevars, clientvars, reload>>

\* No populating asked for, or no memory.
EnqueueNot(t) ==
    /\ pc[t] = "enqueue"
    /\ Return(t)
    /\ UNCHANGED <<tablevars, basevars, clientvars, searchvars>>

-----------------------------------------------------------------------------
\* sf_popul_thread

\* g_waken_cond.wait, which has no predicate.
PopulWait(t) ==
    /\ t \in Populators /\ pc[t] = "towait"
    /\ Goto(t, "wait")
    /\ UNCHANGED <<tablevars, basevars, clientvars, base, dir, reload,
                   searchvars>>

PopulTakes(t) ==
    /\ t \in Populators /\ pc[t] = "next" /\ g_populating_list # <<>>
    /\ dir' = [dir EXCEPT ![t] = Head(g_populating_list)]
    /\ g_populating_list' = Tail(g_populating_list)
    /\ lostwake' = (lostwake /\ Len(g_populating_list) > 1)
    /\ Goto(t, "get")
    /\ UNCHANGED <<tablevars, basevars, clientvars, base, reload>>

PopulIdle(t) ==
    /\ t \in Populators /\ pc[t] = "next" /\ g_populating_list = <<>>
    /\ Goto(t, "towait")
    /\ UNCHANGED <<tablevars, basevars, clientvars, base, dir, reload,
                   searchvars>>

\* The results are in sqlite; subscribers are told, and the tables of the
\* folder are noted, under giant_lock.
PopulDone(t) ==
    /\ t \in Populators /\ pc[t] = "wr" /\ reload[t] = "no"
    /\ \E known \in {"no"} \cup (IF "table" \in has[base[t]] THEN {"due"}
                                 ELSE {}) :
           reload' = [reload EXCEPT ![t] = known]
    /\ Goto(t, "done")
    /\ UNCHANGED <<tablevars, basevars, clientvars, base, dir, searchvars>>

\* reload_content_table takes the table out of the list and puts it back; a
\* failure in between leaves the client without it.
PopulReload(t) ==
    /\ t \in Populators /\ pc[t] = "wr" /\ reload[t] = "now"
    /\ \/ UNCHANGED <<has, lost>>
       \/ /\ "table" \in has[base[t]]
          /\ has' = [has EXCEPT ![base[t]] = @ \ {"table"}]
          /\ lost' = lost \cup {dir[t]}
    /\ Goto(t, "done")
    /\ UNCHANGED <<tablevars, reference, sqlite_lock, aged, held, base, dir,
                   reload, searchvars>>

-----------------------------------------------------------------------------
\* Closing a mailbox

\* More than g_cache_interval since the constructor set last_time.
Age(b) ==
    /\ b \in InTable \ aged
    /\ aged' = aged \cup {b}
    /\ UNCHANGED <<tablevars, reference, sqlite_lock, has, clientvars, pc,
                   base, dir, reload, searchvars>>

\* Mutant of Unused: the subscriptions and tables are forgotten.
UnusedIgnoring(b) == reference[b] = 0

\* remove_from_hash but for the age.
Unused(b) == has[b] = {} /\ reference[b] = 0

Erase(b) ==
    /\ g_hash_table' = [d \in Dirs |-> IF g_hash_table[d] = b THEN NoBase
                                       ELSE g_hash_table[d]]
    /\ aged' = aged \ {b}
    /\ has' = [has EXCEPT ![b] = {}]
    /\ UNCHANGED <<reference, sqlite_lock, clientvars>>

\* db_expiry_thread holds g_hash_lock for a whole pass...
ExpiryPass ==
    /\ hashlock = Nobody /\ InTable # {}
    /\ hashlock' = Expiry /\ left' = InTable
    /\ UNCHANGED <<g_hash_table, basevars, clientvars, pc, base, dir, reload,
                   searchvars>>

\* ... and waits for the giant_lock of every base.
ExpiryLook(b) ==
    /\ hashlock = Expiry /\ b \in left
    /\ At(b, LockStates) = {}
    /\ left' = left \ {b}
    /\ hashlock' = IF left = {b} THEN Nobody ELSE Expiry
    /\ IF Unused(b) /\ b \in aged
       THEN Erase(b)
       ELSE UNCHANGED <<g_hash_table, basevars, clientvars>>
    /\ UNCHANGED <<pc, base, dir, reload, searchvars>>

\* db_engine_unload_db: the same for one base, whatever its age.
UnloadLock(t) ==
    /\ pc[t] = "unload" /\ hashlock = Nobody
    /\ IF g_hash_table[dir[t]] = NoBase
       THEN Return(t) /\ UNCHANGED hashlock
       ELSE Goto(t, "unloading") /\ hashlock' = t
            /\ UNCHANGED <<base, dir, reload>>
    /\ UNCHANGED <<g_hash_table, left, basevars, clientvars, searchvars>>

\* Mutant of UnloadTry: giant_lock is not taken.
UnloadTryUnlocked(t) ==
    LET b == g_hash_table[dir[t]] IN
    /\ pc[t] = "unloading"
    /\ hashlock' = Nobody
    /\ \/ Unused(b) /\ Erase(b) /\ Return(t)
       \/ /\ ~Unused(b)
          /\ Return(t)
          /\ UNCHANGED <<g_hash_table, basevars, clientvars>>
    /\ UNCHANGED <<left, searchvars>>

\* A failed try is repeated, up to 20 times.
UnloadTry(t) ==
    LET b == g_hash_table[dir[t]] IN
    /\ pc[t] = "unloading" /\ At(b, LockStates) = {}
    /\ hashlock' = Nobody
    /\ \/ Unused(b) /\ Erase(b) /\ Return(t)
       \/ /\ ~Unused(b)
          /\ \/ Return(t)
             \/ Goto(t, "unload") /\ UNCHANGED <<base, dir, reload>>
          /\ UNCHANGED <<g_hash_table, basevars, clientvars>>
    /\ UNCHANGED <<left, searchvars>>

-----------------------------------------------------------------------------
\* Every step a thread takes once it has begun.
Step(t) ==
    \/ GetFound(t) \/ GetCreates(t) \/ GetRefused(t)
    \/ OpenDone(t) \/ OpenFails(t) \/ GapConn(t) \/ GapDangling(t)
    \/ ConnOpen(t) \/ ConnFails(t) \/ Release(t)
    \/ UseSql(t) \/ LockRd(t) \/ LockWr(t) \/ Unlock(t)
    \/ \E k \in Kinds : AddObject(t, k) \/ RemoveObject(t, k)
    \/ SetCriteria(t) \/ Enqueue(t) \/ EnqueueNot(t)
    \/ PopulWait(t) \/ PopulTakes(t) \/ PopulIdle(t)
    \/ PopulDone(t) \/ PopulReload(t)
    \/ UnloadLock(t) \/ UnloadTry(t)

Next ==
    \/ \E t \in Threads : Step(t) \/ \E d \in Dirs : Request(t, d)
    \/ \E b \in Bases : Age(b) \/ ExpiryLook(b)
    \/ ExpiryPass

\* The expiry thread sleeps ten seconds between its passes and unload_db 50 ms
\* between its tries, so that whoever waits for g_hash_lock gets it at last;
\* giant_lock is held for one operation.
Fairness ==
    /\ \A t \in Threads : SF_vars(Step(t))
    /\ SF_vars(ExpiryPass) /\ WF_vars(\E b \in Bases : ExpiryLook(b))

Spec == Init /\ [][Next]_vars /\ Fairness

-----------------------------------------------------------------------------
\* Every variable has its type; the expiry thread has g_hash_lock while it has
\* bases of the table to look at (db_expiry_thread).
TypeOK ==
    /\ g_hash_table \in [Dirs -> Bases \cup {NoBase}]
    /\ hashlock \in Rpcs \cup {Expiry, Nobody}
    /\ left \subseteq InTable /\ (left # {} <=> hashlock = Expiry)
    /\ reference \in [Bases -> 0..Cardinality(Threads)]
    /\ sqlite_lock \subseteq Bases /\ aged \subseteq InTable
    /\ has \in [Bases -> SUBSET Kinds] /\ held \in [Dirs -> SUBSET Kinds]
    /\ lost \subseteq Dirs
    /\ pc \in [Threads -> ConnStates \cup LockStates \cup
                   {"idle", "get", "open", "gap", "unload", "unloading",
                    "towait", "wait", "next"}]
    /\ base \in [Threads -> Bases \cup {NoBase}] /\ dir \in [Threads -> Dirs]
    /\ reload \in [Populators -> {"no", "due", "now"}]
    /\ g_populating_list \in Seq(Dirs) /\ Len(g_populating_list) <= MaxSearches
    /\ lostwake \in BOOLEAN

\* reference counts exactly the connections to a base, and the constructor's
\* own while open() runs, whichever way these end (db_conn::db_conn,
\* db_conn::~db_conn, db_base::open).
RefCount ==
    \A b \in InTable :
        reference[b] = Cardinality(At(b, ConnStates \cup {"open"}))

\* A base that a connection points to, or that is opened, or whose giant_lock
\* is held is the one in the table: neither the expiry thread nor unload_db
\* frees it under a thread, not even under set_search_criteria, which has
\* given its connection back and still holds the lock.
ConnIsLive ==
    \A t \in Threads : pc[t] \in ConnStates \cup LockStates \cup {"open"} =>
        g_hash_table[dir[t]] = base[t]

\* Nobody uses a mailbox while its first thread still removes the ephemeral
\* database, upgrades the schema and loads the dynamic search folders
\* (db_base::db_base, db_base::open).
OpenedFirst ==
    \A t \in Threads : pc[t] \in {"using"} \cup LockStates =>
        At(base[t], {"open"}) = {}

\* What a client has opened by number outlives the idle periods in between: a
\* mailbox is not closed, and replaced by an empty base, while a client has a
\* table or a subscription in it (remove_from_hash).  A content table that a
\* failed reload has dropped is gone.
HandlesSurvive ==
    \A d \in Dirs : \A k \in held[d] :
        \/ k = "table" /\ d \in lost
        \/ g_hash_table[d] # NoBase /\ k \in has[g_hash_table[d]]

\* The table is sound: references count, what is used is there and open, and
\* so is what clients hold.
BasesSound == TypeOK /\ RefCount /\ ConnIsLive /\ OpenedFirst /\ HandlesSurvive

\* A queue of searches that is at its bound gets shorter, with the same
\* exception.
SearchesDrain ==
    Len(g_populating_list) = MaxSearches
        ~> (Len(g_populating_list) < MaxSearches \/ lostwake)

\* An RPC that asks for a mailbox ends: open() unlocks however it ends, and no
\* thread waits for g_hash_lock while it holds the giant_lock that the holder
\* of g_hash_lock waits for (db_base::open, db_expiry_thread,
\* db_engine_unload_db, set_search_criteria).
Served == \A t \in Rpcs : pc[t] = "get" ~> pc[t] = "idle"

Overdue(b) ==
    b \in aged /\ has[b] = {} /\ At(b, ConnStates \cup {"open"}) = {}

\* A mailbox that nobody uses, kept longer than g_cache_interval, is closed or
\* used again (db_expiry_thread).
IdleClosed ==
    \A d \in Dirs :
        Overdue(g_hash_table[d]) ~> ~Overdue(g_hash_table[d])

-----------------------------------------------------------------------------
\* The mailbox a thread uses or opens; between db_base::open and its db_conn
\* it counts for nothing.
UseOf(t) ==
    IF pc[t] \in ConnStates \cup LockStates \cup {"open"} THEN dir[t]
    ELSE NoBase

Use == INSTANCE MailboxUse WITH
    NoDir   <- NoBase,
    open    <- {d \in Dirs : g_hash_table[d] # NoBase},
    use     <- [t \in Threads |-> UseOf(t)],
    objects <- [d \in Dirs |-> IF g_hash_table[d] = NoBase THEN {}
                               ELSE has[g_hash_table[d]]]

\* With all its locks the table keeps to MailboxUse: it opens a mailbox for
\* one thread, closes it when neither a thread nor a client needs it any more,
\* and nobody but a thread that uses it touches what clients have opened
\* (db_engine_get_db, db_engine_unload_db, remove_from_hash).  Only the crash
\* on a base that was freed before its first db_conn is no step of MailboxUse.
UseSpec ==
    Use!Init /\ [][Use!Next \/ \E t \in Threads : GapDangling(t)]_Use!vars
=============================================================================
