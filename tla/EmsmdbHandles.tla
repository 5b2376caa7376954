---------------------------- MODULE EmsmdbHandles ----------------------------
(***************************************************************************)
(* The table of EMSMDB sessions (exch/emsmdb/emsmdb_interface.cpp).        *)
(*                                                                         *)
(* g_handle_hash maps a GUID to a handle; g_lock protects the table and    *)
(* two flags of each handle: b_processing (an RPC is working on the        *)
(* session) and b_occupied (a thread is working on its notify_list).  The  *)
(* flags are waited for by polling.  RPC threads run rpc_ext2, disconnect  *)
(* and connect_ex, event threads bring notifications from the stores, and  *)
(* one scan thread removes sessions that nobody has used for 2000 s.       *)
(*                                                                         *)
(* A GUID is random: a new session gets one that no thread knows of.  A    *)
(* notification is not told from another one, so a notify_list is its      *)
(* length.  last_time is not kept: at every look at it a session may turn  *)
(* out to be expired or not.                                               *)
(***************************************************************************)
EXTENDS Naturals, FiniteSets

CONSTANTS Guids,        \* the GUIDs that may be in use at a time
          Users,        \* user names, in lower case
          Rpcs,         \* threads that serve RPCs
          Events,       \* threads that run event_proc
          Scan,         \* the thread of emsi_scanwork
          MaxSessions,  \* ems_max_active_sessions, 0: no limit
          MaxUsers,     \* ems_max_active_users, 0: no limit
          MaxPerUser,   \* emsmdb_max_cxh_per_user, 0: no limit
          MaxPending,   \* ems_max_pending_sesnotif
          MaxCxr,       \* 0xFFFF
          NoGuid

ASSUME HandlesAssumption ==
    /\ MaxSessions \in Nat /\ MaxUsers \in Nat /\ MaxPerUser \in Nat
    /\ MaxPending \in Nat /\ MaxCxr \in Nat \ {0}
    /\ NoGuid \notin Guids /\ Users # {}
    /\ Rpcs \cap Events = {} /\ Scan \notin Rpcs \cup Events

Threads == Rpcs \cup Events \cup {Scan}

VARIABLES live,         \* keys of g_handle_hash
          user, cxr,    \* of each handle; <<user, cxr>> is its tag
          b_processing, b_occupied,
          notify_list,  \* number of notifications queued
          pc, at,       \* of each thread: its place and the session it is at
          temp_list,    \* the scan thread's list of sessions to remove
          told,         \* the client has been woken up for the queued ones
          window,       \* appended after the RPC looked and before it let go
          aborted       \* std::terminate was called

vars == <<live, user, cxr, b_processing, b_occupied, notify_list,
          pc, at, temp_list, told, window, aborted>>
ids  == <<user, cxr>>
ghost == <<told, window>>

Init ==
    /\ live = {} /\ temp_list = {} /\ aborted = FALSE
    /\ user \in [Guids -> {CHOOSE u \in Users : TRUE}]
    /\ cxr = [g \in Guids |-> 0]
    /\ b_processing = [g \in Guids |-> FALSE]
    /\ b_occupied = [g \in Guids |-> FALSE]
    /\ notify_list = [g \in Guids |-> 0]
    /\ told = [g \in Guids |-> FALSE]
    /\ window = [g \in Guids |-> FALSE]
    /\ pc = [t \in Threads |-> "idle"]
    /\ at = [t \in Threads |-> NoGuid]

Goto(t, label) == pc' = [pc EXCEPT ![t] = label]
Leave(t) == Goto(t, "idle") /\ at' = [at EXCEPT ![t] = NoGuid]
Enter(t, g, label) == Goto(t, label) /\ at' = [at EXCEPT ![t] = g]

-----------------------------------------------------------------------------
\* Connecting: emsmdb_interface_create_handle, one critical section.

UserHandles(u) == {g \in live : user[g] = u}
ActiveUsers == {user[g] : g \in live}

FreeCxr(u) == {i \in 1..MaxCxr : \A g \in UserHandles(u) : cxr[g] # i}

\* The vector of a user is sorted by cxr; the first gap is taken.
AllocCxr(u) == CHOOSE i \in FreeCxr(u) : \A j \in FreeCxr(u) : i <= j

MayConnect(u) ==
    /\ MaxSessions = 0 \/ Cardinality(live) < MaxSessions
    /\ IF UserHandles(u) = {}
       THEN MaxUsers = 0 \/ Cardinality(ActiveUsers) < MaxUsers
       ELSE MaxPerUser = 0 \/ Cardinality(UserHandles(u)) < MaxPerUser
    /\ FreeCxr(u) # {}

Fresh(g) == g \notin live \cup temp_list /\ \A t \in Threads : at[t] # g

CreateHandle(t, u, g) ==
    /\ pc[t] = "idle" /\ Fresh(g) /\ MayConnect(u)
    /\ live' = live \cup {g}
    /\ user' = [user EXCEPT ![g] = u]
    /\ cxr' = [cxr EXCEPT ![g] = AllocCxr(u)]
    /\ UNCHANGED <<b_processing, b_occupied, notify_list, pc, at,
                   temp_list, ghost, aborted>>

-----------------------------------------------------------------------------
\* Removing: emsmdb_interface_remove_handle.

StartRemove(t, g) == Enter(t, g, "remove")

EraseHandle(g) ==
    /\ live' = live \ {g}
    /\ notify_list' = [notify_list EXCEPT ![g] = 0]
    /\ cxr' = [cxr EXCEPT ![g] = 0]
    /\ told' = [told EXCEPT ![g] = FALSE]
    /\ window' = [window EXCEPT ![g] = FALSE]

KeepHandles == UNCHANGED <<live, notify_list, cxr, ghost>>

\* Mutant of RemoveGivesUp: b_processing is not looked at.
RemoveGivesUpGone(g) == g \notin live

RemoveGivesUp(g) == g \notin live \/ b_processing[g]

\* A whole pass under g_lock: give up, erase, or let go of the lock and wait.
Remove(t) ==
    LET g == at[t] IN
    /\ pc[t] = "remove"
    /\ \/ /\ RemoveGivesUp(g)
          /\ Leave(t) /\ KeepHandles
       \/ /\ ~RemoveGivesUp(g) /\ ~b_occupied[g]
          /\ EraseHandle(g) /\ Leave(t)
       \/ /\ ~RemoveGivesUp(g) /\ b_occupied[g]
          /\ Goto(t, "look") /\ UNCHANGED at /\ KeepHandles
    /\ UNCHANGED <<user, b_processing, b_occupied, temp_list, aborted>>

\* After the wait the loop goes round without g_lock: looking and erasing are
\* two steps that others come between.  A list that is occupied once more is to
\* be waited for again, but the lock that is let go of is not owned:
\* unique_lock throws, and nobody catches it.
LookUnlocked(t) ==
    LET g == at[t] IN
    /\ pc[t] = "look"
    /\ \/ RemoveGivesUp(g) /\ Leave(t) /\ UNCHANGED aborted
       \/ /\ ~RemoveGivesUp(g) /\ ~b_occupied[g]
          /\ Goto(t, "erase") /\ UNCHANGED <<at, aborted>>
       \/ /\ ~RemoveGivesUp(g) /\ b_occupied[g]
          /\ Goto(t, "threw") /\ aborted' = TRUE /\ UNCHANGED at
    /\ UNCHANGED <<live, ids, b_processing, b_occupied, notify_list,
                   temp_list, ghost>>

\* Nor is the lock owned that is given back behind the erasing.
EraseUnlocked(t) ==
    /\ pc[t] = "erase"
    /\ EraseHandle(at[t]) /\ Goto(t, "threw") /\ aborted' = TRUE
    /\ UNCHANGED <<user, b_processing, b_occupied, at, temp_list>>

Disconnect(t, g) ==
    /\ pc[t] = "idle" /\ StartRemove(t, g)
    /\ UNCHANGED <<live, ids, b_processing, b_occupied, notify_list,
                   temp_list, ghost, aborted>>

\* emsi_scanwork: collect under g_lock, then remove one after the other.
Removable == {g \in live : ~b_processing[g] /\ ~b_occupied[g]}

ScanCollect ==
    /\ pc[Scan] = "idle" /\ temp_list = {} /\ temp_list' \in SUBSET Removable
    /\ UNCHANGED <<live, ids, b_processing, b_occupied, notify_list, pc, at,
                   ghost, aborted>>

ScanRemove(g) ==
    /\ pc[Scan] = "idle" /\ g \in temp_list
    /\ temp_list' = temp_list \ {g} /\ StartRemove(Scan, g)
    /\ UNCHANGED <<live, ids, b_processing, b_occupied, notify_list, ghost,
                   aborted>>

-----------------------------------------------------------------------------
\* An RPC: emsmdb_interface_rpc_ext2.

\* Mutant of RpcGet: the flag is set without being looked at.
RpcGetAnyway(t, g) ==
    /\ pc[t] = "idle" /\ g \in live
    /\ b_processing' = [b_processing EXCEPT ![g] = TRUE]
    /\ Enter(t, g, "got")
    /\ UNCHANGED <<live, ids, b_occupied, notify_list, temp_list, ghost,
                   aborted>>

\* get_handle_data: wait until no other RPC works on the session.
RpcGet(t, g) ==
    /\ pc[t] = "idle" /\ g \in live /\ ~b_processing[g]
    /\ b_processing' = [b_processing EXCEPT ![g] = TRUE]
    /\ Enter(t, g, "got")
    /\ UNCHANGED <<live, ids, b_occupied, notify_list, temp_list, ghost,
                   aborted>>

PutHandleData(t) == b_processing' = [b_processing EXCEPT ![at[t]] = FALSE]

\* Another user's session: put back, nothing done and nobody woken up.
RpcDenied(t) ==
    /\ pc[t] = "got" /\ PutHandleData(t) /\ Leave(t)
    /\ window' = [window EXCEPT ![at[t]] = @ \/ notify_list[at[t]] > 0]
    /\ UNCHANGED <<live, ids, b_occupied, notify_list, temp_list, told,
                   aborted>>

\* An expired session is put back and removed.
RpcExpired(t) ==
    /\ pc[t] = "got"
    /\ PutHandleData(t) /\ StartRemove(t, at[t])
    /\ window' = [window EXCEPT ![at[t]] = @ \/ notify_list[at[t]] > 0]
    /\ UNCHANGED <<live, ids, b_occupied, notify_list, temp_list, told,
                   aborted>>

\* The session is in use again and the ROPs are executed; the notifications are
\* added unless a ROP failed, an ICS upload is open, there is no room or this
\* is not the last buffer of the RPC.
RpcStart(t) ==
    /\ pc[t] = "got"
    /\ Goto(t, "drain") \/ Goto(t, "read")
    /\ UNCHANGED <<live, ids, b_processing, b_occupied, notify_list, at,
                   temp_list, ghost, aborted>>

\* emsmdb_interface_get_notify_list
DrainLock(t) ==
    LET g == at[t] IN
    /\ pc[t] = "drain" /\ ~b_occupied[g]
    /\ b_occupied' = [b_occupied EXCEPT ![g] = TRUE] /\ Goto(t, "pop")
    /\ UNCHANGED <<live, ids, b_processing, notify_list, at, temp_list,
                   ghost, aborted>>

Forget(g, n) ==
    /\ told' = [told EXCEPT ![g] = @ /\ n > 0]
    /\ window' = [window EXCEPT ![g] = @ /\ n > 0]

\* One notification is taken and the list is let go at once.  It is written to
\* the response or its object is gone ("drain": next one), or it does not fit.
DrainPop(t) ==
    LET g == at[t]
        n == notify_list[g]
    IN
    /\ pc[t] = "pop"
    /\ b_occupied' = [b_occupied EXCEPT ![g] = FALSE]
    /\ IF n = 0
       THEN Goto(t, "read") /\ UNCHANGED <<notify_list, ghost>>
       ELSE /\ notify_list' = [notify_list EXCEPT ![g] = n - 1]
            /\ Forget(g, n - 1)
            /\ Goto(t, "drain") \/ Goto(t, "full")
    /\ UNCHANGED <<live, ids, b_processing, at, temp_list, aborted>>

\* It does not fit: back to the head of the list, which is not locked any more.
\* If an event thread is at the list just then, the node may get lost.
DrainReinsert(t) ==
    LET g == at[t] IN
    /\ pc[t] = "full" /\ Goto(t, "read")
    /\ \/ notify_list' = [notify_list EXCEPT ![g] = @ + 1]
       \/ b_occupied[g] /\ UNCHANGED notify_list
    /\ UNCHANGED <<live, ids, b_processing, b_occupied, at, temp_list,
                   ghost, aborted>>

\* Mutant of WakeupNeeded: what is left is not announced.
WakeupNeededNever(g) == FALSE

WakeupNeeded(g) == notify_list[g] > 0

\* b_wakeup is read from the list without its lock ...
RpcRead(t) ==
    /\ pc[t] = "read"
    /\ Goto(t, IF WakeupNeeded(at[t]) THEN "putwake" ELSE "put")
    /\ UNCHANGED <<live, ids, b_processing, b_occupied, notify_list, at,
                   temp_list, ghost, aborted>>

\* ... the session is put back, and its client woken up if need be.
RpcPut(t) ==
    /\ pc[t] \in {"put", "putwake"} /\ PutHandleData(t)
    /\ IF pc[t] = "put" THEN Leave(t) ELSE Goto(t, "wake") /\ UNCHANGED at
    /\ UNCHANGED <<live, ids, b_occupied, notify_list, temp_list, ghost,
                   aborted>>

\* asyncemsmdb_interface_wakeup(username, cxr); also called by event threads.
Wakeup(t) ==
    /\ pc[t] = "wake"
    /\ told' = [told EXCEPT ![at[t]] = notify_list[at[t]] > 0]
    /\ window' = [window EXCEPT ![at[t]] = FALSE]
    /\ Leave(t)
    /\ UNCHANGED <<live, ids, b_processing, b_occupied, notify_list,
                   temp_list, aborted>>

-----------------------------------------------------------------------------
\* A notification arrives: emsmdb_interface_event_proc.

\* The subscription names the GUID, which may be gone; the list is waited for.
EventGet(t, g) ==
    /\ pc[t] = "idle" /\ g \in live /\ ~b_occupied[g]
    /\ b_occupied' = [b_occupied EXCEPT ![g] = TRUE]
    /\ Enter(t, g, "list")
    /\ UNCHANGED <<live, ids, b_processing, notify_list, temp_list, ghost,
                   aborted>>

ListFull(g) == notify_list[g] >= MaxPending

\* Merged into a notification of the list (row deleted, message or folder
\* modified), or thrown away because the list is full.
EventDropped(t) ==
    LET g == at[t] IN
    /\ pc[t] = "list"
    /\ notify_list[g] > 0 \/ ListFull(g)
    /\ b_occupied' = [b_occupied EXCEPT ![g] = FALSE] /\ Leave(t)
    /\ UNCHANGED <<live, ids, b_processing, notify_list, temp_list, ghost,
                   aborted>>

\* Merged into a row modification, or not converted: no new entry, but the
\* client is woken up all the same.
EventMerged(t) ==
    /\ pc[t] = "list"
    /\ notify_list[at[t]] > 0 \/ ~ListFull(at[t])
    /\ Goto(t, "flag")
    /\ UNCHANGED <<live, ids, b_processing, b_occupied, notify_list, at,
                   temp_list, ghost, aborted>>

\* The window: an RPC has read the list and still holds the session.
RpcHasRead(g) == \E r \in Rpcs : at[r] = g /\ pc[r] = "put"

EventAppend(t) ==
    LET g == at[t] IN
    /\ pc[t] = "list" /\ ~ListFull(g)
    /\ notify_list' = [notify_list EXCEPT ![g] = @ + 1]
    /\ told' = [told EXCEPT ![g] = FALSE]
    /\ window' = [window EXCEPT ![g] = @ \/ RpcHasRead(g)]
    /\ Goto(t, "flag")
    /\ UNCHANGED <<live, ids, b_processing, b_occupied, at, temp_list,
                   aborted>>

\* b_processing is read without g_lock, then the list is put back.
EventFlag(t) ==
    /\ pc[t] = "flag"
    /\ Goto(t, IF b_processing[at[t]] THEN "unlist" ELSE "unlistwake")
    /\ UNCHANGED <<live, ids, b_processing, b_occupied, notify_list, at,
                   temp_list, ghost, aborted>>

EventPut(t) ==
    /\ pc[t] \in {"unlist", "unlistwake"}
    /\ b_occupied' = [b_occupied EXCEPT ![at[t]] = FALSE]
    /\ IF pc[t] = "unlist" THEN Leave(t) ELSE Goto(t, "wake") /\ UNCHANGED at
    /\ UNCHANGED <<live, ids, b_processing, notify_list, temp_list, ghost,
                   aborted>>


-----------------------------------------------------------------------------
Terminated == aborted /\ UNCHANGED vars

RpcStep(t) ==
    \/ RpcDenied(t) \/ RpcExpired(t) \/ RpcStart(t)
    \/ DrainLock(t) \/ DrainPop(t) \/ DrainReinsert(t)
    \/ RpcRead(t) \/ RpcPut(t)

EventStep(t) ==
    \/ EventDropped(t) \/ EventMerged(t) \/ EventAppend(t)
    \/ EventFlag(t) \/ EventPut(t)

Next ==
    \/ /\ ~aborted
       /\ \/ \E t \in Rpcs, u \in Users, g \in Guids : CreateHandle(t, u, g)
          \/ \E t \in Rpcs, g \in Guids : RpcGet(t, g)
          \/ \E t \in Rpcs, g \in Guids : Disconnect(t, g)
          \/ \E t \in Rpcs : RpcStep(t)
          \/ \E t \in Events, g \in Guids : EventGet(t, g)
          \/ \E t \in Events : EventStep(t)
          \/ \E t \in Rpcs \cup Events : Wakeup(t)
          \/ ScanCollect
          \/ \E g \in Guids : ScanRemove(g)
          \/ \E t \in Threads : \/ Remove(t) \/ LookUnlocked(t) \/ EraseUnlocked(t)
    \/ Terminated

Spec == Init /\ [][Next]_vars

-----------------------------------------------------------------------------
ProcessingPcs == {"got", "drain", "pop", "full", "read", "put", "putwake"}
ListPcs == {"pop", "list", "flag", "unlist", "unlistwake"}
RemovePcs == {"remove", "look", "erase", "threw"}

\* Every variable has its type; the session index of a handle is never 0, and a
\* thread that is not idle is at a session (emsmdb_interface.cpp).
TypeOK ==
    /\ live \subseteq Guids /\ temp_list \subseteq Guids
    /\ user \in [Guids -> Users] /\ cxr \in [Guids -> 0..MaxCxr]
    /\ \A g \in live : cxr[g] > 0
    /\ b_processing \in [Guids -> BOOLEAN] /\ b_occupied \in [Guids -> BOOLEAN]
    /\ aborted \in BOOLEAN
    /\ told \in [Guids -> BOOLEAN] /\ window \in [Guids -> BOOLEAN]
    /\ notify_list \in [Guids -> Nat]
    /\ pc \in [Threads -> {"idle", "wake"} \cup ProcessingPcs \cup ListPcs
                          \cup RemovePcs]
    /\ \A t \in Threads : IF pc[t] = "idle" THEN at[t] = NoGuid ELSE at[t] \in Guids

Processing(g) == {t \in Threads : at[t] = g /\ pc[t] \in ProcessingPcs}
AtList(g) == {t \in Threads : at[t] = g /\ pc[t] \in ListPcs}

\* The flags stand for locks: b_processing of a session is set exactly while
\* one RPC is between get_handle_data and put_handle_data, b_occupied exactly
\* while one thread is between taking and putting back its notify_list.
FlagsTellHolder ==
    \A g \in Guids :
        /\ Cardinality(Processing(g)) = IF b_processing[g] THEN 1 ELSE 0
        /\ Cardinality(AtList(g)) = IF b_occupied[g] THEN 1 ELSE 0

\* Nobody works on a session that is not in the table any more: neither an RPC
\* nor an event thread has its handle erased under it.  The one exception is a
\* remover that had to wait for the notify_list: it goes on without g_lock, may
\* erase the very session that is being processed, and throws when it unlocks.
HeldIsLive ==
    \A g \in Guids :
        \/ Processing(g) \cup AtList(g) = {}
        \/ g \in live
        \/ \E t \in Threads : pc[t] = "threw" /\ at[t] = g

\* Two sessions of one user never have the same session index, by which the
\* asynchronous waits are found ("username:cxr").
TagsDiffer ==
    \A g, h \in live : g # h => <<user[g], cxr[g]>> # <<user[h], cxr[h]>>

\* A queued notification does not go unannounced: the client was woken up
\* after it was queued, or a thread is on its way to do so, or the RPC that
\* holds the session will still look at the list.  It can go unannounced only
\* if it was queued between an RPC's last look at the list (line 700) and its
\* put_handle_data, or behind the back of an RPC that was refused.
Announced ==
    \A g \in live :
        \/ notify_list[g] = 0 \/ told[g] \/ window[g]
        \/ \E t \in Rpcs \cup Events :
              /\ at[t] = g
              /\ \/ pc[t] \in {"wake", "putwake", "unlistwake"}
                 \/ pc[t] \in {"got", "drain", "pop", "full", "read"}
                 \/ pc[t] = "flag" /\ ~b_processing[g]

\* ems_max_pending_sesnotif bounds the list; a notification that is put back
\* by an RPC comes on top of that, once.
PendingBounded == \A g \in Guids : notify_list[g] <= MaxPending + 1

\* The table of sessions is sound: polled flags that exclude like locks, tags
\* of their own, lists within their bound.
SessionsSound == TypeOK /\ FlagsTellHolder /\ TagsDiffer /\ PendingBounded

=============================================================================
