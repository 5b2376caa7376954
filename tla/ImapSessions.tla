---------------------------- MODULE ImapSessions ----------------------------
(***************************************************************************)
(* IMAP sessions of one user (mra/imap/imap_parser.cpp and                 *)
(* imap_cmd_parser.cpp) on folders that other programs change as well.     *)
(*                                                                         *)
(* A session numbers the messages of its folder in `contents', a copy of   *)
(* midb's index.  What others do reaches it on two ways: directly, when    *)
(* another thread of the same process finds the session in g_select_hash,  *)
(* and over the event bus, where midb announces what the store told it.    *)
(* Both only queue: async_change_mask, f_flags and f_expunged_uids are     *)
(* worked off by imap_parser_echo_modify at the session's next command or  *)
(* while it is in IDLE.                                                    *)
(*                                                                         *)
(* A deletion goes from imapd to midb to the store at once, but midb drops *)
(* the message from its index only when the store's notification arrives.  *)
(* So `store' and `idx' differ for a while, and the notifications that are *)
(* still to come are the difference.  A new message is in `incoming' until *)
(* midb has given it a UID.                                                *)
(*                                                                         *)
(* midb lists a folder by UID and never gives a UID twice, and a message   *)
(* found later has a higher UID: `contents' is always ascending, and a set *)
(* of UIDs determines the sequence numbers.  Of the flags only \Deleted    *)
(* has a meaning for other commands and is kept.  Folders are neither      *)
(* created nor removed; a refresh may fail at any time instead.            *)
(***************************************************************************)
EXTENDS Naturals, FiniteSets

CONSTANTS Sessions,     \* imap_context objects, all of one user
          Folders,
          MaxUid,       \* for each folder: bound on the UIDs given out
          StartUid,     \* for each folder: messages at the start
          Modes,        \* b_readonly: {FALSE} for SELECT only, or with EXAMINE
          OtherImapd,   \* does another imapd serve the user as well?
          NoFolder      \* selected_folder is empty

ASSUME ImapAssumption ==
    /\ MaxUid \in [Folders -> Nat] /\ StartUid \in [Folders -> Nat]
    /\ \A f \in Folders : StartUid[f] <= MaxUid[f]
    /\ NoFolder \notin Folders /\ Modes \subseteq BOOLEAN
    /\ OtherImapd \in BOOLEAN

VARIABLES
    store,          \* UIDs of the messages the store has
    idx,            \* UIDs in midb's index
    deleted,        \* UIDs flagged \Deleted in midb's index
    uidnext, incoming,
    replaced,       \* UIDs that midb gave up without telling anybody
    touches, expunges,  \* events of the bus that imapd has not yet received
    subscribed,     \* folders the event daemon forwards to imapd
    proto_stat, selected_folder, b_readonly,
    contents,       \* UIDs of the view
    mask,           \* async_change_mask # 0
    f_flags, f_expunged_uids,
    listed,         \* g_select_hash[user]
    sched_stat,
    asleep,         \* g_sleeping_list
    pc,             \* where a command stands
    work,           \* the command's list of messages
    prev_selected,  \* the folder that CLOSE has left
    unsub,          \* folder whose UNSELECT is still to be sent
    owed,           \* reflagged by others, not yet told to the client
    carried,        \* f_expunged_uids left over from an earlier folder
    lapse           \* an event went by that the session was not there for

mailbox == <<store, idx, deleted, uidnext, incoming, replaced>>
bus     == <<touches, expunges, subscribed>>
session == <<proto_stat, selected_folder, b_readonly>>
queues  == <<mask, f_flags, f_expunged_uids>>
place   == <<sched_stat, asleep, pc, work, prev_selected, unsub>>
ghosts  == <<owed, carried, lapse>>
vars == <<mailbox, bus, session, contents, queues, listed, place, ghosts>>

Uids(f) == 1..MaxUid[f]
AllUids == UNION {Uids(f) : f \in Folders}

Init ==
    /\ store = [f \in Folders |-> 1..StartUid[f]]
    /\ idx = store
    /\ deleted = [f \in Folders |-> {}]
    /\ uidnext = [f \in Folders |-> StartUid[f] + 1]
    /\ incoming = [f \in Folders |-> 0]
    /\ replaced = [f \in Folders |-> {}]
    /\ touches = {} /\ expunges = {} /\ subscribed = {}
    /\ proto_stat = [s \in Sessions |-> "noauth"]
    /\ selected_folder = [s \in Sessions |-> NoFolder]
    /\ b_readonly = [s \in Sessions |-> FALSE]
    /\ contents = [s \in Sessions |-> {}]
    /\ mask = [s \in Sessions |-> FALSE]
    /\ f_flags = [s \in Sessions |-> {}]
    /\ f_expunged_uids = [s \in Sessions |-> {}]
    /\ listed = {} /\ asleep = {}
    /\ sched_stat = [s \in Sessions |-> "rdcmd"]
    /\ pc = [s \in Sessions |-> "ready"]
    /\ work = [s \in Sessions |-> {}]
    /\ prev_selected = [s \in Sessions |-> NoFolder]
    /\ unsub = [s \in Sessions |-> NoFolder]
    /\ owed = [s \in Sessions |-> {}]
    /\ carried = [s \in Sessions |-> {}]
    /\ lapse = [s \in Sessions |-> FALSE]

At(s, label) == pc[s] = label
Goto(s, label) == pc' = [pc EXCEPT ![s] = label]

\* A command line has been read and is dispatched.
Ready(s) == At(s, "ready") /\ sched_stat[s] = "rdcmd" /\ s \notin asleep
Selected(s) == proto_stat[s] = "select"
Authed(s) == proto_stat[s] \in {"auth", "select"}

\* Sessions of g_select_hash that have f selected.
On(f) == {s \in listed : selected_folder[s] = f}

-----------------------------------------------------------------------------
\* Joining and leaving g_select_hash.

\* imap_parser_remove_select: the queues are emptied only when other sessions
\* of the user remain in the list.
RemoveSelect(s) ==
    LET others == listed \ {s} IN
    /\ listed' = others
    /\ unsub' = [unsub EXCEPT ![s] =
           IF \E o \in others : selected_folder[o] = selected_folder[s]
           THEN NoFolder ELSE selected_folder[s]]
    /\ IF others = {}
       THEN /\ carried' = [carried EXCEPT ![s] = @ \cup f_expunged_uids[s]]
            /\ UNCHANGED queues
       ELSE /\ mask' = [mask EXCEPT ![s] = FALSE]
            /\ f_flags' = [f_flags EXCEPT ![s] = {}]
            /\ f_expunged_uids' = [f_expunged_uids EXCEPT ![s] = {}]
            /\ carried' = [carried EXCEPT ![s] = {}]

\* Its broadcast_unselect, sent after g_hash_lock is released.
SendUnselect(s) ==
    /\ subscribed' = subscribed \ {unsub[s]}
    /\ unsub' = [unsub EXCEPT ![s] = NoFolder]

\* What every caller of imap_parser_remove_select does next.  Nothing reads
\* contents and b_readonly again before the next SELECT.
Deselect(s) ==
    /\ proto_stat' = [proto_stat EXCEPT ![s] = "auth"]
    /\ selected_folder' = [selected_folder EXCEPT ![s] = NoFolder]
    /\ contents' = [contents EXCEPT ![s] = {}]
    /\ b_readonly' = [b_readonly EXCEPT ![s] = FALSE]
    /\ owed' = [owed EXCEPT ![s] = {}]
    /\ lapse' = [lapse EXCEPT ![s] = FALSE]

\* imap_cmd_parser_selex up to its call of imap_parser_remove_select.
SelexBegin(s) ==
    /\ Ready(s) /\ Authed(s)
    /\ IF Selected(s)
       THEN RemoveSelect(s) /\ Deselect(s)
       ELSE UNCHANGED <<listed, unsub, queues, session, contents, ghosts>>
    /\ Goto(s, "read")
    /\ UNCHANGED <<mailbox, bus, sched_stat, asleep, work, prev_selected>>

\* The rest of it: summary_folder and content_array::refresh with fresh
\* numbers, the session's new state.  add_select follows.
SelexRead(s, f, ro) ==
    /\ At(s, "read")
    /\ SendUnselect(s)
    /\ contents' = [contents EXCEPT ![s] = idx[f]]
    /\ selected_folder' = [selected_folder EXCEPT ![s] = f]
    /\ proto_stat' = [proto_stat EXCEPT ![s] = "select"]
    /\ b_readonly' = [b_readonly EXCEPT ![s] = ro]
    /\ Goto(s, "add")
    /\ UNCHANGED <<mailbox, touches, expunges, queues, listed, sched_stat,
                   asleep, work, ghosts, prev_selected>>

\* midb does not answer, or does not know the folder.
SelexFails(s) ==
    /\ At(s, "read")
    /\ SendUnselect(s) /\ Goto(s, "ready")
    /\ UNCHANGED <<mailbox, touches, expunges, session, contents, queues,
                   listed, sched_stat, asleep, work, ghosts, prev_selected>>

\* imap_parser_add_select and its broadcast_select.  The table has a place for
\* every user: it holds at most one list per context.
AddSelect(s) ==
    /\ At(s, "add")
    /\ listed' = listed \cup {s}
    /\ subscribed' = subscribed \cup {selected_folder[s]}
    /\ Goto(s, "ready")
    /\ UNCHANGED <<mailbox, touches, expunges, session, contents, queues,
                   sched_stat, asleep, work, unsub, ghosts, prev_selected>>

\* UNSELECT, and CLOSE of a folder opened with EXAMINE.
Unselect(s) ==
    /\ Ready(s) /\ Selected(s)
    /\ RemoveSelect(s) /\ Deselect(s)
    /\ Goto(s, "leave")
    /\ UNCHANGED <<mailbox, bus, sched_stat, asleep, work, prev_selected>>

Leave(s) ==
    /\ At(s, "leave")
    /\ SendUnselect(s) /\ Goto(s, "ready")
    /\ UNCHANGED <<mailbox, touches, expunges, session, contents, queues,
                   listed, sched_stat, asleep, work, ghosts, prev_selected>>

-----------------------------------------------------------------------------
\* Telling other sessions through shared memory.

\* Mutant of BcastFlags: the change mask is forgotten.
BcastFlagsUnmasked(s, U) ==
    LET told == On(selected_folder[s]) \ {s} IN
    /\ f_flags' = [o \in Sessions |->
           f_flags[o] \cup IF o \in told THEN U ELSE {}]
    /\ UNCHANGED mask

\* imap_parser_bcast_flags: every session on the folder but the current one.
BcastFlags(s, U) ==
    LET told == On(selected_folder[s]) \ {s} IN
    /\ f_flags' = [o \in Sessions |->
           f_flags[o] \cup IF o \in told THEN U ELSE {}]
    /\ mask' = [o \in Sessions |-> mask[o] \/ (o \in told /\ U # {})]

\* Mutant of BcastExpunge: the current session is left out, as for flags.
BcastExpungeOthers(s, U) ==
    LET told == On(selected_folder[s]) \ {s} IN
    /\ f_expunged_uids' = [o \in Sessions |->
           f_expunged_uids[o] \cup IF o \in told THEN U ELSE {}]
    /\ mask' = [o \in Sessions |-> mask[o] \/ (o \in told /\ U # {})]

\* imap_parser_bcast_expunge: every session on the folder, this one included.
BcastExpunge(s, U) ==
    LET told == On(selected_folder[s]) IN
    /\ f_expunged_uids' = [o \in Sessions |->
           f_expunged_uids[o] \cup IF o \in told THEN U ELSE {}]
    /\ mask' = [o \in Sessions |-> mask[o] \/ (o \in told /\ U # {})]

\* imap_parser_bcast_touch: skip is {} for its callers that pass nullptr.
BcastTouch(f, skip) ==
    mask' = [o \in Sessions |-> mask[o] \/ o \in On(f) \ skip]

\* Whose clients have numbered the folder and do not know of the new flags.
MustLearn(f, s) == {o \in Sessions \ {s} : Selected(o) /\ ~At(o, "add")
                                           /\ selected_folder[o] = f}
Owe(O, U) == owed' = [o \in Sessions |->
                 owed[o] \cup IF o \in O THEN U \cap contents[o] ELSE {}]

-----------------------------------------------------------------------------
\* imap_parser_echo_modify: what has been queued is told to the client.

\* Mutant of Refreshed: expunged messages are never dropped.
RefreshedKeeps(s, fresh) == contents[s] \cup idx[selected_folder[s]]

\* content_array::refresh: without fresh numbers, only new messages are added.
Refreshed(s, fresh) ==
    LET now == idx[selected_folder[s]] IN
    IF fresh THEN now ELSE contents[s] \cup now

\* At the end of a command the session is ready again; after a notification it
\* goes back to IDLE and on the sleeping list (ps_stat_notifying).
EchoReturns(s) ==
    /\ Goto(s, "ready")
    /\ work' = [work EXCEPT ![s] = {}]
    /\ IF sched_stat[s] = "notifying"
       THEN /\ sched_stat' = [sched_stat EXCEPT ![s] = "idling"]
            /\ asleep' = asleep \cup {s}
       ELSE UNCHANGED <<sched_stat, asleep>>

EchoTake(s) ==
    /\ mask' = [mask EXCEPT ![s] = FALSE]
    /\ f_flags' = [f_flags EXCEPT ![s] = {}]
    /\ f_expunged_uids' = [f_expunged_uids EXCEPT ![s] = {}]
    /\ carried' = [carried EXCEPT ![s] = {}]

EchoNothing(s) ==
    /\ At(s, "echo") /\ ~mask[s]
    /\ EchoReturns(s)
    /\ UNCHANGED <<mailbox, bus, session, contents, queues, listed,
                   prev_selected, unsub, ghosts>>

EchoModify(s) ==
    LET fresh == f_expunged_uids[s] # {}
        view == Refreshed(s, fresh)
    IN
    /\ At(s, "echo") /\ mask[s] /\ selected_folder[s] # NoFolder
    /\ EchoTake(s) /\ EchoReturns(s)
    /\ contents' = [contents EXCEPT ![s] = view]
    /\ owed' = [owed EXCEPT ![s] = (@ \ f_flags[s]) \cap view]
    /\ lapse' = [lapse EXCEPT ![s] = @ /\ ~fresh]
    /\ UNCHANGED <<mailbox, bus, session, listed, prev_selected, unsub>>

\* refresh fails: the EXPUNGE responses have been written, contents stays.
EchoFails(s) ==
    /\ At(s, "echo") /\ mask[s]
    /\ EchoTake(s) /\ EchoReturns(s)
    /\ owed' = [owed EXCEPT ![s] = @ \ f_flags[s]]
    /\ lapse' = [lapse EXCEPT ![s] = Selected(s)]
    /\ UNCHANGED <<mailbox, bus, session, contents, listed, prev_selected,
                   unsub>>

-----------------------------------------------------------------------------
\* Commands.

\* LOGIN, and AUTHENTICATE with its two further lines.
Login(s) ==
    /\ Ready(s) /\ ~Authed(s)
    /\ proto_stat' = [proto_stat EXCEPT ![s] = "auth"]
    /\ UNCHANGED <<mailbox, bus, selected_folder, b_readonly, contents, queues,
                   listed, place, ghosts>>

\* Commands that leave the messages alone end with imap_parser_echo_modify,
\* whatever they answer.
Report(s) ==
    /\ Ready(s) /\ Selected(s)
    /\ Goto(s, "echo")
    /\ UNCHANGED <<mailbox, bus, session, contents, queues, listed, sched_stat,
                   asleep, work, unsub, ghosts, prev_selected>>

Noop(s) == Report(s)            \* CAPABILITY, ID, NOOP, CHECK
ManageFolders(s) == Report(s)   \* CREATE to UNSUBSCRIBE, of other folders
ListFolders(s) == Report(s)     \* LIST, XLIST, LSUB, STATUS
Search(s) == Report(s)          \* SEARCH, UID SEARCH

\* FETCH: reading a text sets \Seen, and \Recent is taken off, unless the
\* folder was opened with EXAMINE.
Fetch(s, U) ==
    /\ Ready(s) /\ Selected(s) /\ ~b_readonly[s]
    /\ U # {} /\ U \subseteq contents[s] \cap idx[selected_folder[s]]
    /\ BcastFlags(s, U) /\ Owe(MustLearn(selected_folder[s], s), U)
    /\ Goto(s, "echo")
    /\ UNCHANGED <<mailbox, bus, session, contents, f_expunged_uids, listed,
                   sched_stat, asleep, work, unsub, carried, lapse,
                   prev_selected>>

\* STORE of \Deleted, set or taken off; the messages are found in midb's
\* index and must be in the view.
Store(s, U, set) ==
    LET f == selected_folder[s] IN
    /\ Ready(s) /\ Selected(s) /\ ~b_readonly[s]
    /\ U # {} /\ U \subseteq contents[s] \cap idx[f]
    /\ deleted' = [deleted EXCEPT ![f] = IF set THEN @ \cup U ELSE @ \ U]
    /\ BcastFlags(s, U) /\ Owe(MustLearn(f, s), U)
    /\ Goto(s, "echo")
    /\ UNCHANGED <<store, idx, uidnext, incoming, replaced, bus, session,
                   contents, f_expunged_uids, listed, sched_stat, asleep,
                   work, unsub, carried, lapse, prev_selected>>

\* EXPUNGE and UID EXPUNGE: list_deleted; the first takes those of the view,
\* the second those of its argument.
ExpungeList(s, U) ==
    LET f == selected_folder[s] IN
    /\ Ready(s) /\ Selected(s) /\ ~b_readonly[s]
    /\ U \subseteq deleted[f]
    /\ work' = [work EXCEPT ![s] = U]
    /\ Goto(s, IF deleted[f] = {} THEN "echo" ELSE "remove")
    /\ UNCHANGED <<mailbox, bus, session, contents, queues, listed, sched_stat,
                   asleep, unsub, ghosts, prev_selected>>

\* remove_mail, the files, imap_parser_bcast_expunge.
ExpungeRemove(s) ==
    LET f == selected_folder[s] IN
    /\ At(s, "remove")
    /\ store' = [store EXCEPT ![f] = @ \ work[s]]
    /\ BcastExpunge(s, work[s])
    /\ Goto(s, "echo")
    /\ UNCHANGED <<idx, deleted, uidnext, incoming, replaced, bus, session,
                   contents, f_flags, listed, sched_stat, asleep, work, unsub,
                   ghosts, prev_selected>>

\* remove_mail, which sends the list in one or more requests, is refused or gets
\* no answer.  What the store has removed by then stays removed, and this session
\* tells nobody.
ExpungeFails(s) ==
    /\ At(s, "remove")
    /\ \E V \in SUBSET work[s] :
           store' = [store EXCEPT ![selected_folder[s]] = @ \ V]
    /\ work' = [work EXCEPT ![s] = {}]
    /\ Goto(s, "ready")
    /\ UNCHANGED <<idx, deleted, uidnext, incoming, replaced, bus, session,
                   contents, queues, listed, sched_stat, asleep, unsub, ghosts,
                   prev_selected>>

\* CLOSE, imap_cmd_parser_clsfld: the session leaves the folder first.
CloseLeave(s) ==
    /\ Ready(s) /\ Selected(s) /\ ~b_readonly[s]
    /\ RemoveSelect(s) /\ Deselect(s)
    /\ prev_selected' = [prev_selected EXCEPT ![s] = selected_folder[s]]
    /\ Goto(s, "close")
    /\ UNCHANGED <<mailbox, bus, sched_stat, asleep, work>>

\* ... and then removes what is flagged; other sessions are only told that
\* the folder has changed.
CloseRemove(s) ==
    LET f == prev_selected[s] IN
    /\ At(s, "close")
    /\ SendUnselect(s)
    /\ store' = [store EXCEPT ![f] = @ \ deleted[f]]
    /\ IF deleted[f] # {} THEN BcastTouch(f, {s}) ELSE UNCHANGED mask
    /\ prev_selected' = [prev_selected EXCEPT ![s] = NoFolder]
    /\ Goto(s, "ready")
    /\ UNCHANGED <<idx, deleted, uidnext, incoming, replaced, touches, expunges,
                   session, contents, f_flags, f_expunged_uids, listed,
                   sched_stat, asleep, work, ghosts>>

\* ... or one of its two requests fails, and CLOSE is answered all the same.
CloseFails(s) ==
    LET f == prev_selected[s] IN
    /\ At(s, "close")
    /\ SendUnselect(s)
    /\ \E V \in SUBSET deleted[f] : store' = [store EXCEPT ![f] = @ \ V]
    /\ prev_selected' = [prev_selected EXCEPT ![s] = NoFolder]
    /\ Goto(s, "ready")
    /\ UNCHANGED <<idx, deleted, uidnext, incoming, replaced, touches, expunges,
                   session, contents, queues, listed, sched_stat, asleep, work,
                   ghosts>>

\* COPY and UID COPY to folder f.  When one message fails, those already
\* copied stay: the list for remove_mail names the originals, which midb does
\* not find in the target folder.
Copy(s, f, U, ok) ==
    /\ Ready(s) /\ Selected(s)
    /\ U \subseteq contents[s] \cap idx[selected_folder[s]]
    /\ U # {} \/ ~ok
    /\ uidnext[f] + incoming[f] + Cardinality(U) <= MaxUid[f] + 1
    /\ incoming' = [incoming EXCEPT ![f] = @ + Cardinality(U)]
    /\ Goto(s, IF ok THEN "echo" ELSE "ready")
    /\ UNCHANGED <<store, idx, deleted, uidnext, replaced, bus, session,
                   contents, queues, listed, sched_stat, asleep, work, unsub,
                   ghosts, prev_selected>>

\* APPEND to f: insert_mail, then imap_parser_bcast_touch of the selected
\* folder.  While a large literal arrives the session does nothing but wait,
\* as it does between two commands.
Append(s, f) ==
    /\ Ready(s) /\ Authed(s)
    /\ uidnext[f] + incoming[f] <= MaxUid[f]
    /\ incoming' = [incoming EXCEPT ![f] = @ + 1]
    /\ BcastTouch(selected_folder[s], {})
    /\ Goto(s, IF Selected(s) THEN "echo" ELSE "ready")
    /\ UNCHANGED <<store, idx, deleted, uidnext, replaced, bus, session,
                   contents, f_flags, f_expunged_uids, listed, sched_stat,
                   asleep, work, unsub, ghosts, prev_selected>>

-----------------------------------------------------------------------------
\* IDLE, the sleeping list and the end of a connection.

\* IDLE: with no further input the context goes on the sleeping list.
Idle(s) ==
    /\ Ready(s) /\ Authed(s)
    /\ sched_stat' = [sched_stat EXCEPT ![s] = "idling"]
    /\ asleep' = asleep \cup {s}
    /\ UNCHANGED <<mailbox, bus, session, contents, queues, listed, pc, work,
                   prev_selected, unsub, ghosts>>

\* An idling context that has been woken sleeps again: ps_stat_rdcmd after
\* g_timeout without input, and ps_cmd_processing when there is no complete
\* line or one that is not DONE.  (A context that is not in IDLE may sleep as
\* well; that is as waiting for the next command.)
Sleep(s) ==
    /\ At(s, "ready") /\ s \notin asleep /\ sched_stat[s] = "idling"
    /\ asleep' = asleep \cup {s}
    /\ UNCHANGED <<mailbox, bus, session, contents, queues, listed, sched_stat,
                   pc, work, prev_selected, unsub, ghosts>>

IdleDone(s) ==
    /\ At(s, "ready") /\ s \notin asleep /\ sched_stat[s] = "idling"
    /\ sched_stat' = [sched_stat EXCEPT ![s] = "rdcmd"]
    /\ UNCHANGED <<mailbox, bus, session, contents, queues, listed, asleep, pc,
                   work, prev_selected, unsub, ghosts>>

\* imps_thrwork looks at a sleeping context: changes come before input.
Notifiable(s) == sched_stat[s] = "idling" /\ mask[s]

ScanNotify(s) ==
    /\ s \in asleep /\ Notifiable(s)
    /\ asleep' = asleep \ {s}
    /\ sched_stat' = [sched_stat EXCEPT ![s] = "notifying"]
    /\ Goto(s, "echo")
    /\ UNCHANGED <<mailbox, bus, session, contents, queues, listed, work,
                   prev_selected, unsub, ghosts>>

ScanWake(s) ==
    /\ s \in asleep /\ ~Notifiable(s)
    /\ asleep' = asleep \ {s}
    /\ UNCHANGED <<mailbox, bus, session, contents, queues, listed, sched_stat,
                   pc, work, prev_selected, unsub, ghosts>>

\* Mutant of EndProcessing: the context is not taken from g_select_hash.
EndProcessingListed(s) ==
    /\ At(s, "ready")
    /\ s \in asleep => ~Notifiable(s)
    /\ asleep' = asleep \ {s}
    /\ IF Selected(s) THEN Deselect(s)
       ELSE UNCHANGED <<session, contents, owed, lapse>>
    /\ Goto(s, "bye")
    /\ UNCHANGED <<mailbox, bus, queues, listed, unsub, carried, sched_stat,
                   work, prev_selected>>

\* ps_end_processing, for LOGOUT, a lost connection, a timeout before login or
\* the autologout and disconnect that imps_thrwork finds.
EndProcessing(s) ==
    /\ At(s, "ready")
    /\ s \in asleep => ~Notifiable(s)
    /\ asleep' = asleep \ {s}
    /\ IF Selected(s)
       THEN RemoveSelect(s) /\ Deselect(s)
       ELSE UNCHANGED <<listed, unsub, queues, session, contents, ghosts>>
    /\ Goto(s, "bye")
    /\ UNCHANGED <<mailbox, bus, sched_stat, work, prev_selected>>

\* imap_parser_context_clear; the context then serves a new connection.
ContextClear(s) ==
    /\ At(s, "bye")
    /\ SendUnselect(s)
    /\ proto_stat' = [proto_stat EXCEPT ![s] = "noauth"]
    /\ sched_stat' = [sched_stat EXCEPT ![s] = "rdcmd"]
    /\ f_flags' = [f_flags EXCEPT ![s] = {}]
    /\ f_expunged_uids' = [f_expunged_uids EXCEPT ![s] = {}]
    /\ carried' = [carried EXCEPT ![s] = {}]
    /\ Goto(s, "ready")
    /\ UNCHANGED <<mailbox, touches, expunges, selected_folder, b_readonly,
                   contents, mask, listed, asleep, work, prev_selected, owed,
                   lapse>>

-----------------------------------------------------------------------------
\* The store, midb and the event bus.

\* Mail is delivered, or another client saves a message.
Deliver(f) ==
    /\ uidnext[f] + incoming[f] <= MaxUid[f]
    /\ incoming' = [incoming EXCEPT ![f] = @ + 1]
    /\ UNCHANGED <<store, idx, deleted, uidnext, replaced, bus, session,
                   contents, queues, listed, place, ghosts>>

\* POP3, or a MAPI client, deletes a message.
OtherDeletes(f, u) ==
    /\ u \in store[f]
    /\ store' = [store EXCEPT ![f] = @ \ {u}]
    /\ UNCHANGED <<idx, deleted, uidnext, incoming, replaced, bus, session,
                   contents, queues, listed, place, ghosts>>

\* The event daemon forwards only what imapd has subscribed to; a session that
\* is about to be listed cannot be told.  A deletion is sent as
\* MESSAGE-EXPUNGE, everything else as FOLDER-TOUCH.
Forward(f, U) ==
    /\ IF f \in subscribed
       THEN IF U = {} THEN touches' = touches \cup {f} /\ UNCHANGED expunges
            ELSE expunges' = expunges \cup ({f} \X U) /\ UNCHANGED touches
       ELSE UNCHANGED <<touches, expunges>>
    /\ lapse' = [s \in Sessions |->
           lapse[s] \/ (f \notin subscribed /\ selected_folder[s] = f)]
    /\ UNCHANGED subscribed

\* A message is added on the store's notification (message_created).
MidbAdds(f) ==
    /\ incoming[f] > 0
    /\ incoming' = [incoming EXCEPT ![f] = @ - 1]
    /\ uidnext' = [uidnext EXCEPT ![f] = @ + 1]
    /\ store' = [store EXCEPT ![f] = @ \cup {uidnext[f]}]
    /\ idx' = [idx EXCEPT ![f] = @ \cup {uidnext[f]}]
    /\ Forward(f, {})
    /\ UNCHANGED <<deleted, replaced, session, contents, queues, listed, place,
                   owed, carried>>

\* ... and removed on another one (message_deleted).
MidbDeletes(f, u) ==
    /\ u \in idx[f] \ store[f]
    /\ idx' = [idx EXCEPT ![f] = @ \ {u}]
    /\ deleted' = [deleted EXCEPT ![f] = @ \ {u}]
    /\ Forward(f, {u})
    /\ UNCHANGED <<store, uidnext, incoming, replaced, session, contents,
                   queues, listed, place, owed, carried>>

\* A message without MID string was modified (message_modified with another
\* mod_time): midb deletes its row and adds it anew, under the next UID.  If
\* the store has dropped it since, the new row waits for message_deleted, or
\* the message cannot be read any more and has no row.  Nobody is told that the
\* old UID is gone.
MidbReplaces(f, u) ==
    /\ u \in idx[f] /\ uidnext[f] + incoming[f] <= MaxUid[f]
    /\ uidnext' = [uidnext EXCEPT ![f] = @ + 1]
    /\ \/ /\ idx' = [idx EXCEPT ![f] = (@ \ {u}) \cup {uidnext[f]}]
          /\ store' = [store EXCEPT ![f] =
                 IF u \in @ THEN (@ \ {u}) \cup {uidnext[f]} ELSE @]
       \/ /\ u \notin store[f]
          /\ idx' = [idx EXCEPT ![f] = @ \ {u}]
          /\ UNCHANGED store
    /\ deleted' = [deleted EXCEPT ![f] = @ \ {u}]
    /\ replaced' = [replaced EXCEPT ![f] = @ \cup {u}]
    /\ Forward(f, {})
    /\ UNCHANGED <<incoming, session, contents, queues, listed, place, owed,
                   carried>>

\* In the other cases of message_modified midb takes over the read flag, which
\* is not kept here.  It is announced as any change, and is no flag change.
MidbReflags(f) ==
    /\ idx[f] # {}
    /\ Forward(f, {})
    /\ UNCHANGED <<mailbox, session, contents, queues, listed, place, owed,
                   carried>>

\* A session is between its look at the index and add_select.
Late(f) == {s \in Sessions : At(s, "add") /\ selected_folder[s] = f}

\* Mutant of EventTouch: the event is read and nobody is marked.
EventTouchIgnored(f) ==
    /\ f \in touches
    /\ touches' = touches \ {f}
    /\ UNCHANGED <<mailbox, expunges, subscribed, session, contents, queues,
                   listed, place, ghosts>>

\* imap_parser_event_touch.
EventTouch(f) ==
    /\ f \in touches
    /\ touches' = touches \ {f}
    /\ mask' = [s \in Sessions |-> mask[s] \/ s \in On(f)]
    /\ lapse' = [s \in Sessions |-> lapse[s] \/ s \in Late(f)]
    /\ UNCHANGED <<mailbox, expunges, subscribed, session, contents, f_flags,
                   f_expunged_uids, listed, place, owed, carried>>

\* Mutant of EventExpunge: the folder of the event is not compared.
EventExpungeAll(f, u) ==
    /\ <<f, u>> \in expunges
    /\ expunges' = expunges \ {<<f, u>>}
    /\ f_expunged_uids' = [s \in Sessions |->
           IF s \in listed THEN f_expunged_uids[s] \cup {u}
           ELSE f_expunged_uids[s]]
    /\ mask' = [s \in Sessions |-> mask[s] \/ s \in listed]
    /\ UNCHANGED <<mailbox, touches, subscribed, session, contents, f_flags,
                   listed, place, ghosts>>

\* imap_parser_event_expunge.
EventExpunge(f, u) ==
    /\ <<f, u>> \in expunges
    /\ expunges' = expunges \ {<<f, u>>}
    /\ f_expunged_uids' = [s \in Sessions |->
           f_expunged_uids[s] \cup IF s \in On(f) THEN {u} ELSE {}]
    /\ mask' = [s \in Sessions |-> mask[s] \/ s \in On(f)]
    /\ lapse' = [s \in Sessions |-> lapse[s] \/ s \in Late(f)]
    /\ UNCHANGED <<mailbox, touches, subscribed, session, contents, f_flags,
                   listed, place, owed, carried>>

\* imap_parser_event_flag: another imapd has set or taken off \Deleted.
EventFlag(f, u) ==
    /\ OtherImapd /\ u \in idx[f] /\ f \in subscribed
    /\ \E set \in BOOLEAN :
           deleted' = [deleted EXCEPT ![f] =
                           IF set THEN @ \cup {u} ELSE @ \ {u}]
    /\ f_flags' = [s \in Sessions |->
           f_flags[s] \cup IF s \in On(f) THEN {u} ELSE {}]
    /\ mask' = [s \in Sessions |-> mask[s] \/ s \in On(f)]
    /\ Owe({s \in Sessions : Selected(s) /\ ~At(s, "add")
                              /\ selected_folder[s] = f}, {u})
    /\ UNCHANGED <<store, idx, uidnext, incoming, replaced, bus, session,
                   contents, f_expunged_uids, listed, place, carried, lapse>>

-----------------------------------------------------------------------------
Command(s) ==
    \/ Login(s) \/ SelexBegin(s) \/ Unselect(s) \/ CloseLeave(s)
    \/ Noop(s) \/ ManageFolders(s) \/ ListFolders(s) \/ Search(s)
    \/ \E U \in SUBSET contents[s] : Fetch(s, U)
    \/ \E U \in SUBSET contents[s], set \in BOOLEAN : Store(s, U, set)
    \/ \E U \in SUBSET AllUids : ExpungeList(s, U)
    \/ \E f \in Folders, U \in SUBSET contents[s], ok \in BOOLEAN :
           Copy(s, f, U, ok)
    \/ \E f \in Folders : Append(s, f)
    \/ Idle(s)

Continue(s) ==
    \/ \E f \in Folders, ro \in Modes : SelexRead(s, f, ro)
    \/ SelexFails(s) \/ AddSelect(s) \/ Leave(s)
    \/ ExpungeRemove(s) \/ ExpungeFails(s) \/ CloseRemove(s) \/ CloseFails(s)
    \/ EchoNothing(s) \/ EchoModify(s) \/ EchoFails(s)
    \/ ContextClear(s)

Connection(s) ==
    Sleep(s) \/ IdleDone(s) \/ ScanNotify(s) \/ ScanWake(s) \/ EndProcessing(s)

World(f) ==
    \/ Deliver(f) \/ MidbAdds(f) \/ MidbReflags(f) \/ EventTouch(f)
    \/ \E u \in Uids(f) : \/ OtherDeletes(f, u) \/ MidbDeletes(f, u)
                          \/ MidbReplaces(f, u)
                          \/ EventExpunge(f, u) \/ EventFlag(f, u)

Next ==
    \/ \E s \in Sessions : Command(s) \/ Continue(s) \/ Connection(s)
    \/ \E f \in Folders : World(f)

Spec == Init /\ [][Next]_vars

-----------------------------------------------------------------------------
\* Every variable has its type; midb's index has all that the store has and no
\* UID that was not given out, and a session is in a folder exactly in the
\* selected state (imap_context, mail_engine.cpp).
TypeOK ==
    /\ \A f \in Folders :
           /\ store[f] \subseteq Uids(f) /\ deleted[f] \subseteq idx[f]
           /\ store[f] \subseteq idx[f] /\ idx[f] \subseteq 1..uidnext[f]-1
           /\ uidnext[f] + incoming[f] \in 1..MaxUid[f]+1
           /\ replaced[f] \subseteq Uids(f)
    /\ touches \subseteq Folders /\ subscribed \subseteq Folders
    /\ expunges \subseteq Folders \X AllUids
    /\ proto_stat \in [Sessions -> {"noauth", "auth", "select"}]
    /\ selected_folder \in [Sessions -> Folders \cup {NoFolder}]
    /\ prev_selected \in [Sessions -> Folders \cup {NoFolder}]
    /\ unsub \in [Sessions -> Folders \cup {NoFolder}]
    /\ b_readonly \in [Sessions -> BOOLEAN] /\ mask \in [Sessions -> BOOLEAN]
    /\ contents \in [Sessions -> SUBSET AllUids]
    /\ f_flags \in [Sessions -> SUBSET AllUids]
    /\ f_expunged_uids \in [Sessions -> SUBSET AllUids]
    /\ work \in [Sessions -> SUBSET AllUids]
    /\ sched_stat \in [Sessions -> {"rdcmd", "idling", "notifying"}]
    /\ pc \in [Sessions -> {"ready", "read", "add", "leave", "remove", "close",
                            "echo", "bye"}]
    /\ asleep \subseteq Sessions
    /\ \A s \in Sessions : Selected(s) <=> selected_folder[s] # NoFolder

\* No context is left in g_select_hash that is not in its folder any more,
\* closed or reused, and none that is in a folder is missing from it.
ListedIsSelected ==
    listed = {s \in Sessions : Selected(s) /\ ~At(s, "add")}

\* The states of the sessions are sound and g_select_hash agrees with them.
SelectSound == TypeOK /\ ListedIsSelected

Quiet(f) ==
    /\ incoming[f] = 0 /\ idx[f] = store[f]
    /\ f \notin touches /\ \A u \in Uids(f) : <<f, u>> \notin expunges

\* Once every change of the folder has made its way through midb and the event
\* bus and the session has nothing queued, its view is the folder's: it has
\* every message, and besides them only UIDs that midb gave up for others
\* without announcing it - unless an event went by while it could not be told
\* or a refresh failed.
QuietViewCurrent ==
    \A s \in Sessions :
        Selected(s) /\ At(s, "ready") /\ ~mask[s] /\ ~lapse[s]
            /\ Quiet(selected_folder[s])
        => LET f == selected_folder[s] IN contents[s] \ replaced[f] = idx[f]

\* When a message of the session's view has been reflagged by another IMAP
\* session, of this process or another, the change stays queued for the client
\* until it has been told.  (A read flag that the store announces to midb is
\* queued for nobody, see MidbReflags.)
FlagsQueued ==
    \A s \in Sessions : /\ owed[s] \subseteq f_flags[s]
                        /\ owed[s] # {} => mask[s]

\* An EXPUNGE response is never prepared for a message that is still in the
\* folder, except for what an earlier folder has left in f_expunged_uids.
ExpungeIsTrue ==
    \A s \in Sessions : Selected(s) =>
        f_expunged_uids[s] \cap store[selected_folder[s]] \subseteq carried[s]

\* EXPUNGE answers for every message it has removed from the view: its own
\* expunges are queued when it comes to imap_parser_echo_modify.
ExpungeAnswers ==
    \A s \in Sessions : At(s, "echo") =>
        /\ work[s] \cap contents[s] \subseteq f_expunged_uids[s]
        /\ work[s] # {} => mask[s]

-----------------------------------------------------------------------------
\* midb works off the store's notifications and imapd those of the bus, one
\* after the other; imps_thrwork goes round, a notified context is processed,
\* and a woken one that gets no DONE sleeps again after g_timeout at the latest.
Notified ==
    \E f \in Folders : MidbAdds(f) \/ \E u \in Uids(f) : MidbDeletes(f, u)
BusExpunges == \E f \in Folders : \E u \in Uids(f) : EventExpunge(f, u)
Served(s) == \/ ScanNotify(s) \/ Sleep(s)
             \/ EchoNothing(s) \/ EchoModify(s) \/ EchoFails(s)

Fairness ==
    /\ WF_vars(Notified) /\ WF_vars(BusExpunges)
    /\ \A f \in Folders : WF_vars(EventTouch(f))
    /\ \A s \in Sessions : WF_vars(Served(s))

FairSpec == Spec /\ Fairness

InIdle(s) == Selected(s) /\ sched_stat[s] \in {"idling", "notifying"}

\* The view without the UIDs that were given up unannounced.
Behind(s) ==
    LET f == selected_folder[s] IN contents[s] \ replaced[f] # store[f]

\* A client in IDLE does not stay behind its folder: whatever has been delivered,
\* deleted or given a new UID is told to it, unless it leaves IDLE or the session
\* has missed an event.  Only the old UID of a replaced message may stay in its
\* view.
IdleCatchesUp ==
    \A s \in Sessions : []<>(~InIdle(s) \/ lapse[s] \/ ~Behind(s))

=============================================================================
