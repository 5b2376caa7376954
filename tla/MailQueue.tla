----------------------------- MODULE MailQueue -----------------------------
(***************************************************************************)
(* The mail queue between gromox-delivery-queue (the LMTP/SMTP frontend,   *)
(* mda/smtp and mda/message_enqueue.cpp) and gromox-delivery               *)
(* (mda/delivery_app): a directory of mess files, which survives both      *)
(* processes, and a System V message queue with the IDs of new files.      *)
(*                                                                         *)
(* A mail is sent at most once by its client, so a mail also names the     *)
(* session that brings it and the file that is created for it.  The        *)
(* content of a file is abstracted to the mail it belongs to and whether   *)
(* its header says it is complete.                                         *)
(***************************************************************************)
EXTENDS Naturals, Sequences, FiniteSets, FiniteSetsExt

CONSTANTS
    Mails,             \* the mails clients send
    NoMail,            \* no file, no message node
    Workers,           \* transport threads of gromox-delivery: threads_max
    MinWorkers,        \* the first threads_min of them
    Size,              \* blocks of 64 KB each mail needs once it is loaded
    Units,             \* g_message_units, and g_max_memory in blocks
    MaxId,             \* the ID after which flusher_increase_max_ID wraps (INT32_MAX)
    QueueLimit,        \* notices the System V queue holds
    MaxSmtpRestarts,   \* bound on crashes of gromox-delivery-queue
    MaxRestarts,       \* bound on crashes of gromox-delivery
    Faults             \* which system calls may fail: "fclose", "read", "save"

Ids == 1..MaxId

ASSUME QueueAssumption ==
    /\ Units \in Nat \ {0} /\ MaxId \in Nat \ {0} /\ QueueLimit \in Nat
    /\ MaxSmtpRestarts \in Nat /\ MaxRestarts \in Nat
    /\ Size \in [Mails -> 1..Units]
    /\ NoMail \notin Mails /\ MinWorkers \subseteq Workers
    /\ Faults \subseteq {"fclose", "read", "save"}

VARIABLES
    session,    \* what the SMTP session of each mail has done
    flushID,    \* flush_ID of each mail, 0 before it has one
    currentID,  \* g_current_ID of the flusher
    mess,       \* the mess directory: the file under each ID
    ipc,        \* the System V message queue
    free,       \* number of nodes on g_free_list
    mem,        \* g_current_mem, in blocks
    used,       \* g_used_list
    hash,       \* keys of g_mess_hash
    loader,     \* mdq_thrwork: what it does and the message it handles
    left,       \* what the file it has open held when it left the directory
    todo,       \* the directory entries readdir has yet to return
    worker,     \* each transport thread: what it does and the message it handles
    handled,    \* history: how often the hooks have accepted each mail
    saved,      \* mails linked into the save directory
    unchecked,  \* history: mails that met a failure whose result is not looked at
    cut,        \* history: mails the hooks have accepted a truncated copy of
    restarts    \* how often each process has crashed

smtp     == <<session, flushID, currentID>>
memory   == <<free, mem, used, hash, loader, todo, worker>>
history  == <<handled, saved, unchecked, cut, restarts>>
vars     == <<smtp, mess, ipc, memory, left, history>>

NoFile == [mail |-> NoMail, full |-> FALSE]
Files  == {NoFile} \cup [mail : Mails, full : BOOLEAN]

\* A message node: the ID it was loaded from, the mail, the memory it takes and
\* whether all of the mail was read.
NoMsg    == [id |-> 0, mail |-> NoMail, size |-> 0, whole |-> FALSE]
Messages == [id : Ids, mail : Mails, size : 1..Units, whole : BOOLEAN]

Idle   == [pc |-> "idle", msg |-> NoMsg]
Parked == [pc |-> "parked", msg |-> NoMsg]   \* in the wait for g_waken_cond
Off    == [pc |-> "off", msg |-> NoMsg]      \* on g_free_threads

\* transporter_run: the first threads wait for its notify_all, which those that
\* have not come to the wait yet miss.
Started(awake) ==
    [w \in Workers |-> IF w \in awake THEN Idle
                       ELSE IF w \in MinWorkers THEN Parked ELSE Off]

LoaderIdle == [pc |-> "receive", id |-> 0, file |-> NoFile, size |-> 0, back |-> "receive"]

\* message_dequeue_init and _run: everything in memory starts empty, whatever
\* is on disk or in the message queue.
EmptyMemory ==
    /\ free' = Units
    /\ mem' = 0
    /\ used' = <<>>
    /\ hash' = {}
    /\ loader' = LoaderIdle
    /\ todo' = {}
    /\ \E awake \in SUBSET MinWorkers : worker' = Started(awake)

Init ==
    /\ session = [m \in Mails |-> "new"]
    /\ flushID = [m \in Mails |-> 0]
    /\ currentID = 0
    /\ mess = [i \in Ids |-> NoFile]
    /\ ipc = <<>>
    /\ free = Units
    /\ mem = 0
    /\ used = <<>>
    /\ hash = {}
    /\ loader = LoaderIdle
    /\ todo = {}
    /\ left = NoFile
    /\ \E awake \in SUBSET MinWorkers : worker = Started(awake)
    /\ handled = [m \in Mails |-> 0]
    /\ saved = {}
    /\ unchecked = {}
    /\ cut = {}
    /\ restarts = [smtp |-> 0, delivery |-> 0]

-----------------------------------------------------------------------------
(***************************************************************************)
(* gromox-delivery-queue                                                   *)
(***************************************************************************)

\* flusher_increase_max_ID
NextID == IF currentID >= MaxId THEN 1 ELSE currentID + 1

\* The first flusher_put_to_queue of a mail: an ID is drawn and fopen "w"
\* makes an empty file of whatever the directory holds under it.
BeginMess(m) ==
    /\ session[m] = "new"
    /\ currentID' = NextID
    /\ flushID' = [flushID EXCEPT ![m] = NextID]
    /\ mess' = [mess EXCEPT ![NextID] = [mail |-> m, full |-> FALSE]]
    /\ session' = [session EXCEPT ![m] = "open"]
    /\ UNCHANGED <<ipc, memory, left, history>>

\* Files leave the directory; the loader keeps what it has open.
Unlinked(ids) ==
    left' = IF loader.pc \in {"node", "read"} /\ loader.id \in ids /\ left = NoFile
              THEN mess[loader.id] ELSE left

RemoveMess(m) ==
    /\ session[m] = "open"
    /\ mess' = [mess EXCEPT ![flushID[m]] = NoFile]
    /\ Unlinked({flushID[m]})
    /\ session' = [session EXCEPT ![m] = "failed"]
    /\ UNCHANGED <<flushID, currentID, ipc, memory, history>>

\* The connection is lost, times out or the mail is too long: flusher_cancel.
Cancel(m) == RemoveMess(m)

\* A write fails: the label REMOVE_MESS of message_enqueue_try_save_mess; the
\* client is told 451.
FlushFails(m) == RemoveMess(m)

\* The whole mail, its trailer and last its header are written and the file is
\* closed.  Nobody looks at the result of fclose.
SaveMess(m) ==
    /\ session[m] = "open"
    /\ \E full \in {TRUE} \cup (IF "fclose" \in Faults THEN {FALSE} ELSE {}) :
        /\ mess' = [mess EXCEPT ![flushID[m]].full = full]
        /\ unchecked' = IF full THEN unchecked ELSE unchecked \cup {m}
    /\ session' = [session EXCEPT ![m] = "saved"]
    /\ UNCHANGED <<flushID, currentID, ipc, memory, left, handled, saved, cut, restarts>>

\* The end of message_enqueue_handle_workitem: msgsnd with IPC_NOWAIT, which
\* may find the queue full, and the 250 reply in smtp_parser_process.
Acknowledge(m) ==
    /\ session[m] = "saved"
    /\ ipc' = IF Len(ipc) < QueueLimit THEN Append(ipc, flushID[m]) ELSE ipc
    /\ session' = [session EXCEPT ![m] = "acked"]
    /\ UNCHANGED <<flushID, currentID, mess, memory, left, history>>

\* Mutant: the counter starts anew after a restart.
MaxFullIDForgotten == 0

\* message_enqueue_retrieve_max_ID: the largest ID of a complete file.
MaxFullID == LET full == {i \in Ids : mess[i].full} IN IF full = {} THEN 0 ELSE Max(full)

\* A crash of the frontend and its next start.  Incomplete files are removed as
\* the directory is read, unless readdir returns them after a larger ID or they
\* are still empty.
SmtpRestart ==
    /\ restarts.smtp < MaxSmtpRestarts
    /\ restarts' = [restarts EXCEPT !.smtp = @ + 1]
    /\ currentID' = MaxFullID
    /\ \E gone \in SUBSET {i \in Ids : mess[i] # NoFile /\ ~mess[i].full} :
        /\ mess' = [i \in Ids |-> IF i \in gone THEN NoFile ELSE mess[i]]
        /\ Unlinked(gone)
    /\ session' = [m \in Mails |-> CASE session[m] = "open" -> "failed"
                                    [] session[m] = "saved" -> "unanswered"
                                    [] OTHER -> session[m]]
    /\ UNCHANGED <<flushID, ipc, memory, handled, saved, unchecked, cut>>

Smtp(m) == BeginMess(m) \/ Cancel(m) \/ FlushFails(m) \/ SaveMess(m) \/ Acknowledge(m)

-----------------------------------------------------------------------------
(***************************************************************************)
(* mdq_thrwork: the thread that loads mess files                           *)
(***************************************************************************)

LoaderReads == UNCHANGED <<smtp, mess, used, worker, history>>
LoaderOnly  == LoaderReads /\ UNCHANGED left

LoaderGoes(pc) == loader' = [loader EXCEPT !.pc = pc]

\* message_dequeue_load_from_mess returns to the loop that called it.
LoaderReturns == loader' = [LoaderIdle EXCEPT !.pc = loader.back]

\* msgrcv with IPC_NOWAIT
Receive ==
    /\ loader.pc = "receive"
    /\ IF ipc = <<>>
         THEN LoaderGoes("gate") /\ UNCHANGED ipc
         ELSE /\ loader' = [LoaderIdle EXCEPT !.pc = "lookup", !.id = Head(ipc)]
              /\ ipc' = Tail(ipc)
    /\ UNCHANGED <<free, mem, hash, todo>> /\ LoaderOnly

\* Mutant: the directory is never read.
GateShut ==
    /\ loader.pc = "gate"
    /\ LoaderGoes("receive")
    /\ UNCHANGED <<ipc, free, mem, hash, todo>> /\ LoaderOnly

\* The directory is read only while every node is free.  readdir returns what
\* was there at the start and may return what is created meanwhile.
Gate ==
    /\ loader.pc = "gate"
    /\ IF free # Units
         THEN LoaderGoes("receive") /\ UNCHANGED todo
         ELSE /\ LoaderGoes("scan")
              /\ \E entries \in SUBSET Ids :
                    /\ {i \in Ids : mess[i] # NoFile} \subseteq entries
                    /\ todo' = entries
    /\ UNCHANGED <<ipc, free, mem, hash>> /\ LoaderOnly

\* One round of the readdir loop: only files with a non-zero header are loaded.
ScanEntry ==
    /\ loader.pc = "scan"
    /\ mem # Units
    /\ \E i \in todo :
        /\ todo' = todo \ {i}
        /\ IF mess[i].full
             THEN loader' = [LoaderIdle EXCEPT !.pc = "lookup", !.id = i, !.back = "scan"]
             ELSE UNCHANGED loader
    /\ UNCHANGED <<ipc, free, mem, hash>> /\ LoaderOnly

ScanEnds ==
    /\ loader.pc = "scan"
    /\ todo = {} \/ mem = Units
    /\ todo' = {}
    /\ loader' = LoaderIdle
    /\ UNCHANGED <<ipc, free, mem, hash>> /\ LoaderOnly

\* message_dequeue_load_from_mess: the ID is looked up in g_mess_hash.
Lookup ==
    /\ loader.pc = "lookup"
    /\ IF loader.id \in hash THEN LoaderReturns ELSE LoaderGoes("open")
    /\ UNCHANGED <<ipc, free, mem, hash, todo>> /\ LoaderOnly

\* Mutant: the length is not rounded up to the blocks the file takes.
ReserveOne ==
    /\ loader.pc = "open"
    /\ LET file == mess[loader.id]
       IN  IF file = NoFile \/ mem + 1 > Units
             THEN LoaderReturns /\ UNCHANGED <<mem, left>>
             ELSE \E size \in 1..Size[file.mail] :
                    /\ mem' = mem + 1
                    /\ loader' = [loader EXCEPT !.pc = "node", !.file = file, !.size = size]
                    /\ left' = NoFile
    /\ UNCHANGED <<ipc, free, hash, todo>> /\ LoaderReads

\* open and fstat, then the first half of message_dequeue_get_from_free: memory
\* is reserved for the length the file has now, or the file is left alone.  One
\* that is still being written has any length.
Reserve ==
    /\ loader.pc = "open"
    /\ LET file == mess[loader.id]
       IN  IF file = NoFile
             THEN LoaderReturns /\ UNCHANGED <<mem, left>>
             ELSE \E size \in (IF file.full THEN {Size[file.mail]} ELSE 1..Size[file.mail]) :
                    IF mem + size > Units
                      THEN LoaderReturns /\ UNCHANGED <<mem, left>>
                      ELSE /\ mem' = mem + size
                           /\ loader' = [loader EXCEPT !.pc = "node", !.file = file, !.size = size]
                           /\ left' = NoFile
    /\ UNCHANGED <<ipc, free, hash, todo>> /\ LoaderReads

\* The second half: without a free node the reserved memory stays reserved.
TakeNode ==
    /\ loader.pc = "node"
    /\ IF free = 0
         THEN LoaderReturns /\ UNCHANGED free
         ELSE LoaderGoes("read") /\ free' = free - 1
    /\ UNCHANGED <<ipc, mem, hash, todo>> /\ LoaderOnly

\* What the open file holds by now.  fopen "w" empties a file that was left in
\* the directory, so that it may be another mail's.
Opened == IF left # NoFile THEN left ELSE mess[loader.id]

\* Mutant: the header is not checked.
HeaderIgnored == TRUE

\* The first eight bytes, which the frontend writes last.
HeaderNow == Opened.full

\* As many bytes are read as the file had when it was opened: of one completed
\* since then, a part.
ReadMess ==
    /\ loader.pc = "read"
    /\ HeaderNow
    /\ loader' = [loader EXCEPT !.pc = "used", !.file.mail = Opened.mail]
    /\ UNCHANGED <<ipc, free, mem, hash, todo>> /\ LoaderOnly

\* The header says incomplete, was not yet there to be read, or the file has
\* become shorter or cannot be read: message_dequeue_put_to_free.
GiveUp ==
    /\ loader.pc = "read"
    /\ "read" \in Faults \/ ~HeaderNow \/ ~loader.file.full
    /\ mem' = mem - loader.size
    /\ free' = free + 1
    /\ LoaderReturns
    /\ UNCHANGED <<ipc, hash, todo>> /\ LoaderOnly

\* transporter_wakeup_one_thread: a notification that finds nobody in the wait
\* is lost.
WakeOne ==
    LET parked == {w \in Workers : worker[w] = Parked}
    IN  IF parked = {} THEN UNCHANGED worker
        ELSE \E w \in parked : worker' = [worker EXCEPT ![w] = Idle]

\* message_dequeue_put_to_used
PutToUsed ==
    /\ loader.pc = "used"
    /\ used' = Append(used, [id |-> loader.id, mail |-> loader.file.mail,
                             size |-> loader.size, whole |-> loader.file.full])
    /\ WakeOne
    /\ LoaderGoes("emplace")
    /\ UNCHANGED <<smtp, mess, ipc, free, mem, hash, todo, left, history>>

\* Mutant: the message does not enter g_mess_hash.
EmplaceNothing ==
    /\ loader.pc = "emplace"
    /\ LoaderReturns
    /\ UNCHANGED <<ipc, free, mem, hash, todo>> /\ LoaderOnly

\* The ID enters g_mess_hash once the message is already on the used list.
Emplace ==
    /\ loader.pc = "emplace"
    /\ hash' = IF Cardinality(hash) >= 2 * Units + 1 THEN hash ELSE hash \cup {loader.id}
    /\ LoaderReturns
    /\ UNCHANGED <<ipc, free, mem, todo>> /\ LoaderOnly

Loader ==
    Receive \/ Gate \/ ScanEntry \/ ScanEnds \/ Lookup \/ Reserve \/ TakeNode
    \/ ReadMess \/ GiveUp \/ PutToUsed \/ Emplace

-----------------------------------------------------------------------------
(***************************************************************************)
(* dxp_thrwork: the threads that deliver                                   *)
(***************************************************************************)

WorkerSpares == UNCHANGED <<smtp, ipc, loader, todo, unchecked, restarts>>
WorkerOnly  == WorkerSpares /\ UNCHANGED <<left, cut>>

WorkerGoes(w, pc) == worker' = [worker EXCEPT ![w].pc = pc]

\* message_dequeue_get
Get(w) ==
    /\ worker[w].pc = "idle"
    /\ used # <<>>
    /\ worker' = [worker EXCEPT ![w] = [pc |-> "process", msg |-> Head(used)]]
    /\ used' = Tail(used)
    /\ UNCHANGED <<mess, free, mem, hash, handled, saved>> /\ WorkerOnly

\* message_dequeue_get has found nothing MAX_TIMES_NOT_SERVED times.
NotServed(w) ==
    /\ worker[w].pc = "idle"
    /\ used = <<>>
    /\ WorkerGoes(w, "tired")
    /\ UNCHANGED <<mess, free, mem, used, hash, handled, saved>> /\ WorkerOnly

\* g_threads_list
Listed == {w \in Workers : worker[w] # Off}

\* The thread leaves, unless the number of threads is down to threads_min: then
\* it waits, without looking at the used list again and without a time limit.
Rest(w) ==
    /\ worker[w].pc = "tired"
    /\ worker' = [worker EXCEPT ![w] =
           IF Cardinality(Listed) > Cardinality(MinWorkers) THEN Off ELSE Parked]
    /\ UNCHANGED <<mess, free, mem, used, hash, handled, saved>> /\ WorkerOnly

\* dxp_scanwork adds a thread while messages are held.  THREAD_DATA of one of
\* the first threads still says wait_on_event.
AddThread ==
    /\ used # <<>>
    /\ \E w \in Workers \ Listed :
           worker' = [worker EXCEPT ![w] =
               IF w \in MinWorkers THEN Parked ELSE Idle]
    /\ UNCHANGED <<mess, free, mem, used, hash, handled, saved>> /\ WorkerOnly

\* transporter_pass_mpc_hooks ends with a hook that took the mail.
Accepted(w) ==
    /\ worker[w].pc = "process"
    /\ handled' = [handled EXCEPT ![worker[w].msg.mail] = @ + 1]
    /\ cut' = IF worker[w].msg.whole THEN cut ELSE cut \cup {worker[w].msg.mail}
    /\ WorkerGoes(w, "remove")
    /\ UNCHANGED <<mess, free, mem, used, hash, saved, left>> /\ WorkerSpares

\* The mail cannot be parsed, no hook wants it, or one reports proc_error: the
\* file is linked into the save directory and leaves the queue.
SaveForLater(w) ==
    /\ worker[w].pc = "process"
    /\ saved' = saved \cup {worker[w].msg.mail}
    /\ WorkerGoes(w, "remove")
    /\ UNCHANGED <<mess, free, mem, used, hash, handled>> /\ WorkerOnly

\* link fails after a parse failure or an unwanted mail: the node, its memory
\* and its hash entry are never given back.
SaveFailsKept(w) ==
    /\ worker[w].pc = "process"
    /\ "save" \in Faults
    /\ worker' = [worker EXCEPT ![w] = Idle]
    /\ UNCHANGED <<mess, free, mem, used, hash, handled, saved>> /\ WorkerOnly

\* link fails after proc_error: the result is not looked at.
SaveFailsIgnored(w) ==
    /\ worker[w].pc = "process"
    /\ "save" \in Faults
    /\ unchecked' = unchecked \cup {worker[w].msg.mail}
    /\ WorkerGoes(w, "remove")
    /\ UNCHANGED <<smtp, mess, ipc, free, mem, used, hash, loader, todo, left, handled, saved, cut, restarts>>

\* message_dequeue_put: the file, the hash entry, the memory, the node.
PutRemove(w) ==
    /\ worker[w].pc = "remove"
    /\ mess' = [mess EXCEPT ![worker[w].msg.id] = NoFile]
    /\ Unlinked({worker[w].msg.id})
    /\ WorkerGoes(w, "erase")
    /\ UNCHANGED <<free, mem, used, hash, handled, saved, cut>> /\ WorkerSpares

PutErase(w) ==
    /\ worker[w].pc = "erase"
    /\ hash' = hash \ {worker[w].msg.id}
    /\ WorkerGoes(w, "memory")
    /\ UNCHANGED <<mess, free, mem, used, handled, saved>> /\ WorkerOnly

PutMemory(w) ==
    /\ worker[w].pc = "memory"
    /\ mem' = mem - worker[w].msg.size
    /\ WorkerGoes(w, "node")
    /\ UNCHANGED <<mess, free, used, hash, handled, saved>> /\ WorkerOnly

PutNode(w) ==
    /\ worker[w].pc = "node"
    /\ free' = free + 1
    /\ worker' = [worker EXCEPT ![w] = Idle]
    /\ UNCHANGED <<mess, mem, used, hash, handled, saved>> /\ WorkerOnly

Worker(w) ==
    \/ Get(w) \/ NotServed(w) \/ Rest(w) \/ Accepted(w) \/ SaveForLater(w) \/ SaveFailsKept(w)
    \/ SaveFailsIgnored(w) \/ PutRemove(w) \/ PutErase(w) \/ PutMemory(w) \/ PutNode(w)

\* A crash of gromox-delivery and its next start.
DeliveryRestart ==
    /\ restarts.delivery < MaxRestarts
    /\ restarts' = [restarts EXCEPT !.delivery = @ + 1]
    /\ EmptyMemory
    /\ UNCHANGED <<smtp, mess, ipc, left, handled, saved, unchecked, cut>>

-----------------------------------------------------------------------------

Next ==
    \/ \E m \in Mails : Smtp(m)
    \/ SmtpRestart
    \/ Loader
    \/ \E w \in Workers : Worker(w)
    \/ AddThread
    \/ DeliveryRestart

Spec == Init /\ [][Next]_vars

\* Every thread of gromox-delivery keeps running: the loader polls, a hook
\* returns and dxp_scanwork comes round every second.  Clients need not go on
\* and processes need not crash.
FairSpec ==
    /\ Spec
    /\ WF_vars(Loader)
    /\ \A w \in Workers : WF_vars(Worker(w))
    /\ WF_vars(AddThread)

-----------------------------------------------------------------------------
(***************************************************************************)
(* Properties                                                              *)
(***************************************************************************)

\* Every variable has its type; there are never more free nodes or more memory
\* in use than message_dequeue_run has set up.
TypeOK ==
    /\ session \in [Mails -> {"new", "open", "saved", "acked", "failed", "unanswered"}]
    /\ flushID \in [Mails -> 0..MaxId]
    /\ currentID \in 0..MaxId
    /\ mess \in [Ids -> Files]
    /\ ipc \in Seq(Ids) /\ Len(ipc) <= QueueLimit
    /\ free \in 0..Units
    /\ mem \in 0..Units
    /\ used \in Seq(Messages)
    /\ hash \subseteq Ids
    /\ loader \in [pc : {"receive", "gate", "scan", "lookup", "open", "node", "read", "used", "emplace"},
                   id : 0..MaxId, file : Files, size : 0..Units, back : {"receive", "scan"}]
    /\ left \in Files
    /\ todo \subseteq Ids
    /\ worker \in [Workers -> [pc : {"idle", "tired", "parked", "off", "process", "remove", "erase", "memory", "node"},
                               msg : {NoMsg} \cup Messages]]
    /\ handled \in [Mails -> Nat]
    /\ saved \subseteq Mails
    /\ unchecked \subseteq Mails
    /\ cut \subseteq Mails
    /\ restarts \in [smtp : 0..MaxSmtpRestarts, delivery : 0..MaxRestarts]

Taken(m)   == handled[m] > 0 \/ m \in saved
Settled(m) == Taken(m) /\ m \notin cut

\* A mail for which the client was told 250 is in the queue as a complete file
\* until a hook took it or it was linked into the save directory, whatever
\* crashes in between and whichever IDs are used again.  Two results are not
\* looked at, of fclose in the frontend and of link after proc_error: a mail
\* that meets such a failure is lost, and so is the end of one that was completed
\* while the loader had it open for an earlier mail of its ID.
AckedNotLost ==
    \A m \in Mails : session[m] = "acked" =>
        \/ Settled(m)
        \/ mess[flushID[m]] = [mail |-> m, full |-> TRUE]
        \/ m \in unchecked \cup cut

\* A mail reaches the hooks once, and once more at most for every crash of
\* gromox-delivery: g_mess_hash keeps notices and directory scans from loading
\* a file that is already loaded.
AtMostOnce ==
    \A m \in Mails : handled[m] <= 1 + restarts.delivery

\* What a client broke off, or could not be written, is never delivered, even
\* where its ID is that of an earlier mail whose notice is still on its way; and
\* of a mail that was completed, a truncated copy is delivered only if another
\* mail had its ID, so never while the frontend counts on.
PartialNeverHandled ==
    /\ \A m \in Mails : session[m] \in {"new", "open", "failed"} => ~Taken(m)
    /\ \A m \in cut : \E d \in Mails \ {m} : flushID[d] = flushID[m]

\* Who needs memory for a loaded message: the loader from the reservation on, the
\* places of the used list, and the threads until they give the memory back.
MemoryHolders ==
    (IF loader.pc \in {"node", "read", "used"} THEN {<<"loader", 0>>} ELSE {})
    \cup {<<"used", i>> : i \in DOMAIN used}
    \cup {<<"worker", w>> : w \in {v \in Workers :
                                   worker[v].pc \in {"process", "remove", "erase", "memory"}}}

SizeOf(h) ==
    CASE h[1] = "loader" -> loader.size
      [] h[1] = "used"   -> used[h[2]].size
      [] OTHER           -> worker[h[2]].msg.size

\* The blocks they hold, and how many these are.
HeldBlocks == UNION {{h} \X (1..SizeOf(h)) : h \in MemoryHolders}
HeldMemory == Cardinality(HeldBlocks)

\* Memory is released after the message that needed it, by threads that do not
\* hold the lock the loader reserves under: what the loaded messages take never
\* exceeds g_current_mem, hence never dequeue_maximum_mem.
MemoryCoversHeld == HeldMemory <= mem

\* Memory, nodes and notices stay within what was set up for them, and the
\* memory accounted for covers the messages that are loaded.
MemoryBounded == TypeOK /\ MemoryCoversHeld

\* Every thread there can be waits while a message is on the used list: the
\* notification was lost on a thread on its way to the wait, and dxp_scanwork
\* added only threads that wait_on_event.
Stranded == used # <<>> /\ \A w \in Workers : worker[w] = Parked

\* The ID of the mail is in g_mess_hash though nobody has loaded it: an earlier
\* mail with that ID was done with before the loader entered it.
Shadowed(m) ==
    /\ flushID[m] \in hash /\ loader.pc # "emplace"
    /\ \A w \in Workers : worker[w].msg.mail # m
    /\ \A i \in DOMAIN used : used[i].mail # m

\* Memory stays reserved for a message that never got a node, or could not be
\* saved.
Leaked == HeldMemory < mem

\* A mail for which the client was told 250 is eventually delivered or saved,
\* also when its notice was dropped, there was no memory for it or the
\* notification of the transport threads was lost, as long as dxp_scanwork can
\* still add a thread that looks for it, no memory has leaked, and the frontend
\* has not given it, after a restart, an ID that is stuck in g_mess_hash.
QueueDrains ==
    \A m \in Mails : session[m] = "acked" ~>
        Settled(m) \/ m \in cut \/ Stranded \/ Leaked \/ Shadowed(m)
=============================================================================
