# Gromox: TLA+ models of its schedulers, queues and daemons

Gromox is a groupware server: an Exchange-compatible store with HTTP, IMAP and
POP3 frontends, a mail delivery agent, and a few small daemons that connect
them. This directory holds TLA+ models of the parts that are concurrent, that
survive crashes, or both; the TLC configurations that check them; and proofs,
checked by TLAPS, of the central ones. Paths below are relative to `src/`.

## 1. The system

### 1.1 Parts, their state and their operations

| Part | Source | State | Operations |
|---|---|---|---|
| Contexts pool | `lib/contexts_pool.cpp` | one context per connection; five lists with a mutex each, a `type` field, the epoll set | get, insert, signal, activate, wakeup; the epoll thread, the scan thread |
| Threads pool | `lib/threads_pool.cpp` | list and counter of worker threads, per-thread wait | run, worker loop, scan thread (grow), stop |
| Mail queue, writing | `mda/message_enqueue.cpp`, `mda/smtp/flusher.cpp` | `g_current_ID`, files under `mess/`, a System V message queue | open, write, complete, cancel, answer, restart |
| Mail queue, loading | `mda/delivery_app/message_dequeue.cpp` | free and used lists, `g_current_mem`, hash of loaded IDs | receive a notice, scan the directory, load, get, put, save |
| Transport threads | `mda/delivery_app/transporter.cpp` | threads, contexts for bounces | take a message, pass it to the hooks, grow, shrink, stop |
| Timer daemon | `tools/timer.cpp` | `g_exec_list`, `g_last_tid`, an append-only file | ADD, CANCEL, execute, rewrite, load |
| Timer client | `exch/timer_agent.cpp` | pool of connections | add, cancel, ping, reconnect |
| Event daemon and clients | `tools/event.cpp`, `mra/event_*.cpp` | hosts, selections, a fifo per connection | LISTEN, SELECT, enqueue, dequeue, expiry |
| Asynchronous EMSMDB waits | `exch/emsmdb/asyncemsmdb_interface.cpp` | two hashes of parked requests, wake-up list | wait, wake up, time out, reclaim, remove |
| Store engine | `exch/exmdb/db_engine.cpp` | table of open mailbox databases with reference counts; search folder queue | get, unload, expire, populate |
| Store server and client | `exch/exmdb/`, `lib/exmdb_client.cpp` | connections, notification routers | call, notify, ping |
| HTTP server | `exch/http/` | parser contexts, virtual connections of RPC over HTTP | IN/OUT channel set-up, recycling, flow control |
| EMSMDB sessions | `exch/emsmdb/emsmdb_interface.cpp` | table of sessions, two polled flags and a list of notifications each | connect, RPC, notify, expire, disconnect |
| IMAP sessions | `mra/imap/` | the view of the selected folder, what is queued to be reported, the table of selected sessions | the IMAP commands, IDLE, events of the bus |
| NSP, MAPI/HTTP, EWS, zcore, midb, POP3, SMTP | `exch/`, `mra/`, `mda/smtp/` | sessions | the protocols' commands |
| Hooks | `mda/exmdb_local/`, `mda/alias_resolve.cpp`, ... | retry queue on disk | deliver, retry, bounce |
| Libraries and tools | `lib/`, `tools/`, `php_mapi/` | - | formats, conversions, administration |

`PROJECT.json` lists every part with its files and whether it is modelled.

### 1.2 How they interact

* A listener takes a free context, attaches the accepted socket and puts the
  context on the polling list. The epoll thread moves it to the turning list when
  the socket is readable; a worker of the threads pool takes it from there, runs
  the protocol's parser and puts it on the list the parser asks for. The scan
  thread handles time-outs and the idling list. Parsers of *other* connections may
  signal an idling context, activate a polling one, or (IMAP IDLE) wake a sleeping
  one. A context changes lists through the hands of a thread, between two locks.
* The SMTP frontend writes a mail to a file whose first field is zero, completes the
  field when the mail is whole, sends the ID through the System V queue and
  answers 250. The delivery process loads a file on a notice, or when it scans the
  directory, hands it to a transport thread and removes it when the hooks are done.
  Only the directory survives a crash of either.
* Clients of the timer daemon add and cancel timers; the daemon executes a
  command when it is due, and appends to its file what happened. A start reads the
  file again.
* The store notifies its clients through routers. A notification for an EMSMDB
  session is queued in the session and announced to the client: an RPC in progress
  takes it along, or a parked request of the client is woken up, over MAPI/HTTP or
  RPC over HTTP.
* midb keeps an index of every folder from the store's notifications and announces
  changes on the event bus. An IMAP session keeps a numbered copy of the index and
  learns of changes from other sessions of the same process directly, and from all
  others through the event daemon, which forwards the folders that somebody has
  selected.
* Every store operation works on an open mailbox of one table; the table is locked,
  so is each mailbox, and threads that fill search folders, close idle mailboxes or
  unload them on request go through the same locks in different orders.

### 1.3 What is hard about it

Hand-overs between two locks; fields that are written under one lock and read
under another; events that are stale when they are looked at; notices that may be
dropped and must not matter; crashes between two writes; identifiers that are used
again; counters whose release is not under the lock of their reservation; waits
without a predicate. The list `hazards` of `PROJECT.json` has each of them with its
line and the properties that watch it; where no property does, it says why.

### 1.4 What makes each part correct

* Contexts pool: a context is in one place; its `type` can be relied on under the
  lock of the list it names; a free context is clean; no event is lost; who waits is
  served.
* Threads pool: the counter counts the threads, the limits hold, stop returns and
  leaves no thread behind.
* Mail queue: what was answered 250 is delivered or kept, whatever crashes; a mail is
  handled once, and once more per crash at most; a partial mail never is; memory
  stays within its bound.
* Timer daemon: the file restores the list; a command runs once; a cancelled one
  does not run; every other one does; a failed write harms its own timer only.
* EMSMDB sessions: the polled flags exclude like locks; nothing is erased under its
  user; a queued notification is announced.
* Asynchronous waits: a wait is in one place and freed once; a request has one answer
  and gets it in the end.
* IMAP sessions: the numbering follows the folder; what others change is queued until
  it is told; no message is reported expunged that exists; IDLE catches up.
* Event daemon: no thread uses a host that is gone; an event reaches a host once; a
  selection survives restarts and broken connections.
* Store engine: a mailbox is open, once, for whoever uses it or has something in it;
  every request ends; idle mailboxes are closed; queued searches are run.

## 2. Modules

| Module | Models | Of |
|---|---|---|
| `ContextsPool` | lists, threads and clients of the pool | `lib/contexts_pool.cpp`, `exch/http/listener.cpp`, `lib/threads_pool.cpp`, `mra/imap/imap_parser.cpp` |
| `ConnectionLife` | abstract: free, setup, waiting, ready, served | what the pool promises of a connection |
| `ThreadsPool` | the threads and their number | `lib/threads_pool.cpp` |
| `MailQueue` | both processes and the directory between them | `mda/message_enqueue.cpp`, `mda/smtp/flusher.cpp`, `mda/delivery_app/*.cpp` |
| `Timer` | clients' threads, main loop, file | `tools/timer.cpp` |
| `EmsmdbHandles` | the table of sessions, RPCs, events, expiry | `exch/emsmdb/emsmdb_interface.cpp`, `rop_processor.cpp` |
| `AsyncWaits` | parked requests and both kinds of client | `exch/emsmdb/asyncemsmdb_interface.cpp`, `exch/mh/emsmdb.cpp`, `exch/http/pdu_processor.cpp`, `hpm_processor.cpp`, `http_parser.cpp` |
| `ImapSessions` | sessions of one user, midb's index, the bus | `mra/imap/*.cpp`, `exch/midb/mail_engine.cpp` |
| `EventHub` | the daemon with its proxies and stubs | `tools/event.cpp`, `mra/event_proxy.cpp`, `mra/event_stub.cpp` |
| `DbEngine` | the table of open mailboxes, search threads | `exch/exmdb/db_engine.cpp` and its callers in `folder.cpp`, `store.cpp`, `table.cpp` |
| `MailboxUse` | abstract: open, use, change, close | what the table promises |
| `ListsProofs` | theorems about `Timer` and `ThreadsPool` (4) | |
| other `...Proofs` | theorems about the module of that name (4) | |
| `MC...` | the instances: symmetry sets, sizes of mails, owners of connections | |

### 2.1 ContextsPool

`list` has the four unordered lists (free, idling, polling, sleeping) as sets,
`turning` is the queue, `temp` the scan thread's local list. `hand[a]` is the context
that thread `a` has taken off a list and not yet put on the next one; every step
that the code does under one lock is one action, and taking and putting are
separate actions because two locks guard them. `type`, `b_waiting`, `sock`, `reg` are
the fields of a context and its entry in the epoll set (one-shot: `armed` until an
event, then `disarmed`). `evq` is what `epoll_wait` returned and the thread has not
yet looked at, so events grow stale in it. `slist` and `wake` are the IMAP parser's
`g_sleeping_list` and the element its thread is about to wake. `age` is the time
since the last activity, capped at `MaxAge`, which is past every time-out.

`Insert` is all of `contexts_pool_insert`, including the re-registration of a socket
whose `EPOLL_CTL_MOD` finds it gone; `AddMayFail` says whether adding it again may
fail as well. The parser is abstract: a worker puts its context on any list that a
parser in this repository returns. A context goes to the sleeping list only with its
entry in `slist`, as in `imap_parser.cpp`.

### 2.2 ConnectionLife and the refinement

`ConnectionLife` knows neither lists nor locks: one stage per context and the set of
threads that serve it. `StageOf` maps the place of a context to its stage, and
`LifeSpec` says that every step of the pool is one of the abstract steps or none.

### 2.3 ThreadsPool

`thr[t]` is where worker `t` is in `tpol_thrwork`; `list` and `cur` are
`g_threads_data_list` and `g_threads_pool_cur_thr_num`, changed at the steps the code
changes them. Contexts are only counted: `queued` on the turning list, `waiting`
elsewhere. `MaxTimesNotServed` and `MaxNotEmptyTimes` stand for the constants of the
same names. The timed wait of a worker always may end. `threads_pool_stop` is the
sequence `StopBegin` ... `StopJoin`; `StopHead` reads the head of the list under a lock
that the leaving worker does not hold at that moment, and the model follows that: the
worker may be gone by the time it is used, and the list may be empty
(`threads_pool.cpp:127`).

### 2.4 MailQueue

One mail is one SMTP session. `mess` maps an ID to its file: the mail it is of and
whether the header says it is whole. An ID is handed out after the largest *complete*
file at a start, so IDs may come again. `ipc` is the bounded System V queue; a notice
that does not fit is dropped, as by `msgsnd` with `IPC_NOWAIT`. `loader` goes through
`message_dequeue_load_from_mess` lock by lock: look the ID up, open the file and reserve
memory for the length it has then, take a node, read that much and look at the header, put the
message on `used`, enter the ID in `hash`. The length and the header belong to different
moments (`message_dequeue.cpp:341`, 360): of a file completed in between the first part is
loaded. Such a message is not `whole`, and the mail it is of is `cut` once a hook has
accepted it. What was opened may also leave the directory before it is read (`left`), or be
emptied by `fopen` for the next mail of the ID (`Opened`). A transport thread gets a message, has the hooks accept it, saves it or fails to,
and gives back file, hash entry, memory and node in the order of the code.
A thread that finds nothing (`NotServed`) leaves if there are more than `MinWorkers` and
waits otherwise (`Rest`), without a look at the list in between; `WakeOne` is a
`notify_one` that may find nobody; `AddThread` is the scanner. `THREAD_DATA` of one of
the first `threads_min` threads keeps `wait_on_event` when it is used again
(`transporter.cpp:225`, 344-347), so such a thread begins with the wait; the model follows.
`DeliveryRestart` and `SmtpRestart` are crashes at any step with the start that
follows. `Faults` names system calls that may fail. `HeldMemory` is the memory of the messages
that are loaded, counted as the set of blocks that their holders hold; `g_current_mem` is
compared with it.

Abstractions: a message is whole or not, and how much of it is missing is not kept; `readdir` may
return any entry that exists when the scan begins or appears during it; hooks are
their results; a message's bytes are the mail they are of.

### 2.5 Timer

`execList`, `file` and `tmp` are sequences of timers; a line with
time 0 says that the timer of its ID is over. `CancelPairs` is the loop that
crosses out the pairs at start, `Pending` the lines it leaves, and `Load` the loop that puts them
into the list one by one; all three are recursive functions over the number of
lines done. The main loop holds the list lock except in
`sleep`. `Save`, `SaveRemove` and `SaveRename` are the weekly rewriting: new file,
`remove`, `rename`. `Restart` is a crash or a stop at any moment with the start that
follows. Every write of a line may fail (`Write`), as may the opening and the renaming of the
file in the rewriting (`SaveFails`, `SaveRenameFails`), after which `fd` may be closed and every
later line is lost; the daemon logs all this and answers TRUE. `unlogged` remembers whose line
it was, and `MaxFaults` bounds such calls. A line is written whole or not at all: a torn
line is left out. A command that cannot be parsed, forked or executed is recorded as over
like one that was run (`unrun`). `put_timer` returns what the code
returns: the element *behind* the inserted one if there is one. A client's call may lose its
answer (`exch/timer_agent.cpp`): ADD then returns 0 although the timer is there, and a
CANCEL may be repeated.

### 2.6 EmsmdbHandles

`live` is `g_handle_hash`; `b_processing` and `b_occupied` are the flags that threads poll
under `g_lock`, one action per critical section. An RPC thread takes a session, drains
its notifications one by one and may put one back that does not fit; an event thread
queues one and decides by `b_processing` whether it has to wake the client; removal
waits for the list and goes on *without* the lock, as the code does, up to the
exception of the second unlock: at once when the list is occupied again (`LookUnlocked`), and
otherwise behind the erasing (`"threw"`, then `aborted`). `told` and `window` remember
whether the client has been announced what is queued.

### 2.7 AsyncWaits

Two tables of parked waits, the wake-up list with its threads, the scan thread's list
and the two kinds of client with the state machines that the HTTP server runs for
them. A client's connection may close at any step. Sessions appear as their outcomes:
a request may be refused, may find a notification, or parks; a wake-up may come for
any tag at any time.

### 2.8 ImapSessions

`store` and `idx` are what the store has and what midb knows; their difference is what
is still to be notified. `contents` is a session's view: UIDs only grow, so a set of
them fixes the numbers. `mask`, `f_flags`, `f_expunged_uids` are what is queued for a
session, worked off by `EchoModify`. Commands that give the lock or the connection to
midb in between are several actions (`SelexRead`, `AddSelect`; `ExpungeList`,
`ExpungeRemove`; `CloseLeave`, `CloseRemove`), with their failures (`SelexFails`, `ExpungeFails`,
`CloseFails`): midb may have removed some of the messages when the command fails. Other IMAP
servers, POP3 and MAPI clients act on the store and through the bus. midb announces a
deletion as MESSAGE-EXPUNGE and all else as FOLDER-TOUCH (`Forward`). A message that is modified
may get a new UID (`MidbReplaces`), of which nobody hears that the old one is gone, or a new
read flag (`MidbReflags`), which is queued for no session. `owed`, `carried`, `lapse` and `replaced` are
history. Left out: failures of midb itself to read or insert a message, and the full
synchronisation of a folder (`mail_engine_sync_contents`) when midb opens a mailbox.

### 2.9 EventHub

A connection is a client and a generation, so the daemon may hold one that its client
has replaced. Threads of both pools are counted: asleep, notified, busy. `Connect` to
`NodeLost` follow a connection from the accept thread to an enqueue or a dequeue thread
and out again; `Restart` loses all of the daemon's memory. An event put into a fifo whose
thread is at work may be lost (`SendEvent`): the two sides lock different mutexes
(`event.cpp:586`, 677). That is the outcome of this undefined behaviour the model knows, besides the
end of the daemon; other corruption of the fifo is left out.

### 2.10 DbEngine, MailboxUse and the refinement

`g_hash_lock` is held over several steps by the expiry thread and `unload_db` only and is
explicit there; `giant_lock` is held by the threads at `"rd"`, `"wr"` and `"enqueue"`.
`base[t]` is a pointer: a base is freed by `Erase` and its name used again when nobody
points to it. Between `db_base::open` and the first `db_conn` the pointer does not count
(`"gap"`); if the base is freed there, `GapDangling` takes the process to crash and start
over. `MailboxUse` has neither locks nor references; `UseSpec` says every step of the
table but that crash is one of its steps or none.

History variables (`handled`, `executed`, `interrupted`, `unchecked`, `cut`, `unlogged`, `damage`, ...) are
read by the properties only.

## 3. Runs

| Run | Checks | Shows |
|---|---|---|
| `pool` | `TypeOK`, `OnePlace`, `TypeTellsList`, `FreeIsClean`, `NoLostEvent`, `SleepersKnown` | safety of the scheduler with two contexts, two workers, a listener, a notifier and all the pool's threads, with failing registrations |
| `pool_live` | `LifeSpec`, `WaitingServed` | the pool implements `ConnectionLife`, and a waiting connection is served, also when a signal was lost |
| `threads` | `Accounts`, `StopReturns`, `ShrinksWhenIdle` | threads growing, shrinking and being stopped: the counter, the list and the limits; stopping ends; an idle pool goes back to its minimum |
| `queue` | `MemoryBounded`, `AckedNotLost`, `AtMostOnce`, `PartialNeverHandled` | two mails, a transport thread, a crash of each process, failing calls |
| `queue_live` | `QueueDrains` | a mail that was acknowledged is delivered or saved, with dropped notices, memory and a node for one mail only, a crash of the frontend, and two transport threads that wait, leave and are added |
| `timer` | `ListRestorable`, `ExecutedOnce`, `CancelIsFinal`, `TimerFires` | two clients that may lose answers, one rewriting, one crash, one failing call |
| `sessions` | `SessionsSound`, `HeldIsLive`, `Announced` | two sessions of a user, two RPC threads, an event thread, the scan thread |
| `async` | `WaitsSound`, `AtMostOneAnswer`, `WaitIsOver` | a NotificationWait and an EcDoAsyncWaitEx of one session with wake-ups, time-outs and closing connections |
| `imap` | `SelectSound`, `FlagsQueued`, `ExpungeAnswers` | two sessions on one folder, changed by them and by everybody else |
| `imap_move` | `QuietViewCurrent`, `ExpungeIsTrue`, `IdleCatchesUp` | a session that moves between two folders with the same UIDs, one of which gives a message a new UID, and IDLE |
| `hub` | `NodesSound`, `EventOnce`, `SelectionRestored` | the daemon, an IMAP server with two stubs, midb, one fault |
| `db` | `BasesSound`, `UseSpec`, `SearchesDrain`, `Served`, `IdleClosed` | two RPC threads, a search thread, expiry and unloading on one mailbox; the refinement of `MailboxUse` |

`Accounts`, `MemoryBounded`, `ListRestorable`, `SessionsSound`, `WaitsSound`, `SelectSound`, `NodesSound`
and `BasesSound` are conjunctions of the module's type invariant with named parts that
describe the same tables; each part has its own comment in the module. Every property
has a mutant in `PROJECT.json`: a change of one definition, of the kind a slip in the
code would be, under which TLC finds the property violated. `threads` is the only run
without a deadlock check: a stopped pool has stopped.

### 3.1 Where the code disagrees with what it says

Met while modelling; the models follow the code, and 3.2 says which properties make an
exception for it. These are results of reading: no run of the project is a
counterexample to the quoted sentence, and `findings` in `PROJECT.json` is empty.

* `lib/contexts_pool.cpp:412`: a comment in `contexts_pool_insert` says that a socket which
  the scan thread took out of the epoll set is added back. The test of the result of
  `mod` is inverted: when the socket could be added back, it is shut down.
* `mda/delivery_app/message_dequeue.cpp:273`: `g_current_mem` is described as the memory
  currently allocated. When memory is reserved and there is no free node, the
  reservation is kept for good. `MemoryCoversHeld` is the direction that holds.
* `tools/timer.cpp:202`: `doc/timer.8gx` says a command is executed once. `put_timer` returns
  the wrong element when a later timer is in the list; the later timer is then
  written twice, and executed again after a restart.
* `exch/emsmdb/emsmdb_interface.cpp:403`: line 396 says that a session which is being
  processed cannot be released. A remover that had to wait goes on without the lock, may
  do just that, and throws when it unlocks; it throws earlier when it would have to wait
  again.
* `tools/timer.cpp:549`: an ADD, a CANCEL or an execution whose line cannot be written is
  logged and answered TRUE all the same; the file and what clients were told part ways.
* `exch/midb/mail_engine.cpp:4156`: a message that is given a new UID is not announced as
  expunged under the old one; an IMAP session keeps it in its view until the next SELECT.
* `mda/delivery_app/message_dequeue.cpp:341`: a message is complete when its first field is
  set (line 359), but the length was taken before; a mail with an ID that was in use before
  may be delivered without its end, and its file removed.
* `doc/changelog.rst:482` says that EXPUNGE is no longer reported twice on the EXPUNGE
  command; midb announces every deletion (`exch/midb/mail_engine.cpp:3875`), so the
  session hears of its own a second time; the second report finds nothing in the view.
* `doc/exmdb_provider.4gx:37` speaks of inactivity; `last_time` is set in the constructor of
  `db_base` only, so a mailbox expires by its age as soon as nobody uses it.
* `include/gromox/plugin.hpp:36`: after `proc_error` a message is to be retained for later; the
  result of saving it is not looked at (`transporter.cpp:432`).

Other things a reader of the code will want to know, found on the way and not
decided by a property: the expiry thread erases a base while `dhold` still holds its
`giant_lock`, and unlocks it after it is gone (`db_engine.cpp:581`); a failed `db_base::open` leaves its base in the table, where the
next call finds and uses it; `populating_list_active` is erased without `g_list_lock`
(`db_engine.cpp:775`); an event daemon's fifo is filled and emptied under different locks
(`event.cpp:586`, 677), which is modelled as a lost event; `transporter_stop` joins threads while it holds a mutex they take
(`transporter.cpp:269`); APPEND touches the selected folder instead of the target
(`imap_cmd_parser.cpp:2285`); the rollback of a failed COPY names the original messages
(2916-2926).

### 3.2 Exceptions in the properties

They are where the code gives up. Each is a state or a history that the model reaches, has a
name in its module, and is about the thing it befalls where that can be told: one timer, one
mail, one session, one host. Three are wider, and marked (w): a misplaced timer ends what
is said of the whole list, a lost search notification what is said of the whole queue, and a
base that vanished under a thread what is said of that process.

* `NoLostEvent` excludes a socket whose second registration failed too.
* `AckedNotLost` excludes a mail in `unchecked`: the result of `fclose` in the frontend and
  of the save after `proc_error` is not looked at; and one in `cut`, of which a part was
  delivered. `PartialNeverHandled` says when that may be: the mail shares its ID with another.
* `AtMostOnce` allows one more handling per crash of the delivery process: the file is
  removed after the hooks are done.
* `FileMatchesList`, `ExecutedOnce`, `CancelIsFinal` and `TimerFires` exclude a timer with a line
  that was not written (`unlogged`), whatever else happens to it; and histories with a
  misplaced timer (3.1) (w), the last also those with a crash between `remove` and `rename`,
  which loses the timers themselves (w). `TimerFires` excludes a command that cannot be run (`unrun`).
* `TimerFires` allows a timer to be cancelled by another client that was told the same ID,
  which happens after a rewriting and a restart.
* `StopReturns` excludes two moments: `threads_pool_stop` has picked a worker that has
  deleted itself since (`StopHasStale`), or has none because the last one has, and the list
  is empty (`StopFindsNone`). With no worker above the minimum there is no exception.
* `QueueDrains` excludes `Stranded`: every thread there can be is in the wait, because the
  notification came between a thread's look and its wait and the threads the scanner
  added wait as well; `Leaked`: memory stays reserved for a message that found no free node
  (3.1), so that nothing can be loaded any more; and `Shadowed`: the mail was given, after a
  restart of the frontend, an ID that is stuck in `g_mess_hash`.
* `HeldIsLive` excludes a remover that is about to throw (3.1).
* `Announced` excludes `window`: a notification queued after an RPC's last look at the list
  and before it gives the session back.
* `AtMostOneAnswer` excludes a context that a wait of its previous connection still refers
  to. `WaitIsOver` excludes three races, each described by a state: the request is in the
  wake-up list and every thread waits, after a lost `notify_one` (`Stranded`); it is still marked
  for an activation, or asleep, and no wait of its own is left that would bring one
  (`Orphaned`), because the activation came before the mark or another request of the session
  removed the wait; or the answer is there and the context went to sleep on it
  (`Unnoticed`). A request that is being activated is in none of the three.
* `QuietViewCurrent` and `IdleCatchesUp` exclude `lapse`: an event went by while the session was
  not in the table or the folder not selected at the daemon, or a refresh failed; and, in an
  otherwise exact view, the UIDs in `replaced` (3.1).
* `FlagsQueued` is about flags that IMAP sessions change; a read flag that midb takes over
  from the store is queued for nobody.
* `ExpungeIsTrue` excludes `carried`: what an earlier folder has left in `f_expunged_uids`.
* `SelectionRestored` excludes a host all of whose stub threads have returned
  (`event_stub.cpp:237`) and one with a connection that is not in service while no
  thread is on the way to it (`Unserved`): a notification was lost, and each later one fetches one
  connection only, so that one is always left over until the daemon restarts.
* `HandlesSurvive` excludes a content table that a failed reload has dropped
  (`table.cpp:1083`). `SearchesDrain` excludes a lost notification (w). `UseSpec` excludes the crash of
  2.10 (w).

### 3.3 Bounds

* Contexts pool: every property is about one context or a pair, and no list has a
  size limit; two contexts, two workers and one of each other thread give every
  pair of actors. `age` needs three values: fresh, timed out, and longer.
* Threads pool: a maximum of two threads (`MaxNum`, from the constants of the cfg) with a minimum of
  one, and one name more than the maximum, so that a thread too many could exist; counters of two, so that both the
  round before the limit and the one at it occur.
* Mail queue: two mails, so that IDs, notices, nodes and memory are contended;
  `Units = 2` with a mail of one and a mail of two, so that memory may fail for one; a
  notice queue of one, so that notices are dropped; a crash of each process; `MaxId`
  above the number of mails (the wrap is not reached). The run for liveness has two
  threads with a minimum of one, so that threads leave, are added and are reused,
  `Units = 1`, so that the second mail always waits for memory, and a crash of the
  frontend; the one for safety has one thread, since two threads meet only in `Get`,
  under one lock.
* Timer: two clients with two intervals, so that the second timer comes before or after
  the first; a clock long enough for both and a restart; one failing call, a write, the
  opening of the file or the run of a command, so that it may hit any line of either.
* EMSMDB sessions: two GUIDs, so that one user has two sessions or a handle is replaced;
  two RPC threads, one event thread and the scan thread give every pair; a limit of one
  pending notification is reached at once.
* Asynchronous waits: one tag for which both clients compete; two waits, so that one may
  be in a thread's hands while the next is parked.
* IMAP: two sessions on one folder that receives one message, with SELECT and EXAMINE, and
  a second imapd that flags messages; symmetric in the sessions. For the change of folders,
  one session and no other imapd (whose flag changes no property of that run looks at), an
  inbox with one
  message and room for another, whose UID a delivery or a replacement takes, and a second
  folder with the same UID.
* Event daemon: an IMAP server with a proxy and two stubs, one of which may connect twice,
  and midb's proxy; one dequeue thread, so that listeners compete for it; one event,
  one fault (a broken connection or a restart).
* Store engine: one mailbox; two bases, so that a freed one coexists with its successor;
  one kind of client object; a table of one, so that it is full.

### 3.4 Fairness

Only what the code's scheduling gives: threads that are not blocked run (`WF` of each
worker, of the epoll thread once it has a batch, of the scan thread, the waker, the
loader, the timer's main loop, the threads of the daemons) and time passes. No event,
connection, signal, client or crash is promised, and none of the choices inside an
action is. Timed waits end, so a worker that waits is not disabled; where the code
waits without a time-out, no fairness is assumed that would wake it.

* `QueueDrains` needs that a hook returns and that `dxp_scanwork` comes round (it sleeps a
  second).
* `WaitIsOver` has strong fairness for the scan thread's taking of a wait: it looks every
  second, and a wait that is parked again and again gets too old in the end.
* `IdleCatchesUp`: midb works off notifications, imapd the expunges and, folder by folder, the
  touches of the bus; `imps_thrwork` and the pool serve a session that is to be notified. Within
  each of these the order is free. The property is that the session is infinitely often
  not behind, not in IDLE or hit by `lapse`: it never stays behind for good.
* `SelectionRestored`: threads and clients go on, and `imps_scanwork` repeats its SELECTs every
  hour.
* `DbEngine`: strong fairness of every thread's next step. A thread that waits for
  `g_hash_lock` competes with an expiry thread that sleeps ten seconds between its passes
  and with `unload_db`, which sleeps between its tries; `giant_lock` is held for one
  operation. A lock that starves writers for ever is thereby excluded.

## 4. Proofs

A theorem is named after the property it states: `AccountsCorrect` is `Spec => []Accounts`. TLC
shows the property on the small instance of the run; the theorem holds for every value
of the constants that the assumptions of the module allow: any number of threads,
contexts, mailboxes, sessions, folders, UIDs, connections and events, any limits.

| Module | Theorems | About |
|---|---|---|
| `ContextsPoolProofs` | `TypeCorrect`, `OnePlaceCorrect`, `TypeTellsListCorrect`, `FreeIsCleanCorrect`, `NoLostEventCorrect`, `SleepersKnownCorrect`; `LifeCorrect`: `Spec => LifeSpec` | every invariant of the pool, and the refinement of `ConnectionLife` |
| `ListsProofs` | `ListRestorableCorrect`, `ExecutedOnceCorrect`, `CancelIsFinalCorrect` | every invariant and the action property of the timer daemon |
| | `AccountsCorrect` | counter, list, limits, and stopping of the threads pool |
| `MailQueueProofs` | `AckedNotLostCorrect`, `AtMostOnceCorrect`, `PartialNeverHandledCorrect`, `MemoryBoundedCorrect` | every invariant of the queue, with crashes at any step; under `Scope` (4.3) |
| `EmsmdbHandlesProofs` | `SessionsSoundCorrect`, `HeldIsLiveCorrect`, `AnnouncedCorrect` | every invariant of the sessions |
| `AsyncWaitsProofs` | `WaitsSoundCorrect`, `AtMostOneAnswerCorrect` | every invariant of the waits |
| `ImapSessionsProofs` | `SelectSoundCorrect`, `QuietViewCurrentCorrect`, `FlagsQueuedCorrect`, `ExpungeIsTrueCorrect`, `ExpungeAnswersCorrect` | every invariant of the sessions |
| `EventHubProofs` | `NodesSoundCorrect`, `EventOnceCorrect` | every invariant of the daemon |
| `DbEngineProofs` | `BasesSoundCorrect`; `UseCorrect`: `Spec => UseSpec` | the table of open mailboxes, and the refinement of `MailboxUse` |

A property's exceptions (3.2) are part of the theorem: `QuietViewCurrentCorrect`, say, does not
promise anything to a session with `lapse`, nor `CancelIsFinalCorrect` to a timer with a line that
was not written. What they do promise is for every number of failures, and of others.

### 4.1 How a proof is laid out

Each module begins with the inductive invariant `IndInv`, a conjunction of named parts. Then
come facts about the operators, a lemma that every step keeps each part (one step per
action, the actions that leave the part's variables alone taken together), that the
initial states have it, and last the theorems, with what `IndInv` says about each
property. `ListsProofs` is about two components that share the lemmas about sequences without
repetitions: `IndInv` is the timer's invariant, `PoolInv` that of the threads pool. It extends both
modules, which is why `ThreadsPool` calls its own `PoolInit`, `PoolNext`, `PoolSpec` and `PoolTypeOK`.

### 4.2 The inductive invariants, and why they say more than the properties

* **Contexts pool.** `OnePlace` alone is not inductive: a thread takes a context off a list because
  `type` says it is there, so the argument needs what `type` means, and `type` does not tell
  whether a context is in a list or in a hand. `IndInv` says for each context which
  value of `type` goes with which place (`Residence`), that two hands never hold the same
  context, and that the turning list has no repetition. `PickUpInd` (from a list to a
  hand), `PutDownInd` (from a hand to a list, all of `contexts_pool_insert`) and `ScanInd` (a set of
  contexts at once) carry the induction. `EpollInv` adds for each place what may be
  registered in the epoll set and who still has an event of the context, from which
  `NoLostEvent` and `FreeIsClean` follow; `SleepInv` ties the sleeping list to the IMAP parser's.
  `LifeCorrect` maps every step under these to a step of `ConnectionLife` or none.
* **Threads pool.** The limits hold although every worker decides for itself, because the list
  holds the existing threads once each and `cur` is its length (`ThreadsListed`); that no thread
  is left at the end needs `ThreadsStopping`, which follows `threads_pool_stop` from the scan thread's end
  to the last join.
* **Mail queue.** What was acknowledged is a whole file or settled (`Safe`). That it stays so
  needs that no complete file has an ID still to be drawn (`Drawn`, also across the restart that
  takes the counter from the files), that the loader's file is the one of its ID, that it is
  whole and the one in the directory if it was complete when it was opened, and that a
  file which has left the directory is not complete (`LoaderSound`), that no ID is loaded twice (`Single`: `g_mess_hash` has it, or the loader is about
  to enter it), and that the file is there until its own transport thread removes it
  (`Present`). `Counts` is the budget of one handling and one more per crash.
  `MemoryBounded` is proved from `Accounts` on top of that: the blocks that the holders of
  messages hold are no more than `mem`, and the nodes in use and the free ones no more than were made.
  A holder is a place (the loader, a position of the used list, a thread), not a mail. A
  hand-over (loader to list, list to thread) gives an injection from the blocks after it to
  those before it; a reservation or a release changes the set by the blocks of one holder, and `mem`
  by their number. Nothing is summed.
* **Timer.** The file is an append-only log with two lines per timer, and a `CANCEL` and the main loop
  may both want to write the second. `Recorded` says of the journal (the file, or the `.tmp` file between
  `remove` and `rename`) that it is `Sound` (per ID at most one line that is pending, at most one
  that is over, the latter behind the former), that its lines are those of clients whose ADD is
  done (`Owned`), and that what is open in it is the list together with the timer that `execute_timer`
  has taken off and not recorded, but for timers with a line that was not written (`Agrees`);
  `Describes` is the three together. `Fresh`: an ID with which a thread
  waits for the lock is in no line, although a restart counts from the file again. `Counted`: a timer that
  is live has been run once per interruption at most. `Final`: a cancelled one is not live. All of
  this is under `"misput" \notin damage`, since a misplaced timer makes the journal unsound at once.
  `LoadFacts` is the connection with what the code computes: on a sound journal, pairing and
  loading leave exactly the open lines. `Save` and `Restart` rest on it; `Add`, `Cancel` and `Record` on
  what one more line does to `Open` (`AppendAlive`, `AppendOver`).
* **EMSMDB sessions.** The flags are locks: each is set exactly while one thread is in one of the
  places that its holder can be in (`Guarded`, instantiated for both flags). Until an
  exception has ended the process, who works on a session has it in the table (`Alive`). A
  list is over its limit by one at most, and not while an RPC still has one to put
  back (`Pending`).
* **Asynchronous waits.** An allocated wait is referred to from exactly one of five places, and
  from there once (`Placed`, `Once`). `Budget` is the argument for at most one answer: of a
  context's request there is one answer, given, stored for `retr`, or to come from its
  only wait.
* **IMAP sessions.** Where a command stands says whether its session has a folder, is listed,
  sleeps, and has a list of messages (`Role`). What is announced or queued as expunged is
  *gone*: its UID was given out, and no message has it (`Announced`, `Expunged`); `UidsOnce` says that
  no step undoes that. A UID that midb has given up is not in the index again (`Retired`). Every difference between a view and midb's index has an event
  under way or a notice in the session's queue, or is a UID that was given up (`Explained`), so
  when nothing is under way and nothing queued, there is no other difference.
* **Event daemon.** A connection is in one stage at a time; the lists of the hosts hold the
  nodes, each once (`Placed`), so that erasing the first match removes the node, and not
  one of two; an event is to come, or in one queue of a host, or has reached it (`Flow`).
* **Store engine.** `reference` is the number of threads in the places that count (`Counted`), also
  for bases that are freed; a thread has a pointer exactly where its code has one, and to
  the base of its directory unless it is in the gap (`Placed`); `sqlite_lock` has one holder (`Opening`);
  what clients hold is in the base, and a freed base has nothing (`Kept`). `UseStep` maps
  every step but the crash of 2.10 to a step of `MailboxUse` or none.

### 4.3 Assumptions

The constants' assumptions are `ASSUME`d in the modules, and TLC evaluates them on every
run: names of threads, clients and "nobody" are distinct, limits are natural numbers, and
where the code counts threads, contexts or clients their sets are finite. `PoolAssumption` has as many
names for threads as the maximum number of threads, so that a name never runs out before
the limit. Nothing is assumed of the order in which threads run.

The theorems about the mail queue have a hypothesis, `Scope`: there are at most `MaxId` mails
and at most `2 * Units + 1`. Beyond it the properties are false, of the model and of the
code: past `MaxId` mails the IDs wrap and a file that is still there is truncated
(`flusher.cpp:149`); and an ID whose mail is done with before the loader enters it stays in
`g_mess_hash` for good, so that after that many such races the table is full and loads go on
without an entry (E-2043, `message_dequeue.cpp:369`), when a mail can be loaded twice. Mails here
are those of one run from an empty queue; there may be any number of crashes.

### 4.4 What is only model-checked

* Liveness: `WaitingServed`, `StopReturns`, `ShrinksWhenIdle`, `QueueDrains`, `TimerFires`, `WaitIsOver`,
  `IdleCatchesUp`, `SelectionRestored`, `SearchesDrain`, `Served`, `IdleClosed`. The prover has no rule
  for fairness, nor for `ENABLED`.

Every invariant that a run checks, the action property and both refinements are
proved. The one place where that took an induction over data is the timer's file: the
library's induction rules take a predicate as a parameter, which the provers cannot
instantiate. `SetInduction` states the rule for a *set* of numbers instead and follows from the well-foundedness of
the order on `Nat`; `Iteration` gives, for a step that is a function, the sequence of its
results; and each of `CancelPairs`, `Pending` and `Load` is shown to be such a sequence before
anything is proved about it.

## 5. Not modelled, and the plan

Not modelled and not planned: what is computed in SQL or by format conversions
(the store operations, MIME, EWS, the MAPI encoders: most of the source by lines),
the sequential command languages, administration tools.

The map covers 2.6 % of the repository's implementation lines (5870). The models are a
study of its concurrent and persistent mechanisms, not of the program as a whole.

`hazards` in `PROJECT.json` lists also what no property covers, with the reason: where the code
gives up (3.2) the property that comes nearest excludes the case by name, and it does not count
as covered. Some more of that kind lie outside the models:

* `lib/contexts_pool.cpp:339`: the stop signal may come between the loop test and `epoll_wait`.
* `lib/contexts_pool.cpp:413`: when the second `epoll_ctl` fails too, the context polls with
  `b_waiting` set and is in no epoll set (the exception of `NoLostEvent`).
* `mda/delivery_app/message_dequeue.cpp:405`: the directory is searched only while every node
  is free; one node that never comes back closes that way for good.
* `mda/smtp/flusher.cpp:149`: the ID wraps to 1, and a file left under that ID is truncated.
* `mda/delivery_app/transporter.cpp:269`: `transporter_stop` joins under a mutex that the
  threads take.
* `exch/emsmdb/asyncemsmdb_interface.cpp:160`: a notification queued between the look at the list
  and the entry in `g_tag_hash` reaches its client only when the wait times out; this
  costs time and no answer.
* `tools/timer.cpp:552`: the ID of an answer is read through a pointer into the list after the
  lock is given back; the client may be told no ID at all (`Reply`), and nothing is said of it.
* `tools/timer.cpp:476`: a wait without a predicate misses a notification sent before it.

Concurrent or persistent, and left for later:

1. `contexts_pool_stop` (a single SIGALRM may come before `epoll_wait`,
   `contexts_pool.cpp:339`), `transporter_stop` and the contexts that hooks throw.
2. The connection pool of the timer client and the hand-over of connections in the timer daemon (`timer.cpp:476`), midb and zcore, which
   have the pattern of `EventHub`.
3. The retry queue of local delivery (`cache_queue.cpp:423`).
4. The routers of the store server (`notification_agent.cpp`) and the store client.
5. POP3 sessions; virtual connections of RPC over HTTP.
6. The range algebra of `idset`, against sets.
7. Theorems: the mail queue beyond `Scope`, with properties that say what is left when IDs
   wrap; what the timer daemon still guarantees after a misplaced timer.
