------------------------------- MODULE Timer -------------------------------
(***************************************************************************)
(* gromox-timer (tools/timer.cpp): commands to be executed once at a later *)
(* time, kept in a list in memory and in an append-only file from which    *)
(* the list is built again at start.                                       *)
(*                                                                         *)
(* A client asks for one timer and may cancel it with the ID it was told,  *)
(* so a client also names the command of its timer.  Time is counted in    *)
(* steps of the main loop's clock.  A line is written whole or not at all: *)
(* its write may fail, which the daemon logs and then ignores, as it does  *)
(* when it can not open or rename the file.  Clients use the pool of       *)
(* connections of exch/timer_agent.cpp: an answer that does not come in    *)
(* time, or not at all, is a failure to them, whatever the daemon has      *)
(* done.                                                                   *)
(***************************************************************************)
EXTENDS Naturals, Sequences, FiniteSets, FiniteSetsExt, SequencesExt

CONSTANTS
    Clients,       \* each with a connection, and the thread that serves it
    NoClient,      \* no timer
    Intervals,     \* the intervals clients ask for
    MaxTime,       \* bound on the clock
    MaxRestarts,   \* bound on crashes and stops of the daemon
    MaxSaves,      \* bound on the weekly rewriting of the file
    MaxFaults      \* bound on the calls that fail

ASSUME TimerAssumption ==
    /\ IsFiniteSet(Clients) /\ NoClient \notin Clients
    /\ Intervals \subseteq Nat \ {0}
    /\ MaxTime \in Nat /\ MaxRestarts \in Nat /\ MaxSaves \in Nat /\ MaxFaults \in Nat

VARIABLES
    now,         \* time(nullptr)
    lastTid,     \* g_last_tid
    execList,    \* g_exec_list
    file,        \* the lines of timer_state_path
    tmp,         \* the lines of its .tmp file
    fd,          \* whether g_list_fd is open
    main,        \* where the main loop is; it holds g_list_lock except in sleep
    due,         \* cur_time of the main loop
    running,     \* the timer that execute_timer has run and not yet recorded
    client,      \* what the thread that serves each client does
    ptimer,      \* the TIMER it holds: its own before put_timer, what that returned after
    told,        \* the ID each client was told, 0 for none
    cancelled,   \* clients whose CANCEL was answered TRUE
    executed,    \* history: how often the command of each client was run
    interrupted, \* history: how often a crash hit between the run and its record
    unrun,       \* history: clients whose command could not be run
    unlogged,    \* history: clients whose timer has a line that was not written
    damage,      \* history: "cut" if a crash hit between remove and rename,
                 \* "misput" if put_timer returned somebody else's timer
    restarts, saves, faults

clients == <<client, ptimer, told, cancelled>>
history == <<executed, interrupted, unrun, unlogged, damage>>
vars    == <<now, lastTid, execList, file, tmp, fd, main, due, running, clients, history,
             restarts, saves, faults>>

Tids    == 0..(Cardinality(Clients) * (MaxRestarts + 1))
Timers  == [tid : Tids, time : 0..MaxTime, of : Clients]
NoTimer == [tid |-> 0, time |-> 0, of |-> NoClient]

\* A line with time 0 says that the timer with this ID is over.
Over(t) == [t EXCEPT !.time = 0]

-----------------------------------------------------------------------------
(***************************************************************************)
(* The list and the file                                                   *)
(***************************************************************************)

\* The place put_timer inserts before: the first timer that is later, or 0.
LaterThan(list, t) == SelectInSeq(list, LAMBDA u : u.time > t.time)

\* put_timer: the list it leaves behind.
PutTimer(list, t) ==
    LET i == LaterThan(list, t)
    IN  IF i = 0 THEN Append(list, t) ELSE InsertAt(list, i, t)

\* put_timer: what it returns.  After std::list::splice the iterator pos still
\* refers to the element before which the new one was inserted.
PutTimerResult(list, t) ==
    LET i == LaterThan(list, t)
    IN  IF i = 0 THEN t ELSE list[i]

\* Mutant: lines that are over do not count.
CancelPairsNot(lines) == lines

\* A line that is over makes the first other line of its ID over.
CancelPair(ls, i) ==
    LET same == {j \in DOMAIN ls : j # i /\ ls[j].tid = ls[i].tid}
    IN  IF ls[i].time # 0 \/ same = {} THEN ls ELSE [ls EXCEPT ![Min(same)].time = 0]

\* Each line in turn.
CancelPairs(lines) ==
    LET ls[i \in 0..Len(lines)] == IF i = 0 THEN lines ELSE CancelPair(ls[i - 1], i)
    IN  ls[Len(lines)]

\* The lines that are still to be executed, without those that are lost.
PendingBut(lines, lost) ==
    LET ls == CancelPairs(lines)
        left[i \in 0..Len(lines)] ==
            IF i = 0 THEN <<>>
            ELSE IF ls[i].time = 0 \/ ls[i] \in lost THEN left[i - 1]
            ELSE Append(left[i - 1], ls[i])
    IN  left[Len(lines)]

Pending(lines) == PendingBut(lines, {})

\* The largest ID in the file.
LastTid(lines) == Max({0} \cup {lines[i].tid : i \in DOMAIN lines})

\* Mutant: the list is not built again.
LoadNothing(lines) == <<>>

\* main: the list that is built at start.
Load(lines) ==
    LET ts == Pending(lines)
        list[i \in 0..Len(ts)] == IF i = 0 THEN <<>> ELSE PutTimer(list[i - 1], ts[i])
    IN  list[Len(ts)]

\* A call fails.
Fails == faults < MaxFaults /\ faults' = faults + 1

\* A line is appended, by way of g_list_fd, to the file, or fails to be, which is
\* only logged.
Write(t) ==
    \/ /\ fd
       /\ file' = Append(file, t)
       /\ UNCHANGED <<unlogged, faults>>
    \/ /\ IF fd THEN Fails ELSE UNCHANGED faults
       /\ unlogged' = unlogged \cup {t.of}
       /\ UNCHANGED file

Init ==
    /\ now = 1
    /\ lastTid = 0
    /\ execList = <<>>
    /\ file = <<>>
    /\ tmp = <<>>
    /\ fd = TRUE
    /\ main = "sleep"
    /\ due = 0
    /\ running = NoTimer
    /\ client = [c \in Clients |-> "idle"]
    /\ ptimer = [c \in Clients |-> NoTimer]
    /\ told = [c \in Clients |-> 0]
    /\ cancelled = {}
    /\ executed = [c \in Clients |-> 0]
    /\ interrupted = [c \in Clients |-> 0]
    /\ unrun = {}
    /\ unlogged = {}
    /\ damage = {}
    /\ restarts = 0
    /\ saves = 0
    /\ faults = 0

Tick ==
    /\ now < MaxTime
    /\ now' = now + 1
    /\ UNCHANGED <<lastTid, execList, file, tmp, fd, main, due, running, clients, history,
                   restarts, saves, faults>>

-----------------------------------------------------------------------------
(***************************************************************************)
(* tmr_thrwork: the threads that serve clients                             *)
(***************************************************************************)

ClientOnly ==
    UNCHANGED <<now, tmp, fd, main, due, running, executed, interrupted, unrun, restarts, saves>>

\* ADD, before the lock is taken: the ID and the time of the new timer.
Prepare(c) ==
    /\ client[c] = "idle"
    /\ \E i \in Intervals :
        /\ now + i <= MaxTime
        /\ ptimer' = [ptimer EXCEPT ![c] = [tid |-> lastTid + 1, time |-> now + i, of |-> c]]
    /\ lastTid' = lastTid + 1
    /\ client' = [client EXCEPT ![c] = "add"]
    /\ UNCHANGED <<execList, file, told, cancelled, unlogged, damage, faults>> /\ ClientOnly

\* ADD, under the lock: the timer enters the list and what put_timer returned
\* is written to the file.  The answer is TRUE whether it could be written or not.
Add(c) ==
    /\ client[c] = "add"
    /\ main = "sleep"
    /\ LET p == PutTimerResult(execList, ptimer[c])
       IN  /\ execList' = PutTimer(execList, ptimer[c])
           /\ Write(p)
           /\ ptimer' = [ptimer EXCEPT ![c] = p]
           /\ damage' = IF p = ptimer[c] THEN damage ELSE damage \cup {"misput"}
    /\ client' = [client EXCEPT ![c] = "reply"]
    /\ UNCHANGED <<lastTid, told, cancelled>> /\ ClientOnly

\* add_timer: the ID, or 0 when the answer is lost.
AddTimerResults(id) == {id, 0}

\* cancel_timer: it is over, or the answer is lost and the caller may ask again.
CancelTimerLeaves == {"done", "told"}

\* The reply, after the lock is given back: the ID is read through the pointer,
\* which is the timer's as long as the main loop has not executed it; what is
\* read from a deleted timer may be no ID at all.
Reply(c) ==
    /\ client[c] = "reply"
    /\ \E id \in AddTimerResults(ptimer[c].tid) : told' = [told EXCEPT ![c] = id]
    /\ client' = [client EXCEPT ![c] = "told"]
    /\ UNCHANGED <<lastTid, execList, file, ptimer, cancelled, unlogged, damage, faults>> /\ ClientOnly

\* Mutant: CANCEL does not write to the file.
CancelUnrecorded(c) ==
    /\ client[c] = "told" /\ told[c] # 0
    /\ main = "sleep"
    /\ LET i == SelectInSeq(execList, LAMBDA t : t.tid = told[c])
       IN  IF i = 0
             THEN UNCHANGED <<execList, cancelled>>
             ELSE /\ execList' = RemoveAt(execList, i)
                  /\ cancelled' = cancelled \cup {c}
    /\ client' = [client EXCEPT ![c] = "done"]
    /\ UNCHANGED <<lastTid, file, ptimer, told, unlogged, damage, faults>> /\ ClientOnly

\* CANCEL, which is answered TRUE whether its line could be written or not.
Cancel(c) ==
    /\ client[c] = "told" /\ told[c] # 0
    /\ main = "sleep"
    /\ LET i == SelectInSeq(execList, LAMBDA t : t.tid = told[c])
       IN  IF i = 0
             THEN UNCHANGED <<execList, file, cancelled, unlogged, faults>>
             ELSE /\ Write(Over(execList[i]))
                  /\ execList' = RemoveAt(execList, i)
                  /\ cancelled' = cancelled \cup {c}
    /\ \E next \in CancelTimerLeaves : client' = [client EXCEPT ![c] = next]
    /\ UNCHANGED <<lastTid, ptimer, told, damage>> /\ ClientOnly

Client(c) == Prepare(c) \/ Add(c) \/ Reply(c) \/ Cancel(c)

-----------------------------------------------------------------------------
(***************************************************************************)
(* The main loop                                                           *)
(***************************************************************************)

MainOnly == UNCHANGED <<now, lastTid, clients, interrupted, damage, restarts>>
NoRun    == UNCHANGED <<executed, unrun>>

Wake ==
    /\ main = "sleep"
    /\ main' = "loop"
    /\ due' = now
    /\ UNCHANGED <<execList, file, tmp, fd, running, unlogged, saves, faults>> /\ NoRun /\ MainOnly

IsDue == execList # <<>> /\ Head(execList).time <= due

\* The first timer leaves the list and execute_timer runs its command to the end,
\* unless the command can not be parsed, there is no process for it or execve fails.
Execute ==
    /\ main = "loop"
    /\ IsDue
    /\ running' = Head(execList)
    /\ execList' = Tail(execList)
    /\ LET c == Head(execList).of
       IN  \/ executed' = [executed EXCEPT ![c] = @ + 1] /\ UNCHANGED <<unrun, faults>>
           \/ Fails /\ unrun' = unrun \cup {c} /\ UNCHANGED executed
    /\ main' = "record"
    /\ UNCHANGED <<file, tmp, fd, due, unlogged, saves>> /\ MainOnly

\* The result, whatever it is, is appended to the file: the timer is over.
Record ==
    /\ main = "record"
    /\ Write(Over(running))
    /\ running' = NoTimer
    /\ main' = "loop"
    /\ UNCHANGED <<execList, tmp, fd, due, saves>> /\ NoRun /\ MainOnly

Sleep ==
    /\ main = "loop"
    /\ ~IsDue
    /\ main' = "sleep"
    /\ UNCHANGED <<execList, file, tmp, fd, due, running, unlogged, saves, faults>> /\ NoRun /\ MainOnly

\* A week has passed, and the timers that are due have been executed.
SaveStarts ==
    /\ main = "loop"
    /\ ~IsDue
    /\ saves < MaxSaves
    /\ saves' = saves + 1

\* Mutant: lines are written again without pairing them.
SaveUnpaired ==
    /\ SaveStarts
    /\ tmp' = SelectSeq(file, LAMBDA t : t.time # 0)
    /\ main' = "remove"
    /\ UNCHANGED <<execList, file, fd, due, running, unlogged, faults>> /\ NoRun /\ MainOnly

\* save_timers writes what is pending to the .tmp file; a line that can not be
\* written is left out.
Save ==
    /\ SaveStarts
    /\ \E lost \in SUBSET ToSet(Pending(file)) :
        /\ IF lost = {} THEN UNCHANGED faults ELSE Fails
        /\ tmp' = PendingBut(file, lost)
        /\ unlogged' = unlogged \cup {t.of : t \in lost}
    /\ main' = "remove"
    /\ UNCHANGED <<execList, file, fd, due, running>> /\ NoRun /\ MainOnly

\* The file can not be read or replaced, or the .tmp file not be opened: the file
\* stays as it was, and may not be opened again either.
SaveFails ==
    /\ SaveStarts
    /\ Fails
    /\ fd' \in BOOLEAN
    /\ main' = "sleep"
    /\ UNCHANGED <<execList, file, tmp, due, running, unlogged>> /\ NoRun /\ MainOnly

SaveRemove ==
    /\ main = "remove"
    /\ file' = <<>>
    /\ main' = "rename"
    /\ UNCHANGED <<execList, tmp, fd, due, running, unlogged, saves, faults>> /\ NoRun /\ MainOnly

SaveRename ==
    /\ main = "rename"
    /\ file' = tmp
    /\ tmp' = <<>>
    /\ \/ fd' = TRUE /\ UNCHANGED faults
       \/ fd' = FALSE /\ Fails
    /\ main' = "sleep"
    /\ UNCHANGED <<execList, due, running, unlogged, saves>> /\ NoRun /\ MainOnly

\* rename fails after remove: there is no file, and open does not create one.
SaveRenameFails ==
    /\ main = "rename"
    /\ Fails
    /\ tmp' = <<>>
    /\ fd' = FALSE
    /\ unlogged' = unlogged \cup {tmp[i].of : i \in DOMAIN tmp}
    /\ main' = "sleep"
    /\ UNCHANGED <<execList, file, due, running, saves>> /\ NoRun /\ MainOnly

Main ==
    \/ Wake \/ Execute \/ Record \/ Sleep
    \/ Save \/ SaveFails \/ SaveRemove \/ SaveRename \/ SaveRenameFails

-----------------------------------------------------------------------------

\* The daemon stops at any point and starts again from the file; one that does
\* not exist is taken for an empty one, and created.  Clients that had no answer
\* give up.
Restart ==
    /\ restarts < MaxRestarts
    /\ restarts' = restarts + 1
    /\ execList' = Load(file)
    /\ lastTid' = LastTid(file)
    /\ fd' = TRUE
    /\ main' = "sleep"
    /\ running' = NoTimer
    /\ client' = [c \in Clients |-> IF client[c] \in {"add", "reply"} THEN "done" ELSE client[c]]
    /\ interrupted' = IF main = "record"
                        THEN [interrupted EXCEPT ![running.of] = @ + 1]
                        ELSE interrupted
    /\ damage' = IF main = "rename" THEN damage \cup {"cut"} ELSE damage
    /\ UNCHANGED <<now, file, tmp, due, ptimer, told, cancelled, executed, unrun, unlogged, saves,
                   faults>>

Next ==
    \/ Tick
    \/ \E c \in Clients : Client(c)
    \/ Main
    \/ Restart

Spec == Init /\ [][Next]_vars

\* Time passes and the main loop runs.
FairSpec == Spec /\ WF_vars(Tick) /\ WF_vars(Main)

-----------------------------------------------------------------------------
(***************************************************************************)
(* Properties                                                              *)
(***************************************************************************)

\* Every variable has its type (timer.cpp).
TypeOK ==
    /\ now \in 1..MaxTime \cup {1}
    /\ lastTid \in Tids
    /\ execList \in Seq(Timers) /\ file \in Seq(Timers) /\ tmp \in Seq(Timers)
    /\ fd \in BOOLEAN
    /\ main \in {"sleep", "loop", "record", "remove", "rename"}
    /\ due \in 0..MaxTime \cup {1}
    /\ running \in Timers \cup {NoTimer}
    /\ client \in [Clients -> {"idle", "add", "reply", "told", "done"}]
    /\ ptimer \in [Clients -> Timers \cup {NoTimer}]
    /\ told \in [Clients -> Tids]
    /\ cancelled \subseteq Clients
    /\ executed \in [Clients -> Nat] /\ interrupted \in [Clients -> 0..MaxRestarts]
    /\ unrun \subseteq Clients /\ unlogged \subseteq Clients
    /\ damage \subseteq {"cut", "misput"}
    /\ restarts \in 0..MaxRestarts /\ saves \in 0..MaxSaves /\ faults \in 0..MaxFaults

\* The timers of a list of which every line was written.
Logged(list) == {t \in ToSet(list) : t.of \notin unlogged}

\* What a restart would restore is what is in the list: at every moment at which
\* the list may be changed, the timers that are loaded from the file are those of
\* the list, after any history of additions, executions, cancellations, rewritings
\* and restarts.  Two things break this: a timer put before a later one, whose line
\* is not written, and, for the timer it was about, a line that could not be written.
FileMatchesList ==
    main = "sleep" /\ "misput" \notin damage => Logged(Load(file)) = Logged(execList)

\* The list is well formed, and a restart restores it from the file.
ListRestorable == TypeOK /\ FileMatchesList

\* A command is run again only after a crash between its execution and the record
\* of it, as long as every ADD wrote the line of its own timer and no line of this
\* timer failed to be written: failures that concern other timers do it no harm.
ExecutedOnce ==
    "misput" \notin damage =>
        \A c \in Clients \ unlogged : executed[c] <= 1 + interrupted[c]

\* Once CANCEL was answered TRUE the command is not run any more, not even by a
\* later process that reads the file, as long as every ADD told its own ID and no
\* line of the timer failed to be written, that of the CANCEL among them: TRUE is
\* answered then, too, and a restart brings the timer back.
CancelIsFinal ==
    [][\A c \in cancelled \ unlogged : "misput" \in damage \/ executed'[c] = executed[c]]_vars

\* A timer whose ID the client was told is executed at some time or cancelled by
\* somebody who was told its ID, restarts included, unless its command can not be
\* run, a line of it could not be written or the file is damaged.
TimerFires ==
    \A c \in Clients :
        client[c] = "told" ~>
            \/ executed[c] > 0 \/ c \in unrun \/ c \in unlogged \/ damage # {}
            \/ \E d \in cancelled : told[d] = ptimer[c].tid
=============================================================================
