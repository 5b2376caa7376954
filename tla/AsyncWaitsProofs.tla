-------------------------- MODULE AsyncWaitsProofs --------------------------
(***************************************************************************)
(* Proofs about the asynchronous waits, for any number of sessions,        *)
(* clients and threads.                                                    *)
(***************************************************************************)
EXTENDS AsyncWaits, FiniteSetTheorems, TLAPS

CtxPcs == {"mark2", "mark3", "retr", "retr2", "alive", "towait", "term", "remove"}
Busy == {"act", "signal", "reply"}

ClientPcs == {"idle", "check", "park", "mark", "sleep", "reclaim"} \cup CtxPcs

\* The type invariant, and which client and which thread can be where.
ClientsTyped ==
    /\ pc \in [Clients -> ClientPcs] /\ ctag \in [Clients -> Tags \cup {None}]
    /\ \A c \in Clients : /\ pc[c] # "idle" => ctag[c] \in Tags
                          /\ pc[c] \in CtxPcs => c \in Ctxs
                          /\ pc[c] = "reclaim" => c \in Calls

ThreadsTyped ==
    /\ thr \in [Activators -> {"idle", "wait", "top", "pop"} \cup Busy]
    /\ act \in [Activators -> Waits \cup {None}]
    /\ \A k \in Activators : thr[k] \in Busy <=> act[k] # None

TablesTyped ==
    /\ g_tag_hash \in [Tags -> Waits \cup {None}]
    /\ g_async_hash \in [Calls -> Waits \cup {None}]
    /\ owner \in [Waits -> Clients \cup {None}] /\ tag \in [Waits -> Tags \cup {None}]
    /\ hand \subseteq Waits /\ temp_list \subseteq Waits /\ g_wakeup_list \in Seq(Waits)

StatusTyped ==
    /\ keep \subseteq Ctxs /\ leftover \subseteq Ctxs
    /\ pending \in [Ctxs -> {"none", "waiting", "keepalive"}]
    /\ notification \in [Ctxs -> {"none", "timed", "pending"}]
    /\ pdu \in [Calls -> {"none", "null", "node"}] /\ answers \in [Clients -> Nat]

Typed == ClientsTyped /\ ThreadsTyped /\ TablesTyped /\ StatusTyped

Places == {"tag", "list", "act", "hand", "temp"}

\* Wait w is referred to from place p.
In(p, w) ==
    \/ p = "tag" /\ \E t \in Tags : g_tag_hash[t] = w
    \/ p = "list" /\ \E i \in DOMAIN g_wakeup_list : g_wakeup_list[i] = w
    \/ p = "act" /\ \E k \in Activators : act[k] = w
    \/ p = "hand" /\ w \in hand
    \/ p = "temp" /\ w \in temp_list

\* A wait that is allocated is in one place, and one that is not in none.
Placed ==
    \A w \in Waits : /\ owner[w] # None <=> \E p \in Places : In(p, w)
                     /\ \A p, q \in Places : In(p, w) /\ In(q, w) => p = q

\* No list and no two threads refer to a wait twice.
Once ==
    /\ \A i, j \in DOMAIN g_wakeup_list : g_wakeup_list[i] = g_wakeup_list[j] => i = j
    /\ \A k, l \in Activators : act[k] = act[l] /\ act[k] # None => k = l

\* What a thread is doing with the wait in its hands.
Served ==
    \A k \in Activators : /\ thr[k] = "signal" => owner[act[k]] \in Ctxs
                          /\ thr[k] = "reply" => owner[act[k]] \in Calls

\* The wait will still give its context a notification.
Unsignalled(w) == \A k \in Activators : act[k] = w => thr[k] # "signal"

\* A client that is not parked yet has no wait and no answer.
Newcomer(c) ==
    pc[c] \in {"check", "park"} => /\ \A w \in Waits : owner[w] # c
                                   /\ answers[c] = 0
                                   /\ c \in Ctxs => notification[c] = "none"

\* A context has one wait, and there is one answer for it: given, or to be given by retr,
\* or to come from the wait.
OneToCome(c) ==
    /\ answers[c] <= 1
    /\ notification[c] # "none" => answers[c] = 0
    /\ \A w \in Waits : owner[w] = c /\ Unsignalled(w) => answers[c] = 0 /\ notification[c] = "none"
    /\ \A v, w \in Waits : owner[v] = c /\ owner[w] = c => v = w

\* Unless the wait of an earlier request is left over.  A call is answered at its end.
Budget(c) ==
    /\ c \notin leftover => Newcomer(c)
    /\ c \in Calls => answers[c] <= 1 /\ (pc[c] # "idle" => answers[c] = 0)
    /\ c \in Ctxs \ leftover => OneToCome(c)

Budgets == \A c \in Clients : Budget(c)

IndInv == Typed /\ Placed /\ Once /\ TablesAgree /\ Served /\ Budgets


-----------------------------------------------------------------------------
(***************************************************************************)
(* Types                                                                   *)
(***************************************************************************)

LEMMA TypedIsTypeOK == Typed => TypeOK
    BY DEF Typed, ClientsTyped, ThreadsTyped, TablesTyped, StatusTyped, TypeOK, ClientPcs, CtxPcs, Busy

LEMMA Kinds == Ctxs \subseteq Clients /\ Calls \subseteq Clients /\ Ctxs \cap Calls = {}
               /\ Clients = Ctxs \cup Calls /\ Wakers \subseteq Activators /\ Scan \in Activators
               /\ Scan \notin Wakers
               /\ None \notin Waits /\ None \notin Clients /\ None \notin Tags
    BY WaitsAssumption DEF Clients, Activators

\* The wait in the hands of a thread is allocated.
LEMMA ActedOn ==
    ASSUME Typed, Placed, NEW k \in Activators, thr[k] \in Busy
    PROVE  act[k] \in Waits /\ owner[act[k]] \in Clients
<1>1. act[k] \in Waits
    BY DEF Typed, ThreadsTyped
<1>2. In("act", act[k]) /\ "act" \in Places
    BY DEF In, Places
<1>3. owner[act[k]] # None
    BY <1>1, <1>2 DEF Placed
<1> QED
    BY <1>1, <1>3 DEF Typed, TablesTyped

\* A client goes to a place where it may be.
LEMMA ClientMoves ==
    ASSUME ClientsTyped, NEW c \in Clients, NEW l \in ClientPcs, pc' = [pc EXCEPT ![c] = l],
           \/ UNCHANGED ctag /\ (l # "idle" => pc[c] # "idle" \/ ctag[c] \in Tags)
           \/ ctag' = [ctag EXCEPT ![c] = None] /\ l = "idle"
           \/ \E t \in Tags : ctag' = [ctag EXCEPT ![c] = t],
           l \in CtxPcs => c \in Ctxs, l = "reclaim" => c \in Calls
    PROVE  ClientsTyped'
<1>1. pc'[c] = l /\ \A d \in Clients \ {c} : pc'[d] = pc[d]
    BY DEF ClientsTyped
<1>2. /\ ctag' \in [Clients -> Tags \cup {None}] /\ \A d \in Clients \ {c} : ctag'[d] = ctag[d]
      /\ l # "idle" => ctag'[c] \in Tags
    BY DEF ClientsTyped
<1>3. pc' \in [Clients -> ClientPcs]
    BY DEF ClientsTyped
<1> QED
    BY <1>1, <1>2, <1>3 DEF ClientsTyped

\* A context that sleeps is woken up.
LEMMA WakeTyped ==
    ASSUME ClientsTyped, NEW c \in Ctxs, WakeContext(c), UNCHANGED ctag
    PROVE  ClientsTyped'
<1>1. CASE pc[c] = "sleep"
    BY <1>1, Kinds, ClientMoves DEF WakeContext, ClientPcs, CtxPcs
<1>2. CASE pc[c] # "sleep"
    BY <1>2 DEF WakeContext, ClientsTyped
<1> QED
    BY <1>1, <1>2

LEMMA NextClientsTyped ==
    ASSUME IndInv, [Next]_vars
    PROVE  ClientsTyped'
<1>0. /\ Typed /\ Placed /\ Served /\ ClientsTyped
      /\ ClientPcs = {"idle", "check", "park", "mark", "sleep", "reclaim", "mark2", "mark3", "retr",
                      "retr2", "alive", "towait", "term", "remove"}
    BY DEF IndInv, Typed, ClientPcs, CtxPcs
<1>1. CASE UNCHANGED <<pc, ctag>>
    BY <1>0, <1>1 DEF ClientsTyped
<1>2. ASSUME NEW c \in Clients, NEW t \in Tags, Request(c, t) PROVE ClientsTyped'
    BY <1>0, <1>2, ClientMoves DEF Request, Goto, CtxPcs
<1>3. ASSUME NEW c \in Clients, ClientStep(c) PROVE ClientsTyped'
    <2>a. pc[c] \in CtxPcs => c \in Ctxs
        BY <1>0 DEF ClientsTyped
    <2>1. CASE CheckNotify(c)
        BY <1>0, <2>1, ClientMoves DEF CheckNotify, AnswerAtOnce, Goto, CtxPcs
    <2>2. CASE Park(c)
        BY <1>0, <2>2, ClientMoves DEF Park, AnswerAtOnce, Goto, CtxPcs
    <2>3. CASE Activate(c) \/ GoToSleep(c)
        BY <1>0, <2>3, ClientMoves DEF Activate, GoToSleep, Goto, CtxPcs
    <2>4. CASE Reclaim(c) \/ RemoveWait(c)
        BY <1>0, <2>4, ClientMoves DEF Reclaim, RemoveWait, Goto, CtxPcs
    <2>5. CASE MarkWaiting(c) \/ MarkNone(c) \/ MarkPending(c) \/ RetrKeepalive(c)
        BY <1>0, <2>a, <2>5, ClientMoves DEF MarkWaiting, MarkNone, MarkPending, RetrKeepalive, Goto, CtxPcs
    <2>6. CASE RetrAnswer(c)
        BY <1>0, <1>1, <2>a, <2>6, ClientMoves DEF RetrAnswer, Goto, CtxPcs
    <2>7. CASE RetrPending(c)
        <3>1. c \in Ctxs /\ pc[c] = "retr2"
            BY <2>a, <2>7 DEF RetrPending, CtxPcs
        <3>2. pending[c] \in {"none", "waiting", "keepalive"}
            BY <1>0, <3>1 DEF Typed, StatusTyped
        <3>3. PICK l \in {"term", "alive", "towait"} : Goto(c, l)
            BY <2>7, <3>2 DEF RetrPending
        <3>4. UNCHANGED ctag
            BY <2>7 DEF RetrPending
        <3> QED BY <1>0, <3>1, <3>3, <3>4, ClientMoves DEF Goto
    <2>8. CASE Term(c)
        BY <1>0, <2>a, <2>8, ClientMoves DEF Term, Goto, CtxPcs
    <2> QED BY <1>3, <2>1, <2>2, <2>3, <2>4, <2>5, <2>6, <2>7, <2>8 DEF ClientStep
<1>4. ASSUME NEW c \in Clients, CloseCall(c) \/ CloseCtx(c) PROVE ClientsTyped'
    BY <1>0, <1>4, ClientMoves DEF CloseCall, CloseCtx, Goto, CtxPcs
<1>5. ASSUME NEW c \in Ctxs, Keepalive(c) PROVE ClientsTyped'
    BY <1>0, <1>5, WakeTyped DEF Keepalive
<1>6. ASSUME NEW k \in Activators, Signal(k) PROVE ClientsTyped'
    <2>1. PICK c \in Ctxs : c = owner[act[k]]
        BY <1>0, <1>6 DEF Signal, Served
    <2> QED BY <1>0, <1>6, <2>1, WakeTyped DEF Signal
<1>7. ASSUME NEW k \in Activators, AsyncReply(k) PROVE ClientsTyped'
    <2>1. PICK c \in Clients : c = owner[act[k]]
        BY <1>0, <1>7, ActedOn DEF AsyncReply, Busy
    <2> QED BY <1>0, <1>1, <1>7, <2>1, ClientMoves DEF AsyncReply, Goto, clients, CtxPcs
<1>8. ASSUME NEW k \in Activators, AsyncWakeup(k) \/ BuildEnvironment(k) PROVE ClientsTyped'
    BY <1>1, <1>8 DEF AsyncWakeup, BuildEnvironment, clients
<1>9. CASE \/ \E t \in Tags : WakeTake(t)
           \/ \E w \in Waits : WakeAppend(w) \/ ScanTake(w) \/ ScanNext(w)
           \/ \E k \in Wakers : Pop(k) \/ SleepWaker(k) \/ OtherWakeup(k)
    BY <1>1, <1>9 DEF WakeTake, WakeAppend, ScanTake, ScanNext, Pop, SleepWaker, OtherWakeup, clients
<1> QED
    BY <1>1, <1>2, <1>3, <1>4, <1>5, <1>6, <1>7, <1>8, <1>9 DEF Next, vars, ActivatorStep


\* A thread goes somewhere, with a wait in its hands or not.
LEMMA ThreadMoves ==
    ASSUME ThreadsTyped, NEW k \in Activators, NEW l \in {"idle", "wait", "top", "pop"} \cup Busy,
           ThrGoto(k, l),
           \/ UNCHANGED act /\ (l \in Busy <=> thr[k] \in Busy)
           \/ act' = [act EXCEPT ![k] = None] /\ l \notin Busy
           \/ \E w \in Waits : act' = [act EXCEPT ![k] = w] /\ l \in Busy
    PROVE  /\ ThreadsTyped' /\ thr'[k] = l /\ \A j \in Activators \ {k} : thr'[j] = thr[j] /\ act'[j] = act[j]
<1>1. /\ thr' \in [Activators -> {"idle", "wait", "top", "pop"} \cup Busy] /\ thr'[k] = l
      /\ \A j \in Activators \ {k} : thr'[j] = thr[j]
    BY DEF ThreadsTyped, ThrGoto
<1>2. /\ act' \in [Activators -> Waits \cup {None}] /\ \A j \in Activators \ {k} : act'[j] = act[j]
      /\ l \in Busy <=> act'[k] # None
    BY WaitsAssumption DEF ThreadsTyped
<1> QED
    BY <1>1, <1>2 DEF ThreadsTyped

LEMMA FinishedTyped ==
    ASSUME ThreadsTyped, NEW k \in Activators, Finished(k)
    PROVE  /\ ThreadsTyped' /\ thr'[k] \in {"idle", "pop"} /\ act'[k] = None
           /\ \A j \in Activators \ {k} : thr'[j] = thr[j] /\ act'[j] = act[j]
<1>1. PICK l \in {"idle", "pop"} : ThrGoto(k, l) /\ act' = [act EXCEPT ![k] = None]
    BY DEF Finished
<1>2. l \notin Busy
    BY DEF Busy
<1>3. act'[k] = None
    BY <1>1 DEF ThreadsTyped
<1> QED
    BY <1>1, <1>2, <1>3, ThreadMoves

LEMMA NextThreadsTyped ==
    ASSUME IndInv, [Next]_vars
    PROVE  ThreadsTyped'
<1>0. Typed /\ ThreadsTyped /\ TablesTyped
    BY DEF IndInv, Typed
<1>1. CASE UNCHANGED threads
    BY <1>0, <1>1 DEF ThreadsTyped, threads
<1>2. ASSUME NEW c \in Clients, NEW t \in Tags, Request(c, t) PROVE ThreadsTyped'
    BY <1>1, <1>2 DEF Request
<1>3. ASSUME NEW c \in Clients, ClientStep(c) \/ CloseCall(c) \/ CloseCtx(c) PROVE ThreadsTyped'
    BY <1>1, <1>3 DEF ClientStep, CloseCall, CloseCtx, CheckNotify, Park, Activate, Reclaim, MarkWaiting,
        MarkNone, MarkPending, RetrAnswer, RetrPending, RetrKeepalive, GoToSleep, Term, RemoveWait
<1>4. CASE (\E c \in Ctxs : Keepalive(c)) \/ \E t \in Tags : WakeTake(t)
    BY <1>1, <1>4 DEF Keepalive, WakeTake
<1>5. ASSUME NEW w \in Waits, WakeAppend(w) PROVE ThreadsTyped'
    <2>1. CASE UNCHANGED thr
        BY <1>1, <1>5, <2>1 DEF WakeAppend, threads
    <2>2. ASSUME NEW k \in Wakers, thr[k] = "wait", ThrGoto(k, "pop") PROVE ThreadsTyped'
        BY <1>0, <1>5, <2>2, Kinds, ThreadMoves DEF WakeAppend, Busy
    <2> QED BY <1>5, <2>1, <2>2 DEF WakeAppend
<1>6. ASSUME NEW w \in Waits, ScanTake(w) PROVE ThreadsTyped'
    BY <1>1, <1>6 DEF ScanTake
<1>7. ASSUME NEW w \in Waits, ScanNext(w) PROVE ThreadsTyped'
    BY <1>0, <1>7, Kinds, ThreadMoves DEF ScanNext, Busy
<1>8. ASSUME NEW k \in Wakers, Pop(k) PROVE ThreadsTyped'
    <2>1. CASE g_wakeup_list = <<>>
        BY <1>0, <1>8, <2>1, Kinds, ThreadMoves DEF Pop, Busy
    <2>2. CASE g_wakeup_list # <<>>
        <3>1. Head(g_wakeup_list) \in Waits
            BY <1>0, <2>2 DEF TablesTyped
        <3> QED BY <1>0, <1>8, <2>2, <3>1, Kinds, ThreadMoves DEF Pop, Busy
    <2> QED BY <2>1, <2>2
<1>9. ASSUME NEW k \in Wakers, SleepWaker(k) \/ OtherWakeup(k) PROVE ThreadsTyped'
    BY <1>0, <1>9, Kinds, ThreadMoves DEF SleepWaker, OtherWakeup, Busy
<1>10. ASSUME NEW k \in Activators, ActivatorStep(k) PROVE ThreadsTyped'
    <2>1. CASE Finished(k)
        BY <1>0, <2>1, FinishedTyped
    <2>2. CASE /\ thr[k] = "act" /\ UNCHANGED act
               /\ ThrGoto(k, "signal") \/ ThrGoto(k, "reply")
        BY <1>0, <2>2, ThreadMoves DEF Busy
    <2> QED BY <1>10, <2>1, <2>2 DEF ActivatorStep, AsyncWakeup, Signal, BuildEnvironment, AsyncReply
<1>11. CASE UNCHANGED vars
    BY <1>1, <1>11 DEF vars, threads
<1> QED
    BY <1>2, <1>3, <1>4, <1>5, <1>6, <1>7, <1>8, <1>9, <1>10, <1>11 DEF Next

\* What erasing from the tables does to them.
LEMMA UnparkTyped ==
    ASSUME TablesTyped, NEW S, UnparkAll(S)
    PROVE  /\ g_tag_hash' \in [Tags -> Waits \cup {None}]
           /\ g_async_hash' \in [Calls -> Waits \cup {None}]
    BY DEF TablesTyped, UnparkAll

LEMMA FreeTyped ==
    ASSUME TablesTyped, NEW w, Free(w)
    PROVE  owner' \in [Waits -> Clients \cup {None}] /\ tag' \in [Waits -> Tags \cup {None}]
    BY DEF TablesTyped, Free

LEMMA NextTablesTyped ==
    ASSUME IndInv, [Next]_vars
    PROVE  TablesTyped'
<1>0. Typed /\ TablesTyped /\ ClientsTyped
    BY DEF IndInv, Typed
<1>1. CASE UNCHANGED <<hashes, objects, queues>>
    BY <1>0, <1>1 DEF TablesTyped, hashes, objects, queues
<1>2. CASE \E c \in Clients, t \in Tags : Request(c, t)
    BY <1>1, <1>2 DEF Request
<1>3. ASSUME NEW c \in Clients, ClientStep(c) \/ CloseCall(c) \/ CloseCtx(c) PROVE TablesTyped'
    <2>1. CASE Park(c)
        <3>1. CASE UNCHANGED <<hashes, objects>>
            BY <1>1, <2>1, <3>1 DEF Park
        <3>2. ASSUME NEW w \in Waits, owner' = [owner EXCEPT ![w] = c], tag' = [tag EXCEPT ![w] = ctag[c]],
                     g_tag_hash' = [g_tag_hash EXCEPT ![ctag[c]] = w],
                     g_async_hash' = IF c \in Calls THEN [g_async_hash EXCEPT ![c] = w] ELSE g_async_hash
              PROVE  TablesTyped'
            <4>1. ctag[c] \in Tags \cup {None}
                BY <1>0 DEF ClientsTyped
            <4>2. owner' \in [Waits -> Clients \cup {None}] /\ tag' \in [Waits -> Tags \cup {None}]
                BY <1>0, <3>2, <4>1 DEF TablesTyped
            <4>3. /\ g_tag_hash' \in [Tags -> Waits \cup {None}]
                  /\ g_async_hash' \in [Calls -> Waits \cup {None}]
                BY <1>0, <3>2 DEF TablesTyped
            <4> QED BY <1>0, <2>1, <4>2, <4>3 DEF TablesTyped, Park, queues
        <3> QED BY <2>1, <3>1, <3>2 DEF Park
    <2>2. CASE Reclaim(c) \/ RemoveWait(c)
        <3>1. CASE UNCHANGED <<hashes, objects>>
            BY <1>1, <2>2, <3>1 DEF Reclaim, RemoveWait
        <3>2. ASSUME NEW w, UnparkAll({w}), Free(w) PROVE TablesTyped'
            BY <1>0, <2>2, <3>2, UnparkTyped, FreeTyped DEF TablesTyped, Reclaim, RemoveWait, queues
        <3> QED BY <2>2, <3>1, <3>2 DEF Reclaim, RemoveWait, Unpark
    <2>3. CASE ~Park(c) /\ ~Reclaim(c) /\ ~RemoveWait(c)
        BY <1>1, <1>3, <2>3 DEF ClientStep, CloseCall, CloseCtx, CheckNotify, Activate, MarkWaiting,
            MarkNone, MarkPending, RetrAnswer, RetrPending, RetrKeepalive, GoToSleep, Term
    <2> QED BY <2>1, <2>2, <2>3
<1>4. CASE \E c \in Ctxs : Keepalive(c)
    BY <1>1, <1>4 DEF Keepalive
<1>5. ASSUME NEW t \in Tags, WakeTake(t) PROVE TablesTyped'
    <2>1. PICK w \in Waits : w = g_tag_hash[t] /\ UnparkAll({w}) /\ hand' = hand \cup {w}
        BY <1>0, <1>5 DEF WakeTake, TablesTyped, Unpark
    <2> QED BY <1>0, <1>5, <2>1, UnparkTyped DEF WakeTake, TablesTyped, objects
<1>6. ASSUME NEW w \in Waits, WakeAppend(w) \/ ScanNext(w) PROVE TablesTyped'
    BY <1>0, <1>6, SMTT(30) DEF WakeAppend, ScanNext, TablesTyped, hashes, objects
<1>7. ASSUME NEW w \in Waits, ScanTake(w) PROVE TablesTyped'
    <2>1. PICK S \in SUBSET Parked : UnparkAll(S) /\ temp_list' = S
        BY <1>7 DEF ScanTake
    <2>2. temp_list' \subseteq Waits
        BY <2>1 DEF Parked
    <2> QED BY <1>0, <1>7, <2>1, <2>2, UnparkTyped DEF ScanTake, TablesTyped, objects
<1>8. ASSUME NEW k \in Wakers, Pop(k) PROVE TablesTyped'
    <2>1. g_wakeup_list' \in Seq(Waits)
        BY <1>0, <1>8, SMTT(30) DEF Pop, TablesTyped
    <2> QED BY <1>0, <1>8, <2>1 DEF Pop, TablesTyped, hashes, objects
<1>9. CASE \E k \in Wakers : SleepWaker(k) \/ OtherWakeup(k)
    BY <1>1, <1>9 DEF SleepWaker, OtherWakeup
<1>10. ASSUME NEW k \in Activators, ActivatorStep(k) PROVE TablesTyped'
    <2>1. UNCHANGED <<hashes, queues>>
        BY <1>10 DEF ActivatorStep, AsyncWakeup, Signal, BuildEnvironment, AsyncReply
    <2>2. CASE Finished(k)
        BY <1>0, <2>1, <2>2, FreeTyped DEF TablesTyped, Finished, hashes, queues
    <2>3. CASE UNCHANGED objects
        BY <1>1, <2>1, <2>3
    <2> QED BY <1>10, <2>2, <2>3 DEF ActivatorStep, AsyncWakeup, Signal, BuildEnvironment, AsyncReply
<1>11. CASE UNCHANGED vars
    BY <1>1, <1>11 DEF vars, hashes, objects, queues
<1> QED
    BY <1>2, <1>3, <1>4, <1>5, <1>6, <1>7, <1>8, <1>9, <1>10, <1>11 DEF Next

LEMMA AnswerTyped ==
    ASSUME StatusTyped, NEW c \in Clients, Answer(c)
    PROVE  /\ answers' \in [Clients -> Nat] /\ answers'[c] = answers[c] + 1
           /\ \A d \in Clients \ {c} : answers'[d] = answers[d]
<1>1. answers[c] \in Nat
    BY DEF StatusTyped
<1> QED
    BY <1>1 DEF StatusTyped, Answer

LEMMA NextStatusTyped ==
    ASSUME IndInv, [Next]_vars
    PROVE  StatusTyped'
<1>0. Typed /\ StatusTyped /\ ClientsTyped
    BY DEF IndInv, Typed
<1>1. CASE UNCHANGED <<status, pdu, answers, leftover>>
    BY <1>0, <1>1 DEF StatusTyped, status
<1>2. ASSUME NEW c \in Clients, NEW t \in Tags, Request(c, t) PROVE StatusTyped'
    <2>1. /\ pending' \in [Ctxs -> {"none", "waiting", "keepalive"}]
          /\ notification' \in [Ctxs -> {"none", "timed", "pending"}]
        BY <1>0, <1>2 DEF StatusTyped, Request, ClearStatus
    <2>2. pdu' \in [Calls -> {"none", "null", "node"}] /\ answers' \in [Clients -> Nat]
        BY <1>0, <1>2 DEF StatusTyped, Request, ApplyAsyncId
    <2>3. leftover' \subseteq Ctxs
        BY <1>0, <1>2, Kinds DEF StatusTyped, Request
    <2> QED BY <1>0, <1>2, <2>1, <2>2, <2>3 DEF StatusTyped, Request
<1>3. ASSUME NEW c \in Clients, AnswerAtOnce(c), UNCHANGED <<leftover, status>> PROVE StatusTyped'
    <2>1. answers' \in [Clients -> Nat]
        BY <1>0, <1>3, AnswerTyped DEF AnswerAtOnce
    <2>2. pdu' \in [Calls -> {"none", "null", "node"}]
        BY <1>0, <1>3 DEF StatusTyped, AnswerAtOnce
    <2> QED BY <1>0, <1>3, <2>1, <2>2 DEF StatusTyped, status
<1>4. ASSUME NEW c \in Clients, ClientStep(c) \/ CloseCall(c) \/ CloseCtx(c) PROVE StatusTyped'
    <2>1. CASE CheckNotify(c) \/ Park(c)
        BY <1>1, <1>3, <2>1 DEF CheckNotify, Park
    <2>2. CASE Activate(c) \/ CloseCall(c)
        BY <1>0, <2>2 DEF Activate, CloseCall, StatusTyped, status
    <2>3. CASE MarkWaiting(c) \/ RetrKeepalive(c)
        BY <1>0, <2>3 DEF MarkWaiting, RetrKeepalive, StatusTyped
    <2>4. CASE MarkNone(c) \/ MarkPending(c)
        BY <1>0, <2>4 DEF MarkNone, MarkPending, StatusTyped, ClientsTyped, CtxPcs
    <2>5. CASE RetrAnswer(c)
        <3>1. CASE UNCHANGED <<notification, answers>>
            BY <1>0, <2>5, <3>1 DEF RetrAnswer, StatusTyped
        <3>2. CASE Answer(c) /\ notification' = [notification EXCEPT ![c] = "none"]
            <4>1. answers' \in [Clients -> Nat]
                BY <1>0, <3>2, AnswerTyped
            <4> QED BY <1>0, <2>5, <3>2, <4>1 DEF RetrAnswer, StatusTyped
        <3> QED BY <2>5, <3>1, <3>2 DEF RetrAnswer
    <2>6. CASE Term(c)
        BY <1>0, <2>6 DEF Term, StatusTyped
    <2>7. CASE Reclaim(c) \/ RemoveWait(c) \/ RetrPending(c) \/ GoToSleep(c) \/ CloseCtx(c)
        BY <1>1, <2>7 DEF Reclaim, RemoveWait, RetrPending, GoToSleep, CloseCtx
    <2> QED BY <1>4, <2>1, <2>2, <2>3, <2>4, <2>5, <2>6, <2>7 DEF ClientStep
<1>5. ASSUME NEW c \in Ctxs, Keepalive(c) PROVE StatusTyped'
    BY <1>0, <1>5 DEF Keepalive, StatusTyped
<1>6. CASE \/ \E t \in Tags : WakeTake(t)
           \/ \E w \in Waits : WakeAppend(w) \/ ScanTake(w) \/ ScanNext(w)
           \/ \E k \in Wakers : Pop(k) \/ SleepWaker(k) \/ OtherWakeup(k)
    BY <1>1, <1>6 DEF WakeTake, WakeAppend, ScanTake, ScanNext, Pop, SleepWaker, OtherWakeup, clients
<1>7. ASSUME NEW k \in Activators, AsyncWakeup(k) PROVE StatusTyped'
    <2>1. CASE UNCHANGED status
        BY <1>1, <1>7, <2>1 DEF AsyncWakeup, clients
    <2>2. ASSUME NEW c \in Ctxs, NEW s \in {"timed", "pending"}, notification' = [notification EXCEPT ![c] = s],
                 pending' = [pending EXCEPT ![c] = "none"], keep' = keep \ {c}
          PROVE  StatusTyped'
        BY <1>0, <1>7, <2>2 DEF StatusTyped, AsyncWakeup, clients
    <2> QED BY <1>7, <2>1, <2>2 DEF AsyncWakeup
<1>8. ASSUME NEW k \in Activators, Signal(k) PROVE StatusTyped'
    BY <1>1, <1>8 DEF Signal
<1>9. ASSUME NEW k \in Activators, BuildEnvironment(k) PROVE StatusTyped'
    BY <1>0, <1>9 DEF BuildEnvironment, StatusTyped, clients, status
<1>10. ASSUME NEW k \in Activators, AsyncReply(k) PROVE StatusTyped'
    <2>1. CASE UNCHANGED clients
        BY <1>1, <1>10, <2>1 DEF AsyncReply, clients
    <2>2. PICK c \in Clients : c = owner[act[k]]
        BY <1>10, <1>0, ActedOn DEF AsyncReply, Busy, IndInv
    <2>3. CASE Answer(c) /\ UNCHANGED leftover
        BY <1>0, <1>10, <2>3, AnswerTyped DEF AsyncReply, StatusTyped, status
    <2> QED BY <1>10, <2>1, <2>2, <2>3 DEF AsyncReply
<1>11. CASE UNCHANGED vars
    BY <1>1, <1>11 DEF vars, status
<1> QED
    BY <1>2, <1>4, <1>5, <1>6, <1>7, <1>8, <1>9, <1>10, <1>11 DEF Next, ActivatorStep


-----------------------------------------------------------------------------
(***************************************************************************)
(* Where the waits are                                                     *)
(***************************************************************************)

\* The waits of S go to place d, or to none; the others stay.
LEMMA PlacedMove ==
    ASSUME Placed, NEW S \in SUBSET Waits, NEW d,
           \A w \in Waits \ S : owner'[w] # None <=> owner[w] # None,
           \A w \in S : owner'[w] # None <=> d \in Places,
           \A w \in Waits \ S, p \in Places : In(p, w)' <=> In(p, w),
           \A w \in S, p \in Places : In(p, w)' <=> p = d
    PROVE  Placed'
<1> SUFFICES ASSUME NEW w \in Waits
             PROVE  /\ owner'[w] # None <=> \E p \in Places : In(p, w)'
                    /\ \A p, q \in Places : In(p, w)' /\ In(q, w)' => p = q
    BY DEF Placed
<1>1. CASE w \in S
    BY <1>1
<1>2. CASE w \notin S
    BY <1>2 DEF Placed
<1> QED
    BY <1>1, <1>2

LEMMA PlacedOne ==
    ASSUME Placed, NEW w \in Waits, NEW d,
           \A v \in Waits \ {w} : owner'[v] # None <=> owner[v] # None,
           owner'[w] # None <=> d \in Places,
           \A v \in Waits \ {w}, p \in Places : In(p, v)' <=> In(p, v),
           \A p \in Places : In(p, w)' <=> p = d
    PROVE  Placed'
<1>1. PICK S : S = {w}
    OBVIOUS
<1>2. S \in SUBSET Waits /\ \A v \in Waits \ S : owner'[v] # None <=> owner[v] # None
    BY <1>1
<1>3. \A v \in S : owner'[v] # None <=> d \in Places
    BY <1>1
<1>4. \A v \in Waits \ S, p \in Places : In(p, v)' <=> In(p, v)
    BY <1>1
<1>5. \A v \in S, p \in Places : In(p, v)' <=> p = d
    BY <1>1
<1> QED
    BY <1>2, <1>3, <1>4, <1>5, PlacedMove

\* From where a wait is known it is known that it is nowhere else.
LEMMA Elsewhere ==
    ASSUME Placed, NEW w \in Waits, NEW p \in Places, In(p, w)
    PROVE  owner[w] # None /\ \A q \in Places : In(q, w) <=> q = p
    BY DEF Placed

LEMMA Nowhere ==
    ASSUME Placed, NEW w \in Waits, owner[w] = None
    PROVE  \A q \in Places : ~In(q, w)
    BY DEF Placed

\* Erasing from the tables takes the waits of S out, and leaves the tables in agreement.
LEMMA UnparkTakes ==
    ASSUME TablesTyped, TablesAgree, NEW S \in SUBSET Waits, UnparkAll(S),
           \A w \in Waits \ S : owner'[w] = owner[w] /\ tag'[w] = tag[w]
    PROVE  /\ \A w \in Waits : In("tag", w)' <=> In("tag", w) /\ w \notin S
           /\ TablesAgree'
<1>1. /\ \A t \in Tags : g_tag_hash'[t] = IF g_tag_hash[t] \in S THEN None ELSE g_tag_hash[t]
      /\ \A c \in Calls : g_async_hash'[c] = IF g_async_hash[c] \in S THEN None ELSE g_async_hash[c]
      /\ \A t \in Tags : g_tag_hash[t] \in Waits \cup {None}
    BY DEF UnparkAll, TablesTyped
<1>2. \A w \in Waits : (\E t \in Tags : g_tag_hash'[t] = w) <=> (\E t \in Tags : g_tag_hash[t] = w) /\ w \notin S
    BY <1>1, Kinds
<1>3. \A w \in Waits : In("tag", w)' <=> In("tag", w) /\ w \notin S
    BY <1>2 DEF In
<1>4. \A t \in Tags : g_tag_hash'[t] # None => tag'[g_tag_hash'[t]] = t
    <2> SUFFICES ASSUME NEW t \in Tags, g_tag_hash'[t] # None
                 PROVE  tag'[g_tag_hash'[t]] = t
        OBVIOUS
    <2>1. g_tag_hash'[t] = g_tag_hash[t] /\ g_tag_hash[t] \in Waits \ S
        BY <1>1
    <2>2. tag'[g_tag_hash[t]] = tag[g_tag_hash[t]] /\ tag[g_tag_hash[t]] = t
        BY <2>1 DEF TablesAgree
    <2> QED BY <2>1, <2>2
<1>5. \A w \in Waits : w \in Parked' <=> w \in Parked /\ w \notin S
    BY <1>2 DEF Parked
<1>6. ASSUME NEW c \in Calls, NEW w \in Waits
      PROVE  g_async_hash'[c] = w <=> w \in Parked' /\ owner'[w] = c
    <2>1. g_async_hash'[c] = w <=> g_async_hash[c] = w /\ w \notin S
        BY <1>1, Kinds
    <2>2. g_async_hash[c] = w <=> w \in Parked /\ owner[w] = c
        BY DEF TablesAgree
    <2> QED BY <1>5, <2>1, <2>2
<1> QED
    BY <1>3, <1>4, <1>6 DEF TablesAgree

\* Nothing of the tables, the lists and the threads changes.
Local == UNCHANGED <<hashes, objects, queues, threads>>

Where == Placed /\ Once /\ TablesAgree /\ Served

LEMMA LocalWhere ==
    ASSUME Where, Local
    PROVE  Where'
    BY DEF Where, Local, Placed, Once, TablesAgree, Served, In, Parked, hashes, objects, queues, threads

\* A wait is erased from the tables and freed.
LEMMA UnparkFreeWhere ==
    ASSUME Typed, Where, NEW w \in Waits, In("tag", w), UnparkAll({w}), Free(w), UNCHANGED <<queues, threads>>
    PROVE  Where'
<1>1. "tag" \in Places /\ \A q \in Places : In(q, w) <=> q = "tag"
    BY Elsewhere DEF Where, Places
<1>2. owner'[w] = None /\ \A v \in Waits \ {w} : owner'[v] = owner[v] /\ tag'[v] = tag[v]
    BY DEF Typed, TablesTyped, Free
<1>3. (\A v \in Waits : In("tag", v)' <=> In("tag", v) /\ v # w) /\ TablesAgree'
    BY <1>2, UnparkTakes DEF Where, Typed
<1>4. \A v \in Waits, p \in Places \ {"tag"} : In(p, v)' <=> In(p, v)
    BY DEF In, queues, threads
<1>5. Placed'
    <2>1. \A p \in Places : ~In(p, w)'
        BY <1>1, <1>3, <1>4
    <2>2. \A v \in Waits \ {w}, p \in Places : In(p, v)' <=> In(p, v)
        BY <1>3, <1>4
    <2>3. "none" \notin Places
        BY DEF Places
    <2>4. /\ owner'[w] # None <=> "none" \in Places
          /\ \A p \in Places : In(p, w)' <=> p = "none"
          /\ \A v \in Waits \ {w} : owner'[v] # None <=> owner[v] # None
        BY <1>2, <2>1, <2>3
    <2> QED BY <2>2, <2>4, PlacedOne DEF Where
<1>6. Once'
    BY DEF Where, Once, queues, threads
<1>7. Served'
    <2>1. \A k \in Activators : act[k] # w
        BY <1>1 DEF In, Places
    <2>2. \A k \in Activators : thr[k] \in Busy => act[k] \in Waits
        BY DEF Typed, ThreadsTyped
    <2> QED BY <1>2, <2>1, <2>2 DEF Where, Served, threads, Busy
<1> QED
    BY <1>3, <1>5, <1>6, <1>7 DEF Where

\* Waits are erased from the tables and taken to a list.
LEMMA TakenWhere ==
    ASSUME Typed, Where, NEW S \in SUBSET Waits, \A w \in S : In("tag", w), UnparkAll(S),
           UNCHANGED <<objects, g_wakeup_list, threads>>,
           \/ hand' = hand \cup S /\ UNCHANGED temp_list
           \/ temp_list' = S /\ temp_list = {} /\ UNCHANGED hand
    PROVE  Where'
<1>1. /\ {"tag", "hand", "temp", "list", "act"} \subseteq Places
      /\ \A w \in S : owner[w] # None /\ \A q \in Places : In(q, w) <=> q = "tag"
    BY Elsewhere DEF Where, Places
<1>2. \A v \in Waits \ S : owner'[v] = owner[v] /\ tag'[v] = tag[v]
    BY DEF objects
<1>3. (\A v \in Waits : In("tag", v)' <=> In("tag", v) /\ v \notin S) /\ TablesAgree'
    BY <1>2, UnparkTakes DEF Where, Typed
<1>4. \A v \in Waits, p \in {"list", "act"} : In(p, v)' <=> In(p, v)
    BY DEF In, threads
<1>5. CASE hand' = hand \cup S /\ UNCHANGED temp_list
    <2>1. \A v \in Waits : (In("hand", v)' <=> In("hand", v) \/ v \in S) /\ (In("temp", v)' <=> In("temp", v))
        BY <1>5 DEF In
    <2>2. \A v \in S, p \in Places : In(p, v)' <=> p = "hand"
        BY <1>1, <1>3, <1>4, <2>1 DEF Places
    <2>3. \A v \in Waits \ S, p \in Places : In(p, v)' <=> In(p, v)
        BY <1>3, <1>4, <2>1 DEF Places
    <2> QED BY <1>1, <2>2, <2>3, <1>3, PlacedMove DEF Where, objects, Once, Served, threads
<1>6. CASE temp_list' = S /\ temp_list = {} /\ UNCHANGED hand
    <2>1. \A v \in Waits : (In("temp", v)' <=> In("temp", v) \/ v \in S) /\ (In("hand", v)' <=> In("hand", v))
        BY <1>6 DEF In
    <2>2. \A v \in S, p \in Places : In(p, v)' <=> p = "temp"
        BY <1>1, <1>3, <1>4, <2>1 DEF Places
    <2>3. \A v \in Waits \ S, p \in Places : In(p, v)' <=> In(p, v)
        BY <1>3, <1>4, <2>1 DEF Places
    <2> QED BY <1>1, <2>2, <2>3, <1>3, PlacedMove, SMTT(30) DEF Where, objects, Once, Served, threads
<1> QED
    BY <1>5, <1>6


\* A wait is parked.
LEMMA ParkWhere ==
    ASSUME Typed, Where, Budgets, NEW c \in Clients, NEW w \in Waits, pc[c] = "park",
           g_tag_hash[ctag[c]] = None, owner[w] = None,
           owner' = [owner EXCEPT ![w] = c], tag' = [tag EXCEPT ![w] = ctag[c]],
           g_tag_hash' = [g_tag_hash EXCEPT ![ctag[c]] = w],
           g_async_hash' = IF c \in Calls THEN [g_async_hash EXCEPT ![c] = w] ELSE g_async_hash,
           UNCHANGED <<queues, threads>>
    PROVE  Where'
<1>1. PICK t \in Tags : t = ctag[c]
    BY DEF Typed, ClientsTyped
<1>2. g_tag_hash'[t] = w /\ \A s \in Tags \ {t} : g_tag_hash'[s] = g_tag_hash[s]
    BY <1>1 DEF Typed, TablesTyped
<1>3. /\ owner'[w] = c /\ tag'[w] = t
      /\ \A v \in Waits \ {w} : owner'[v] = owner[v] /\ tag'[v] = tag[v]
    BY <1>1 DEF Typed, TablesTyped
<1>4. "tag" \in Places /\ \A q \in Places : ~In(q, w)
    BY Nowhere DEF Where, Places
<1>5. \A v \in Waits : (\E s \in Tags : g_tag_hash'[s] = v) <=> (\E s \in Tags : g_tag_hash[s] = v) \/ v = w
    BY <1>1, <1>2, Kinds
<1>6. \A v \in Waits : In("tag", v)' <=> In("tag", v) \/ v = w
    BY <1>5 DEF In
<1>7. \A v \in Waits, p \in Places \ {"tag"} : In(p, v)' <=> In(p, v)
    BY DEF In, queues, threads
<1>8. Placed'
    <2>1. /\ owner'[w] # None <=> "tag" \in Places
          /\ \A v \in Waits \ {w} : owner'[v] # None <=> owner[v] # None
        BY <1>3, <1>4, Kinds
    <2>2. /\ \A p \in Places : In(p, w)' <=> p = "tag"
          /\ \A v \in Waits \ {w}, p \in Places : In(p, v)' <=> In(p, v)
        BY <1>4, <1>6, <1>7
    <2> QED BY <2>1, <2>2, PlacedOne DEF Where
<1>9. Once'
    BY DEF Where, Once, queues, threads
<1>10. Served'
    <2>1. \A k \in Activators : act[k] # w
        BY <1>4 DEF In, Places
    <2>2. \A k \in Activators : thr[k] \in Busy => act[k] \in Waits
        BY DEF Typed, ThreadsTyped
    <2> QED BY <1>3, <2>1, <2>2 DEF Where, Served, threads, Busy
<1>11. \A s \in Tags : g_tag_hash[s] # w
    BY <1>4 DEF In
<1>12. \A s \in Tags : g_tag_hash'[s] # None => tag'[g_tag_hash'[s]] = s
    <2> SUFFICES ASSUME NEW s \in Tags, g_tag_hash'[s] # None
                 PROVE  tag'[g_tag_hash'[s]] = s
        OBVIOUS
    <2>1. CASE s = t
        BY <1>2, <1>3, <2>1
    <2>2. CASE s # t
        <3>1. g_tag_hash'[s] = g_tag_hash[s] /\ g_tag_hash[s] \in Waits \ {w}
            BY <1>2, <1>11, <2>2 DEF Typed, TablesTyped
        <3>2. tag[g_tag_hash[s]] = s
            BY <3>1, Kinds DEF Where, TablesAgree
        <3> QED BY <1>3, <3>1, <3>2
    <2> QED BY <2>1, <2>2
<1>13. ASSUME NEW d \in Calls, NEW v \in Waits
       PROVE  g_async_hash'[d] = v <=> v \in Parked' /\ owner'[v] = d
    <2>1. v \in Parked' <=> v \in Parked \/ v = w
        BY <1>5 DEF Parked
    <2>2. /\ g_async_hash[d] = v <=> v \in Parked /\ owner[v] = d
          /\ g_async_hash[d] = w <=> w \in Parked /\ owner[w] = d
        BY DEF Where, TablesAgree
    <2>3. \A u \in Waits : c \in Calls => owner[u] # c
        BY Kinds DEF Budgets, Budget, Newcomer, Typed, StatusTyped
    <2>4. CASE d = c
        <3>1. g_async_hash'[d] = w
            BY <2>4 DEF Typed, TablesTyped
        <3>2. v # w => owner'[v] # c
            BY <1>3, <2>3, <2>4
        <3> QED BY <1>3, <2>1, <2>4, <3>1, <3>2
    <2>5. CASE d # c
        <3>1. g_async_hash'[d] = g_async_hash[d]
            BY <2>5 DEF Typed, TablesTyped
        <3>2. CASE v = w
            BY <1>3, <2>2, <2>5, <3>1, <3>2, Kinds
        <3>3. CASE v # w
            BY <1>3, <2>1, <2>2, <3>1, <3>3
        <3> QED BY <3>2, <3>3
    <2> QED BY <2>4, <2>5
<1> QED
    BY <1>8, <1>9, <1>10, <1>12, <1>13 DEF Where, TablesAgree

\* A wait that was taken is queued for the threads.
LEMMA AppendWhere ==
    ASSUME Typed, Where, NEW w \in Waits, WakeAppend(w)
    PROVE  Where'
<1>1. /\ w \in hand /\ hand' = hand \ {w} /\ g_wakeup_list' = Append(g_wakeup_list, w)
      /\ UNCHANGED <<hashes, objects, temp_list, act>>
    BY DEF WakeAppend
<1>2. /\ {"hand", "list"} \subseteq Places /\ owner[w] # None
      /\ \A q \in Places : In(q, w) <=> q = "hand"
    BY <1>1, Elsewhere DEF Where, Places, In
<1>3. g_wakeup_list \in Seq(Waits)
    BY DEF Typed, TablesTyped
<1>4. /\ DOMAIN g_wakeup_list' = 1 .. Len(g_wakeup_list) + 1 /\ DOMAIN g_wakeup_list = 1 .. Len(g_wakeup_list)
      /\ g_wakeup_list'[Len(g_wakeup_list) + 1] = w /\ Len(g_wakeup_list) \in Nat
      /\ \A i \in 1 .. Len(g_wakeup_list) : g_wakeup_list'[i] = g_wakeup_list[i]
    BY <1>1, <1>3
<1>5. \A v \in Waits : (\E i \in DOMAIN g_wakeup_list' : g_wakeup_list'[i] = v)
                       <=> (\E i \in DOMAIN g_wakeup_list : g_wakeup_list[i] = v) \/ v = w
    BY <1>4
<1>6. \A v \in Waits : /\ In("list", v)' <=> In("list", v) \/ v = w
                       /\ In("hand", v)' <=> In("hand", v) /\ v # w
    BY <1>1, <1>5 DEF In
<1>7. \A v \in Waits, p \in Places \ {"list", "hand"} : In(p, v)' <=> In(p, v)
    BY <1>1 DEF In, hashes
<1>8. Placed'
    <2>1. /\ owner'[w] # None <=> "list" \in Places
          /\ \A v \in Waits \ {w} : owner'[v] # None <=> owner[v] # None
        BY <1>1, <1>2 DEF objects
    <2>2. /\ \A p \in Places : In(p, w)' <=> p = "list"
          /\ \A v \in Waits \ {w}, p \in Places : In(p, v)' <=> In(p, v)
        BY <1>2, <1>6, <1>7
    <2> QED BY <2>1, <2>2, PlacedOne DEF Where
<1>9. Once'
    <2>1. \A i \in DOMAIN g_wakeup_list : g_wakeup_list[i] # w
        BY <1>2 DEF In, Places
    <2>2. ASSUME NEW i \in DOMAIN g_wakeup_list', NEW j \in DOMAIN g_wakeup_list',
                 g_wakeup_list'[i] = g_wakeup_list'[j]
          PROVE  i = j
        <3>1. CASE i \in DOMAIN g_wakeup_list /\ j \in DOMAIN g_wakeup_list
            BY <1>4, <2>2, <3>1 DEF Where, Once
        <3>2. CASE i = Len(g_wakeup_list) + 1 \/ j = Len(g_wakeup_list) + 1
            BY <1>4, <2>1, <2>2, <3>2
        <3> QED BY <1>4, <3>1, <3>2
    <2> QED BY <1>1, <2>2 DEF Where, Once
<1>10. TablesAgree'
    BY <1>1 DEF Where, TablesAgree, Parked, hashes, objects
<1>11. Served'
    <2>1. \A k \in Activators : thr'[k] \in {"signal", "reply"} => thr'[k] = thr[k]
        BY Kinds DEF WakeAppend, ThrGoto, Typed, ThreadsTyped
    <2> QED BY <1>1, <2>1 DEF Where, Served, objects
<1> QED
    BY <1>8, <1>9, <1>10, <1>11 DEF Where

\* A thread takes a wait that is in no other thread's hands.
LEMMA PickedWhere ==
    ASSUME Typed, Where, NEW k \in Activators, thr[k] \notin Busy, NEW w \in Waits, NEW p \in {"list", "temp"},
           In(p, w), act' = [act EXCEPT ![k] = w], ThrGoto(k, "act"), UNCHANGED <<hashes, objects, hand>>,
           \A v \in Waits : In(p, v)' <=> In(p, v) /\ v # w,
           \A q \in {"list", "temp"} \ {p}, v \in Waits : In(q, v)' <=> In(q, v),
           \A i, j \in DOMAIN g_wakeup_list' : g_wakeup_list'[i] = g_wakeup_list'[j] => i = j
    PROVE  Where'
<1>1. /\ p \in Places /\ "act" \in Places /\ owner[w] # None /\ \A q \in Places : In(q, w) <=> q = p
    BY Elsewhere DEF Where, Places
<1>2. /\ act'[k] = w /\ act[k] = None /\ thr'[k] = "act"
      /\ \A j \in Activators \ {k} : act'[j] = act[j] /\ thr'[j] = thr[j]
    BY DEF Typed, ThreadsTyped, ThrGoto
<1>3. \A v \in Waits : (\E j \in Activators : act'[j] = v) <=> (\E j \in Activators : act[j] = v) \/ v = w
    BY <1>2, Kinds
<1>4. \A v \in Waits : In("act", v)' <=> In("act", v) \/ v = w
    BY <1>3 DEF In
<1>5. \A v \in Waits, q \in {"tag", "hand"} : In(q, v)' <=> In(q, v)
    BY DEF In, hashes
<1>6. Placed'
    <2>1. /\ owner'[w] # None <=> "act" \in Places
          /\ \A v \in Waits \ {w} : owner'[v] # None <=> owner[v] # None
        BY <1>1 DEF objects
    <2>2. /\ \A q \in Places : In(q, w)' <=> q = "act"
          /\ \A v \in Waits \ {w}, q \in Places : In(q, v)' <=> In(q, v)
        BY <1>1, <1>4, <1>5 DEF Places
    <2> QED BY <2>1, <2>2, PlacedOne DEF Where
<1>7. Once'
    <2>1. \A j \in Activators : act[j] # w
        BY <1>1 DEF In, Places
    <2> QED BY <1>2, <2>1 DEF Where, Once
<1>8. TablesAgree'
    BY DEF Where, TablesAgree, Parked, hashes, objects
<1>9. Served'
    BY <1>2 DEF Where, Served, objects
<1> QED
    BY <1>6, <1>7, <1>8, <1>9 DEF Where

\* A thread frees the wait in its hands.
LEMMA FinishedWhere ==
    ASSUME Typed, Where, NEW k \in Activators, thr[k] \in Busy, Finished(k), UNCHANGED <<hashes, queues>>
    PROVE  Where'
<1>1. PICK w \in Waits : w = act[k]
    BY DEF Typed, ThreadsTyped
<1>2. /\ owner'[w] = None /\ \A v \in Waits \ {w} : owner'[v] = owner[v] /\ tag'[v] = tag[v]
    BY <1>1 DEF Typed, TablesTyped, Finished, Free
<1>3. /\ thr'[k] \in {"idle", "pop"} /\ act'[k] = None
      /\ \A j \in Activators \ {k} : thr'[j] = thr[j] /\ act'[j] = act[j]
    BY FinishedTyped DEF Typed
<1>4. "act" \in Places /\ \A q \in Places : In(q, w) <=> q = "act"
    BY <1>1, Elsewhere DEF Where, Places, In
<1>5. \A j \in Activators \ {k} : act[j] # w
    BY <1>1, Kinds DEF Where, Once
<1>6. \A v \in Waits : In("act", v)' <=> In("act", v) /\ v # w
    <2>1. \A v \in Waits : (\E j \in Activators : act'[j] = v) <=> (\E j \in Activators : act[j] = v) /\ v # w
        BY <1>1, <1>3, <1>5, Kinds
    <2> QED BY <2>1 DEF In
<1>7. \A v \in Waits, q \in Places \ {"act"} : In(q, v)' <=> In(q, v)
    BY DEF In, hashes, queues
<1>8. Placed'
    <2>1. /\ owner'[w] # None <=> "none" \in Places
          /\ \A v \in Waits \ {w} : owner'[v] # None <=> owner[v] # None
        BY <1>2 DEF Places
    <2>2. "none" \notin Places
        BY DEF Places
    <2>3. /\ \A q \in Places : In(q, w)' <=> q = "none"
          /\ \A v \in Waits \ {w}, q \in Places : In(q, v)' <=> In(q, v)
        BY <1>4, <1>6, <1>7, <2>2
    <2> QED BY <2>1, <2>3, PlacedOne DEF Where
<1>9. Once'
    BY <1>3 DEF Where, Once, queues
<1>10. Served'
    <2>1. \A j \in Activators : thr[j] \in Busy => act[j] \in Waits
        BY DEF Typed, ThreadsTyped
    <2> QED BY <1>2, <1>3, <1>5, <2>1 DEF Where, Served, Busy
<1>11. TablesAgree'
    <2>1. w \notin Parked /\ \A t \in Tags : g_tag_hash[t] # w
        BY <1>4 DEF In, Places, Parked
    <2>2. \A t \in Tags : g_tag_hash[t] # None => tag'[g_tag_hash[t]] = t
        <3> SUFFICES ASSUME NEW t \in Tags, g_tag_hash[t] # None PROVE tag'[g_tag_hash[t]] = t
            OBVIOUS
        <3>1. g_tag_hash[t] \in Waits \ {w} /\ tag[g_tag_hash[t]] = t
            BY <2>1 DEF Typed, TablesTyped, Where, TablesAgree
        <3> QED BY <1>2, <3>1
    <2>3. \A c \in Calls, v \in Waits : g_async_hash[c] = v <=> v \in Parked /\ owner'[v] = c
        BY <1>2, <2>1 DEF Where, TablesAgree
    <2> QED BY <2>2, <2>3 DEF TablesAgree, Parked, hashes
<1> QED
    BY <1>8, <1>9, <1>10, <1>11 DEF Where


\* A thread moves without a change of what it has in its hands.
LEMMA ThreadWhere ==
    ASSUME Where, UNCHANGED <<hashes, objects, queues, act>>,
           \A k \in Activators : thr'[k] \in {"signal", "reply"} => thr'[k] = thr[k]
    PROVE  Where'
    BY DEF Where, Placed, Once, TablesAgree, Served, In, Parked, hashes, objects, queues

LEMMA PopWhere ==
    ASSUME Typed, Where, NEW k \in Wakers, Pop(k)
    PROVE  Where'
<1>1. k \in Activators /\ thr[k] = "pop" /\ thr[k] \notin Busy /\ g_wakeup_list \in Seq(Waits)
    BY Kinds DEF Pop, Typed, TablesTyped, Busy
<1>2. CASE g_wakeup_list = <<>>
    <2>1. \A j \in Activators : thr'[j] \in {"signal", "reply"} => thr'[j] = thr[j]
        BY <1>1, <1>2 DEF Pop, ThrGoto, Typed, ThreadsTyped
    <2> QED BY <1>2, <2>1, ThreadWhere DEF Pop, queues
<1>3. CASE g_wakeup_list # <<>>
    <2>1. PICK w : w = Head(g_wakeup_list)
        OBVIOUS
    <2>2. /\ act' = [act EXCEPT ![k] = w] /\ g_wakeup_list' = Tail(g_wakeup_list) /\ ThrGoto(k, "act")
          /\ UNCHANGED <<hashes, objects, hand, temp_list>>
        BY <1>3, <2>1 DEF Pop
    <2>3. /\ w \in Waits /\ w = g_wakeup_list[1] /\ 1 \in DOMAIN g_wakeup_list
          /\ DOMAIN g_wakeup_list = 1 .. Len(g_wakeup_list) /\ Len(g_wakeup_list) \in Nat \ {0}
          /\ DOMAIN g_wakeup_list' = 1 .. Len(g_wakeup_list) - 1
          /\ \A i \in 1 .. Len(g_wakeup_list) - 1 : g_wakeup_list'[i] = g_wakeup_list[i + 1]
        BY <1>1, <1>3, <2>1, <2>2
    <2>4. \A i, j \in DOMAIN g_wakeup_list : g_wakeup_list[i] = g_wakeup_list[j] => i = j
        BY DEF Where, Once
    <2>5. \A i, j \in DOMAIN g_wakeup_list' : g_wakeup_list'[i] = g_wakeup_list'[j] => i = j
        BY <2>3, <2>4
    <2>6. \A v \in Waits : (\E i \in DOMAIN g_wakeup_list' : g_wakeup_list'[i] = v)
                           <=> (\E i \in DOMAIN g_wakeup_list : g_wakeup_list[i] = v) /\ v # w
        <3> SUFFICES ASSUME NEW v \in Waits
                     PROVE  (\E i \in DOMAIN g_wakeup_list' : g_wakeup_list'[i] = v)
                            <=> (\E i \in DOMAIN g_wakeup_list : g_wakeup_list[i] = v) /\ v # w
            OBVIOUS
        <3>1. ASSUME NEW i \in DOMAIN g_wakeup_list', g_wakeup_list'[i] = v
              PROVE  (\E j \in DOMAIN g_wakeup_list : g_wakeup_list[j] = v) /\ v # w
            <4>1. i + 1 \in DOMAIN g_wakeup_list /\ i + 1 # 1 /\ g_wakeup_list[i + 1] = v
                BY <2>3, <3>1
            <4>2. v # w
                BY <2>3, <2>4, <4>1
            <4> QED BY <4>1, <4>2
        <3>2. ASSUME NEW i \in DOMAIN g_wakeup_list, g_wakeup_list[i] = v, v # w
              PROVE  \E j \in DOMAIN g_wakeup_list' : g_wakeup_list'[j] = v
            <4>1. i # 1
                BY <2>3, <3>2
            <4>2. i - 1 \in DOMAIN g_wakeup_list' /\ g_wakeup_list'[i - 1] = v
                BY <2>3, <3>2, <4>1
            <4> QED BY <4>2
        <3> QED BY <3>1, <3>2
    <2>7. \A v \in Waits : In("list", v)' <=> In("list", v) /\ v # w
        BY <2>6 DEF In
    <2>8. In("list", w) /\ \A q \in {"list", "temp"} \ {"list"}, v \in Waits : In(q, v)' <=> In(q, v)
        BY <2>2, <2>3 DEF In
    <2>9. UNCHANGED <<hashes, objects, hand>>
        BY <2>2
    <2> QED BY <1>1, <2>2, <2>3, <2>5, <2>7, <2>8, <2>9, PickedWhere
<1> QED
    BY <1>2, <1>3

LEMMA ScanNextWhere ==
    ASSUME Typed, Where, NEW w \in Waits, ScanNext(w)
    PROVE  Where'
<1>1. Scan \in Activators /\ thr[Scan] \notin Busy
    BY Kinds DEF ScanNext, Busy
<1>2. /\ w \in temp_list /\ temp_list' = temp_list \ {w} /\ act' = [act EXCEPT ![Scan] = w]
      /\ ThrGoto(Scan, "act") /\ UNCHANGED <<hashes, objects, hand, g_wakeup_list>>
    BY DEF ScanNext
<1>3. In("temp", w) /\ \A v \in Waits : In("temp", v)' <=> In("temp", v) /\ v # w
    BY <1>2 DEF In
<1>4. \A q \in {"list", "temp"} \ {"temp"}, v \in Waits : In(q, v)' <=> In(q, v)
    BY <1>2 DEF In
<1>5. \A i, j \in DOMAIN g_wakeup_list' : g_wakeup_list'[i] = g_wakeup_list'[j] => i = j
    BY <1>2 DEF Where, Once
<1>6. UNCHANGED <<hashes, objects, hand>>
    BY <1>2
<1> QED
    BY <1>1, <1>2, <1>3, <1>4, <1>5, <1>6, PickedWhere

LEMMA NextWhere ==
    ASSUME IndInv, [Next]_vars
    PROVE  Where'
<1>0. Typed /\ Where /\ Budgets
    BY DEF IndInv, Where
<1>1. CASE Local
    BY <1>0, <1>1, LocalWhere
<1>2. CASE \E c \in Clients, t \in Tags : Request(c, t)
    BY <1>1, <1>2 DEF Request, Local
<1>3. ASSUME NEW c \in Clients, ClientStep(c) \/ CloseCall(c) \/ CloseCtx(c) PROVE Where'
    <2>1. CASE Park(c)
        <3>1. CASE UNCHANGED <<hashes, objects>>
            BY <1>1, <2>1, <3>1 DEF Park, Local
        <3>2. CASE ~UNCHANGED <<hashes, objects>>
            <4>1. PICK w \in Waits :
                     /\ MayPark(c) /\ owner[w] = None
                     /\ owner' = [owner EXCEPT ![w] = c] /\ tag' = [tag EXCEPT ![w] = ctag[c]]
                     /\ g_tag_hash' = [g_tag_hash EXCEPT ![ctag[c]] = w]
                     /\ g_async_hash' = IF c \in Calls THEN [g_async_hash EXCEPT ![c] = w] ELSE g_async_hash
                BY <2>1, <3>2 DEF Park
            <4>2. pc[c] = "park" /\ g_tag_hash[ctag[c]] = None /\ UNCHANGED <<queues, threads>>
                BY <2>1, <4>1 DEF Park, MayPark
            <4> QED BY <1>0, <4>1, <4>2, ParkWhere
        <3> QED BY <3>1, <3>2
    <2>2. CASE Reclaim(c) \/ RemoveWait(c)
        <3>1. CASE UNCHANGED <<hashes, objects>>
            BY <1>1, <2>2, <3>1 DEF Reclaim, RemoveWait, Local
        <3>2. CASE ~UNCHANGED <<hashes, objects>>
            <4>1. PICK w : /\ w # None /\ UnparkAll({w}) /\ Free(w)
                           /\ \/ pc[c] = "reclaim" /\ w = g_async_hash[c]
                              \/ pc[c] = "remove" /\ w = g_tag_hash[ctag[c]]
                BY <2>2, <3>2 DEF Reclaim, RemoveWait, Unpark
            <4>2. pc[c] = "reclaim" => c \in Calls
                BY <1>0 DEF Typed, ClientsTyped
            <4>3. pc[c] = "remove" => ctag[c] \in Tags
                BY <1>0 DEF Typed, ClientsTyped
            <4>4. w \in Waits /\ In("tag", w)
                <5>1. CASE pc[c] = "reclaim" /\ w = g_async_hash[c]
                    <6>1. w \in Waits
                        BY <1>0, <4>1, <4>2, <5>1 DEF Typed, TablesTyped
                    <6>2. w \in Parked
                        BY <1>0, <4>2, <5>1, <6>1 DEF Where, TablesAgree
                    <6> QED BY <6>1, <6>2 DEF Parked, In
                <5>2. CASE pc[c] = "remove" /\ w = g_tag_hash[ctag[c]]
                    BY <1>0, <4>1, <4>3, <5>2 DEF Typed, TablesTyped, In
                <5> QED BY <4>1, <5>1, <5>2
            <4>5. UNCHANGED <<queues, threads>>
                BY <2>2 DEF Reclaim, RemoveWait
            <4> QED BY <1>0, <4>1, <4>4, <4>5, UnparkFreeWhere
        <3> QED BY <3>1, <3>2
    <2>3. CASE ~Park(c) /\ ~Reclaim(c) /\ ~RemoveWait(c)
        BY <1>1, <1>3, <2>3 DEF ClientStep, CloseCall, CloseCtx, CheckNotify, Activate, MarkWaiting,
            MarkNone, MarkPending, RetrAnswer, RetrPending, RetrKeepalive, GoToSleep, Term, Local
    <2> QED BY <2>1, <2>2, <2>3
<1>4. CASE \E c \in Ctxs : Keepalive(c)
    BY <1>1, <1>4 DEF Keepalive, Local
<1>5. ASSUME NEW t \in Tags, WakeTake(t) PROVE Where'
    <2>1. PICK S : S = {g_tag_hash[t]}
        OBVIOUS
    <2>2. S \in SUBSET Waits /\ \A w \in S : In("tag", w)
        BY <1>0, <1>5, <2>1 DEF WakeTake, Typed, TablesTyped, In
    <2>3. UnparkAll(S) /\ hand' = hand \cup S /\ UNCHANGED <<objects, g_wakeup_list, threads>> /\ UNCHANGED temp_list
        BY <1>5, <2>1 DEF WakeTake, Unpark
    <2> QED BY <1>0, <2>2, <2>3, TakenWhere
<1>6. ASSUME NEW w \in Waits, ScanTake(w) PROVE Where'
    <2>1. PICK S \in SUBSET Parked : UnparkAll(S) /\ temp_list' = S
        BY <1>6 DEF ScanTake
    <2>2. S \in SUBSET Waits /\ \A v \in S : In("tag", v)
        BY <2>1 DEF Parked, In
    <2>3. temp_list = {} /\ UNCHANGED hand /\ UNCHANGED <<objects, g_wakeup_list, threads>>
        BY <1>6 DEF ScanTake
    <2> QED BY <1>0, <2>1, <2>2, <2>3, TakenWhere
<1>7. CASE \E w \in Waits : WakeAppend(w) \/ ScanNext(w)
    BY <1>0, <1>7, AppendWhere, ScanNextWhere
<1>8. CASE \E k \in Wakers : Pop(k)
    BY <1>0, <1>8, PopWhere
<1>9. ASSUME NEW k \in Wakers, SleepWaker(k) \/ OtherWakeup(k) PROVE Where'
    <2>1. \A j \in Activators : thr'[j] \in {"signal", "reply"} => thr'[j] = thr[j]
        BY <1>0, <1>9, Kinds DEF SleepWaker, OtherWakeup, ThrGoto, Typed, ThreadsTyped
    <2> QED BY <1>0, <1>9, <2>1, ThreadWhere DEF SleepWaker, OtherWakeup
<1>10. ASSUME NEW k \in Activators, ActivatorStep(k) PROVE Where'
    <2>1. UNCHANGED <<hashes, queues>> /\ thr[k] \in Busy
        BY <1>10 DEF ActivatorStep, AsyncWakeup, Signal, BuildEnvironment, AsyncReply, Busy
    <2>2. CASE Finished(k)
        BY <1>0, <2>1, <2>2, FinishedWhere
    <2>3. CASE /\ UNCHANGED <<act, objects>>
               /\ \/ ThrGoto(k, "signal") /\ owner[act[k]] \in Ctxs
                  \/ ThrGoto(k, "reply") /\ owner[act[k]] \in Calls
        <3>1. Served'
            <4>1. PICK l \in {"signal", "reply"} : ThrGoto(k, l)
                BY <2>3
            <4>2. thr'[k] = l /\ \A j \in Activators \ {k} : thr'[j] = thr[j]
                BY <1>0, <4>1 DEF ThrGoto, Typed, ThreadsTyped
            <4>3. l = "signal" => owner[act[k]] \in Ctxs
                BY <1>0, <2>3, <4>1, <4>2 DEF ThrGoto, Typed, ThreadsTyped
            <4>4. l = "reply" => owner[act[k]] \in Calls
                BY <1>0, <2>3, <4>1, <4>2 DEF ThrGoto, Typed, ThreadsTyped
            <4> QED BY <1>0, <2>3, <4>2, <4>3, <4>4 DEF Where, Served, objects
        <3> QED BY <1>0, <2>1, <2>3, <3>1
                DEF Where, Placed, Once, TablesAgree, In, Parked, hashes, objects, queues
    <2> QED BY <1>10, <2>2, <2>3 DEF ActivatorStep, AsyncWakeup, Signal, BuildEnvironment, AsyncReply
<1>11. CASE UNCHANGED vars
    BY <1>1, <1>11 DEF vars, hashes, objects, queues, threads, Local
<1> QED
    BY <1>2, <1>3, <1>4, <1>5, <1>6, <1>7, <1>8, <1>9, <1>10, <1>11 DEF Next


-----------------------------------------------------------------------------
(***************************************************************************)
(* How many answers there are                                              *)
(***************************************************************************)

\* Nothing happens to a client but that it goes on or loses its wait.
LEMMA BudgetKept ==
    ASSUME NEW c \in Clients, Budget(c),
           c \in leftover' <=> c \in leftover, answers'[c] = answers[c],
           c \in Ctxs => notification'[c] = notification[c],
           pc'[c] \in {"check", "park"} => pc[c] \in {"check", "park"},
           c \in Calls /\ pc'[c] # "idle" => pc[c] # "idle",
           \A w \in Waits : owner'[w] = c => owner[w] = c /\ (Unsignalled(w)' => Unsignalled(w))
    PROVE  Budget(c)'
<1>1. c \notin leftover' => Newcomer(c)'
    BY DEF Budget, Newcomer
<1>2. c \in Ctxs \ leftover' => OneToCome(c)'
    BY DEF Budget, OneToCome
<1> QED
    BY <1>1, <1>2 DEF Budget

\* A wait that was signalled and is still there is still signalled.
StillSignalled == \A w \in Waits : owner'[w] # None => owner'[w] = owner[w] /\ (Unsignalled(w)' => Unsignalled(w))

LEMMA SignalsKept ==
    ASSUME UNCHANGED <<objects, threads>>
    PROVE  StillSignalled
    BY DEF StillSignalled, Unsignalled, objects, threads

LEMMA BudgetsKept ==
    ASSUME Budgets, StillSignalled, UNCHANGED <<leftover, answers, notification>>,
           \A c \in Clients : /\ pc'[c] \in {"check", "park"} => pc[c] \in {"check", "park"}
                              /\ c \in Calls /\ pc'[c] # "idle" => pc[c] # "idle"
    PROVE  Budgets'
<1> SUFFICES ASSUME NEW c \in Clients PROVE Budget(c)'
    BY DEF Budgets
<1>1. \A w \in Waits : owner'[w] = c => owner[w] = c /\ (Unsignalled(w)' => Unsignalled(w))
    BY Kinds DEF StillSignalled
<1> QED
    BY <1>1, BudgetKept DEF Budgets

\* One client has something done to it, the others have not.
LEMMA BudgetsOne ==
    ASSUME Budgets, StillSignalled, NEW c \in Clients, Budget(c)',
           \A d \in Clients \ {c} : /\ d \in leftover' <=> d \in leftover
                                    /\ answers'[d] = answers[d] /\ pc'[d] = pc[d]
                                    /\ d \in Ctxs => notification'[d] = notification[d]
    PROVE  Budgets'
<1> SUFFICES ASSUME NEW d \in Clients, d # c PROVE Budget(d)'
    BY DEF Budgets
<1>1. \A w \in Waits : owner'[w] = d => owner[w] = d /\ (Unsignalled(w)' => Unsignalled(w))
    BY Kinds DEF StillSignalled
<1> QED
    BY <1>1, BudgetKept DEF Budgets

\* A client goes on.
LEMMA GoesOn ==
    ASSUME Typed, NEW c \in Clients, NEW l \in ClientPcs \ {"check", "park"}, Goto(c, l), pc[c] # "idle"
    PROVE  \A d \in Clients : /\ pc'[d] \in {"check", "park"} => pc[d] \in {"check", "park"}
                              /\ d \in Calls /\ pc'[d] # "idle" => pc[d] # "idle"
    BY DEF Goto, Typed, ClientsTyped

LEMMA WokenUp ==
    ASSUME Typed, NEW c \in Clients, WakeContext(c)
    PROVE  \A d \in Clients : /\ pc'[d] \in {"check", "park"} => pc[d] \in {"check", "park"}
                              /\ d \in Calls /\ pc'[d] # "idle" => pc[d] # "idle"
    BY DEF WakeContext, Typed, ClientsTyped

\* A thread frees its wait; the signals of the other threads stay.
LEMMA FinishedSignals ==
    ASSUME Typed, Where, NEW k \in Activators, thr[k] \in Busy, Finished(k)
    PROVE  StillSignalled
<1>1. PICK w \in Waits : w = act[k]
    BY DEF Typed, ThreadsTyped
<1>2. owner'[w] = None /\ \A v \in Waits \ {w} : owner'[v] = owner[v]
    BY <1>1 DEF Typed, TablesTyped, Finished, Free
<1>3. \A j \in Activators \ {k} : thr'[j] = thr[j] /\ act'[j] = act[j]
    BY FinishedTyped DEF Typed
<1> QED
    BY <1>1, <1>2, <1>3 DEF StillSignalled, Unsignalled

\* A thread that was not signalling moves.
LEMMA MoveSignals ==
    ASSUME UNCHANGED objects, NEW k \in Activators, thr[k] # "signal",
           \A j \in Activators \ {k} : thr'[j] = thr[j] /\ act'[j] = act[j]
    PROVE  StillSignalled
    BY DEF StillSignalled, Unsignalled, objects

LEMMA FreeSignals ==
    ASSUME Typed, NEW w \in Waits, Free(w), UNCHANGED threads
    PROVE  StillSignalled
<1>1. owner'[w] = None /\ \A v \in Waits \ {w} : owner'[v] = owner[v]
    BY DEF Typed, TablesTyped, Free
<1> QED
    BY <1>1 DEF StillSignalled, Unsignalled, threads

LEMMA RequestBudgets ==
    ASSUME IndInv, NEW c \in Clients, NEW t \in Tags, Request(c, t)
    PROVE  Budgets'
<1>0. Typed /\ Budgets
    BY DEF IndInv
<1>1. StillSignalled
    BY SignalsKept DEF Request
<1>2. /\ answers'[c] = 0 /\ \A d \in Clients \ {c} : answers'[d] = answers[d] /\ pc'[d] = pc[d]
    BY <1>0 DEF Request, Goto, Typed, StatusTyped, ClientsTyped
<1>3. \A d \in Clients \ {c} : d \in leftover' <=> d \in leftover
    BY DEF Request
<1>4. /\ c \in Ctxs => notification'[c] = "none"
      /\ \A d \in Ctxs \ {c} : notification'[d] = notification[d]
    BY <1>0 DEF Request, ClearStatus, Typed, StatusTyped
<1>5. UNCHANGED owner /\ (c \in Calls => \A w \in Waits : owner[w] # c)
    BY DEF Request, objects
<1>6. c \notin leftover' => \A w \in Waits : owner'[w] # c
    BY <1>5 DEF Request
<1>7. Budget(c)'
    <2>1. c \notin leftover' => Newcomer(c)'
        BY <1>2, <1>4, <1>6 DEF Newcomer
    <2>2. c \in Ctxs \ leftover' => OneToCome(c)'
        BY <1>2, <1>4, <1>6 DEF OneToCome
    <2>3. answers'[c] <= 1
        BY <1>2
    <2> QED BY <1>2, <2>1, <2>2, <2>3 DEF Budget
<1> QED
    BY <1>0, <1>1, <1>2, <1>3, <1>4, <1>7, BudgetsOne

\* A request that is answered at once has not been answered before.
LEMMA AtOnceBudgets ==
    ASSUME IndInv, NEW c \in Clients, pc[c] \in {"check", "park"}, AnswerAtOnce(c),
           UNCHANGED <<leftover, objects, threads, status>>
    PROVE  Budgets'
<1>0. Typed /\ Budgets /\ StatusTyped
    BY DEF IndInv, Typed
<1>1. StillSignalled
    BY SignalsKept
<1>2. /\ answers'[c] = answers[c] + 1 /\ pc'[c] = "idle"
      /\ \A d \in Clients \ {c} : answers'[d] = answers[d] /\ pc'[d] = pc[d]
    BY <1>0, AnswerTyped DEF AnswerAtOnce, Goto, Typed, ClientsTyped
<1>3. c \in Calls => answers[c] = 0
    BY <1>0 DEF Budgets, Budget
<1>4. c \notin leftover => /\ answers[c] = 0 /\ \A w \in Waits : owner[w] # c
                           /\ c \in Ctxs => notification[c] = "none"
    BY <1>0 DEF Budgets, Budget, Newcomer
<1>5. Budget(c)'
    <2>1. c \in Ctxs \ leftover' => OneToCome(c)'
        BY <1>2, <1>4 DEF OneToCome, objects, status
    <2> QED BY <1>2, <1>3, <2>1 DEF Budget, Newcomer
<1> QED
    BY <1>0, <1>1, <1>2, <1>5, BudgetsOne DEF status

\* A context that is parked has one wait.
LEMMA ParkBudgets ==
    ASSUME IndInv, NEW c \in Clients, NEW w \in Waits, pc[c] = "park", owner[w] = None,
           owner' = [owner EXCEPT ![w] = c], Goto(c, "mark"), UNCHANGED <<answers, leftover, threads, status>>
    PROVE  Budgets'
<1>0. Typed /\ Budgets
    BY DEF IndInv
<1>1. owner'[w] = c /\ \A v \in Waits \ {w} : owner'[v] = owner[v]
    BY <1>0 DEF Typed, TablesTyped
<1>2. pc'[c] = "mark" /\ \A d \in Clients \ {c} : pc'[d] = pc[d]
    BY <1>0 DEF Goto, Typed, ClientsTyped
<1>3. \A v \in Waits : Unsignalled(v)' <=> Unsignalled(v)
    BY DEF Unsignalled, threads
<1> SUFFICES ASSUME NEW d \in Clients PROVE Budget(d)'
    BY DEF Budgets
<1>4. CASE d # c
    BY <1>0, <1>1, <1>2, <1>3, <1>4, BudgetKept DEF Budgets, status
<1>5. CASE d = c
    <2>1. c \in Calls => answers[c] = 0
        BY <1>0 DEF Budgets, Budget
    <2>2. c \notin leftover => /\ answers[c] = 0 /\ \A v \in Waits : owner[v] # c
                               /\ c \in Ctxs => notification[c] = "none"
        BY <1>0 DEF Budgets, Budget, Newcomer
    <2>3. c \in Ctxs \ leftover => OneToCome(c)'
        BY <1>1, <2>2 DEF OneToCome, status
    <2> QED BY <1>2, <1>5, <2>1, <2>3 DEF Budget, Newcomer
<1> QED
    BY <1>4, <1>5

\* retr gives the answer and takes it back from status[].
LEMMA RetrBudgets ==
    ASSUME IndInv, NEW c \in Clients, RetrAnswer(c) \/ MarkNone(c)
    PROVE  Budgets'
<1>0. Typed /\ Budgets /\ StatusTyped /\ ClientsTyped
    BY DEF IndInv, Typed
<1>1. StillSignalled /\ UNCHANGED <<leftover, objects, threads>>
    BY SignalsKept DEF RetrAnswer, MarkNone
<1>2. c \in Ctxs /\ c \notin Calls /\ pc[c] \in {"retr", "mark2"}
    BY <1>0, Kinds DEF ClientsTyped, RetrAnswer, MarkNone, CtxPcs
<1>3. CASE RetrAnswer(c) /\ notification[c] = "none"
    <2>1. UNCHANGED <<leftover, answers, notification>> /\ Goto(c, "retr2")
        BY <1>3 DEF RetrAnswer
    <2>2. "retr2" \in ClientPcs \ {"check", "park"} /\ pc[c] # "idle"
        BY <1>2 DEF ClientPcs, CtxPcs
    <2> QED BY <1>0, <1>1, <2>1, <2>2, GoesOn, BudgetsKept
<1>4. CASE RetrAnswer(c) /\ notification[c] # "none"
    <2>1. Answer(c) /\ notification' = [notification EXCEPT ![c] = "none"] /\ UNCHANGED <<pc, leftover>>
        BY <1>4 DEF RetrAnswer
    <2>2. answers'[c] = answers[c] + 1 /\ \A d \in Clients \ {c} : answers'[d] = answers[d]
        BY <1>0, <2>1, AnswerTyped
    <2>3. notification'[c] = "none" /\ \A d \in Ctxs \ {c} : notification'[d] = notification[d]
        BY <1>0, <1>2, <2>1 DEF StatusTyped
    <2>4. Budget(c)'
        <3>1. c \in Ctxs \ leftover => OneToCome(c)
            BY <1>0 DEF Budgets, Budget
        <3>2. \A w \in Waits : Unsignalled(w)' <=> Unsignalled(w)
            BY <1>1 DEF Unsignalled, threads
        <3>3. c \in Ctxs \ leftover => OneToCome(c)'
            BY <1>1, <1>4, <2>2, <2>3, <3>1, <3>2 DEF OneToCome, objects
        <3> QED BY <1>2, <2>1, <3>3 DEF Budget, Newcomer
    <2> QED BY <1>0, <1>1, <2>1, <2>2, <2>3, <2>4, BudgetsOne
<1>5. CASE MarkNone(c)
    <2>1. notification' = [notification EXCEPT ![c] = "none"] /\ Goto(c, "mark3") /\ UNCHANGED answers
        BY <1>5 DEF MarkNone
    <2>2. notification'[c] = "none" /\ \A d \in Ctxs \ {c} : notification'[d] = notification[d]
        BY <1>0, <1>2, <2>1 DEF StatusTyped
    <2>3. pc'[c] = "mark3" /\ \A d \in Clients \ {c} : pc'[d] = pc[d]
        BY <1>0, <2>1 DEF ClientsTyped, Goto
    <2>4. Budget(c)'
        <3>1. c \in Ctxs \ leftover => OneToCome(c)
            BY <1>0 DEF Budgets, Budget
        <3>2. \A w \in Waits : Unsignalled(w)' <=> Unsignalled(w)
            BY <1>1 DEF Unsignalled, threads
        <3>3. c \in Ctxs \ leftover => OneToCome(c)'
            BY <1>1, <2>1, <2>2, <3>1, <3>2 DEF OneToCome, objects
        <3> QED BY <1>1, <1>2, <2>3, <3>3 DEF Budget, Newcomer
    <2> QED BY <1>0, <1>1, <2>1, <2>2, <2>3, <2>4, BudgetsOne
<1> QED
    BY <1>3, <1>4, <1>5

\* An activation puts the answer into status[]; its wait will not do so again.
LEMMA AsyncWakeupBudgets ==
    ASSUME IndInv, NEW k \in Activators, AsyncWakeup(k)
    PROVE  Budgets'
<1>0. Typed /\ Where /\ Budgets /\ StatusTyped
    BY DEF IndInv, Typed, Where
<1>1. /\ thr[k] = "act" /\ thr[k] \in Busy /\ owner[act[k]] \in Ctxs
      /\ UNCHANGED <<pc, answers, leftover>>
    BY DEF AsyncWakeup, Busy, clients
<1>2. CASE Finished(k) /\ UNCHANGED status
    BY <1>0, <1>1, <1>2, FinishedSignals, BudgetsKept DEF status
<1>3. CASE ~(Finished(k) /\ UNCHANGED status)
    <2>1. PICK c \in Ctxs, s \in {"timed", "pending"} :
              /\ c = owner[act[k]] /\ notification' = [notification EXCEPT ![c] = s]
              /\ ThrGoto(k, "signal") /\ UNCHANGED <<act, objects>>
        BY <1>3 DEF AsyncWakeup
    <2>2. c \in Clients /\ c \notin Calls
        BY Kinds
    <2>3. /\ thr'[k] = "signal" /\ \A j \in Activators \ {k} : thr'[j] = thr[j] /\ act'[j] = act[j]
        BY <1>0, <2>1 DEF ThrGoto, Typed, ThreadsTyped
    <2>4. StillSignalled
        BY <1>1, <2>1, <2>3, MoveSignals
    <2>5. notification'[c] = s /\ \A d \in Ctxs \ {c} : notification'[d] = notification[d]
        BY <1>0, <2>1 DEF StatusTyped
    <2>6. PICK w \in Waits : w = act[k]
        BY <1>0, <1>1, ActedOn DEF Where
    <2>7. Unsignalled(w) /\ owner[w] = c
        <3>1. \A j \in Activators : act[j] = w => j = k
            BY <1>0, <2>6, Kinds DEF Where, Once
        <3> QED BY <1>1, <2>1, <2>6, <3>1 DEF Unsignalled
    <2>8. ~Unsignalled(w)'
        BY <2>1, <2>3, <2>6 DEF Unsignalled
    <2>9. Budget(c)'
        <3>1. c \in Ctxs \ leftover => OneToCome(c)'
            <4> SUFFICES ASSUME c \notin leftover PROVE OneToCome(c)'
                OBVIOUS
            <4>1. OneToCome(c)
                BY <1>0, <2>2 DEF Budgets, Budget
            <4>2. answers[c] = 0 /\ \A v \in Waits : owner[v] = c => v = w
                BY <2>7, <4>1 DEF OneToCome
            <4>3. UNCHANGED owner
                BY <2>1 DEF objects
            <4> QED BY <1>1, <2>8, <4>2, <4>3 DEF OneToCome
        <3>2. c \notin leftover => Newcomer(c)'
            BY <1>0, <1>1, <2>2, <2>7 DEF Budgets, Budget, Newcomer
        <3> QED BY <1>1, <2>2, <3>1, <3>2 DEF Budget
    <2> QED BY <1>0, <1>1, <2>2, <2>4, <2>5, <2>9, BudgetsOne
<1> QED
    BY <1>2, <1>3

\* The reply to a call is sent while it waits for it, and ends it.
LEMMA ReplyBudgets ==
    ASSUME IndInv, NEW k \in Activators, AsyncReply(k)
    PROVE  Budgets'
<1>0. Typed /\ Where /\ Budgets /\ StatusTyped
    BY DEF IndInv, Typed, Where
<1>1. thr[k] = "reply" /\ thr[k] \in Busy /\ Finished(k) /\ UNCHANGED notification
    BY DEF AsyncReply, Busy, status
<1>2. StillSignalled
    BY <1>0, <1>1, FinishedSignals
<1>3. PICK c \in Calls : c = owner[act[k]]
    BY <1>0, <1>1 DEF Where, Served
<1>4. CASE UNCHANGED clients
    BY <1>0, <1>1, <1>2, <1>4, BudgetsKept DEF clients
<1>5. CASE ~UNCHANGED clients
    <2>1. pc[c] = "sleep" /\ Answer(c) /\ Goto(c, "idle") /\ UNCHANGED leftover
        BY <1>3, <1>5 DEF AsyncReply
    <2>2. c \in Clients /\ c \notin Ctxs
        BY Kinds
    <2>3. /\ answers'[c] = answers[c] + 1 /\ pc'[c] = "idle"
          /\ \A d \in Clients \ {c} : answers'[d] = answers[d] /\ pc'[d] = pc[d]
        BY <1>0, <2>1, <2>2, AnswerTyped DEF Goto, Typed, ClientsTyped
    <2>4. answers[c] = 0
        BY <1>0, <2>1, <2>2 DEF Budgets, Budget
    <2>5. Budget(c)'
        BY <2>2, <2>3, <2>4 DEF Budget, Newcomer
    <2> QED BY <1>0, <1>1, <1>2, <2>1, <2>2, <2>3, <2>5, BudgetsOne
<1> QED
    BY <1>4, <1>5


LEMMA NextBudgets ==
    ASSUME IndInv, [Next]_vars
    PROVE  Budgets'
<1>0. Typed /\ Where /\ Budgets
    BY DEF IndInv, Where
<1>1. CASE \E c \in Clients, t \in Tags : Request(c, t)
    BY <1>1, RequestBudgets
<1>2. ASSUME NEW c \in Clients, ClientStep(c) \/ CloseCall(c) \/ CloseCtx(c) PROVE Budgets'
    <2>1. CASE CheckNotify(c)
        <3>1. CASE AnswerAtOnce(c)
            BY <2>1, <3>1, AtOnceBudgets DEF CheckNotify
        <3>2. CASE Goto(c, "park") /\ UNCHANGED <<ctag, answers, pdu>>
            <4>1. StillSignalled /\ UNCHANGED <<leftover, answers, notification>> /\ pc[c] = "check"
                BY <2>1, <3>2, SignalsKept DEF CheckNotify, status
            <4>2. pc'[c] = "park" /\ \A d \in Clients \ {c} : pc'[d] = pc[d]
                BY <1>0, <3>2 DEF Goto, Typed, ClientsTyped
            <4>3. \A d \in Clients : /\ pc'[d] \in {"check", "park"} => pc[d] \in {"check", "park"}
                                     /\ d \in Calls /\ pc'[d] # "idle" => pc[d] # "idle"
                BY <4>1, <4>2
            <4> QED BY <1>0, <4>1, <4>3, BudgetsKept
        <3> QED BY <2>1, <3>1, <3>2 DEF CheckNotify
    <2>2. CASE Park(c)
        <3>1. CASE AnswerAtOnce(c) /\ UNCHANGED <<hashes, objects>>
            BY <2>2, <3>1, AtOnceBudgets DEF Park
        <3>2. ASSUME NEW w \in Waits, owner[w] = None, owner' = [owner EXCEPT ![w] = c], Goto(c, "mark"),
                     UNCHANGED <<ctag, answers, pdu>>
              PROVE  Budgets'
            <4>1. pc[c] = "park" /\ UNCHANGED <<answers, leftover, threads, status>>
                BY <2>2, <3>2 DEF Park
            <4> QED BY <3>2, <4>1, ParkBudgets
        <3> QED BY <2>2, <3>1, <3>2 DEF Park
    <2>3. CASE RetrAnswer(c) \/ MarkNone(c)
        BY <2>3, RetrBudgets
    <2>4. CASE Reclaim(c) \/ RemoveWait(c)
        <3>1. /\ UNCHANGED <<leftover, answers, notification>> /\ UNCHANGED threads
              /\ Goto(c, "idle") /\ pc[c] # "idle"
            BY <2>4 DEF Reclaim, RemoveWait, status
        <3>2. "idle" \in ClientPcs \ {"check", "park"}
            BY DEF ClientPcs
        <3>3. CASE UNCHANGED objects
            <4>1. StillSignalled
                BY <3>1, <3>3, SignalsKept
            <4> QED BY <1>0, <3>1, <3>2, <4>1, GoesOn, BudgetsKept
        <3>4. CASE ~UNCHANGED objects
            <4>1. PICK w : /\ w # None /\ Free(w)
                           /\ \/ pc[c] = "reclaim" /\ w = g_async_hash[c]
                              \/ pc[c] = "remove" /\ w = g_tag_hash[ctag[c]]
                BY <2>4, <3>4 DEF Reclaim, RemoveWait
            <4>2. w \in Waits
                BY <1>0, <4>1 DEF Typed, ClientsTyped, TablesTyped
            <4>3. StillSignalled
                BY <1>0, <3>1, <4>1, <4>2, FreeSignals
            <4> QED BY <1>0, <3>1, <3>2, <4>3, GoesOn, BudgetsKept
        <3> QED BY <3>3, <3>4
    <2>5. CASE \/ Activate(c) \/ CloseCall(c) \/ CloseCtx(c) \/ MarkWaiting(c) \/ MarkPending(c)
               \/ RetrKeepalive(c) \/ GoToSleep(c) \/ Term(c)
        <3>1. UNCHANGED <<leftover, answers, notification>> /\ UNCHANGED <<objects, threads>> /\ pc[c] # "idle"
            BY <2>5 DEF Activate, CloseCall, CloseCtx, MarkWaiting, MarkPending, RetrKeepalive, GoToSleep,
                Term, status
        <3>2. PICK l \in {"sleep", "reclaim", "term", "mark2", "retr", "idle", "remove"} : Goto(c, l)
            BY <2>5 DEF Activate, CloseCall, CloseCtx, MarkWaiting, MarkPending, RetrKeepalive, GoToSleep, Term
        <3>3. l \in ClientPcs \ {"check", "park"}
            BY DEF ClientPcs, CtxPcs
        <3>4. StillSignalled
            BY <3>1, SignalsKept
        <3> QED BY <1>0, <3>1, <3>2, <3>3, <3>4, GoesOn, BudgetsKept
    <2>6. CASE RetrPending(c)
        <3>1. c \in Ctxs /\ pc[c] # "idle" /\ UNCHANGED <<leftover, answers, notification>>
              /\ UNCHANGED <<objects, threads>>
            BY <1>0, <2>6 DEF RetrPending, CtxPcs, Typed, ClientsTyped, status
        <3>2. pending[c] \in {"none", "waiting", "keepalive"}
            BY <1>0, <3>1 DEF Typed, StatusTyped
        <3>3. PICK l \in {"term", "alive", "towait"} : Goto(c, l)
            BY <2>6, <3>2 DEF RetrPending
        <3>4. l \in ClientPcs \ {"check", "park"}
            BY DEF ClientPcs, CtxPcs
        <3>5. StillSignalled
            BY <3>1, SignalsKept
        <3> QED BY <1>0, <3>1, <3>3, <3>4, <3>5, GoesOn, BudgetsKept
    <2> QED BY <1>2, <2>1, <2>2, <2>3, <2>4, <2>5, <2>6 DEF ClientStep
<1>3. ASSUME NEW c \in Ctxs, Keepalive(c) PROVE Budgets'
    <2>1. c \in Clients /\ WakeContext(c) /\ StillSignalled /\ UNCHANGED <<leftover, answers, notification>>
        BY <1>3, Kinds, SignalsKept DEF Keepalive
    <2> QED BY <1>0, <2>1, WokenUp, BudgetsKept
<1>4. ASSUME UNCHANGED clients, UNCHANGED status, StillSignalled PROVE Budgets'
    BY <1>0, <1>4, BudgetsKept DEF clients, status
<1>5. CASE (\E t \in Tags : WakeTake(t)) \/ \E w \in Waits : ScanTake(w)
    BY <1>4, <1>5, SignalsKept DEF WakeTake, ScanTake
<1>6. ASSUME NEW w \in Waits, WakeAppend(w) PROVE Budgets'
    <2>1. UNCHANGED clients /\ UNCHANGED status /\ UNCHANGED objects /\ UNCHANGED act
        BY <1>6 DEF WakeAppend
    <2>2. \A k \in Activators : thr[k] = "signal" => thr'[k] = "signal"
        BY <1>0, <1>6, Kinds DEF WakeAppend, ThrGoto, Typed, ThreadsTyped
    <2>3. StillSignalled
        BY <2>1, <2>2 DEF StillSignalled, Unsignalled, objects
    <2> QED BY <1>4, <2>1, <2>3
<1>7. ASSUME NEW w \in Waits, ScanNext(w) PROVE Budgets'
    <2>1. UNCHANGED clients /\ UNCHANGED status /\ UNCHANGED objects /\ thr[Scan] # "signal" /\ Scan \in Activators
        BY <1>7, Kinds DEF ScanNext
    <2>2. \A j \in Activators \ {Scan} : thr'[j] = thr[j] /\ act'[j] = act[j]
        BY <1>0, <1>7 DEF ScanNext, ThrGoto, Typed, ThreadsTyped
    <2>3. StillSignalled
        BY <2>1, <2>2, MoveSignals
    <2> QED BY <1>4, <2>1, <2>3
<1>8. ASSUME NEW k \in Wakers, Pop(k) \/ SleepWaker(k) \/ OtherWakeup(k) PROVE Budgets'
    <2>1. UNCHANGED clients /\ UNCHANGED status /\ UNCHANGED objects /\ thr[k] # "signal" /\ k \in Activators
        BY <1>8, Kinds DEF Pop, SleepWaker, OtherWakeup
    <2>2. \A j \in Activators \ {k} : thr'[j] = thr[j] /\ act'[j] = act[j]
        BY <1>0, <1>8 DEF Pop, SleepWaker, OtherWakeup, ThrGoto, Typed, ThreadsTyped
    <2>3. StillSignalled
        BY <2>1, <2>2, MoveSignals
    <2> QED BY <1>4, <2>1, <2>3
<1>9. CASE \E k \in Activators : AsyncWakeup(k) \/ AsyncReply(k)
    BY <1>9, AsyncWakeupBudgets, ReplyBudgets
<1>10. ASSUME NEW k \in Activators, Signal(k) PROVE Budgets'
    <2>1. PICK c \in Ctxs : c = owner[act[k]]
        BY <1>0, <1>10 DEF Where, Served, Signal
    <2>2. c \in Clients /\ WakeContext(c) /\ UNCHANGED <<leftover, answers, notification>>
          /\ Finished(k) /\ thr[k] \in Busy
        BY <1>10, <2>1, Kinds DEF Signal, status, Busy
    <2>3. StillSignalled
        BY <1>0, <2>2, FinishedSignals
    <2> QED BY <1>0, <2>2, <2>3, WokenUp, BudgetsKept
<1>11. ASSUME NEW k \in Activators, BuildEnvironment(k) PROVE Budgets'
    <2>1. UNCHANGED clients /\ UNCHANGED status /\ thr[k] = "act" /\ thr[k] \in Busy
        BY <1>11 DEF BuildEnvironment, Busy
    <2>2. CASE Finished(k)
        BY <1>0, <1>4, <2>1, <2>2, FinishedSignals
    <2>3. CASE ThrGoto(k, "reply") /\ UNCHANGED <<act, objects>>
        <3>1. \A j \in Activators \ {k} : thr'[j] = thr[j] /\ act'[j] = act[j]
            BY <1>0, <2>3 DEF ThrGoto, Typed, ThreadsTyped
        <3>2. StillSignalled
            BY <2>1, <2>3, <3>1, MoveSignals
        <3> QED BY <1>4, <2>1, <3>2
    <2> QED BY <1>11, <2>2, <2>3 DEF BuildEnvironment
<1>12. CASE UNCHANGED vars
    BY <1>4, <1>12, SignalsKept DEF vars, clients, status, objects, threads
<1> QED
    BY <1>1, <1>2, <1>3, <1>5, <1>6, <1>7, <1>8, <1>9, <1>10, <1>11, <1>12 DEF Next, ActivatorStep

-----------------------------------------------------------------------------
LEMMA InitHolds == Init => IndInv
<1> SUFFICES ASSUME Init PROVE IndInv
    OBVIOUS
<1>1. ClientsTyped /\ StatusTyped
    BY DEF Init, ClientsTyped, StatusTyped, ClientPcs, CtxPcs
<1>2. ThreadsTyped /\ TablesTyped
    BY DEF Init, ThreadsTyped, TablesTyped, Busy
<1>3. /\ \A w \in Waits : owner[w] = None /\ \A p \in Places : ~In(p, w)
      /\ DOMAIN g_wakeup_list = {}
      /\ \A k \in Activators : act[k] = None /\ thr[k] \in {"idle", "wait"}
      /\ \A c \in Clients : pc[c] = "idle" /\ answers[c] = 0
      /\ \A c \in Ctxs : notification[c] = "none"
      /\ \A t \in Tags : g_tag_hash[t] = None
      /\ \A c \in Calls : g_async_hash[c] = None
    <2>1. \A w \in Waits : owner[w] = None /\ \A p \in Places : ~In(p, w)
        BY Kinds DEF Init, In, Places
    <2> QED BY <2>1, Kinds DEF Init
<1>4. Placed /\ Once /\ Served
    BY <1>3 DEF Placed, Once, Served
<1>5. TablesAgree
    BY <1>3, Kinds DEF TablesAgree, Parked
<1>6. Budgets
    <2> SUFFICES ASSUME NEW c \in Clients PROVE Budget(c)
        BY DEF Budgets
    <2>1. Newcomer(c)
        BY <1>3 DEF Newcomer
    <2>2. c \in Ctxs => OneToCome(c)
        BY <1>3, Kinds DEF OneToCome
    <2> QED BY <1>3, <2>1, <2>2 DEF Budget
<1> QED
    BY <1>1, <1>2, <1>4, <1>5, <1>6 DEF IndInv, Typed

LEMMA Inductive == Spec => []IndInv
<1>1. IndInv /\ [Next]_vars => IndInv'
    BY NextClientsTyped, NextThreadsTyped, NextTablesTyped, NextStatusTyped, NextWhere, NextBudgets
       DEF IndInv, Typed, Where
<1> QED
    BY <1>1, InitHolds, PTL DEF Spec

\* The references to a wait counted.
LEMMA ReferencesCounted ==
    ASSUME IndInv, NEW w \in Waits
    PROVE  References(w) = IF owner[w] = None THEN 0 ELSE 1
<1> DEFINE T == {t \in Tags : g_tag_hash[t] = w}
           L == {i \in DOMAIN g_wakeup_list : g_wakeup_list[i] = w}
           A == {k \in Activators : act[k] = w}
           Q == {q \in {"hand", "temp"} : w \in (IF q = "hand" THEN hand ELSE temp_list)}
<1>0. {"tag", "list", "act", "hand", "temp"} = Places
    BY DEF Places
<1>1. Cardinality(T) = IF In("tag", w) THEN 1 ELSE 0
    <2>1. CASE In("tag", w)
        <3>1. PICK t \in Tags : g_tag_hash[t] = w
            BY <2>1 DEF In
        <3>2. T = {t}
            BY <3>1, Kinds DEF IndInv, TablesAgree
        <3> QED BY <2>1, <3>2, FS_Singleton
    <2>2. CASE ~In("tag", w)
        <3>1. T = {}
            BY <2>2 DEF In
        <3> QED BY <2>2, <3>1, FS_EmptySet
    <2> QED BY <2>1, <2>2
<1>2. Cardinality(L) = IF In("list", w) THEN 1 ELSE 0
    <2>1. CASE In("list", w)
        <3>1. PICK i \in DOMAIN g_wakeup_list : g_wakeup_list[i] = w
            BY <2>1 DEF In
        <3>2. L = {i}
            BY <3>1 DEF IndInv, Once
        <3> QED BY <2>1, <3>2, FS_Singleton
    <2>2. CASE ~In("list", w)
        <3>1. L = {}
            BY <2>2 DEF In
        <3> QED BY <2>2, <3>1, FS_EmptySet
    <2> QED BY <2>1, <2>2
<1>3. Cardinality(A) = IF In("act", w) THEN 1 ELSE 0
    <2>1. CASE In("act", w)
        <3>1. PICK k \in Activators : act[k] = w
            BY <2>1 DEF In
        <3>2. A = {k}
            BY <3>1, Kinds DEF IndInv, Once
        <3> QED BY <2>1, <3>2, FS_Singleton
    <2>2. CASE ~In("act", w)
        <3>1. A = {}
            BY <2>2 DEF In
        <3> QED BY <2>2, <3>1, FS_EmptySet
    <2> QED BY <2>1, <2>2
<1>4. ~(In("hand", w) /\ In("temp", w))
    BY <1>0 DEF IndInv, Placed
<1>5. Cardinality(Q) = IF In("hand", w) \/ In("temp", w) THEN 1 ELSE 0
    <2>0. (In("hand", w) <=> w \in hand) /\ (In("temp", w) <=> w \in temp_list)
        BY DEF In
    <2>1. CASE In("hand", w)
        <3>1. Q = {"hand"}
            BY <1>4, <2>0, <2>1
        <3> QED BY <2>1, <3>1, FS_Singleton
    <2>2. CASE In("temp", w)
        <3>1. Q = {"temp"}
            BY <1>4, <2>0, <2>2
        <3> QED BY <2>2, <3>1, FS_Singleton
    <2>3. CASE ~In("hand", w) /\ ~In("temp", w)
        <3>1. Q = {}
            BY <2>0, <2>3
        <3> QED BY <2>3, <3>1, FS_EmptySet
    <2> QED BY <2>1, <2>2, <2>3
<1>6. References(w) = Cardinality(T) + Cardinality(L) + Cardinality(A) + Cardinality(Q)
    BY DEF References
<1>7. owner[w] # None <=> \/ In("tag", w) \/ In("list", w) \/ In("act", w) \/ In("hand", w) \/ In("temp", w)
    BY <1>0 DEF IndInv, Placed
<1>8. /\ In("tag", w) => ~In("list", w) /\ ~In("act", w) /\ ~In("hand", w) /\ ~In("temp", w)
      /\ In("list", w) => ~In("act", w) /\ ~In("hand", w) /\ ~In("temp", w)
      /\ In("act", w) => ~In("hand", w) /\ ~In("temp", w)
    BY <1>0 DEF IndInv, Placed
<1> HIDE DEF T, L, A, Q
<1> QED
    BY <1>1, <1>2, <1>3, <1>4, <1>5, <1>6, <1>7, <1>8

\* A wait that is allocated is referred to from exactly one table, list or thread, and one
\* that is freed from none, whichever of a wake-up, the time limit, a closing connection
\* and the end of a request comes first; and g_tag_hash and g_async_hash agree.
THEOREM WaitsSoundCorrect == Spec => []WaitsSound
<1>1. IndInv => WaitsSound
    BY TypedIsTypeOK, ReferencesCounted DEF WaitsSound, WaitOnePlace, IndInv
<1> QED
    BY <1>1, Inductive, PTL

\* No request is answered twice, by retr, at once or by an activation, unless the wait of
\* an earlier request of the same HTTP context is left over.
THEOREM AtMostOneAnswerCorrect == Spec => []AtMostOneAnswer
<1>1. IndInv => AtMostOneAnswer
    BY Kinds DEF IndInv, Budgets, Budget, OneToCome, AtMostOneAnswer
<1> QED
    BY <1>1, Inductive, PTL

=============================================================================
