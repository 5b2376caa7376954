------------------------ MODULE EmsmdbHandlesProofs ------------------------
(***************************************************************************)
(* Proofs about the table of EMSMDB sessions, for any number of sessions,  *)
(* users and threads and for any limits.                                   *)
(***************************************************************************)
EXTENDS EmsmdbHandles, FiniteSetTheorems, WellFoundedInduction, TLAPS

AllPcs == {"idle", "wake"} \cup ProcessingPcs \cup ListPcs \cup RemovePcs

\* The type invariant, and what the proof needs beyond it.
Typed == TypeOK /\ at \in [Threads -> Guids \cup {NoGuid}]

\* Who does what.
Roles ==
    \A t \in Threads :
        /\ pc[t] \in ProcessingPcs => t \in Rpcs
        /\ pc[t] \in ListPcs \ {"pop"} => t \in Events
        /\ pc[t] = "wake" => t \in Rpcs \cup Events

\* A flag of each session is set exactly while a thread is in one of the places Pcs
\* with that session, and never two are.
Guarded(T, G, Pcs, place, with, flag) ==
    \A g \in G :
        /\ flag[g] <=> \E t \in T : with[t] = g /\ place[t] \in Pcs
        /\ \A t, u \in T :
               /\ with[t] = g /\ place[t] \in Pcs
               /\ with[u] = g /\ place[u] \in Pcs
               => t = u

Locks ==
    /\ Guarded(Threads, Guids, ProcessingPcs, pc, at, b_processing)
    /\ Guarded(Threads, Guids, ListPcs, pc, at, b_occupied)

\* A list is over the limit by one at most, and not while a notification is still to be
\* put back.
Pending ==
    /\ PendingBounded
    /\ \A t \in Threads : pc[t] = "full" => notify_list[at[t]] <= MaxPending

\* Until an exception ends the process, who works on a session has it in the table, and a
\* GUID that is not in the table has nothing queued.
Alive ==
    /\ \A t \in Threads : pc[t] = "threw" => aborted
    /\ \A t \in Threads : pc[t] \in ProcessingPcs \cup ListPcs => at[t] \in live \/ aborted
    /\ \A g \in Guids : g \in live \/ notify_list[g] = 0 \/ aborted

\* The thread will see to it that the client of session g is told.
Sees(t, g) ==
    /\ at[t] = g
    /\ \/ pc[t] \in {"wake", "putwake", "unlistwake"}
       \/ pc[t] \in {"got", "drain", "pop", "full", "read"}
       \/ pc[t] = "flag" /\ ~b_processing[g]

IndInv == Typed /\ Roles /\ Locks /\ TagsDiffer /\ Pending /\ Alive /\ HeldIsLive /\ Announced

-----------------------------------------------------------------------------
(***************************************************************************)
(* A flag as a lock: taken, given back, or left alone by one thread.       *)
(***************************************************************************)

LEMMA FlagTaken ==
    ASSUME NEW T, NEW G, NEW Pcs, NEW p, NEW q, NEW a, NEW b,
           NEW f \in [G -> BOOLEAN], NEW t \in T, NEW g \in G,
           Guarded(T, G, Pcs, p, a, f),
           \A u \in T \ {t} : q[u] = p[u] /\ b[u] = a[u],
           p[t] \notin Pcs, ~f[g], q[t] \in Pcs, b[t] = g
    PROVE  Guarded(T, G, Pcs, q, b, [f EXCEPT ![g] = TRUE])
<1> DEFINE F == [f EXCEPT ![g] = TRUE]
<1>1. F[g] /\ \A h \in G : h # g => F[h] = f[h]
    OBVIOUS
<1>2. \A h \in G, u \in T : b[u] = h /\ q[u] \in Pcs <=>
          (u = t /\ h = g) \/ (u # t /\ a[u] = h /\ p[u] \in Pcs)
    OBVIOUS
<1>3. \A u \in T : ~(a[u] = g /\ p[u] \in Pcs)
    BY DEF Guarded
<1> HIDE DEF F
<1>4. ASSUME NEW h \in G
      PROVE  /\ F[h] <=> \E u \in T : b[u] = h /\ q[u] \in Pcs
             /\ \A u, v \in T : b[u] = h /\ q[u] \in Pcs /\ b[v] = h /\ q[v] \in Pcs => u = v
    <2>1. CASE h = g
        BY <1>1, <1>2, <1>3, <2>1
    <2>2. CASE h # g
        <3>1. \A u \in T : b[u] = h /\ q[u] \in Pcs <=> a[u] = h /\ p[u] \in Pcs
            BY <1>2, <2>2
        <3> QED BY <1>1, <2>2, <3>1 DEF Guarded
    <2> QED BY <2>1, <2>2
<1> QED
    BY <1>4 DEF Guarded, F

LEMMA FlagGiven ==
    ASSUME NEW T, NEW G, NEW Pcs, NEW p, NEW q, NEW a, NEW b,
           NEW f \in [G -> BOOLEAN], NEW t \in T, NEW g \in G,
           Guarded(T, G, Pcs, p, a, f),
           \A u \in T \ {t} : q[u] = p[u] /\ b[u] = a[u],
           p[t] \in Pcs, a[t] = g, q[t] \notin Pcs
    PROVE  Guarded(T, G, Pcs, q, b, [f EXCEPT ![g] = FALSE])
<1> DEFINE F == [f EXCEPT ![g] = FALSE]
<1>1. ~F[g] /\ \A h \in G : h # g => F[h] = f[h]
    OBVIOUS
<1>2. \A h \in G, u \in T : b[u] = h /\ q[u] \in Pcs <=> u # t /\ a[u] = h /\ p[u] \in Pcs
    OBVIOUS
<1>3. \A u \in T : a[u] = g /\ p[u] \in Pcs => u = t
    BY DEF Guarded
<1> HIDE DEF F
<1>4. ASSUME NEW h \in G
      PROVE  /\ F[h] <=> \E u \in T : b[u] = h /\ q[u] \in Pcs
             /\ \A u, v \in T : b[u] = h /\ q[u] \in Pcs /\ b[v] = h /\ q[v] \in Pcs => u = v
    <2>1. CASE h = g
        BY <1>1, <1>2, <1>3, <2>1
    <2>2. CASE h # g
        <3>1. \A u \in T : b[u] = h /\ q[u] \in Pcs <=> a[u] = h /\ p[u] \in Pcs
            BY <1>2, <2>2
        <3> QED BY <1>1, <2>2, <3>1 DEF Guarded
    <2> QED BY <2>1, <2>2
<1> QED
    BY <1>4 DEF Guarded, F

LEMMA FlagKept ==
    ASSUME NEW T, NEW G, NEW Pcs, NEW p, NEW q, NEW a, NEW b, NEW f, NEW t \in T,
           Guarded(T, G, Pcs, p, a, f),
           \A u \in T \ {t} : q[u] = p[u] /\ b[u] = a[u],
           \/ p[t] \notin Pcs /\ q[t] \notin Pcs
           \/ p[t] \in Pcs /\ q[t] \in Pcs /\ b[t] = a[t]
    PROVE  Guarded(T, G, Pcs, q, b, f)
<1>1. \A h \in G, u \in T : b[u] = h /\ q[u] \in Pcs <=> a[u] = h /\ p[u] \in Pcs
    OBVIOUS
<1> QED
    BY <1>1 DEF Guarded

\* The two ways in which a thread leaves a flag alone.
LEMMA FlagOut ==
    ASSUME NEW T, NEW G, NEW Pcs, NEW p, NEW q, NEW a, NEW b, NEW f, NEW t \in T,
           Guarded(T, G, Pcs, p, a, f),
           \A u \in T \ {t} : q[u] = p[u] /\ b[u] = a[u],
           p[t] \notin Pcs, q[t] \notin Pcs
    PROVE  Guarded(T, G, Pcs, q, b, f)
    BY FlagKept

LEMMA FlagIn ==
    ASSUME NEW T, NEW G, NEW Pcs, NEW p, NEW q, NEW a, NEW b, NEW f, NEW t \in T,
           Guarded(T, G, Pcs, p, a, f),
           \A u \in T \ {t} : q[u] = p[u] /\ b[u] = a[u],
           p[t] \in Pcs, q[t] \in Pcs, b[t] = a[t]
    PROVE  Guarded(T, G, Pcs, q, b, f)
    BY FlagKept

\* A flag that is not set has no holder.
LEMMA FlagFree ==
    ASSUME NEW T, NEW G, NEW Pcs, NEW p, NEW a, NEW f, NEW g \in G,
           Guarded(T, G, Pcs, p, a, f), ~f[g]
    PROVE  \A t \in T : a[t] = g => p[t] \notin Pcs
    BY DEF Guarded

\* The holders counted.
LEMMA FlagCounts ==
    ASSUME NEW T, NEW G, NEW Pcs, NEW p, NEW a, NEW f, NEW g \in G,
           Guarded(T, G, Pcs, p, a, f)
    PROVE  Cardinality({t \in T : a[t] = g /\ p[t] \in Pcs}) = IF f[g] THEN 1 ELSE 0
<1> DEFINE S == {t \in T : a[t] = g /\ p[t] \in Pcs}
<1>1. CASE f[g]
    <2>1. PICK t \in T : a[t] = g /\ p[t] \in Pcs
        BY <1>1 DEF Guarded
    <2>2. S = {t}
        BY <2>1 DEF Guarded
    <2> QED BY <1>1, <2>2, FS_Singleton
<1>2. CASE ~f[g]
    <2>1. S = {}
        BY <1>2 DEF Guarded
    <2> QED BY <1>2, <2>1, FS_EmptySet
<1> QED
    BY <1>1, <1>2

-----------------------------------------------------------------------------
(***************************************************************************)
(* Types and roles                                                         *)
(***************************************************************************)

\* The place of a thread and the session it is at.
LEMMA Places ==
    ASSUME Typed, NEW t \in Threads
    PROVE  /\ pc \in [Threads -> AllPcs] /\ at \in [Threads -> Guids \cup {NoGuid}]
           /\ pc[t] \in AllPcs /\ (pc[t] # "idle" => at[t] \in Guids)
           /\ "idle" \in AllPcs /\ "idle" \notin ProcessingPcs \cup ListPcs \cup RemovePcs
    BY DEF Typed, TypeOK, AllPcs, ProcessingPcs, ListPcs, RemovePcs

LEMMA GotoMoves ==
    ASSUME Typed, NEW t \in Threads, NEW l, Goto(t, l)
    PROVE  /\ pc'[t] = l /\ \A u \in Threads \ {t} : pc'[u] = pc[u]
           /\ l \in AllPcs => pc' \in [Threads -> AllPcs]
    BY Places DEF Goto

LEMMA EnterMoves ==
    ASSUME Typed, NEW t \in Threads, NEW g \in Guids, NEW l, Enter(t, g, l)
    PROVE  /\ pc'[t] = l /\ at'[t] = g
           /\ \A u \in Threads \ {t} : pc'[u] = pc[u] /\ at'[u] = at[u]
           /\ l \in AllPcs => pc' \in [Threads -> AllPcs]
           /\ at' \in [Threads -> Guids \cup {NoGuid}]
    BY Places DEF Enter, Goto

LEMMA LeaveMoves ==
    ASSUME Typed, NEW t \in Threads, Leave(t)
    PROVE  /\ pc'[t] = "idle" /\ at'[t] = NoGuid
           /\ \A u \in Threads \ {t} : pc'[u] = pc[u] /\ at'[u] = at[u]
           /\ pc' \in [Threads -> AllPcs]
           /\ at' \in [Threads -> Guids \cup {NoGuid}]
    BY Places DEF Leave, Goto

\* Where a thread may go, by its kind.
PlacesOf(t) ==
    {"idle"} \cup RemovePcs
    \cup (IF t \in Rpcs THEN ProcessingPcs \cup {"wake"} ELSE {})
    \cup (IF t \in Events THEN (ListPcs \ {"pop"}) \cup {"wake"} ELSE {})

\* Only thread t moves, to a place it may be at.
OneMoves(t) ==
    /\ pc' \in [Threads -> AllPcs] /\ at' \in [Threads -> Guids \cup {NoGuid}]
    /\ \A u \in Threads \ {t} : pc'[u] = pc[u] /\ at'[u] = at[u]
    /\ IF pc'[t] = "idle" THEN at'[t] = NoGuid ELSE at'[t] \in Guids
    /\ pc'[t] \in PlacesOf(t)

LEMMA PlacesAre ==
    ASSUME NEW t \in Threads
    PROVE  /\ PlacesOf(t) \subseteq AllPcs
           /\ t \in Rpcs => PlacesOf(t) = {"idle", "wake"} \cup RemovePcs \cup ProcessingPcs
           /\ t \in Events => PlacesOf(t) = {"idle", "wake"} \cup RemovePcs \cup (ListPcs \ {"pop"})
    BY HandlesAssumption DEF PlacesOf, AllPcs, ProcessingPcs, ListPcs, RemovePcs

LEMMA GotoOne ==
    ASSUME Typed, NEW t \in Threads, NEW l \in PlacesOf(t) \ {"idle"}, Goto(t, l), UNCHANGED at,
           pc[t] # "idle"
    PROVE  OneMoves(t) /\ pc'[t] = l /\ at'[t] = at[t]
    BY Places, GotoMoves, PlacesAre DEF OneMoves

LEMMA EnterOne ==
    ASSUME Typed, NEW t \in Threads, NEW g \in Guids, NEW l \in PlacesOf(t) \ {"idle"}, Enter(t, g, l)
    PROVE  OneMoves(t) /\ pc'[t] = l /\ at'[t] = g
    BY EnterMoves, PlacesAre DEF OneMoves

LEMMA LeaveOne ==
    ASSUME Typed, NEW t \in Threads, Leave(t)
    PROVE  OneMoves(t) /\ pc'[t] = "idle" /\ at'[t] = NoGuid
    BY LeaveMoves DEF OneMoves, PlacesOf

\* The types of a step in which one thread moves and the table stays as it is.
LEMMA TypedStep ==
    ASSUME Typed, Roles, NEW t \in Threads, OneMoves(t),
           live' \subseteq Guids, temp_list' \subseteq Guids, user' \in [Guids -> Users],
           cxr' \in [Guids -> 0..MaxCxr], \A g \in live' : cxr'[g] > 0,
           b_processing' \in [Guids -> BOOLEAN], b_occupied' \in [Guids -> BOOLEAN],
           aborted' \in BOOLEAN, told' \in [Guids -> BOOLEAN], window' \in [Guids -> BOOLEAN],
           notify_list' \in [Guids -> Nat]
    PROVE  Typed' /\ Roles'
<1>1. \A u \in Threads : IF pc'[u] = "idle" THEN at'[u] = NoGuid ELSE at'[u] \in Guids
    BY DEF Typed, TypeOK, OneMoves
<1>2. Typed'
    BY <1>1 DEF Typed, TypeOK, OneMoves, AllPcs
<1>3. ASSUME NEW u \in Threads
      PROVE  /\ pc'[u] \in ProcessingPcs => u \in Rpcs
             /\ pc'[u] \in ListPcs \ {"pop"} => u \in Events
             /\ pc'[u] = "wake" => u \in Rpcs \cup Events
    <2>1. CASE u = t
        BY <2>1 DEF OneMoves, PlacesOf, ProcessingPcs, ListPcs, RemovePcs
    <2>2. CASE u # t
        BY <2>2 DEF OneMoves, Roles
    <2> QED BY <2>1, <2>2
<1>4. Roles'
    BY <1>3 DEF Roles
<1> QED
    BY <1>2, <1>4

-----------------------------------------------------------------------------
(***************************************************************************)
(* Steps that leave the table and the lists of notifications alone         *)
(***************************************************************************)

\* What the invariants of the table say together.
LEMMA Parts ==
    ASSUME IndInv
    PROVE  /\ Typed /\ Roles /\ TagsDiffer /\ Pending /\ Alive
           /\ Guarded(Threads, Guids, ProcessingPcs, pc, at, b_processing)
           /\ Guarded(Threads, Guids, ListPcs, pc, at, b_occupied)
           /\ b_processing \in [Guids -> BOOLEAN] /\ b_occupied \in [Guids -> BOOLEAN]
           /\ told \in [Guids -> BOOLEAN] /\ window \in [Guids -> BOOLEAN]
           /\ notify_list \in [Guids -> Nat] /\ live \subseteq Guids /\ temp_list \subseteq Guids
           /\ user \in [Guids -> Users] /\ cxr \in [Guids -> 0..MaxCxr]
           /\ \A g \in live : cxr[g] > 0
           /\ aborted \in BOOLEAN /\ MaxPending \in Nat
    BY HandlesAssumption DEF IndInv, Typed, TypeOK, Locks

\* Whoever sees to a session is an RPC or an event thread.
LEMMA SeersAre ==
    ASSUME Roles, NEW t \in Threads, NEW g, Sees(t, g)
    PROVE  t \in Rpcs \cup Events
    BY DEF Roles, Sees, ProcessingPcs, ListPcs

LEMMA AnnouncedBySees ==
    ASSUME Roles
    PROVE  Announced <=> \A g \in live : notify_list[g] = 0 \/ told[g] \/ window[g]
                                         \/ \E t \in Threads : Sees(t, g)
<1>1. \A g : (\E t \in Threads : Sees(t, g)) <=> \E t \in Rpcs \cup Events : Sees(t, g)
    BY SeersAre DEF Threads
<1> QED
    BY <1>1 DEF Announced, Sees

\* The same after a step.
LEMMA AnnouncedNext ==
    ASSUME Roles', \A g \in live' : notify_list'[g] = 0 \/ told'[g] \/ window'[g]
                                    \/ \E t \in Threads : Sees(t, g)'
    PROVE  Announced'
<1>1. \A g \in live', t \in Threads : Sees(t, g)' => t \in Rpcs \cup Events
    BY DEF Roles, Sees, ProcessingPcs, ListPcs
<1> QED
    BY <1>1 DEF Announced, Sees

LEMMA LiveWhileRunning ==
    ASSUME Alive, ~aborted
    PROVE  HeldIsLive
    BY DEF Alive, HeldIsLive, Processing, AtList

\* One thread moves; nothing is queued, taken or removed.
LEMMA QuietStep ==
    ASSUME IndInv, ~aborted, NEW t \in Threads, OneMoves(t),
           UNCHANGED <<live, user, cxr, notify_list, told, aborted>>, temp_list' \subseteq Guids,
           b_processing' \in [Guids -> BOOLEAN], b_occupied' \in [Guids -> BOOLEAN],
           window' \in [Guids -> BOOLEAN], \A g \in Guids : window[g] => window'[g],
           Guarded(Threads, Guids, ProcessingPcs, pc', at', b_processing'),
           Guarded(Threads, Guids, ListPcs, pc', at', b_occupied'),
           pc'[t] \notin {"full", "threw"},
           pc'[t] \in ProcessingPcs \cup ListPcs => at'[t] \in live,
           \A g \in live : Sees(t, g) => notify_list[g] = 0 \/ window'[g] \/ Sees(t, g)',
           \A g \in live : b_processing'[g] => b_processing[g] \/ Sees(t, g)'
    PROVE  IndInv'
<1>1. Typed' /\ Roles'
    BY Parts, TypedStep
<1>2. Locks'
    BY DEF Locks
<1>3. TagsDiffer'
    BY DEF IndInv, TagsDiffer
<1>4. Pending'
    BY Parts DEF Pending, PendingBounded, OneMoves
<1>5. Alive'
    BY Parts DEF Alive, OneMoves
<1>6. HeldIsLive'
    <2>1. ~aborted'
        OBVIOUS
    <2> QED BY <1>5, <2>1 DEF Alive, HeldIsLive, Processing, AtList
<1>7. Announced'
    <2> SUFFICES ASSUME NEW g \in live
                 PROVE  notify_list[g] = 0 \/ told[g] \/ window'[g] \/ \E u \in Threads : Sees(u, g)'
        BY <1>1, AnnouncedNext
    <2>1. g \in Guids
        BY Parts
    <2>2. notify_list[g] = 0 \/ told[g] \/ window[g] \/ \E u \in Threads : Sees(u, g)
        BY Parts, AnnouncedBySees DEF IndInv
    <2>3. ASSUME NEW u \in Threads, Sees(u, g)
          PROVE  notify_list[g] = 0 \/ window'[g] \/ \E v \in Threads : Sees(v, g)'
        <3>1. CASE u = t
            BY <2>3, <3>1
        <3>2. CASE u # t
            <4>1. Sees(u, g)' \/ Sees(t, g)'
                BY <2>3, <3>2 DEF Sees, OneMoves
            <4> QED BY <4>1
        <3> QED BY <3>1, <3>2
    <2> QED BY <2>1, <2>2, <2>3
<1> QED
    BY <1>1, <1>2, <1>3, <1>4, <1>5, <1>6, <1>7 DEF IndInv

\* A thread that neither holds nor takes a flag.
LEMMA BystanderStep ==
    ASSUME IndInv, ~aborted, NEW t \in Threads, OneMoves(t),
           pc[t] \in {"idle"} \cup RemovePcs, pc'[t] \in {"idle", "remove", "look", "erase"},
           UNCHANGED <<live, ids, b_processing, b_occupied, notify_list, ghost, aborted>>,
           temp_list' \subseteq Guids
    PROVE  IndInv'
<1>1. /\ \A u \in Threads \ {t} : pc'[u] = pc[u] /\ at'[u] = at[u]
      /\ pc[t] \notin ProcessingPcs /\ pc'[t] \notin ProcessingPcs
      /\ pc[t] \notin ListPcs /\ pc'[t] \notin ListPcs /\ pc'[t] \notin {"full", "threw"}
    BY DEF OneMoves, ProcessingPcs, ListPcs, RemovePcs
<1>2. Guarded(Threads, Guids, ProcessingPcs, pc', at', b_processing)
    BY <1>1, Parts, FlagKept
<1>3. Guarded(Threads, Guids, ListPcs, pc', at', b_occupied)
    BY <1>1, Parts, FlagKept
<1>4. \A g : ~Sees(t, g)
    BY DEF Sees, RemovePcs
<1> QED
    BY <1>1, <1>2, <1>3, <1>4, Parts, QuietStep DEF ids, ghost

LEMMA DisconnectKeeps ==
    ASSUME IndInv, ~aborted, NEW t \in Rpcs, NEW g \in Guids, Disconnect(t, g)
    PROVE  IndInv'
<1>1. t \in Threads /\ "remove" \in PlacesOf(t) \ {"idle"}
    BY DEF Threads, PlacesOf, RemovePcs
<1>2. OneMoves(t) /\ pc'[t] = "remove"
    BY <1>1, Parts, EnterOne DEF Disconnect, StartRemove
<1> QED
    BY <1>1, <1>2, Parts, BystanderStep DEF Disconnect

LEMMA ScanRemoveKeeps ==
    ASSUME IndInv, ~aborted, NEW g \in Guids, ScanRemove(g)
    PROVE  IndInv'
<1>1. Scan \in Threads /\ "remove" \in PlacesOf(Scan) \ {"idle"}
    BY DEF Threads, PlacesOf, RemovePcs
<1>2. OneMoves(Scan) /\ pc'[Scan] = "remove"
    BY <1>1, Parts, EnterOne DEF ScanRemove, StartRemove
<1> QED
    BY <1>1, <1>2, Parts, BystanderStep DEF ScanRemove

LEMMA ScanCollectKeeps ==
    ASSUME IndInv, ScanCollect
    PROVE  IndInv'
<1>1. /\ UNCHANGED <<live, ids, b_processing, b_occupied, notify_list, pc, at, ghost, aborted>>
      /\ temp_list' \subseteq Guids
    BY Parts DEF ScanCollect, Removable
<1> QED
    BY <1>1 DEF IndInv, Typed, TypeOK, Roles, Locks, TagsDiffer, Pending, PendingBounded, Alive,
                HeldIsLive, Processing, AtList, Announced, ids, ghost

LEMMA LookUnlockedKeeps ==
    ASSUME IndInv, ~aborted, NEW t \in Threads, LookUnlocked(t)
    PROVE  IndInv'
<1>1. {"erase", "threw"} \subseteq PlacesOf(t) \ {"idle"} /\ pc[t] = "look"
    BY DEF PlacesOf, RemovePcs, LookUnlocked
<1>2. UNCHANGED <<live, ids, b_processing, b_occupied, notify_list, temp_list, ghost>>
    BY DEF LookUnlocked
<1>3. CASE UNCHANGED aborted /\ (Leave(t) \/ (Goto(t, "erase") /\ UNCHANGED at))
    <2>1. OneMoves(t) /\ pc'[t] \in {"idle", "erase"}
        BY <1>1, <1>3, Parts, LeaveOne, GotoOne
    <2> QED BY <1>1, <1>2, <1>3, <2>1, Parts, BystanderStep DEF RemovePcs
<1>4. CASE Goto(t, "threw") /\ aborted' = TRUE /\ UNCHANGED at
    <2>1. OneMoves(t) /\ pc'[t] = "threw" /\ at'[t] = at[t]
        BY <1>1, <1>4, Parts, GotoOne
    <2>2. /\ \A u \in Threads \ {t} : pc'[u] = pc[u] /\ at'[u] = at[u]
          /\ pc[t] \notin ProcessingPcs /\ pc'[t] \notin ProcessingPcs
          /\ pc[t] \notin ListPcs /\ pc'[t] \notin ListPcs /\ pc'[t] # "full"
        BY <1>1, <2>1 DEF OneMoves, ProcessingPcs, ListPcs
    <2>3. Typed' /\ Roles'
        BY <1>2, <1>4, <2>1, Parts, TypedStep DEF ids, ghost
    <2>4. Locks'
        <3>1. Guarded(Threads, Guids, ProcessingPcs, pc', at', b_processing)
            BY <2>2, Parts, FlagKept
        <3>2. Guarded(Threads, Guids, ListPcs, pc', at', b_occupied)
            BY <2>2, Parts, FlagKept
        <3> QED BY <1>2, <3>1, <3>2 DEF Locks
    <2>5. TagsDiffer'
        BY <1>2, Parts DEF TagsDiffer, ids
    <2>6. Pending'
        BY <1>2, <2>2, Parts DEF Pending, PendingBounded
    <2>7. Alive'
        BY <1>4 DEF Alive
    <2>8. HeldIsLive'
        <3>1. ASSUME NEW u \in Threads, pc'[u] \in ProcessingPcs \cup ListPcs
              PROVE  at'[u] \in live'
            BY <1>2, <2>2, <3>1, Parts DEF Alive
        <3> QED BY <3>1 DEF HeldIsLive, Processing, AtList
    <2>9. Announced'
        <3> SUFFICES ASSUME NEW h \in live
                     PROVE  \/ notify_list[h] = 0 \/ told[h] \/ window[h]
                            \/ \E u \in Threads : Sees(u, h)'
            BY <1>2, <2>3, AnnouncedNext DEF ghost
        <3>1. notify_list[h] = 0 \/ told[h] \/ window[h] \/ \E u \in Threads : Sees(u, h)
            BY Parts, AnnouncedBySees DEF IndInv
        <3>2. \A u \in Threads : Sees(u, h) => Sees(u, h)'
            BY <1>1, <1>2, <2>2 DEF Sees
        <3> QED BY <3>1, <3>2
    <2> QED BY <2>3, <2>4, <2>5, <2>6, <2>7, <2>8, <2>9 DEF IndInv
<1>5. \/ UNCHANGED aborted /\ (Leave(t) \/ (Goto(t, "erase") /\ UNCHANGED at))
      \/ Goto(t, "threw") /\ aborted' = TRUE /\ UNCHANGED at
    BY DEF LookUnlocked
<1> QED
    BY <1>3, <1>4, <1>5

\* The session is taken for an RPC.
LEMMA RpcGetKeeps ==
    ASSUME IndInv, ~aborted, NEW t \in Rpcs, NEW g \in Guids, RpcGet(t, g)
    PROVE  IndInv'
<1>1. /\ t \in Threads /\ "got" \in PlacesOf(t) \ {"idle"} /\ pc[t] = "idle"
      /\ "idle" \notin ProcessingPcs \cup ListPcs /\ "got" \in ProcessingPcs \ ListPcs
    BY DEF Threads, PlacesOf, ProcessingPcs, ListPcs, RpcGet
<1>2. OneMoves(t) /\ pc'[t] = "got" /\ at'[t] = g
    BY <1>1, Parts, EnterOne DEF RpcGet
<1>3. \A u \in Threads \ {t} : pc'[u] = pc[u] /\ at'[u] = at[u]
    BY <1>2 DEF OneMoves
<1>4. /\ b_processing' = [b_processing EXCEPT ![g] = TRUE] /\ ~b_processing[g] /\ g \in live
      /\ UNCHANGED <<live, ids, b_occupied, notify_list, temp_list, ghost, aborted>>
    BY DEF RpcGet
<1>a. /\ pc[t] \notin ProcessingPcs /\ pc[t] \notin ListPcs
      /\ pc'[t] \in ProcessingPcs /\ pc'[t] \notin ListPcs
    BY <1>1, <1>2
<1>5. Guarded(Threads, Guids, ProcessingPcs, pc', at', b_processing')
    BY <1>1, <1>a, <1>2, <1>3, <1>4, Parts, FlagTaken
<1>6. Guarded(Threads, Guids, ListPcs, pc', at', b_occupied')
    <2>1. Guarded(Threads, Guids, ListPcs, pc', at', b_occupied)
        BY <1>1, <1>a, <1>3, Parts, FlagKept, ZenonT(60)
    <2> QED BY <1>4, <2>1
<1>7. Sees(t, g)'
    BY <1>2 DEF Sees
<1>8. \A h \in Guids : ~Sees(t, h)
    BY <1>1 DEF Sees
<1>9. b_processing' \in [Guids -> BOOLEAN] /\ \A h \in Guids : h # g => b_processing'[h] = b_processing[h]
    BY <1>4, Parts
<1>10. /\ \A h \in live : Sees(t, h) => notify_list[h] = 0 \/ window'[h] \/ Sees(t, h)'
       /\ \A h \in live : b_processing'[h] => b_processing[h] \/ Sees(t, h)'
    BY <1>7, <1>8, <1>9, Parts
<1> QED
    BY <1>1, <1>2, <1>4, <1>5, <1>6, <1>9, <1>10, Parts, QuietStep DEF ids, ghost

\* The session is given back by an RPC.
LEMMA RpcGivesKeeps ==
    ASSUME IndInv, ~aborted, NEW t \in Rpcs, OneMoves(t), PutHandleData(t),
           pc[t] \in ProcessingPcs \ ListPcs, pc'[t] \in {"idle", "wake", "remove"},
           UNCHANGED <<live, ids, b_occupied, notify_list, temp_list, told, aborted>>,
           window' \in [Guids -> BOOLEAN], \A g \in Guids : window[g] => window'[g],
           \A g \in live : Sees(t, g) => notify_list[g] = 0 \/ window'[g] \/ Sees(t, g)'
    PROVE  IndInv'
<1>1. /\ t \in Threads /\ at[t] \in Guids
      /\ \A p \in {"idle", "wake", "remove"} :
             p \notin ProcessingPcs \cup ListPcs \cup {"full", "threw"}
    BY Parts, Places DEF Threads, ProcessingPcs, ListPcs
<1>2. \A u \in Threads \ {t} : pc'[u] = pc[u] /\ at'[u] = at[u]
    BY DEF OneMoves
<1>3. b_processing' = [b_processing EXCEPT ![at[t]] = FALSE]
    BY DEF PutHandleData
<1>4. Guarded(Threads, Guids, ProcessingPcs, pc', at', b_processing')
    <2>1. pc[t] \in ProcessingPcs /\ pc'[t] \notin ProcessingPcs
        BY <1>1
    <2> QED BY <1>1, <1>2, <1>3, <2>1, Parts, FlagGiven
<1>5. Guarded(Threads, Guids, ListPcs, pc', at', b_occupied')
    BY <1>1, <1>2, Parts, FlagKept
<1>6. /\ b_processing' \in [Guids -> BOOLEAN]
      /\ \A g \in Guids : b_processing'[g] => b_processing[g]
    BY <1>1, <1>3, Parts
<1>7. \A g \in live : b_processing'[g] => b_processing[g] \/ Sees(t, g)'
    BY <1>6, Parts
<1> QED
    BY <1>1, <1>4, <1>5, <1>6, <1>7, Parts, QuietStep DEF ids

LEMMA RpcRefusedKeeps ==
    ASSUME IndInv, ~aborted, NEW t \in Rpcs, RpcDenied(t) \/ RpcExpired(t)
    PROVE  IndInv'
<1>1. /\ t \in Threads /\ "remove" \in PlacesOf(t) \ {"idle"} /\ pc[t] = "got"
      /\ "got" \in ProcessingPcs \ ListPcs
    BY DEF Threads, PlacesOf, ProcessingPcs, ListPcs, RemovePcs, RpcDenied, RpcExpired
<1>2. at[t] \in Guids
    BY <1>1, Parts, Places
<1>3. OneMoves(t) /\ pc'[t] \in {"idle", "remove"}
    BY <1>1, <1>2, Parts, LeaveOne, EnterOne DEF RpcDenied, RpcExpired, StartRemove
<1>4. /\ PutHandleData(t) /\ window' = [window EXCEPT ![at[t]] = @ \/ notify_list[at[t]] > 0]
      /\ UNCHANGED <<live, ids, b_occupied, notify_list, temp_list, told, aborted>>
    BY DEF RpcDenied, RpcExpired
<1>5. /\ window' \in [Guids -> BOOLEAN] /\ \A g \in Guids : window[g] => window'[g]
      /\ notify_list[at[t]] = 0 \/ window'[at[t]]
    <2>1. notify_list[at[t]] \in Nat /\ window[at[t]] \in BOOLEAN
        BY <1>2, Parts
    <2>2. window'[at[t]] = (window[at[t]] \/ notify_list[at[t]] > 0)
        BY <1>2, <1>4, Parts
    <2>3. \A g \in Guids : g # at[t] => window'[g] = window[g]
        BY <1>4, Parts
    <2>4. window' \in [Guids -> BOOLEAN]
        BY <1>4, <2>1, Parts
    <2>5. \A g \in Guids : window[g] => window'[g]
        BY <2>2, <2>3
    <2>6. notify_list[at[t]] = 0 \/ notify_list[at[t]] > 0
        BY <2>1
    <2> QED BY <2>2, <2>4, <2>5, <2>6
<1>6. \A g \in live : Sees(t, g) => notify_list[g] = 0 \/ window'[g] \/ Sees(t, g)'
    BY <1>5 DEF Sees
<1> QED
    BY <1>1, <1>3, <1>4, <1>5, <1>6, RpcGivesKeeps

LEMMA RpcPutKeeps ==
    ASSUME IndInv, ~aborted, NEW t \in Rpcs, RpcPut(t)
    PROVE  IndInv'
<1>1. /\ t \in Threads /\ "wake" \in PlacesOf(t) \ {"idle"} /\ pc[t] \in {"put", "putwake"}
      /\ {"put", "putwake"} \subseteq ProcessingPcs \ ListPcs
    BY DEF Threads, PlacesOf, ProcessingPcs, ListPcs, RpcPut
<1>2. /\ PutHandleData(t)
      /\ UNCHANGED <<live, ids, b_occupied, notify_list, temp_list, ghost, aborted>>
    BY DEF RpcPut
<1>3. /\ OneMoves(t) /\ pc'[t] \in {"idle", "wake"}
      /\ pc[t] = "putwake" => pc'[t] = "wake" /\ at'[t] = at[t]
    <2>1. CASE pc[t] = "put"
        BY <1>1, <2>1, Parts, LeaveOne DEF RpcPut
    <2>2. CASE pc[t] = "putwake"
        BY <1>1, <2>2, Parts, GotoOne DEF RpcPut
    <2> QED BY <1>1, <2>1, <2>2
<1>4. \A g \in live : Sees(t, g) => Sees(t, g)'
    BY <1>1, <1>3 DEF Sees
<1> QED
    BY <1>1, <1>2, <1>3, <1>4, Parts, RpcGivesKeeps DEF ghost

\* An RPC goes on with its session.
LEMMA RpcGoesOn ==
    ASSUME IndInv, ~aborted, NEW t \in Rpcs, RpcStart(t) \/ RpcRead(t)
    PROVE  IndInv'
<1>1. /\ t \in Threads /\ {"drain", "read", "put", "putwake"} \subseteq PlacesOf(t) \ {"idle"}
      /\ pc[t] \in {"got", "read"}
      /\ {"got", "drain", "read", "put", "putwake"} \subseteq ProcessingPcs \ ListPcs
    BY DEF Threads, PlacesOf, ProcessingPcs, ListPcs, RpcStart, RpcRead
<1>2. UNCHANGED <<live, ids, b_processing, b_occupied, notify_list, at, temp_list, ghost, aborted>>
    BY DEF RpcStart, RpcRead
<1>3. \E l \in {"drain", "read", "put", "putwake"} :
          Goto(t, l) /\ (l = "put" => ~WakeupNeeded(at[t]))
    BY DEF RpcStart, RpcRead
<1>4. PICK l \in {"drain", "read", "put", "putwake"} :
          Goto(t, l) /\ (l = "put" => ~WakeupNeeded(at[t]))
    BY <1>3
<1>5. OneMoves(t) /\ pc'[t] = l /\ at'[t] = at[t]
    BY <1>1, <1>2, <1>4, Parts, GotoOne
<1>6. \A u \in Threads \ {t} : pc'[u] = pc[u] /\ at'[u] = at[u]
    BY <1>5 DEF OneMoves
<1>7. Guarded(Threads, Guids, ProcessingPcs, pc', at', b_processing)
    BY <1>1, <1>5, <1>6, Parts, FlagKept
<1>8. Guarded(Threads, Guids, ListPcs, pc', at', b_occupied)
    BY <1>1, <1>5, <1>6, Parts, FlagKept
<1>9. at[t] \in live /\ at[t] \in Guids /\ notify_list[at[t]] \in Nat
    BY <1>1, Parts, Places DEF Alive
<1>10. \A g \in live : Sees(t, g) => notify_list[g] = 0 \/ window'[g] \/ Sees(t, g)'
    BY <1>4, <1>5, <1>9 DEF Sees, WakeupNeeded
<1> QED
    BY <1>1, <1>2, <1>5, <1>7, <1>8, <1>9, <1>10, Parts, QuietStep DEF ids, ghost

\* The list of notifications is taken.
LEMMA ListTakenKeeps ==
    ASSUME IndInv, ~aborted, NEW t \in Threads, NEW g \in Guids, OneMoves(t), at'[t] = g, g \in live,
           \/ pc[t] = "drain" /\ pc'[t] = "pop" /\ at[t] = g
           \/ pc[t] = "idle" /\ pc'[t] = "list",
           ~b_occupied[g], b_occupied' = [b_occupied EXCEPT ![g] = TRUE],
           UNCHANGED <<live, ids, b_processing, notify_list, temp_list, ghost, aborted>>
    PROVE  IndInv'
<1>1. /\ \A u \in Threads \ {t} : pc'[u] = pc[u] /\ at'[u] = at[u]
      /\ pc[t] \notin ListPcs /\ pc'[t] \in ListPcs
      /\ \/ pc[t] \in ProcessingPcs /\ pc'[t] \in ProcessingPcs /\ at'[t] = at[t]
         \/ pc[t] \notin ProcessingPcs /\ pc'[t] \notin ProcessingPcs
    BY DEF OneMoves, ProcessingPcs, ListPcs
<1>2. Guarded(Threads, Guids, ListPcs, pc', at', b_occupied')
    BY <1>1, Parts, FlagTaken
<1>3. Guarded(Threads, Guids, ProcessingPcs, pc', at', b_processing')
    BY <1>1, Parts, FlagKept
<1>4. \A h \in live : Sees(t, h) => Sees(t, h)'
    BY DEF Sees
<1>5. b_occupied' \in [Guids -> BOOLEAN] /\ pc'[t] \notin {"full", "threw"}
    BY Parts
<1> QED
    BY <1>2, <1>3, <1>4, <1>5, Parts, QuietStep DEF ids, ghost

LEMMA TakeListKeeps ==
    ASSUME IndInv, ~aborted
    PROVE  /\ \A t \in Rpcs : DrainLock(t) => IndInv'
           /\ \A t \in Events, g \in Guids : EventGet(t, g) => IndInv'
<1>1. ASSUME NEW t \in Rpcs, DrainLock(t) PROVE IndInv'
    <2>1. t \in Threads /\ "pop" \in PlacesOf(t) \ {"idle"} /\ pc[t] = "drain" /\ "drain" \in ProcessingPcs
        BY <1>1 DEF Threads, PlacesOf, ProcessingPcs, DrainLock
    <2>2. OneMoves(t) /\ pc'[t] = "pop" /\ at'[t] = at[t]
        BY <1>1, <2>1, Parts, GotoOne DEF DrainLock
    <2>3. at[t] \in Guids /\ at[t] \in live
        BY <2>1, Parts, Places DEF Alive
    <2> QED BY <1>1, <2>1, <2>2, <2>3, ListTakenKeeps DEF DrainLock
<1>2. ASSUME NEW t \in Events, NEW g \in Guids, EventGet(t, g) PROVE IndInv'
    <2>1. t \in Threads /\ "list" \in PlacesOf(t) \ {"idle"}
        BY DEF Threads, PlacesOf, ListPcs
    <2>2. OneMoves(t) /\ pc'[t] = "list" /\ at'[t] = g
        BY <1>2, <2>1, Parts, EnterOne DEF EventGet
    <2> QED BY <1>2, <2>1, <2>2, ListTakenKeeps DEF EventGet
<1> QED
    BY <1>1, <1>2

\* An event thread goes on with the list, or gives it back.
LEMMA EventGoesOn ==
    ASSUME IndInv, ~aborted, NEW t \in Events,
           EventDropped(t) \/ EventMerged(t) \/ EventFlag(t) \/ EventPut(t)
    PROVE  IndInv'
<1>1. /\ t \in Threads /\ {"flag", "unlist", "unlistwake", "wake"} \subseteq PlacesOf(t) \ {"idle"}
      /\ pc[t] \in {"list", "flag", "unlist", "unlistwake"}
      /\ {"list", "flag", "unlist", "unlistwake"} \subseteq ListPcs \ ProcessingPcs
      /\ {"idle", "wake"} \cap (ListPcs \cup ProcessingPcs) = {}
    BY DEF Threads, PlacesOf, ProcessingPcs, ListPcs, EventDropped, EventMerged, EventFlag, EventPut
<1>2. UNCHANGED <<live, ids, b_processing, notify_list, temp_list, ghost, aborted>>
    BY DEF EventDropped, EventMerged, EventFlag, EventPut
<1>3. at[t] \in Guids /\ at[t] \in live
    BY <1>1, Parts, Places DEF Alive
<1>4. CASE EventMerged(t) \/ EventFlag(t)
    <2>1. UNCHANGED <<b_occupied, at>>
        BY <1>4 DEF EventMerged, EventFlag
    <2>2. PICK l \in {"flag", "unlist", "unlistwake"} :
              Goto(t, l) /\ (l = "unlist" => b_processing[at[t]]) /\ (pc[t] = "flag" => l # "flag")
              /\ pc[t] \in {"list", "flag"}
        BY <1>4 DEF EventMerged, EventFlag
    <2>3. OneMoves(t) /\ pc'[t] = l /\ at'[t] = at[t]
        BY <1>1, <2>1, <2>2, Parts, GotoOne
    <2>4. \A u \in Threads \ {t} : pc'[u] = pc[u] /\ at'[u] = at[u]
        BY <2>3 DEF OneMoves
    <2>a. pc[t] \notin ProcessingPcs /\ pc'[t] \notin ProcessingPcs
        BY <1>1, <2>2, <2>3
    <2>5. Guarded(Threads, Guids, ProcessingPcs, pc', at', b_processing)
        BY <1>1, <2>a, <2>4, Parts, FlagKept
    <2>b. pc[t] \in ListPcs /\ pc'[t] \in ListPcs /\ at'[t] = at[t]
        BY <1>1, <2>2, <2>3
    <2>6. Guarded(Threads, Guids, ListPcs, pc', at', b_occupied)
        BY <1>1, <2>b, <2>4, Parts, FlagKept
    <2>7. \A g \in live : Sees(t, g) => Sees(t, g)'
        BY <2>2, <2>3 DEF Sees
    <2> QED BY <1>1, <1>2, <1>3, <2>1, <2>3, <2>5, <2>6, <2>7, Parts, QuietStep DEF ids, ghost
<1>5. CASE EventDropped(t) \/ EventPut(t)
    <2>1. b_occupied' = [b_occupied EXCEPT ![at[t]] = FALSE]
        BY <1>5 DEF EventDropped, EventPut
    <2>2. /\ OneMoves(t) /\ pc'[t] \in {"idle", "wake"} /\ pc[t] # "flag"
          /\ pc[t] = "unlistwake" => pc'[t] = "wake" /\ at'[t] = at[t]
        <3>1. CASE Leave(t) /\ pc[t] \in {"list", "unlist"}
            BY <1>1, <3>1, Parts, LeaveOne
        <3>2. CASE pc[t] = "unlistwake" /\ Goto(t, "wake") /\ UNCHANGED at
            BY <1>1, <3>2, Parts, GotoOne
        <3> QED BY <1>5, <3>1, <3>2 DEF EventDropped, EventPut
    <2>3. \A u \in Threads \ {t} : pc'[u] = pc[u] /\ at'[u] = at[u]
        BY <2>2 DEF OneMoves
    <2>a. pc[t] \notin ProcessingPcs /\ pc'[t] \notin ProcessingPcs
        BY <1>1, <2>2
    <2>4. Guarded(Threads, Guids, ProcessingPcs, pc', at', b_processing)
        BY <1>1, <2>a, <2>3, Parts, FlagKept, SMTT(30)
    <2>5. Guarded(Threads, Guids, ListPcs, pc', at', b_occupied')
        BY <1>1, <1>3, <2>1, <2>2, <2>3, Parts, FlagGiven
    <2>6. \A g \in live : Sees(t, g) => Sees(t, g)'
        BY <1>1, <2>2 DEF Sees
    <2>7. b_occupied' \in [Guids -> BOOLEAN] /\ pc'[t] \notin {"full", "threw"}
              /\ pc'[t] \notin ProcessingPcs \cup ListPcs
        BY <1>1, <2>1, <2>2, Parts
    <2> QED BY <1>1, <1>2, <2>2, <2>4, <2>5, <2>6, <2>7, Parts, QuietStep DEF ids, ghost
<1> QED
    BY <1>4, <1>5

-----------------------------------------------------------------------------
(***************************************************************************)
(* Steps that queue, take or announce notifications                        *)
(***************************************************************************)

\* A thread changes what is queued for its session, or what the client knows of it.
LEMMA ListStep ==
    ASSUME IndInv, ~aborted, NEW t \in Threads, NEW g \in Guids, at[t] = g, pc[t] # "idle",
           OneMoves(t), at'[t] \in {g, NoGuid},
           UNCHANGED <<live, user, cxr, b_processing, temp_list, aborted>>,
           b_occupied' \in [Guids -> BOOLEAN], notify_list' \in [Guids -> Nat],
           told' \in [Guids -> BOOLEAN], window' \in [Guids -> BOOLEAN],
           Guarded(Threads, Guids, ProcessingPcs, pc', at', b_processing),
           Guarded(Threads, Guids, ListPcs, pc', at', b_occupied'),
           \A h \in Guids \ {g} : /\ notify_list'[h] = notify_list[h]
                                  /\ told'[h] = told[h] /\ window'[h] = window[h],
           notify_list'[g] <= MaxPending + 1,
           \A u \in Threads : pc'[u] = "full" /\ at'[u] = g => notify_list'[g] <= MaxPending,
           pc'[t] # "threw", pc'[t] \in ProcessingPcs \cup ListPcs => g \in live,
           g \in live \/ notify_list'[g] = 0,
           \/ notify_list'[g] = 0 \/ told'[g] \/ window'[g] \/ \E u \in Threads : Sees(u, g)'
    PROVE  IndInv'
<1>1. Typed' /\ Roles'
    BY Parts, TypedStep
<1>2. Locks'
    BY DEF Locks
<1>3. TagsDiffer'
    BY DEF IndInv, TagsDiffer
<1>4. Pending'
    <2>1. \A h \in Guids : notify_list'[h] <= MaxPending + 1
        BY Parts DEF Pending, PendingBounded
    <2>2. ASSUME NEW u \in Threads, pc'[u] = "full" PROVE notify_list'[at'[u]] <= MaxPending
        <3>1. at'[u] \in Guids
            BY <1>1, <2>2 DEF Typed, TypeOK
        <3>2. CASE at'[u] = g
            BY <2>2, <3>2
        <3>3. CASE at'[u] # g
            <4>1. u # t
                BY <3>1, <3>3, HandlesAssumption
            <4>2. pc[u] = "full" /\ at[u] = at'[u]
                BY <2>2, <4>1 DEF OneMoves
            <4>3. notify_list[at[u]] <= MaxPending
                BY <4>2, Parts DEF Pending
            <4> QED BY <3>1, <3>3, <4>2, <4>3
        <3> QED BY <3>2, <3>3
    <2> QED BY <2>1, <2>2 DEF Pending, PendingBounded
<1>5. Alive'
    <2>1. \A u \in Threads : pc'[u] = "threw" => aborted
        BY Parts DEF Alive, OneMoves
    <2>2. ASSUME NEW u \in Threads, pc'[u] \in ProcessingPcs \cup ListPcs
          PROVE  at'[u] \in live
        <3>1. at'[u] \in Guids
            BY <1>1, <2>2, Places DEF Typed, TypeOK, ProcessingPcs, ListPcs
        <3>2. CASE u = t
            BY <2>2, <3>1, <3>2, HandlesAssumption
        <3>3. CASE u # t
            BY <2>2, <3>3, Parts DEF Alive, OneMoves
        <3> QED BY <3>2, <3>3
    <2>3. \A h \in Guids : h \in live \/ notify_list'[h] = 0
        BY Parts DEF Alive
    <2> QED BY <2>1, <2>2, <2>3 DEF Alive
<1>6. HeldIsLive'
    <2>1. ~aborted'
        OBVIOUS
    <2> QED BY <1>5, <2>1 DEF Alive, HeldIsLive, Processing, AtList
<1>7. Announced'
    <2> SUFFICES ASSUME NEW h \in live, h # g
                 PROVE  notify_list'[h] = 0 \/ told'[h] \/ window'[h] \/ \E u \in Threads : Sees(u, h)'
        BY <1>1, AnnouncedNext
    <2>1. h \in Guids
        BY Parts
    <2>2. notify_list[h] = 0 \/ told[h] \/ window[h] \/ \E u \in Threads : Sees(u, h)
        BY Parts, AnnouncedBySees DEF IndInv
    <2>3. \A u \in Threads : Sees(u, h) => Sees(u, h)'
        BY DEF Sees, OneMoves
    <2> QED BY <2>1, <2>2, <2>3
<1> QED
    BY <1>1, <1>2, <1>3, <1>4, <1>5, <1>6, <1>7 DEF IndInv

\* Only one RPC is at a session.
LEMMA OneRpc ==
    ASSUME IndInv, NEW t \in Threads, NEW u \in Threads, pc[t] \in ProcessingPcs,
           pc[u] \in ProcessingPcs, at[u] = at[t], at[t] \in Guids
    PROVE  u = t
    BY Parts DEF Guarded

LEMMA DrainPopKeeps ==
    ASSUME IndInv, ~aborted, NEW t \in Rpcs, DrainPop(t)
    PROVE  IndInv'
<1> SUFFICES ASSUME NEW g, g = at[t]
             PROVE  IndInv'
    OBVIOUS
<1>1. /\ t \in Threads /\ {"read", "drain", "full"} \subseteq PlacesOf(t) \ {"idle"}
      /\ pc[t] = "pop" /\ pc[t] \in ProcessingPcs /\ pc[t] \in ListPcs
      /\ {"read", "drain", "full"} \subseteq ProcessingPcs /\ {"read", "drain", "full"} \cap ListPcs = {}
    BY DEF Threads, PlacesOf, ProcessingPcs, ListPcs, DrainPop
<1>2. at[t] \in Guids /\ at[t] \in live
    BY <1>1, Parts, Places DEF Alive
<1>3. PICK l \in {"read", "drain", "full"} : Goto(t, l)
    BY DEF DrainPop
<1>4. UNCHANGED <<live, ids, b_processing, at, temp_list, aborted>>
    BY DEF DrainPop
<1>5. OneMoves(t) /\ pc'[t] = l /\ at'[t] = at[t]
    BY <1>1, <1>3, <1>4, Parts, GotoOne
<1>6. \A u \in Threads \ {t} : pc'[u] = pc[u] /\ at'[u] = at[u]
    BY <1>5 DEF OneMoves
<1>7. pc'[t] \in ProcessingPcs /\ pc'[t] \notin ListPcs
    BY <1>1, <1>5
<1>8. Guarded(Threads, Guids, ProcessingPcs, pc', at', b_processing)
    <2>1. Guarded(Threads, Guids, ProcessingPcs, pc, at, b_processing) /\ t \in Threads
        BY <1>1, Parts
    <2>2. pc[t] \in ProcessingPcs /\ pc'[t] \in ProcessingPcs /\ at'[t] = at[t]
        BY <1>1, <1>5, <1>7
    <2> QED BY <1>6, <2>1, <2>2, FlagIn
<1>9. b_occupied' = [b_occupied EXCEPT ![g] = FALSE]
    BY DEF DrainPop
<1>10. Guarded(Threads, Guids, ListPcs, pc', at', b_occupied')
    BY <1>1, <1>2, <1>6, <1>7, <1>9, Parts, FlagGiven
<1>11. Sees(t, g)'
    BY <1>5 DEF Sees
<1>12. /\ notify_list' \in [Guids -> Nat] /\ told' \in [Guids -> BOOLEAN] /\ window' \in [Guids -> BOOLEAN]
       /\ \A h \in Guids \ {g} : /\ notify_list'[h] = notify_list[h]
                                 /\ told'[h] = told[h] /\ window'[h] = window[h]
       /\ notify_list'[g] <= MaxPending + 1
       /\ pc'[t] = "full" => notify_list'[g] <= MaxPending
    <2>0. notify_list[g] \in Nat /\ notify_list[g] <= MaxPending + 1 /\ MaxPending \in Nat
        BY <1>2, Parts DEF Pending, PendingBounded
    <2>1. CASE notify_list[g] = 0
        BY <1>5, <2>0, <2>1, Parts, GotoMoves DEF DrainPop, ghost
    <2>2. CASE notify_list[g] # 0
        <3>1. /\ notify_list' = [notify_list EXCEPT ![g] = notify_list[g] - 1]
              /\ Forget(g, notify_list[g] - 1)
            BY <2>2 DEF DrainPop
        <3>2. notify_list[g] - 1 \in Nat /\ notify_list[g] - 1 <= MaxPending
            BY <2>0, <2>2
        <3>3. /\ notify_list' \in [Guids -> Nat] /\ notify_list'[g] = notify_list[g] - 1
              /\ \A h \in Guids \ {g} : notify_list'[h] = notify_list[h]
            BY <1>2, <3>1, <3>2, Parts
        <3>4. /\ told' \in [Guids -> BOOLEAN] /\ window' \in [Guids -> BOOLEAN]
              /\ \A h \in Guids \ {g} : told'[h] = told[h] /\ window'[h] = window[h]
            BY <1>2, <3>1, Parts DEF Forget
        <3> QED BY <2>0, <3>2, <3>3, <3>4
    <2> QED BY <2>1, <2>2
<1>13. \A u \in Threads : pc'[u] = "full" /\ at'[u] = g => u = t
    BY <1>1, <1>2, <1>6, OneRpc DEF ProcessingPcs
<1>14. b_occupied' \in [Guids -> BOOLEAN] /\ pc'[t] # "threw" /\ pc[t] # "idle"
    BY <1>1, <1>3, <1>5, <1>9, Parts
<1>15. g \in Guids /\ at[t] = g /\ g \in live /\ at'[t] = g
    BY <1>2, <1>5
<1>16. \A u \in Threads : pc'[u] = "full" /\ at'[u] = g => notify_list'[g] <= MaxPending
    BY <1>12, <1>13
<1>17. at'[t] \in {g, NoGuid} /\ UNCHANGED <<live, user, cxr, b_processing, temp_list, aborted>>
    BY <1>4, <1>15 DEF ids
<1>18. notify_list'[g] = 0 \/ told'[g] \/ window'[g] \/ \E u \in Threads : Sees(u, g)'
    BY <1>1, <1>11
<1>22. /\ pc'[t] \in ProcessingPcs \cup ListPcs => g \in live
       /\ g \in live \/ notify_list'[g] = 0
    BY <1>15
<1>23. OneMoves(t)
    BY <1>5
<1> QED
    BY <1>1, <1>8, <1>10, <1>12, <1>14, <1>15, <1>16, <1>17, <1>18, <1>22, <1>23, ListStep

LEMMA DrainReinsertKeeps ==
    ASSUME IndInv, ~aborted, NEW t \in Rpcs, DrainReinsert(t)
    PROVE  IndInv'
<1> SUFFICES ASSUME NEW g, g = at[t]
             PROVE  IndInv'
    OBVIOUS
<1>1. /\ t \in Threads /\ "read" \in PlacesOf(t) \ {"idle"}
      /\ pc[t] = "full" /\ pc[t] \in ProcessingPcs /\ pc[t] \notin ListPcs
      /\ "read" \in ProcessingPcs /\ "read" \notin ListPcs
    BY DEF Threads, PlacesOf, ProcessingPcs, ListPcs, DrainReinsert
<1>2. at[t] \in Guids /\ at[t] \in live
    BY <1>1, Parts, Places DEF Alive
<1>4. UNCHANGED <<live, ids, b_processing, b_occupied, at, temp_list, ghost, aborted>>
    BY DEF DrainReinsert
<1>5. OneMoves(t) /\ pc'[t] = "read" /\ at'[t] = at[t]
    BY <1>1, <1>4, Parts, GotoOne DEF DrainReinsert
<1>6. \A u \in Threads \ {t} : pc'[u] = pc[u] /\ at'[u] = at[u]
    BY <1>5 DEF OneMoves
<1>7. pc'[t] \in ProcessingPcs /\ pc'[t] \notin ListPcs
    BY <1>1, <1>5
<1>8. Guarded(Threads, Guids, ProcessingPcs, pc', at', b_processing)
    <2>1. Guarded(Threads, Guids, ProcessingPcs, pc, at, b_processing) /\ t \in Threads
        BY <1>1, Parts
    <2>2. pc[t] \in ProcessingPcs /\ pc'[t] \in ProcessingPcs /\ at'[t] = at[t]
        BY <1>1, <1>5, <1>7
    <2> QED BY <1>6, <2>1, <2>2, FlagIn
<1>10. Guarded(Threads, Guids, ListPcs, pc', at', b_occupied)
    <2>1. Guarded(Threads, Guids, ListPcs, pc, at, b_occupied) /\ t \in Threads
        BY <1>1, Parts
    <2>2. pc[t] \notin ListPcs /\ pc'[t] \notin ListPcs
        BY <1>1, <1>5, <1>7
    <2> QED BY <1>6, <2>1, <2>2, FlagOut
<1>11. Sees(t, g)'
    BY <1>5 DEF Sees
<1>12. /\ notify_list' \in [Guids -> Nat]
       /\ \A h \in Guids \ {g} : notify_list'[h] = notify_list[h]
       /\ notify_list'[g] <= MaxPending + 1
    <2>1. notify_list[g] \in Nat /\ notify_list[g] <= MaxPending /\ MaxPending \in Nat
        BY <1>1, <1>2, Parts DEF Pending
    <2>2. CASE notify_list' = [notify_list EXCEPT ![g] = @ + 1]
        BY <1>2, <2>1, <2>2, Parts
    <2>3. CASE UNCHANGED notify_list
        BY <1>2, <2>1, <2>3, Parts
    <2> QED BY <2>2, <2>3 DEF DrainReinsert
<1>13. \A u \in Threads : ~(pc'[u] = "full" /\ at'[u] = g)
    BY <1>1, <1>2, <1>5, <1>6, OneRpc DEF ProcessingPcs
<1>14. pc'[t] # "threw" /\ pc[t] # "idle"
    BY <1>1, <1>5
<1>15. g \in Guids /\ at[t] = g /\ g \in live /\ at'[t] = g
    BY <1>2, <1>5
<1>16. \A u \in Threads : pc'[u] = "full" /\ at'[u] = g => notify_list'[g] <= MaxPending
    BY <1>13
<1>17. at'[t] \in {g, NoGuid} /\ UNCHANGED <<live, user, cxr, b_processing, temp_list, aborted>>
    BY <1>4, <1>15 DEF ids
<1>18. notify_list'[g] = 0 \/ told'[g] \/ window'[g] \/ \E u \in Threads : Sees(u, g)'
    BY <1>1, <1>11
<1>19. /\ b_occupied' = b_occupied /\ told' = told /\ window' = window
       /\ b_occupied \in [Guids -> BOOLEAN] /\ told \in [Guids -> BOOLEAN] /\ window \in [Guids -> BOOLEAN]
    BY <1>4, Parts DEF ghost
<1>20. \A h \in Guids \ {g} : /\ notify_list'[h] = notify_list[h]
                              /\ told'[h] = told[h] /\ window'[h] = window[h]
    BY <1>12, <1>19
<1>21. Guarded(Threads, Guids, ListPcs, pc', at', b_occupied')
    BY <1>10, <1>19
<1>22. /\ pc'[t] \in ProcessingPcs \cup ListPcs => g \in live
       /\ g \in live \/ notify_list'[g] = 0
    BY <1>15
<1>23. OneMoves(t)
    BY <1>5
<1> QED
    BY <1>1, <1>8, <1>12, <1>14, <1>15, <1>16, <1>17, <1>18, <1>19, <1>20, <1>21, <1>22, <1>23, ListStep

LEMMA WakeupKeeps ==
    ASSUME IndInv, ~aborted, NEW t \in Rpcs \cup Events, Wakeup(t)
    PROVE  IndInv'
<1> SUFFICES ASSUME NEW g, g = at[t]
             PROVE  IndInv'
    OBVIOUS
<1>1. /\ t \in Threads /\ pc[t] = "wake" /\ pc[t] \notin ProcessingPcs /\ pc[t] \notin ListPcs
      /\ "idle" \notin ProcessingPcs /\ "idle" \notin ListPcs
    BY DEF Threads, ProcessingPcs, ListPcs, Wakeup
<1>2. at[t] \in Guids
    BY <1>1, Parts, Places
<1>4. UNCHANGED <<live, ids, b_processing, b_occupied, notify_list, temp_list, aborted>>
    BY DEF Wakeup
<1>5. OneMoves(t) /\ pc'[t] = "idle" /\ at'[t] = NoGuid
    BY <1>1, Parts, LeaveOne DEF Wakeup
<1>6. \A u \in Threads \ {t} : pc'[u] = pc[u] /\ at'[u] = at[u]
    BY <1>5 DEF OneMoves
<1>7. pc'[t] \notin ProcessingPcs /\ pc'[t] \notin ListPcs
    BY <1>1, <1>5
<1>8. Guarded(Threads, Guids, ProcessingPcs, pc', at', b_processing)
    <2>1. Guarded(Threads, Guids, ProcessingPcs, pc, at, b_processing) /\ t \in Threads
        BY <1>1, Parts
    <2>2. pc[t] \notin ProcessingPcs /\ pc'[t] \notin ProcessingPcs
        BY <1>1, <1>5, <1>7
    <2> QED BY <1>6, <2>1, <2>2, FlagOut
<1>10. Guarded(Threads, Guids, ListPcs, pc', at', b_occupied)
    <2>1. Guarded(Threads, Guids, ListPcs, pc, at, b_occupied) /\ t \in Threads
        BY <1>1, Parts
    <2>2. pc[t] \notin ListPcs /\ pc'[t] \notin ListPcs
        BY <1>1, <1>5, <1>7
    <2> QED BY <1>6, <2>1, <2>2, FlagOut
<1>11. /\ told' \in [Guids -> BOOLEAN] /\ window' \in [Guids -> BOOLEAN]
       /\ \A h \in Guids \ {g} : told'[h] = told[h] /\ window'[h] = window[h]
       /\ told'[g] = (notify_list[g] > 0)
    <2>1. told' = [told EXCEPT ![g] = notify_list[g] > 0] /\ window' = [window EXCEPT ![g] = FALSE]
        BY DEF Wakeup
    <2>2. told' \in [Guids -> BOOLEAN] /\ told'[g] = (notify_list[g] > 0)
        BY <1>2, <2>1, Parts
    <2>3. window' \in [Guids -> BOOLEAN]
        BY <1>2, <2>1, Parts
    <2>4. \A h \in Guids \ {g} : told'[h] = told[h] /\ window'[h] = window[h]
        BY <2>1, Parts
    <2> QED BY <2>2, <2>3, <2>4
<1>12. notify_list[g] = 0 \/ told'[g]
    <2>1. notify_list[g] \in Nat
        BY <1>2, Parts
    <2>2. notify_list[g] = 0 \/ notify_list[g] > 0
        BY <2>1
    <2> QED BY <1>11, <2>2
<1>13. /\ notify_list[g] <= MaxPending + 1 /\ (g \in live \/ notify_list[g] = 0)
       /\ \A u \in Threads : pc'[u] = "full" /\ at'[u] = g => notify_list[g] <= MaxPending
    <2>1. ASSUME NEW u \in Threads, pc'[u] = "full", at'[u] = g
          PROVE  notify_list[g] <= MaxPending
        <3>1. u # t
            BY <1>5, <2>1
        <3>2. pc[u] = "full" /\ at[u] = g
            BY <1>6, <2>1, <3>1
        <3>3. notify_list[at[u]] <= MaxPending
            BY <3>2, Parts DEF Pending
        <3> QED BY <3>2, <3>3
    <2> QED BY <1>2, <2>1, Parts DEF Pending, PendingBounded, Alive
<1>14. pc'[t] # "threw" /\ pc[t] # "idle"
    BY <1>1, <1>5
<1>15. g \in Guids /\ at[t] = g
    BY <1>2
<1>16. \A u \in Threads : pc'[u] = "full" /\ at'[u] = g => notify_list'[g] <= MaxPending
    BY <1>4, <1>13
<1>17. at'[t] \in {g, NoGuid} /\ UNCHANGED <<live, user, cxr, b_processing, temp_list, aborted>>
    BY <1>4, <1>5 DEF ids
<1>18. notify_list'[g] = 0 \/ told'[g] \/ window'[g] \/ \E u \in Threads : Sees(u, g)'
    BY <1>4, <1>12
<1>19. /\ b_occupied' = b_occupied /\ notify_list' = notify_list
       /\ b_occupied \in [Guids -> BOOLEAN] /\ notify_list \in [Guids -> Nat]
    BY <1>4, Parts
<1>20. \A h \in Guids \ {g} : /\ notify_list'[h] = notify_list[h]
                              /\ told'[h] = told[h] /\ window'[h] = window[h]
    BY <1>11, <1>19
<1>21. Guarded(Threads, Guids, ListPcs, pc', at', b_occupied')
    BY <1>10, <1>19
<1>22. /\ notify_list'[g] <= MaxPending + 1 /\ (g \in live \/ notify_list'[g] = 0)
       /\ pc'[t] \notin ProcessingPcs \cup ListPcs
    BY <1>7, <1>13, <1>19
<1> QED
    BY <1>1, <1>5, <1>8, <1>11, <1>14, <1>15, <1>16, <1>17, <1>18, <1>19, <1>20, <1>21, <1>22, ListStep

LEMMA EventAppendKeeps ==
    ASSUME IndInv, ~aborted, NEW t \in Events, EventAppend(t)
    PROVE  IndInv'
<1> SUFFICES ASSUME NEW g, g = at[t]
             PROVE  IndInv'
    OBVIOUS
<1>1. /\ t \in Threads /\ "flag" \in PlacesOf(t) \ {"idle"}
      /\ pc[t] = "list" /\ pc[t] \notin ProcessingPcs /\ pc[t] \in ListPcs
      /\ "flag" \notin ProcessingPcs /\ "flag" \in ListPcs
    BY DEF Threads, PlacesOf, ProcessingPcs, ListPcs, EventAppend
<1>2. at[t] \in Guids /\ at[t] \in live
    BY <1>1, Parts, Places DEF Alive
<1>4. UNCHANGED <<live, ids, b_processing, b_occupied, at, temp_list, aborted>>
    BY DEF EventAppend
<1>5. OneMoves(t) /\ pc'[t] = "flag" /\ at'[t] = at[t]
    BY <1>1, <1>4, Parts, GotoOne DEF EventAppend
<1>6. \A u \in Threads \ {t} : pc'[u] = pc[u] /\ at'[u] = at[u]
    BY <1>5 DEF OneMoves
<1>7. pc'[t] \notin ProcessingPcs /\ pc'[t] \in ListPcs
    BY <1>1, <1>5
<1>8. Guarded(Threads, Guids, ProcessingPcs, pc', at', b_processing)
    <2>1. Guarded(Threads, Guids, ProcessingPcs, pc, at, b_processing) /\ t \in Threads
        BY <1>1, Parts
    <2>2. pc[t] \notin ProcessingPcs /\ pc'[t] \notin ProcessingPcs
        BY <1>1, <1>5, <1>7
    <2> QED BY <1>6, <2>1, <2>2, FlagOut
<1>10. Guarded(Threads, Guids, ListPcs, pc', at', b_occupied)
    <2>1. Guarded(Threads, Guids, ListPcs, pc, at, b_occupied) /\ t \in Threads
        BY <1>1, Parts
    <2>2. pc[t] \in ListPcs /\ pc'[t] \in ListPcs /\ at'[t] = at[t]
        BY <1>1, <1>5, <1>7
    <2> QED BY <1>6, <2>1, <2>2, FlagIn
<1>11. /\ told' \in [Guids -> BOOLEAN] /\ window' \in [Guids -> BOOLEAN]
       /\ \A h \in Guids \ {g} : told'[h] = told[h] /\ window'[h] = window[h]
       /\ RpcHasRead(g) => window'[g]
    <2>1. window' = [window EXCEPT ![g] = @ \/ RpcHasRead(g)] /\ told' = [told EXCEPT ![g] = FALSE]
        BY DEF EventAppend
    <2>2. RpcHasRead(g) \in BOOLEAN /\ window[g] \in BOOLEAN
        BY <1>2, Parts DEF RpcHasRead
    <2> QED BY <1>2, <2>1, <2>2, Parts
<1>12. /\ notify_list' \in [Guids -> Nat] /\ notify_list'[g] <= MaxPending
       /\ \A h \in Guids \ {g} : notify_list'[h] = notify_list[h]
       /\ notify_list'[g] <= MaxPending + 1
    <2>1. notify_list[g] \in Nat /\ MaxPending \in Nat
        BY <1>2, Parts
    <2>2. ~(notify_list[g] >= MaxPending) /\ notify_list' = [notify_list EXCEPT ![g] = @ + 1]
        BY DEF EventAppend, ListFull
    <2> QED BY <1>2, <2>1, <2>2, Parts
<1>13. window'[g] \/ \E u \in Threads : Sees(u, g)'
    <2>1. CASE ~b_processing[g]
        <3>1. Sees(t, g)'
            BY <1>4, <1>5, <2>1 DEF Sees
        <3> QED BY <1>1, <3>1
    <2>2. CASE b_processing[g]
        <3>1. PICK u \in Threads : at[u] = g /\ pc[u] \in ProcessingPcs
            BY <1>2, <2>2, Parts DEF Guarded
        <3>2. u # t /\ u \in Rpcs
            BY <1>1, <3>1, Parts DEF Roles
        <3>3. CASE pc[u] = "put"
            BY <1>11, <3>1, <3>2, <3>3 DEF RpcHasRead
        <3>4. CASE pc[u] # "put"
            <4>1. Sees(u, g)'
                BY <1>4, <1>6, <3>1, <3>2, <3>4 DEF Sees, ProcessingPcs
            <4> QED BY <4>1
        <3> QED BY <3>3, <3>4
    <2> QED BY <2>1, <2>2
<1>14. pc'[t] # "threw" /\ pc[t] # "idle"
    BY <1>1, <1>5
<1>15. g \in Guids /\ at[t] = g /\ g \in live /\ at'[t] = g
    BY <1>2, <1>5
<1>16. \A u \in Threads : pc'[u] = "full" /\ at'[u] = g => notify_list'[g] <= MaxPending
    BY <1>12
<1>17. at'[t] \in {g, NoGuid} /\ UNCHANGED <<live, user, cxr, b_processing, temp_list, aborted>>
    BY <1>4, <1>15 DEF ids
<1>18. notify_list'[g] = 0 \/ told'[g] \/ window'[g] \/ \E u \in Threads : Sees(u, g)'
    BY <1>13
<1>19. b_occupied' = b_occupied /\ b_occupied \in [Guids -> BOOLEAN]
    BY <1>4, Parts
<1>20. \A h \in Guids \ {g} : /\ notify_list'[h] = notify_list[h]
                              /\ told'[h] = told[h] /\ window'[h] = window[h]
    BY <1>11, <1>12
<1>21. Guarded(Threads, Guids, ListPcs, pc', at', b_occupied')
    BY <1>10, <1>19
<1>22. /\ pc'[t] \in ProcessingPcs \cup ListPcs => g \in live
       /\ g \in live \/ notify_list'[g] = 0
    BY <1>15
<1>23. OneMoves(t)
    BY <1>5
<1> QED
    BY <1>1, <1>8, <1>11, <1>12, <1>14, <1>15, <1>16, <1>17, <1>18, <1>19, <1>20, <1>21, <1>22, <1>23, ListStep


-----------------------------------------------------------------------------
(***************************************************************************)
(* Steps that change the table                                             *)
(***************************************************************************)

\* A handle is erased by a remover, under g_lock or not.
LEMMA EraseStep ==
    ASSUME IndInv, ~aborted, NEW t \in Threads, NEW g \in Guids, at[t] = g, pc[t] \in RemovePcs,
           OneMoves(t), pc'[t] \in {"idle", "threw"}, EraseHandle(g),
           UNCHANGED <<user, b_processing, b_occupied, temp_list>>, aborted' \in BOOLEAN
    PROVE  Typed' /\ Roles' /\ Locks' /\ TagsDiffer' /\ Pending' /\ Announced'
<1>1. /\ \A u \in Threads \ {t} : pc'[u] = pc[u] /\ at'[u] = at[u]
      /\ pc[t] \notin ProcessingPcs /\ pc'[t] \notin ProcessingPcs
      /\ pc[t] \notin ListPcs /\ pc'[t] \notin ListPcs /\ pc'[t] # "full"
    BY DEF OneMoves, ProcessingPcs, ListPcs, RemovePcs
<1>2. live' = live \ {g} /\ cxr' \in [Guids -> 0..MaxCxr]
      /\ \A h \in Guids \ {g} : cxr'[h] = cxr[h]
    BY Parts, HandlesAssumption DEF EraseHandle
<1>3. /\ notify_list' \in [Guids -> Nat] /\ notify_list'[g] = 0
      /\ \A h \in Guids \ {g} : notify_list'[h] = notify_list[h]
    BY Parts DEF EraseHandle
<1>4. /\ told' \in [Guids -> BOOLEAN] /\ window' \in [Guids -> BOOLEAN]
      /\ \A h \in Guids \ {g} : told'[h] = told[h] /\ window'[h] = window[h]
    <2>1. told' \in [Guids -> BOOLEAN] /\ \A h \in Guids \ {g} : told'[h] = told[h]
        BY Parts DEF EraseHandle
    <2>2. window' \in [Guids -> BOOLEAN] /\ \A h \in Guids \ {g} : window'[h] = window[h]
        BY Parts DEF EraseHandle
    <2> QED BY <2>1, <2>2
<1>5. Typed' /\ Roles'
    <2>1. live' \subseteq Guids /\ \A h \in live' : cxr'[h] > 0
        BY <1>2, Parts
    <2> QED BY <1>2, <1>3, <1>4, <2>1, Parts, TypedStep
<1>6. Locks'
    <2>1. Guarded(Threads, Guids, ProcessingPcs, pc', at', b_processing)
        BY <1>1, Parts, FlagOut
    <2>2. Guarded(Threads, Guids, ListPcs, pc', at', b_occupied)
        BY <1>1, Parts, FlagOut
    <2> QED BY <2>1, <2>2 DEF Locks
<1>7. TagsDiffer'
    BY <1>2, Parts DEF TagsDiffer
<1>8. Pending'
    <2>1. MaxPending \in Nat /\ \A h \in Guids : notify_list[h] <= MaxPending + 1
        BY Parts DEF Pending, PendingBounded
    <2>2. \A h \in Guids : notify_list'[h] <= MaxPending + 1
        BY <1>3, <2>1
    <2>3. ASSUME NEW u \in Threads, pc'[u] = "full" PROVE notify_list'[at'[u]] <= MaxPending
        <3>1. u # t /\ pc[u] = "full" /\ at'[u] = at[u]
            BY <1>1, <2>3
        <3>2. at[u] \in Guids /\ notify_list[at[u]] <= MaxPending
            BY <3>1, Parts, Places DEF Pending
        <3> QED BY <1>3, <2>1, <3>1, <3>2
    <2> QED BY <2>2, <2>3 DEF Pending, PendingBounded
<1>9. Announced'
    <2> SUFFICES ASSUME NEW h \in live, h # g
                 PROVE  notify_list'[h] = 0 \/ told'[h] \/ window'[h] \/ \E u \in Threads : Sees(u, h)'
        BY <1>2, <1>5, AnnouncedNext
    <2>1. h \in Guids
        BY Parts
    <2>2. notify_list[h] = 0 \/ told[h] \/ window[h] \/ \E u \in Threads : Sees(u, h)
        BY Parts, AnnouncedBySees DEF IndInv
    <2>3. \A u \in Threads : Sees(u, h) => Sees(u, h)'
        BY <1>1 DEF Sees
    <2> QED BY <1>3, <1>4, <2>1, <2>2, <2>3
<1> QED
    BY <1>5, <1>6, <1>7, <1>8, <1>9

\* A pass under g_lock: a session is erased only when nobody works on it.
LEMMA RemoveKeeps ==
    ASSUME IndInv, ~aborted, NEW t \in Threads, Remove(t)
    PROVE  IndInv'
<1> SUFFICES ASSUME NEW g, g = at[t]
             PROVE  IndInv'
    OBVIOUS
<1>1. pc[t] = "remove" /\ pc[t] \in RemovePcs /\ "look" \in PlacesOf(t) \ {"idle"}
    BY DEF Remove, RemovePcs, PlacesOf
<1>2. g \in Guids
    BY <1>1, Parts, Places
<1>3. UNCHANGED <<user, b_processing, b_occupied, temp_list, aborted>>
    BY DEF Remove
<1>4. CASE RemoveGivesUp(g) /\ Leave(t) /\ KeepHandles
    <2>1. OneMoves(t) /\ pc'[t] = "idle"
        BY <1>4, Parts, LeaveOne
    <2> QED BY <1>1, <1>3, <1>4, <2>1, Parts, BystanderStep DEF KeepHandles, ids
<1>5. CASE Goto(t, "look") /\ UNCHANGED at /\ KeepHandles
    <2>1. OneMoves(t) /\ pc'[t] = "look"
        BY <1>1, <1>5, Parts, GotoOne
    <2> QED BY <1>1, <1>3, <1>5, <2>1, Parts, BystanderStep DEF KeepHandles, ids
<1>6. CASE ~RemoveGivesUp(g) /\ ~b_occupied[g] /\ EraseHandle(g) /\ Leave(t)
    <2>1. OneMoves(t) /\ pc'[t] = "idle"
        BY <1>6, Parts, LeaveOne
    <2>2. Typed' /\ Roles' /\ Locks' /\ TagsDiffer' /\ Pending' /\ Announced'
        BY <1>1, <1>2, <1>3, <1>6, <2>1, Parts, EraseStep
    <2>3. \A u \in Threads : at[u] = g => pc[u] \notin ProcessingPcs /\ pc[u] \notin ListPcs
        BY <1>2, <1>6, Parts, FlagFree DEF RemoveGivesUp
    <2>4. \A u \in Threads \ {t} : pc'[u] = pc[u] /\ at'[u] = at[u]
        BY <2>1 DEF OneMoves
    <2>5. pc'[t] \notin ProcessingPcs \cup ListPcs /\ pc'[t] # "threw"
        BY <2>1 DEF ProcessingPcs, ListPcs
    <2>6. live' = live \ {g} /\ notify_list' = [notify_list EXCEPT ![g] = 0]
        BY <1>6 DEF EraseHandle
    <2>7. Alive'
        <3>1. \A u \in Threads : pc'[u] # "threw"
            BY <2>4, <2>5, Parts DEF Alive
        <3>2. \A u \in Threads : pc'[u] \in ProcessingPcs \cup ListPcs => at'[u] \in live'
            BY <2>3, <2>4, <2>5, <2>6, Parts DEF Alive
        <3>3. \A h \in Guids : h \in live' \/ notify_list'[h] = 0
            BY <2>6, Parts DEF Alive
        <3> QED BY <3>1, <3>2, <3>3 DEF Alive
    <2>8. HeldIsLive'
        BY <1>3, <2>7 DEF Alive, HeldIsLive, Processing, AtList
    <2> QED BY <2>2, <2>7, <2>8 DEF IndInv
<1> QED
    BY <1>4, <1>5, <1>6 DEF Remove

\* The pass that goes on without g_lock erases whatever is there and ends the process.
LEMMA EraseUnlockedKeeps ==
    ASSUME IndInv, ~aborted, NEW t \in Threads, EraseUnlocked(t)
    PROVE  IndInv'
<1> SUFFICES ASSUME NEW g, g = at[t]
             PROVE  IndInv'
    OBVIOUS
<1>1. pc[t] = "erase" /\ pc[t] \in RemovePcs /\ "threw" \in PlacesOf(t) \ {"idle"}
    BY DEF EraseUnlocked, RemovePcs, PlacesOf
<1>2. g \in Guids
    BY <1>1, Parts, Places
<1>3. EraseHandle(g) /\ aborted' = TRUE /\ UNCHANGED <<user, b_processing, b_occupied, at, temp_list>>
    BY DEF EraseUnlocked
<1>4. OneMoves(t) /\ pc'[t] = "threw" /\ at'[t] = g
    BY <1>1, <1>3, Parts, GotoOne DEF EraseUnlocked
<1>5. Typed' /\ Roles' /\ Locks' /\ TagsDiffer' /\ Pending' /\ Announced'
    BY <1>1, <1>2, <1>3, <1>4, Parts, EraseStep
<1>6. Alive'
    BY <1>3 DEF Alive
<1>7. HeldIsLive'
    <2>1. \A u \in Threads \ {t} : pc'[u] = pc[u] /\ at'[u] = at[u]
        BY <1>4 DEF OneMoves
    <2>2. live' = live \ {g}
        BY <1>3 DEF EraseHandle
    <2>3. ASSUME NEW h \in Guids, h # g, NEW u \in Threads, at'[u] = h,
                 pc'[u] \in ProcessingPcs \cup ListPcs
          PROVE  h \in live'
        <3>1. pc[u] \in ProcessingPcs \cup ListPcs /\ at[u] = h
            BY <1>4, <2>1, <2>3
        <3> QED BY <2>2, <2>3, <3>1, Parts DEF Alive
    <2> QED BY <1>4, <2>3 DEF HeldIsLive, Processing, AtList
<1> QED
    BY <1>5, <1>6, <1>7 DEF IndInv

\* The first gap among the session indices of a user is one of them.
LEMMA AllocCxrIsFree ==
    ASSUME NEW u, FreeCxr(u) # {}
    PROVE  AllocCxr(u) \in FreeCxr(u)
<1>1. FreeCxr(u) \subseteq Nat
    BY HandlesAssumption DEF FreeCxr
<1>2. PICK i \in FreeCxr(u) : \A j \in FreeCxr(u) : ~(j < i)
    <2>1. \E i \in FreeCxr(u) : \A j \in FreeCxr(u) : <<j, i>> \notin OpToRel(<, Nat)
        BY <1>1, WFMin, NatLessThanWellFounded, Zenon
    <2> QED BY <1>1, <2>1, Zenon DEF OpToRel
<1>3. \A j \in FreeCxr(u) : i <= j
    BY <1>1, <1>2
<1> QED
    BY <1>3 DEF AllocCxr

\* A session is opened with a GUID that nobody knows and a session index that no other
\* session of the user has.
LEMMA CreateHandleKeeps ==
    ASSUME IndInv, ~aborted, NEW t \in Rpcs, NEW u \in Users, NEW g \in Guids, CreateHandle(t, u, g)
    PROVE  IndInv'
<1>1. PICK i : i = AllocCxr(u)
    OBVIOUS
<1>2. i \in FreeCxr(u)
    BY <1>1, AllocCxrIsFree DEF CreateHandle, MayConnect
<1>3. i \in 1..MaxCxr /\ \A h \in live : user[h] = u => cxr[h] # i
    BY <1>2 DEF FreeCxr, UserHandles
<1>4. /\ live' = live \cup {g} /\ user' = [user EXCEPT ![g] = u] /\ cxr' = [cxr EXCEPT ![g] = i]
      /\ UNCHANGED <<b_processing, b_occupied, notify_list, pc, at, temp_list, ghost, aborted>>
      /\ g \notin live
    BY <1>1 DEF CreateHandle, Fresh
<1>5. /\ user' \in [Guids -> Users] /\ cxr' \in [Guids -> 0..MaxCxr] /\ live' \subseteq Guids
      /\ user'[g] = u /\ cxr'[g] = i
      /\ \A h \in live : user'[h] = user[h] /\ cxr'[h] = cxr[h] /\ h # g
    BY <1>3, <1>4, Parts, HandlesAssumption
<1>6. Typed'
    <2>1. \A h \in live' : cxr'[h] > 0
        BY <1>3, <1>4, <1>5, Parts, HandlesAssumption
    <2> QED BY <1>4, <1>5, <2>1, Parts DEF Typed, TypeOK, ghost
<1>7. TagsDiffer'
    <2>1. ASSUME NEW h \in live', NEW k \in live', h # k, user'[h] = user'[k], cxr'[h] = cxr'[k]
          PROVE  FALSE
        <3>1. CASE h \in live /\ k \in live
            BY <1>5, <2>1, <3>1, Parts DEF TagsDiffer
        <3>2. CASE h = g
            BY <1>3, <1>4, <1>5, <2>1, <3>2
        <3>3. CASE k = g
            BY <1>3, <1>4, <1>5, <2>1, <3>3
        <3> QED BY <1>4, <3>1, <3>2, <3>3
    <2> QED BY <2>1 DEF TagsDiffer
<1>8. Roles' /\ Locks' /\ Pending' /\ Alive'
    BY <1>4, Parts DEF IndInv, Roles, Locks, Pending, PendingBounded, Alive
<1>9. HeldIsLive'
    BY <1>4, <1>8 DEF Alive, HeldIsLive, Processing, AtList
<1>10. Announced'
    <2> SUFFICES ASSUME NEW h \in live'
                 PROVE  notify_list'[h] = 0 \/ told'[h] \/ window'[h] \/ \E v \in Threads : Sees(v, h)'
        BY <1>8, AnnouncedNext
    <2>1. CASE h = g
        BY <1>4, <2>1, Parts DEF Alive
    <2>2. CASE h \in live
        <3>1. notify_list[h] = 0 \/ told[h] \/ window[h] \/ \E v \in Threads : Sees(v, h)
            BY <2>2, Parts, AnnouncedBySees DEF IndInv
        <3>2. \A v \in Threads : Sees(v, h) => Sees(v, h)'
            BY <1>4 DEF Sees
        <3> QED BY <1>4, <3>1, <3>2 DEF ghost
    <2> QED BY <1>4, <2>1, <2>2
<1> QED
    BY <1>6, <1>7, <1>8, <1>9, <1>10 DEF IndInv

-----------------------------------------------------------------------------
LEMMA InitHolds == Init => IndInv
<1> SUFFICES ASSUME Init PROVE IndInv
    OBVIOUS
<1>1. (CHOOSE u \in Users : TRUE) \in Users
    BY HandlesAssumption
<1>2. /\ \A t \in Threads : pc[t] = "idle" /\ at[t] = NoGuid
      /\ \A g \in Guids : ~b_processing[g] /\ ~b_occupied[g] /\ notify_list[g] = 0
      /\ live = {}
    BY DEF Init
<1>3. "idle" \notin ProcessingPcs \cup ListPcs \cup RemovePcs
    BY DEF ProcessingPcs, ListPcs, RemovePcs
<1>4. Typed
    <2>1. user \in [Guids -> Users] /\ cxr \in [Guids -> 0..MaxCxr]
        BY <1>1, HandlesAssumption DEF Init
    <2>2. pc \in [Threads -> AllPcs] /\ at \in [Threads -> Guids \cup {NoGuid}]
        BY DEF Init, AllPcs
    <2>3. /\ b_processing \in [Guids -> BOOLEAN] /\ b_occupied \in [Guids -> BOOLEAN]
          /\ told \in [Guids -> BOOLEAN] /\ window \in [Guids -> BOOLEAN]
          /\ notify_list \in [Guids -> Nat] /\ aborted \in BOOLEAN /\ temp_list = {}
        BY DEF Init
    <2> QED BY <1>2, <2>1, <2>2, <2>3 DEF Typed, TypeOK, AllPcs
<1>5. Roles
    BY <1>2, <1>3 DEF Roles
<1>6. Locks
    BY <1>2, <1>3 DEF Locks, Guarded
<1>7. TagsDiffer /\ Announced
    BY <1>2 DEF TagsDiffer, Announced
<1>8. Pending
    BY <1>2, HandlesAssumption DEF Pending, PendingBounded
<1>9. Alive
    BY <1>2, <1>3 DEF Alive
<1>10. HeldIsLive
    BY <1>2, <1>3 DEF HeldIsLive, Processing, AtList
<1> QED
    BY <1>4, <1>5, <1>6, <1>7, <1>8, <1>9, <1>10 DEF IndInv

LEMMA NextHolds == IndInv /\ [Next]_vars => IndInv'
<1> SUFFICES ASSUME IndInv, [Next]_vars PROVE IndInv'
    OBVIOUS
<1>1. CASE UNCHANGED vars
    BY <1>1 DEF vars, IndInv, Typed, TypeOK, Roles, Locks, TagsDiffer, Pending, PendingBounded,
                Alive, HeldIsLive, Processing, AtList, Announced
<1>2. CASE ~aborted /\ Next
    <2>1. ~aborted
        BY <1>2
    <2>2. CASE \E t \in Rpcs, u \in Users, g \in Guids : CreateHandle(t, u, g)
        BY <2>1, <2>2, CreateHandleKeeps
    <2>3. CASE \E t \in Rpcs, g \in Guids : RpcGet(t, g)
        BY <2>1, <2>3, RpcGetKeeps
    <2>4. CASE \E t \in Rpcs, g \in Guids : Disconnect(t, g)
        BY <2>1, <2>4, DisconnectKeeps
    <2>5. CASE \E t \in Rpcs : RpcStep(t)
        <3>1. PICK t \in Rpcs : RpcStep(t)
            BY <2>5
        <3>2. CASE RpcDenied(t) \/ RpcExpired(t)
            BY <2>1, <3>2, RpcRefusedKeeps
        <3>3. CASE RpcStart(t) \/ RpcRead(t)
            BY <2>1, <3>3, RpcGoesOn
        <3>4. CASE DrainLock(t)
            BY <2>1, <3>4, TakeListKeeps
        <3>5. CASE DrainPop(t)
            BY <2>1, <3>5, DrainPopKeeps
        <3>6. CASE DrainReinsert(t)
            BY <2>1, <3>6, DrainReinsertKeeps
        <3>7. CASE RpcPut(t)
            BY <2>1, <3>7, RpcPutKeeps
        <3> QED BY <3>1, <3>2, <3>3, <3>4, <3>5, <3>6, <3>7 DEF RpcStep
    <2>6. CASE \E t \in Events, g \in Guids : EventGet(t, g)
        BY <2>1, <2>6, TakeListKeeps
    <2>7. CASE \E t \in Events : EventStep(t)
        <3>1. PICK t \in Events : EventStep(t)
            BY <2>7
        <3>2. CASE EventAppend(t)
            BY <2>1, <3>2, EventAppendKeeps
        <3>3. CASE EventDropped(t) \/ EventMerged(t) \/ EventFlag(t) \/ EventPut(t)
            BY <2>1, <3>3, EventGoesOn
        <3> QED BY <3>1, <3>2, <3>3 DEF EventStep
    <2>8. CASE \E t \in Rpcs \cup Events : Wakeup(t)
        BY <2>1, <2>8, WakeupKeeps
    <2>9. CASE ScanCollect
        BY <2>9, ScanCollectKeeps
    <2>10. CASE \E g \in Guids : ScanRemove(g)
        BY <2>1, <2>10, ScanRemoveKeeps
    <2>11. CASE \E t \in Threads : Remove(t) \/ LookUnlocked(t) \/ EraseUnlocked(t)
        BY <2>1, <2>11, RemoveKeeps, LookUnlockedKeeps, EraseUnlockedKeeps
    <2>12. CASE Terminated
        BY <1>1, <2>12 DEF Terminated
    <2> QED
        BY <1>2, <2>2, <2>3, <2>4, <2>5, <2>6, <2>7, <2>8, <2>9, <2>10, <2>11, <2>12 DEF Next
<1>3. CASE aborted /\ Next
    BY <1>1, <1>3 DEF Next, Terminated
<1> QED
    BY <1>1, <1>2, <1>3

LEMMA Inductive == Spec => []IndInv
    BY InitHolds, NextHolds, PTL DEF Spec

-----------------------------------------------------------------------------
\* The table of sessions is sound: b_processing and b_occupied, which are polled and not
\* waited for, exclude like locks and tell exactly whether somebody is in between; two
\* sessions of a user never share the session index that AllocCxr gives out; no
\* notify_list grows past its limit by more than the one notification put back.
THEOREM SessionsSoundCorrect == Spec => []SessionsSound
<1>1. IndInv => SessionsSound
    <2> SUFFICES ASSUME IndInv PROVE SessionsSound
        OBVIOUS
    <2>1. FlagsTellHolder
        BY Parts, FlagCounts DEF FlagsTellHolder, Processing, AtList
    <2> QED
        BY <2>1 DEF IndInv, Typed, Pending, SessionsSound
<1> QED
    BY <1>1, Inductive, PTL

\* No RPC and no event thread has the handle of its session erased under it by
\* emsmdb_interface_remove_handle, except by a remover that had to wait for the
\* notify_list and goes on without g_lock: that one has thrown.
THEOREM HeldIsLiveCorrect == Spec => []HeldIsLive
<1>1. IndInv => HeldIsLive
    BY DEF IndInv
<1> QED
    BY <1>1, Inductive, PTL

\* A queued notification is announced, or a thread is still going to look at the list or
\* to wake up the client, unless it came in the window between an RPC's last look at the
\* list and its put_handle_data, or behind an RPC that was refused.
THEOREM AnnouncedCorrect == Spec => []Announced
<1>1. IndInv => Announced
    BY DEF IndInv
<1> QED
    BY <1>1, Inductive, PTL

=============================================================================
