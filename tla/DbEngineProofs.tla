--------------------------- MODULE DbEngineProofs ---------------------------
(***************************************************************************)
(* Proofs about the store's table of open mailboxes for any number of      *)
(* directories, RPC threads and search threads.                            *)
(***************************************************************************)
EXTENDS DbEngine, FiniteSetTheorems, TLAPS

\* The states in which a thread counts in reference, those in which it may touch the
\* base, and those in which it has a pointer to one.
CountStates == ConnStates \cup {"open"}
UseStates == ConnStates \cup LockStates \cup {"open"}
BaseStates == UseStates \cup {"gap"}
FreeStates == {"idle", "get", "unload", "unloading", "towait", "wait", "next"}
RpcStates == UseStates \cup {"gap", "idle", "get", "unload", "unloading"}
PopulStates == ConnStates \cup {"wr", "open", "gap", "get", "towait", "wait", "next"}

Users(b) == At(b, CountStates)

\* TypeOK but for the bound of reference, which Counted gives.
Typed ==
    /\ g_hash_table \in [Dirs -> Bases \cup {NoBase}]
    /\ hashlock \in Rpcs \cup {Expiry, Nobody}
    /\ left \subseteq InTable /\ (left # {} <=> hashlock = Expiry)
    /\ reference \in [Bases -> Nat]
    /\ sqlite_lock \subseteq Bases /\ aged \subseteq InTable
    /\ has \in [Bases -> SUBSET Kinds] /\ held \in [Dirs -> SUBSET Kinds]
    /\ lost \subseteq Dirs
    /\ pc \in [Threads -> BaseStates \cup FreeStates]
    /\ base \in [Threads -> Bases \cup {NoBase}] /\ dir \in [Threads -> Dirs]
    /\ reload \in [Populators -> {"no", "due", "now"}]
    /\ g_populating_list \in Seq(Dirs) /\ Len(g_populating_list) <= MaxSearches
    /\ lostwake \in BOOLEAN

\* RefCount, of the bases that have been freed too.
Counted == \A b \in Bases : reference[b] = Cardinality(Users(b))

\* A directory has a base of its own; a thread has a pointer exactly where its code has
\* one, and to the base of its directory unless it is in the gap and the base is freed.
Placed ==
    /\ \A d, e \in Dirs : g_hash_table[d] = g_hash_table[e] /\ g_hash_table[d] # NoBase => d = e
    /\ \A t \in Threads : base[t] # NoBase <=> pc[t] \in BaseStates
    /\ ConnIsLive
    /\ \A t \in Threads : base[t] \in InTable => g_hash_table[dir[t]] = base[t]

\* RPC threads and search threads have their own states, and who is in the middle of
\* db_engine_unload_db has g_hash_lock and a base to unload.
Locked ==
    /\ \A t \in Rpcs : pc[t] \in RpcStates
    /\ \A t \in Populators : pc[t] \in PopulStates
    /\ \A t \in Threads : pc[t] = "unloading" <=> hashlock = t
    /\ \A t \in Threads : pc[t] = "unloading" => g_hash_table[dir[t]] # NoBase

\* sqlite_lock is held by exactly one thread, the one that opens the base.
Opening ==
    /\ \A b \in Bases : b \in sqlite_lock <=> At(b, {"open"}) # {}
    /\ \A t, u \in Threads : pc[t] = "open" /\ pc[u] = "open" /\ base[t] = base[u] => t = u
    /\ OpenedFirst

\* What clients hold is there, and a base that was freed has nothing left.
Kept ==
    /\ HandlesSurvive
    /\ \A b \in Bases \ InTable : has[b] = {}

IndInv == Typed /\ Counted /\ Placed /\ Locked /\ Opening /\ Kept

-----------------------------------------------------------------------------
\* An arbitrary directory is one.
LEMMA AnyDirIsDir == AnyDir \in Dirs
    BY DbAssumption DEF AnyDir

\* The end of an RPC or a search.
LEMMA ReturnType ==
    ASSUME Typed, NEW t \in Threads, Return(t)
    PROVE  /\ pc' \in [Threads -> BaseStates \cup FreeStates]
           /\ base' \in [Threads -> Bases \cup {NoBase}] /\ dir' \in [Threads -> Dirs]
           /\ reload' \in [Populators -> {"no", "due", "now"}]
    BY AnyDirIsDir DEF Typed, Return, Goto, FreeStates

\* The base that GetCreates takes.
LEMMA FreshBase ==
    ASSUME Typed, NEW t \in Threads, GetCreates(t)
    PROVE  \E b \in Bases :
               /\ Fresh(b) /\ b # NoBase
               /\ g_hash_table' = [g_hash_table EXCEPT ![dir[t]] = b]
               /\ reference' = [reference EXCEPT ![b] = 1]
               /\ sqlite_lock' = sqlite_lock \cup {b}
               /\ base' = [base EXCEPT ![t] = b]
               /\ Goto(t, "open")
               /\ g_hash_table[dir[t]] = NoBase /\ hashlock = Nobody /\ pc[t] = "get"
               /\ UNCHANGED <<hashlock, left, aged, has, clientvars, dir, reload, searchvars>>
<1> DEFINE b == CHOOSE b \in Bases : Fresh(b)
<1>1. b \in Bases /\ Fresh(b)
    BY DEF GetCreates
<1> QED
    BY <1>1, DbAssumption DEF GetCreates

\* What a new entry of the table, and an erased one, make of InTable.
LEMMA TableGrows ==
    ASSUME Typed, NEW d \in Dirs, NEW b \in Bases, g_hash_table[d] = NoBase,
           g_hash_table' = [g_hash_table EXCEPT ![d] = b]
    PROVE  InTable' = InTable \cup {b}
<1>1. \A e \in Dirs : g_hash_table'[e] = IF e = d THEN b ELSE g_hash_table[e]
    BY DEF Typed
<1> QED
    BY <1>1, DbAssumption DEF InTable

LEMMA TableShrinks ==
    ASSUME Typed, NEW b \in Bases, Erase(b)
    PROVE  InTable' = InTable \ {b}
    BY DbAssumption DEF InTable, Erase, Typed

\* The threads that count in the reference of a base are finitely many.
LEMMA UsersFinite ==
    ASSUME NEW b
    PROVE  /\ IsFiniteSet(Users(b)) /\ Cardinality(Users(b)) \in Nat
           /\ Cardinality(Users(b)) \in 0..Cardinality(Threads)
           /\ Cardinality(Users(b)) = 0 <=> Users(b) = {}
<1>1. Users(b) \in SUBSET Threads /\ IsFiniteSet(Threads)
    BY DbAssumption DEF Users, At
<1>2. /\ IsFiniteSet(Users(b)) /\ Cardinality(Users(b)) \in Nat
      /\ Cardinality(Threads) \in Nat /\ Cardinality(Users(b)) <= Cardinality(Threads)
    BY <1>1, FS_Subset, FS_CardinalityType
<1>3. Cardinality(Users(b)) = 0 <=> Users(b) = {}
    BY <1>2, FS_EmptySet
<1> QED
    BY <1>2, <1>3

\* A thread that counts is counted.
LEMMA UserCounts ==
    ASSUME Typed, Counted, Placed, NEW t \in Threads, pc[t] \in CountStates
    PROVE  base[t] \in Bases /\ reference[base[t]] \in Nat \ {0}
<1>1. base[t] \in Bases
    BY DEF Typed, Placed, BaseStates, UseStates, CountStates
<1>2. t \in Users(base[t])
    BY DEF Users, At
<1>3. Cardinality(Users(base[t])) \in Nat \ {0}
    BY <1>2, UsersFinite
<1> QED
    BY <1>1, <1>3 DEF Counted

\* When one thread moves, the count of a base changes by that thread alone.
LEMMA UsersChange ==
    ASSUME NEW t \in Threads, NEW b,
           \A u \in Threads \ {t} :
               base'[u] = base[u] /\ (pc'[u] \in CountStates <=> pc[u] \in CountStates)
    PROVE  /\ t \notin Users(b) /\ t \notin Users(b)' => Users(b)' = Users(b)
           /\ t \in Users(b) /\ t \in Users(b)' => Users(b)' = Users(b)
           /\ t \in Users(b) /\ t \notin Users(b)' =>
                  Cardinality(Users(b)') = Cardinality(Users(b)) - 1
           /\ t \notin Users(b) /\ t \in Users(b)' =>
                  Cardinality(Users(b)') = Cardinality(Users(b)) + 1
           /\ t \in Users(b) <=> base[t] = b /\ pc[t] \in CountStates
           /\ t \in Users(b)' <=> base'[t] = b /\ pc'[t] \in CountStates
<1>1. /\ t \in Users(b) <=> base[t] = b /\ pc[t] \in CountStates
      /\ t \in Users(b)' <=> base'[t] = b /\ pc'[t] \in CountStates
    BY DEF Users, At
<1>2. \A u \in Threads \ {t} : u \in Users(b)' <=> u \in Users(b)
    BY DEF Users, At
<1>3. Users(b) \subseteq Threads /\ Users(b)' \subseteq Threads
    BY DEF Users, At
<1>4. ASSUME t \in Users(b) <=> t \in Users(b)' PROVE Users(b)' = Users(b)
    BY <1>2, <1>3, <1>4
<1>5. ASSUME t \in Users(b), t \notin Users(b)'
      PROVE  Cardinality(Users(b)') = Cardinality(Users(b)) - 1
    <2>1. Users(b)' = Users(b) \ {t}
        BY <1>2, <1>3, <1>5
    <2> QED BY <1>5, <2>1, UsersFinite, FS_RemoveElement
<1>6. ASSUME t \notin Users(b), t \in Users(b)'
      PROVE  Cardinality(Users(b)') = Cardinality(Users(b)) + 1
    <2>1. Users(b)' = Users(b) \cup {t}
        BY <1>2, <1>3, <1>6
    <2> QED BY <1>6, <2>1, UsersFinite, FS_AddElement
<1> QED
    BY <1>1, <1>4, <1>5, <1>6

\* Every variable keeps its type.
LEMMA NextTyped == Typed /\ Counted /\ Placed /\ Locked /\ [Next]_vars => Typed'
<1> SUFFICES ASSUME Typed, Counted, Placed, Locked, [Next]_vars PROVE Typed'
    OBVIOUS
<1> USE DEF tablevars, basevars, clientvars, searchvars
<1>t. ASSUME UNCHANGED <<tablevars, sqlite_lock, aged, has, clientvars>>,
             reference' \in [Bases -> Nat],
             pc' \in [Threads -> BaseStates \cup FreeStates],
             base' \in [Threads -> Bases \cup {NoBase}], dir' \in [Threads -> Dirs],
             reload' \in [Populators -> {"no", "due", "now"}], UNCHANGED searchvars
      PROVE  Typed'
    BY <1>t DEF Typed, InTable
<1>1. ASSUME NEW t \in Threads, Step(t) PROVE Typed'
    <2>b. base[t] # NoBase <=> pc[t] \in BaseStates
        BY DEF Placed
    <2>1. CASE GetFound(t)
        <3>1. reference' \in [Bases -> Nat] /\ base' \in [Threads -> Bases \cup {NoBase}]
            BY <2>1 DEF GetFound, Typed
        <3>2. pc' \in [Threads -> BaseStates \cup FreeStates]
            BY <2>1 DEF GetFound, Typed, Goto, BaseStates, UseStates, ConnStates
        <3> QED BY <1>t, <2>1, <3>1, <3>2 DEF GetFound, Typed
    <2>2. CASE GetCreates(t)
        <3>1. PICK b \in Bases :
               /\ Fresh(b)
               /\ g_hash_table' = [g_hash_table EXCEPT ![dir[t]] = b]
               /\ reference' = [reference EXCEPT ![b] = 1]
               /\ sqlite_lock' = sqlite_lock \cup {b}
               /\ base' = [base EXCEPT ![t] = b]
               /\ Goto(t, "open")
               /\ g_hash_table[dir[t]] = NoBase
               /\ UNCHANGED <<hashlock, left, aged, has, clientvars, dir, reload, searchvars>>
            BY <2>2, FreshBase
        <3>2. InTable' = InTable \cup {b} /\ dir[t] \in Dirs
            BY <3>1, TableGrows DEF Typed
        <3>3. pc' \in [Threads -> BaseStates \cup FreeStates]
            BY <3>1 DEF Typed, Goto, BaseStates, UseStates
        <3> QED BY <3>1, <3>2, <3>3 DEF Typed
    <2>3. CASE GetRefused(t)
        BY <1>t, <2>3, ReturnType DEF GetRefused, Typed
    <2>r. ASSUME pc[t] \in CountStates
          PROVE  [reference EXCEPT ![base[t]] = @ - 1] \in [Bases -> Nat]
        BY <2>r, UserCounts DEF Typed
    <2>4. CASE OpenDone(t)
        <3>1. reference' \in [Bases -> Nat] /\ sqlite_lock' \subseteq Bases
            BY <2>4, <2>r DEF OpenDone, CountStates, Typed
        <3>2. pc' \in [Threads -> BaseStates \cup FreeStates]
            BY <2>4 DEF OpenDone, Typed, Goto, BaseStates
        <3> QED BY <2>4, <3>1, <3>2 DEF OpenDone, Typed, InTable
    <2>5. CASE OpenFails(t)
        <3>1. reference' \in [Bases -> Nat] /\ sqlite_lock' \subseteq Bases
            BY <2>5, <2>r DEF OpenFails, CountStates, Typed
        <3> QED BY <2>5, <3>1, ReturnType DEF OpenFails, Typed, InTable
    <2>6. CASE GapConn(t)
        <3>1. reference' \in [Bases -> Nat]
            BY <2>6 DEF GapConn, Typed, InTable
        <3>2. pc' \in [Threads -> BaseStates \cup FreeStates]
            BY <2>6 DEF GapConn, Typed, Goto, BaseStates, UseStates, ConnStates
        <3> QED BY <1>t, <2>6, <3>1, <3>2 DEF GapConn, Typed
    <2>7. CASE GapDangling(t)
        <3>1. /\ g_hash_table' \in [Dirs -> Bases \cup {NoBase}] /\ hashlock' = Nobody
              /\ left' = {} /\ reference' \in [Bases -> Nat] /\ sqlite_lock' = {} /\ aged' = {}
              /\ has' \in [Bases -> SUBSET Kinds] /\ held' \in [Dirs -> SUBSET Kinds]
              /\ lost' = {} /\ base' \in [Threads -> Bases \cup {NoBase}]
              /\ reload' \in [Populators -> {"no", "due", "now"}]
              /\ g_populating_list' = <<>> /\ lostwake' = FALSE
            BY <2>7 DEF GapDangling
        <3>2. pc' \in [Threads -> BaseStates \cup FreeStates] /\ dir' \in [Threads -> Dirs]
            BY <2>7, AnyDirIsDir DEF GapDangling, IdlePc, FreeStates
        <3>3. Nobody # Expiry /\ Len(<<>>) <= MaxSearches /\ <<>> \in Seq(Dirs)
            BY DbAssumption
        <3> QED BY <3>1, <3>2, <3>3 DEF Typed
    <2>8. CASE ConnOpen(t) \/ ConnFails(t) \/ UseSql(t) \/ LockRd(t) \/ LockWr(t) \/ Unlock(t)
               \/ PopulWait(t) \/ PopulIdle(t)
        <3>1. UNCHANGED <<tablevars, basevars, clientvars, base, dir, reload, searchvars>>
            BY <2>8 DEF ConnOpen, ConnFails, UseSql, LockRd, LockWr, Unlock, PopulWait, PopulIdle
        <3>2. pc' \in [Threads -> BaseStates \cup FreeStates]
            BY <2>8 DEF ConnOpen, ConnFails, UseSql, LockRd, LockWr, Unlock, PopulWait, PopulIdle,
                        Goto, Typed, BaseStates, UseStates, ConnStates, FreeStates
        <3> QED BY <1>t, <3>1, <3>2 DEF Typed
    <2>9. CASE Release(t)
        <3>1. reference' \in [Bases -> Nat]
            BY <2>9, <2>r DEF Release, CountStates, ConnStates
        <3>2. CASE t \in Populators /\ reload[t] = "due"
            <4>1. /\ pc' \in [Threads -> BaseStates \cup FreeStates] /\ dir' = dir
                  /\ base' \in [Threads -> Bases \cup {NoBase}]
                  /\ reload' \in [Populators -> {"no", "due", "now"}]
                BY <2>9, <3>2 DEF Release, Typed, Goto, FreeStates
            <4> QED BY <1>t, <2>9, <3>1, <4>1 DEF Release, Typed
        <3>3. CASE ~(t \in Populators /\ reload[t] = "due")
            BY <1>t, <2>9, <3>1, <3>3, ReturnType DEF Release
        <3> QED BY <3>2, <3>3
    <2>10. ASSUME NEW k \in Kinds, AddObject(t, k) \/ RemoveObject(t, k) PROVE Typed'
        <3>1. has' \in [Bases -> SUBSET Kinds] /\ held' \in [Dirs -> SUBSET Kinds]
              /\ lost' \subseteq Dirs
            <4>1. CASE AddObject(t, k)
                BY <4>1 DEF AddObject, Typed
            <4>2. CASE RemoveObject(t, k)
                BY <4>2 DEF RemoveObject, Typed
            <4> QED BY <2>10, <4>1, <4>2
        <3>2. pc' \in [Threads -> BaseStates \cup FreeStates]
            BY <2>10 DEF AddObject, RemoveObject, Goto, Typed, BaseStates, UseStates, ConnStates
        <3> QED BY <2>10, <3>1, <3>2 DEF AddObject, RemoveObject, Typed, InTable
    <2>11. CASE SetCriteria(t)
        <3>1. reference' \in [Bases -> Nat]
            BY <2>11, <2>r DEF SetCriteria, CountStates, ConnStates
        <3>2. pc' \in [Threads -> BaseStates \cup FreeStates]
            BY <2>11 DEF SetCriteria, Goto, Typed, BaseStates, UseStates, LockStates
        <3> QED BY <1>t, <2>11, <3>1, <3>2 DEF SetCriteria, Typed
    <2>12. CASE Enqueue(t)
        <3>1. /\ g_populating_list' \in Seq(Dirs) /\ Len(g_populating_list') <= MaxSearches
              /\ lostwake' \in BOOLEAN
            BY <2>12, DbAssumption DEF Enqueue, Typed
        <3>2. /\ pc' \in [Threads -> BaseStates \cup FreeStates]
              /\ base' \in [Threads -> Bases \cup {NoBase}] /\ dir' \in [Threads -> Dirs]
            BY <2>12, AnyDirIsDir DEF Enqueue, Typed, FreeStates
        <3> QED BY <2>12, <3>1, <3>2 DEF Enqueue, Typed, InTable
    <2>13. CASE EnqueueNot(t)
        BY <1>t, <2>13, ReturnType DEF EnqueueNot, Typed
    <2>14. CASE PopulTakes(t)
        <3>1. /\ g_populating_list' \in Seq(Dirs) /\ Len(g_populating_list') <= MaxSearches
              /\ Head(g_populating_list) \in Dirs
            BY <2>14, DbAssumption DEF PopulTakes, Typed
        <3>2. lostwake' \in BOOLEAN
            BY <2>14 DEF PopulTakes, Typed
        <3>3. /\ pc' \in [Threads -> BaseStates \cup FreeStates] /\ dir' \in [Threads -> Dirs]
            BY <2>14, <3>1 DEF PopulTakes, Goto, Typed, FreeStates
        <3> QED BY <2>14, <3>1, <3>2, <3>3 DEF PopulTakes, Typed, InTable
    <2>15. CASE PopulDone(t)
        <3>1. /\ pc' \in [Threads -> BaseStates \cup FreeStates]
              /\ reload' \in [Populators -> {"no", "due", "now"}]
            BY <2>15 DEF PopulDone, Goto, Typed, BaseStates, UseStates, ConnStates
        <3> QED BY <1>t, <2>15, <3>1 DEF PopulDone, Typed
    <2>16. CASE PopulReload(t)
        <3>1. has' \in [Bases -> SUBSET Kinds] /\ lost' \subseteq Dirs
            BY <2>16 DEF PopulReload, Typed
        <3>2. pc' \in [Threads -> BaseStates \cup FreeStates]
            BY <2>16 DEF PopulReload, Goto, Typed, BaseStates, UseStates, ConnStates
        <3> QED BY <2>16, <3>1, <3>2 DEF PopulReload, Typed, InTable
    <2>17. CASE UnloadLock(t)
        <3>1. t \in Rpcs /\ left = {} /\ t # Expiry /\ t # Nobody
            BY <2>17, DbAssumption
            DEF UnloadLock, Locked, Typed, Threads, PopulStates, ConnStates
        <3>2. CASE g_hash_table[dir[t]] = NoBase
            BY <1>t, <2>17, <3>2, ReturnType DEF UnloadLock, Typed
        <3>3. CASE g_hash_table[dir[t]] # NoBase
            <4>1. pc' \in [Threads -> BaseStates \cup FreeStates] /\ hashlock' = t
                BY <2>17, <3>3 DEF UnloadLock, Goto, Typed, FreeStates
            <4> QED BY <2>17, <3>1, <3>3, <4>1, DbAssumption DEF UnloadLock, Typed, InTable
        <3> QED BY <3>2, <3>3
    <2>18. CASE UnloadTry(t)
        <3>1. /\ hashlock = t /\ t \in Rpcs /\ left = {} /\ hashlock' = Nobody /\ Nobody # Expiry
              /\ left' = left
            BY <2>18, DbAssumption
            DEF UnloadTry, Locked, Typed, Threads, PopulStates, ConnStates
        <3>2. /\ pc' \in [Threads -> BaseStates \cup FreeStates]
              /\ base' \in [Threads -> Bases \cup {NoBase}] /\ dir' \in [Threads -> Dirs]
              /\ reload' \in [Populators -> {"no", "due", "now"}] /\ UNCHANGED searchvars
            <4>1. CASE Return(t)
                BY <2>18, <4>1, ReturnType DEF UnloadTry
            <4>2. CASE Goto(t, "unload") /\ UNCHANGED <<base, dir, reload>>
                BY <2>18, <4>2 DEF UnloadTry, Goto, Typed, FreeStates
            <4> QED BY <2>18, <4>1, <4>2 DEF UnloadTry
        <3>3. CASE Erase(g_hash_table[dir[t]])
            <4>1. g_hash_table[dir[t]] \in Bases
                BY <2>18 DEF UnloadTry, Locked, Typed
            <4>2. InTable' = InTable \ {g_hash_table[dir[t]]}
                BY <3>3, <4>1, TableShrinks
            <4> QED BY <3>1, <3>2, <3>3, <4>1, <4>2 DEF Erase, Typed
        <3>4. CASE UNCHANGED <<g_hash_table, basevars, clientvars>>
            BY <3>1, <3>2, <3>4 DEF Typed, InTable
        <3> QED BY <2>18, <3>3, <3>4 DEF UnloadTry
    <2> QED
        BY <1>1, <2>1, <2>2, <2>3, <2>4, <2>5, <2>6, <2>7, <2>8, <2>9, <2>10, <2>11, <2>12,
           <2>13, <2>14, <2>15, <2>16, <2>17, <2>18 DEF Step
<1>2. ASSUME NEW t \in Threads, NEW d \in Dirs, Request(t, d) PROVE Typed'
    <2>1. pc' \in [Threads -> BaseStates \cup FreeStates] /\ dir' \in [Threads -> Dirs]
        BY <1>2 DEF Request, Goto, Typed, FreeStates
    <2> QED BY <1>t, <1>2, <2>1 DEF Request, Typed
<1>3. ASSUME NEW b \in Bases, Age(b) PROVE Typed'
    BY <1>3 DEF Age, Typed, InTable
<1>4. ASSUME NEW b \in Bases, ExpiryLook(b) PROVE Typed'
    <2>1. /\ left' = left \ {b} /\ hashlock' = (IF left = {b} THEN Nobody ELSE Expiry)
          /\ hashlock' \in Rpcs \cup {Expiry, Nobody} /\ (left' # {} <=> hashlock' = Expiry)
        BY <1>4, DbAssumption DEF ExpiryLook, Typed
    <2>2. CASE Erase(b)
        <3>1. InTable' = InTable \ {b}
            BY <2>2, TableShrinks
        <3> QED BY <1>4, <2>1, <2>2, <3>1 DEF ExpiryLook, Erase, Typed
    <2>3. CASE UNCHANGED <<g_hash_table, basevars, clientvars>>
        BY <1>4, <2>1, <2>3 DEF ExpiryLook, Typed, InTable
    <2> QED BY <1>4, <2>2, <2>3 DEF ExpiryLook
<1>5. CASE ExpiryPass
    <2>1. InTable' = InTable /\ left' = InTable /\ hashlock' = Expiry /\ InTable # {}
        BY <1>5 DEF ExpiryPass, InTable
    <2> QED BY <1>5, <2>1 DEF ExpiryPass, Typed
<1>6. CASE UNCHANGED vars
    BY <1>6 DEF vars, Typed, InTable
<1> QED
    BY <1>1, <1>2, <1>3, <1>4, <1>5, <1>6 DEF Next

\* reference counts.
LEMMA NextCounted == Typed /\ Counted /\ Placed /\ Locked /\ [Next]_vars => Counted'
<1> SUFFICES ASSUME Typed, Counted, Placed, Locked, [Next]_vars PROVE Counted'
    OBVIOUS
<1> USE DEF tablevars, basevars, clientvars, searchvars
<1>0. /\ pc \in [Threads -> BaseStates \cup FreeStates]
      /\ base \in [Threads -> Bases \cup {NoBase}] /\ reference \in [Bases -> Nat]
      /\ \A b \in Bases : reference[b] = Cardinality(Users(b))
    BY DEF Typed, Counted
<1>n. \A b \in Bases : Cardinality(Users(b)) \in Nat /\ b # NoBase
    BY UsersFinite, DbAssumption
\* The thread that moves neither begins nor ceases to count.
<1>s. ASSUME NEW t \in Threads, reference' = reference,
             \A u \in Threads \ {t} :
                 base'[u] = base[u] /\ (pc'[u] \in CountStates <=> pc[u] \in CountStates),
             pc'[t] \in CountStates <=> pc[t] \in CountStates,
             pc[t] \in CountStates => base'[t] = base[t]
      PROVE  Counted'
    <2>1. \A b \in Bases : Users(b)' = Users(b)
        BY <1>s, UsersChange
    <2> QED BY <1>0, <1>s, <2>1 DEF Counted
\* It ceases to count.
<1>d. ASSUME NEW t \in Threads, NEW c \in Bases, c = base[t], pc[t] \in CountStates,
             reference' = [reference EXCEPT ![c] = @ - 1],
             \A u \in Threads \ {t} : base'[u] = base[u] /\ pc'[u] = pc[u],
             pc'[t] \notin CountStates
      PROVE  Counted'
    <2>1. \A b \in Bases : b # c => Users(b)' = Users(b)
        BY <1>d, UsersChange
    <2>2. Cardinality(Users(c)') = Cardinality(Users(c)) - 1
        BY <1>d, UsersChange
    <2>3. \A b \in Bases : reference'[b] = IF b = c THEN reference[b] - 1 ELSE reference[b]
        BY <1>0, <1>d
    <2> QED BY <1>0, <2>1, <2>2, <2>3 DEF Counted
\* It begins to count.
<1>i. ASSUME NEW t \in Threads, NEW c \in Bases, c = base'[t], pc[t] \notin CountStates,
             reference' = [reference EXCEPT ![c] = Cardinality(Users(c)) + 1],
             \A u \in Threads \ {t} : base'[u] = base[u] /\ pc'[u] = pc[u],
             pc'[t] \in CountStates
      PROVE  Counted'
    <2>1. \A b \in Bases : b # c => Users(b)' = Users(b)
        BY <1>i, UsersChange
    <2>2. Cardinality(Users(c)') = Cardinality(Users(c)) + 1
        BY <1>i, UsersChange
    <2>3. \A b \in Bases : reference'[b] = IF b = c THEN Cardinality(Users(c)) + 1 ELSE reference[b]
        BY <1>0, <1>i
    <2> QED BY <1>0, <2>1, <2>2, <2>3 DEF Counted
\* Nobody's place changes.
<1>f. ASSUME UNCHANGED <<reference, pc, base>> PROVE Counted'
    BY <1>0, <1>f DEF Counted, Users, At
<1>1. ASSUME NEW t \in Threads, Step(t) PROVE Counted'
    <2>b. pc[t] \in CountStates => base[t] \in Bases
        BY UserCounts
    <2>c. /\ CountStates = {"conn", "using", "rd", "wr", "done", "open"}
          /\ \A l : l \in CountStates <=> l \in {"conn", "using", "rd", "wr", "done", "open"}
        BY DEF CountStates, ConnStates
    <2>g. ASSUME NEW label, Goto(t, label)
          PROVE  pc'[t] = label /\ \A u \in Threads \ {t} : pc'[u] = pc[u]
        BY <1>0, <2>g DEF Goto
    <2>h. ASSUME Return(t)
          PROVE  /\ pc'[t] \notin CountStates
                 /\ \A u \in Threads \ {t} : base'[u] = base[u] /\ pc'[u] = pc[u]
        BY <1>0, <2>h, <2>c DEF Return, Goto
    <2>1. CASE GetFound(t)
        <3>1. PICK c \in Bases : c = g_hash_table[dir[t]]
            BY <2>1 DEF GetFound, Typed
        <3>2. /\ reference' = [reference EXCEPT ![c] = Cardinality(Users(c)) + 1]
              /\ c = base'[t] /\ \A u \in Threads \ {t} : base'[u] = base[u]
            BY <1>0, <2>1, <3>1 DEF GetFound
        <3> QED BY <1>i, <2>1, <2>c, <2>g, <3>2 DEF GetFound
    <2>2. CASE GetCreates(t)
        <3>1. PICK c \in Bases :
               /\ Fresh(c) /\ reference' = [reference EXCEPT ![c] = 1]
               /\ base' = [base EXCEPT ![t] = c] /\ Goto(t, "open")
            BY <2>2, FreshBase
        <3>2. Users(c) = {}
            BY <3>1 DEF Users, At, Fresh
        <3>3. Cardinality(Users(c)) = 0
            BY <3>2, FS_EmptySet
        <3>4. c = base'[t] /\ \A u \in Threads \ {t} : base'[u] = base[u]
            BY <1>0, <3>1
        <3>5. pc[t] = "get" /\ pc'[t] = "open" /\ \A u \in Threads \ {t} : pc'[u] = pc[u]
            BY <2>2, <2>g, <3>1 DEF GetCreates
        <3>6. reference' = [reference EXCEPT ![c] = Cardinality(Users(c)) + 1]
            BY <3>1, <3>3
        <3> QED BY <1>i, <2>c, <3>4, <3>5, <3>6
    <2>3. CASE GetRefused(t)
        BY <1>s, <2>3, <2>c, <2>h DEF GetRefused
    <2>4. CASE OpenDone(t)
        BY <1>d, <2>4, <2>b, <2>c, <2>g DEF OpenDone
    <2>5. CASE OpenFails(t)
        BY <1>d, <2>5, <2>b, <2>c, <2>h DEF OpenFails
    <2>6. CASE GapConn(t)
        <3>1. PICK c \in Bases : c = base[t]
            BY <2>6 DEF GapConn, Typed, InTable
        <3>2. reference' = [reference EXCEPT ![c] = Cardinality(Users(c)) + 1] /\ base' = base
            BY <1>0, <2>6, <3>1 DEF GapConn
        <3> QED BY <1>i, <2>6, <2>c, <2>g, <3>1, <3>2 DEF GapConn
    <2>7. CASE GapDangling(t)
        <3>1. /\ \A b \in Bases : reference'[b] = 0
              /\ \A u \in Threads : base'[u] = NoBase
            BY <2>7 DEF GapDangling
        <3>2. \A b \in Bases : Users(b)' = {}
            BY <1>n, <3>1 DEF Users, At
        <3> QED BY <3>1, <3>2, FS_EmptySet DEF Counted
    <2>8. CASE ConnOpen(t) \/ ConnFails(t) \/ UseSql(t) \/ LockRd(t) \/ LockWr(t) \/ Unlock(t)
               \/ PopulDone(t) \/ PopulReload(t)
        <3>1. /\ UNCHANGED <<reference, base>> /\ pc[t] \in CountStates
              /\ \E label \in CountStates : Goto(t, label)
            BY <2>8, <2>c DEF ConnOpen, ConnFails, UseSql, LockRd, LockWr, Unlock,
                              PopulDone, PopulReload
        <3> QED BY <1>s, <2>g, <3>1
    <2>9. CASE Release(t)
        <3>1. PICK c \in Bases : c = base[t]
            BY <2>9, <2>b, <2>c DEF Release
        <3>2. /\ \A u \in Threads \ {t} : base'[u] = base[u] /\ pc'[u] = pc[u]
              /\ pc'[t] \notin CountStates
            <4>1. CASE t \in Populators /\ reload[t] = "due"
                BY <1>0, <2>9, <2>c, <2>g, <4>1 DEF Release
            <4>2. CASE ~(t \in Populators /\ reload[t] = "due")
                BY <2>9, <2>h, <4>2 DEF Release
            <4> QED BY <4>1, <4>2
        <3> QED BY <1>d, <2>9, <2>c, <3>1, <3>2 DEF Release
    <2>10. ASSUME NEW k \in Kinds, AddObject(t, k) \/ RemoveObject(t, k) PROVE Counted'
        <3>1. UNCHANGED <<reference, base>> /\ pc[t] \in CountStates /\ Goto(t, "done")
            BY <2>10, <2>c DEF AddObject, RemoveObject
        <3> QED BY <1>s, <2>c, <2>g, <3>1
    <2>11. CASE SetCriteria(t)
        <3>1. PICK c \in Bases : c = base[t]
            BY <2>11, <2>b, <2>c DEF SetCriteria
        <3>2. /\ pc[t] = "wr" /\ pc'[t] = "enqueue" /\ base' = base
              /\ \A u \in Threads \ {t} : pc'[u] = pc[u]
            BY <2>11, <2>g DEF SetCriteria
        <3> QED BY <1>d, <2>11, <2>c, <3>1, <3>2 DEF SetCriteria
    <2>12. CASE Enqueue(t)
        <3>1. \A u \in Threads \ {t} :
                base'[u] = base[u] /\ (pc'[u] \in CountStates <=> pc[u] \in CountStates)
            BY <1>0, <2>12, <2>c DEF Enqueue
        <3>2. pc'[t] = "idle" /\ pc[t] = "enqueue" /\ reference' = reference
            BY <2>12 DEF Enqueue
        <3> QED BY <1>s, <2>c, <3>1, <3>2
    <2>13. CASE EnqueueNot(t)
        BY <1>s, <2>13, <2>c, <2>h DEF EnqueueNot
    <2>14. CASE PopulWait(t) \/ PopulTakes(t) \/ PopulIdle(t)
        <3>1. /\ UNCHANGED <<reference, base>> /\ pc[t] \notin CountStates
              /\ \E label \in FreeStates : Goto(t, label)
            BY <2>14, <2>c DEF PopulWait, PopulTakes, PopulIdle, FreeStates
        <3>2. \A label \in FreeStates : label \notin CountStates
            BY <2>c DEF FreeStates
        <3> QED BY <1>s, <2>g, <3>1, <3>2
    <2>15. CASE UnloadLock(t)
        <3>1. /\ \A u \in Threads \ {t} : base'[u] = base[u] /\ pc'[u] = pc[u]
              /\ pc'[t] \notin CountStates /\ pc[t] \notin CountStates
            <4>1. CASE g_hash_table[dir[t]] = NoBase
                BY <2>15, <2>c, <2>h, <4>1 DEF UnloadLock
            <4>2. CASE g_hash_table[dir[t]] # NoBase
                BY <2>15, <2>c, <2>g, <4>2 DEF UnloadLock
            <4> QED BY <4>1, <4>2
        <3> QED BY <1>s, <2>15, <3>1 DEF UnloadLock
    <2>16. CASE UnloadTry(t)
        <3>1. /\ \A u \in Threads \ {t} : base'[u] = base[u] /\ pc'[u] = pc[u]
              /\ pc'[t] \notin CountStates /\ pc[t] \notin CountStates
            <4>1. CASE Return(t)
                BY <2>16, <2>c, <2>h, <4>1 DEF UnloadTry
            <4>2. CASE Goto(t, "unload") /\ UNCHANGED <<base, dir, reload>>
                BY <2>16, <2>c, <2>g, <4>2 DEF UnloadTry
            <4> QED BY <2>16, <4>1, <4>2 DEF UnloadTry
        <3>2. reference' = reference
            BY <2>16 DEF UnloadTry, Erase
        <3> QED BY <1>s, <3>1, <3>2
    <2> QED
        BY <1>1, <2>1, <2>2, <2>3, <2>4, <2>5, <2>6, <2>7, <2>8, <2>9, <2>10, <2>11, <2>12,
           <2>13, <2>14, <2>15, <2>16 DEF Step
<1>2. ASSUME NEW t \in Threads, NEW d \in Dirs, Request(t, d) PROVE Counted'
    <2>1. /\ pc[t] \notin CountStates /\ pc'[t] \notin CountStates
          /\ \A u \in Threads \ {t} : pc'[u] = pc[u]
        BY <1>0, <1>2 DEF Request, Goto, CountStates, ConnStates
    <2> QED BY <1>s, <1>2, <2>1 DEF Request
<1>3. ASSUME NEW b \in Bases, Age(b) PROVE Counted'
    BY <1>f, <1>3 DEF Age
<1>4. ASSUME NEW b \in Bases, ExpiryLook(b) PROVE Counted'
    BY <1>f, <1>4 DEF ExpiryLook, Erase
<1>5. CASE ExpiryPass
    BY <1>f, <1>5 DEF ExpiryPass
<1>6. CASE UNCHANGED vars
    BY <1>f, <1>6 DEF vars
<1> QED
    BY <1>1, <1>2, <1>3, <1>4, <1>5, <1>6 DEF Next

\* Which states a thread has a pointer in, spelled out.
LEMMA StateNames ==
    /\ \A l : l \in UseStates <=>
           l \in {"conn", "using", "rd", "wr", "done", "enqueue", "open"}
    /\ \A l : l \in BaseStates <=> l \in UseStates \/ l = "gap"
    /\ \A l \in FreeStates : l \notin BaseStates /\ l \notin UseStates
    BY DEF UseStates, BaseStates, FreeStates, ConnStates, LockStates

\* A base that is erased is one that nobody may touch.
LEMMA ErasedUnused ==
    ASSUME Typed, Counted, NEW b \in Bases, Unused(b), At(b, LockStates) = {}
    PROVE  \A u \in Threads : base[u] = b => pc[u] \notin UseStates
<1>1. Cardinality(Users(b)) = 0
    BY DEF Unused, Counted
<1>2. Users(b) = {}
    BY <1>1, UsersFinite
<1> QED
    BY <1>2 DEF Users, At, UseStates, CountStates

\* A step leaves all threads but one where they are; only a search thread that waits may
\* be woken.
Others(t) ==
    \A u \in Threads \ {t} :
        /\ base'[u] = base[u] /\ dir'[u] = dir[u]
        /\ pc'[u] = pc[u] \/ (u \in Populators /\ pc[u] = "wait" /\ pc'[u] = "next")

LEMMA GotoOthers ==
    ASSUME Typed, NEW t \in Threads, NEW label, Goto(t, label)
    PROVE  pc'[t] = label /\ (UNCHANGED <<base, dir>> => Others(t))
    BY DEF Typed, Goto, Others

LEMMA ReturnOthers ==
    ASSUME Typed, NEW t \in Threads, Return(t)
    PROVE  /\ pc'[t] = IF t \in Rpcs THEN "idle" ELSE "next"
           /\ pc'[t] \in FreeStates /\ base'[t] = NoBase /\ Others(t)
    BY DEF Typed, Return, Goto, Others, FreeStates

\* The steps that leave the thread's pointer, and the ones that leave it without one.
Stays(t) ==
    \/ ConnOpen(t) \/ ConnFails(t) \/ UseSql(t) \/ LockRd(t) \/ LockWr(t) \/ Unlock(t)
    \/ \E k \in Kinds : AddObject(t, k) \/ RemoveObject(t, k)
    \/ SetCriteria(t) \/ PopulDone(t) \/ PopulReload(t)

LEMMA StaysShape ==
    ASSUME Typed, NEW t \in Threads, Stays(t)
    PROVE  /\ UNCHANGED <<g_hash_table, hashlock, left, sqlite_lock, base, dir>> /\ Others(t)
           /\ pc[t] \in UseStates /\ pc'[t] \in UseStates
           /\ pc[t] # "open" /\ pc'[t] # "open" /\ pc'[t] # "conn" /\ pc'[t] \notin FreeStates
           /\ \A u \in Threads \ {t} : pc'[u] = pc[u]
           /\ pc[t] \notin FreeStates
<1> USE DEF tablevars, basevars, clientvars, searchvars
<1>1. /\ UNCHANGED <<g_hash_table, hashlock, left, sqlite_lock, base, dir>>
      /\ pc[t] \in {"conn", "using", "rd", "wr"}
      /\ \E label \in {"using", "rd", "wr", "done", "enqueue"} : Goto(t, label)
    BY DEF Stays, ConnOpen, ConnFails, UseSql, LockRd, LockWr, Unlock, AddObject, RemoveObject,
           SetCriteria, PopulDone, PopulReload
<1>2. PICK label \in {"using", "rd", "wr", "done", "enqueue"} : Goto(t, label)
    BY <1>1
<1>3. pc'[t] = label /\ Others(t)
    BY <1>1, <1>2, GotoOthers
<1>4. \A u \in Threads \ {t} : pc'[u] = pc[u]
    BY <1>2 DEF Goto, Typed
<1> QED
    BY <1>1, <1>3, <1>4, StateNames DEF FreeStates

Lets(t) ==
    \/ GetRefused(t) \/ OpenFails(t) \/ Release(t) \/ Enqueue(t) \/ EnqueueNot(t)
    \/ PopulWait(t) \/ PopulTakes(t) \/ PopulIdle(t) \/ UnloadLock(t)

LEMMA LetsShape ==
    ASSUME Typed, Placed, NEW t \in Threads, Lets(t)
    PROVE  /\ g_hash_table' = g_hash_table /\ Others(t)
           /\ pc'[t] \in FreeStates /\ base'[t] = NoBase
<1> USE DEF tablevars, basevars, clientvars, searchvars
<1>b. base[t] # NoBase <=> pc[t] \in BaseStates
    BY DEF Placed
<1>1. CASE GetRefused(t) \/ OpenFails(t) \/ EnqueueNot(t)
    <2>1. Return(t) /\ g_hash_table' = g_hash_table
        BY <1>1 DEF GetRefused, OpenFails, EnqueueNot
    <2> QED BY <2>1, ReturnOthers
<1>2. CASE Release(t)
    <2>1. CASE t \in Populators /\ reload[t] = "due"
        BY <1>2, <2>1 DEF Release, Goto, Others, Typed, FreeStates
    <2>2. CASE ~(t \in Populators /\ reload[t] = "due")
        <3>1. Return(t) /\ g_hash_table' = g_hash_table
            BY <1>2, <2>2 DEF Release
        <3> QED BY <3>1, ReturnOthers
    <2> QED BY <2>1, <2>2
<1>3. CASE Enqueue(t)
    <2>1. \A u \in Threads \ {t} : base'[u] = base[u] /\ dir'[u] = dir[u]
        BY <1>3 DEF Enqueue, Typed
    <2>2. \A u \in Threads \ {t} :
             pc'[u] = pc[u] \/ (u \in Populators /\ pc[u] = "wait" /\ pc'[u] = "next")
        BY <1>3 DEF Enqueue, Typed
    <2> QED BY <1>3, <2>1, <2>2 DEF Enqueue, Typed, FreeStates, Others
<1>4. CASE PopulWait(t) \/ PopulTakes(t) \/ PopulIdle(t)
    <2>1. /\ pc[t] \in FreeStates /\ base' = base /\ g_hash_table' = g_hash_table
          /\ \E label \in FreeStates : Goto(t, label)
          /\ \A u \in Threads \ {t} : dir'[u] = dir[u]
        BY <1>4 DEF PopulWait, PopulTakes, PopulIdle, FreeStates, Typed
    <2>2. \A u \in Threads \ {t} : pc'[u] = pc[u]
        BY <2>1 DEF Goto, Typed
    <2>3. pc'[t] \in FreeStates
        BY <2>1 DEF Goto, Typed
    <2> QED BY <1>b, <2>1, <2>2, <2>3, StateNames DEF Others
<1>5. CASE UnloadLock(t)
    <2>1. CASE g_hash_table[dir[t]] = NoBase
        <3>1. Return(t) /\ g_hash_table' = g_hash_table
            BY <1>5, <2>1 DEF UnloadLock
        <3> QED BY <3>1, ReturnOthers
    <2>2. CASE g_hash_table[dir[t]] # NoBase
        <3>1. /\ Goto(t, "unloading") /\ pc[t] = "unload"
              /\ UNCHANGED <<base, dir, g_hash_table>>
            BY <1>5, <2>2 DEF UnloadLock
        <3>2. pc'[t] = "unloading" /\ Others(t)
            BY <3>1, GotoOthers
        <3> QED BY <1>b, <3>1, <3>2, StateNames DEF FreeStates
    <2> QED BY <2>1, <2>2
<1> QED
    BY <1>1, <1>2, <1>3, <1>4, <1>5 DEF Lets

\* db_engine_unload_db and the expiry thread erase a base that nobody may touch, or leave
\* the table and the bases as they are.
Closes(b) == Unused(b) /\ At(b, LockStates) = {} /\ Erase(b)

LEMMA UnloadShape ==
    ASSUME Typed, Placed, Locked, NEW t \in Threads, UnloadTry(t)
    PROVE  /\ pc[t] = "unloading" /\ hashlock = t /\ hashlock' = Nobody /\ left' = left
           /\ Others(t) /\ base'[t] = NoBase /\ pc'[t] \in FreeStates \ {"unloading"}
           /\ t \in Rpcs => pc'[t] \in {"idle", "unload"}
           /\ \A u \in Threads \ {t} : pc'[u] = pc[u]
           /\ \/ \E b \in Bases : b = g_hash_table[dir[t]] /\ Closes(b)
              \/ UNCHANGED <<g_hash_table, basevars, clientvars>>
<1>1. /\ pc[t] = "unloading" /\ hashlock = t /\ hashlock' = Nobody /\ left' = left
      /\ g_hash_table[dir[t]] \in Bases
    BY DEF UnloadTry, Locked, Typed
<1>2. base[t] = NoBase
    BY <1>1, StateNames DEF Placed, FreeStates
<1>3. /\ Others(t) /\ base'[t] = NoBase /\ pc'[t] \in FreeStates \ {"unloading"}
      /\ t \in Rpcs => pc'[t] \in {"idle", "unload"}
      /\ \A u \in Threads \ {t} : pc'[u] = pc[u]
    <2>1. CASE Return(t)
        <3>1. \A u \in Threads \ {t} : pc'[u] = pc[u]
            BY <2>1 DEF Return, Goto, Typed
        <3> QED BY <2>1, <3>1, ReturnOthers
    <2>2. CASE Goto(t, "unload") /\ UNCHANGED <<base, dir, reload>>
        <3>1. \A u \in Threads \ {t} : pc'[u] = pc[u]
            BY <2>2 DEF Goto, Typed
        <3> QED BY <1>2, <2>2, <3>1, GotoOthers DEF FreeStates
    <2> QED BY <2>1, <2>2 DEF UnloadTry
<1>4. PICK b \in Bases : b = g_hash_table[dir[t]]
    BY <1>1
<1>5. (Unused(b) /\ Erase(b)) \/ UNCHANGED <<g_hash_table, basevars, clientvars>>
    BY <1>4 DEF UnloadTry
<1>6. At(b, LockStates) = {}
    BY <1>4 DEF UnloadTry
<1> QED
    BY <1>1, <1>3, <1>4, <1>5, <1>6 DEF Closes

LEMMA ExpiryShape ==
    ASSUME NEW b \in Bases, ExpiryLook(b)
    PROVE  /\ hashlock = Expiry /\ hashlock' \in {Nobody, Expiry}
           /\ UNCHANGED <<pc, base, dir, reload>>
           /\ Closes(b) \/ UNCHANGED <<g_hash_table, basevars, clientvars>>
    BY DEF ExpiryLook, Closes

\* Pointers and directories agree.
LEMMA NextPlaced == Typed /\ Counted /\ Placed /\ Locked /\ [Next]_vars => Placed'
<1> SUFFICES ASSUME Typed, Counted, Placed, Locked, [Next]_vars PROVE Placed'
    OBVIOUS
<1> USE DEF tablevars, basevars, clientvars, searchvars
<1>0. /\ g_hash_table \in [Dirs -> Bases \cup {NoBase}] /\ NoBase \notin Bases
      /\ pc \in [Threads -> BaseStates \cup FreeStates]
      /\ base \in [Threads -> Bases \cup {NoBase}] /\ dir \in [Threads -> Dirs]
    BY DbAssumption DEF Typed
<1>p. /\ \A d, e \in Dirs :
             g_hash_table[d] = g_hash_table[e] /\ g_hash_table[d] # NoBase => d = e
      /\ \A u \in Threads : base[u] # NoBase <=> pc[u] \in BaseStates
      /\ \A u \in Threads : pc[u] \in UseStates => g_hash_table[dir[u]] = base[u]
      /\ \A u \in Threads : base[u] \in InTable => g_hash_table[dir[u]] = base[u]
    BY DEF Placed, ConnIsLive, UseStates
<1>f. /\ "wait" \notin BaseStates /\ "next" \notin BaseStates
      /\ "wait" \notin UseStates /\ "next" \notin UseStates
    BY StateNames DEF FreeStates
\* The table is the same, and the thread that moves has a place.
<1>m. ASSUME NEW t \in Threads, g_hash_table' = g_hash_table, Others(t),
             base'[t] # NoBase <=> pc'[t] \in BaseStates,
             pc'[t] \in UseStates => g_hash_table[dir'[t]] = base'[t],
             base'[t] \in InTable => g_hash_table[dir'[t]] = base'[t]
      PROVE  Placed'
    <2>1. InTable' = InTable
        BY <1>m DEF InTable
    <2>2. \A u \in Threads : base'[u] # NoBase <=> pc'[u] \in BaseStates
        BY <1>m, <1>p, <1>f DEF Others
    <2>3. \A u \in Threads : pc'[u] \in UseStates => g_hash_table'[dir'[u]] = base'[u]
        BY <1>m, <1>p, <1>f DEF Others
    <2>4. \A u \in Threads : base'[u] \in InTable' => g_hash_table'[dir'[u]] = base'[u]
        BY <1>m, <1>p, <2>1 DEF Others
    <2> QED BY <1>m, <1>p, <2>2, <2>3, <2>4 DEF Placed, ConnIsLive, UseStates
\* It has no pointer afterwards.
<1>l. ASSUME NEW t \in Threads, g_hash_table' = g_hash_table, Others(t),
             base'[t] = NoBase, pc'[t] \in FreeStates
      PROVE  Placed'
    <2>1. NoBase \notin InTable
        BY DEF InTable
    <2> QED BY <1>m, <1>l, <2>1, StateNames
\* A base is erased that nobody may touch.
<1>e. ASSUME NEW b \in Bases, Closes(b),
             \A u \in Threads :
                \/ base'[u] = base[u] /\ dir'[u] = dir[u] /\ pc'[u] = pc[u]
                \/ base'[u] = NoBase /\ pc'[u] \in FreeStates
      PROVE  Placed'
    <2>1. /\ \A d \in Dirs : g_hash_table'[d] = IF g_hash_table[d] = b THEN NoBase
                                                ELSE g_hash_table[d]
          /\ InTable' = InTable \ {b}
        BY <1>e, TableShrinks DEF Closes, Erase
    <2>2. \A u \in Threads : base[u] = b => pc[u] \notin UseStates
        BY <1>e, ErasedUnused DEF Closes
    <2>3. \A d, e \in Dirs :
             g_hash_table'[d] = g_hash_table'[e] /\ g_hash_table'[d] # NoBase => d = e
        BY <1>p, <2>1
    <2>4. \A u \in Threads : base'[u] # NoBase <=> pc'[u] \in BaseStates
        BY <1>e, <1>p, StateNames
    <2>5. \A u \in Threads : pc'[u] \in UseStates => g_hash_table'[dir'[u]] = base'[u]
        BY <1>0, <1>e, <1>p, <2>1, <2>2, StateNames
    <2>6. \A u \in Threads : base'[u] \in InTable' => g_hash_table'[dir'[u]] = base'[u]
        <3>1. NoBase \notin InTable
            BY DEF InTable
        <3> QED BY <1>0, <1>e, <1>p, <2>1, <3>1
    <2> QED BY <2>3, <2>4, <2>5, <2>6 DEF Placed, ConnIsLive, UseStates
<1>u. ASSUME UNCHANGED <<g_hash_table, pc, base, dir>> PROVE Placed'
    BY <1>u DEF Placed, ConnIsLive, InTable
<1>1. ASSUME NEW t \in Threads, Step(t) PROVE Placed'
    <2>1. CASE GetFound(t)
        <3>1. PICK b \in Bases : b = g_hash_table[dir[t]] /\ base' = [base EXCEPT ![t] = b]
            BY <1>0, <2>1 DEF GetFound
        <3>2. /\ g_hash_table' = g_hash_table /\ dir' = dir /\ base'[t] = b /\ b # NoBase
              /\ pc'[t] = "conn" /\ \A u \in Threads \ {t} : base'[u] = base[u]
            BY <1>0, <2>1, <3>1, GotoOthers DEF GetFound
        <3>3. \A u \in Threads \ {t} : pc'[u] = pc[u]
            BY <1>0, <2>1 DEF GetFound, Goto
        <3> QED BY <1>m, <3>1, <3>2, <3>3, StateNames DEF Others
    <2>2. CASE GetCreates(t)
        <3>1. PICK b \in Bases :
               /\ Fresh(b) /\ b # NoBase
               /\ g_hash_table' = [g_hash_table EXCEPT ![dir[t]] = b]
               /\ base' = [base EXCEPT ![t] = b] /\ dir' = dir
               /\ Goto(t, "open") /\ g_hash_table[dir[t]] = NoBase
            BY <2>2, FreshBase
        <3>2. InTable' = InTable \cup {b}
            BY <1>0, <3>1, TableGrows
        <3>3. /\ b \notin InTable /\ \A u \in Threads : base[u] # b
              /\ \A d \in Dirs : g_hash_table[d] # b
              /\ \A d \in Dirs : g_hash_table'[d] = IF d = dir[t] THEN b ELSE g_hash_table[d]
            BY <1>0, <3>1 DEF Fresh, InTable
        <3>4. /\ base'[t] = b /\ pc'[t] = "open"
              /\ \A u \in Threads \ {t} : base'[u] = base[u] /\ pc'[u] = pc[u]
            BY <1>0, <3>1 DEF Goto
        <3>5. \A d, e \in Dirs :
                 g_hash_table'[d] = g_hash_table'[e] /\ g_hash_table'[d] # NoBase => d = e
            BY <1>p, <3>3
        <3>6. \A u \in Threads : base'[u] # NoBase <=> pc'[u] \in BaseStates
            BY <1>p, <3>1, <3>4, StateNames
        <3>7. \A u \in Threads : pc'[u] \in UseStates => g_hash_table'[dir'[u]] = base'[u]
            BY <1>0, <1>p, <3>1, <3>3, <3>4, StateNames
        <3>8. \A u \in Threads : base'[u] \in InTable' => g_hash_table'[dir'[u]] = base'[u]
            <4>1. NoBase \notin InTable
                BY DEF InTable
            <4> QED BY <1>0, <1>p, <3>1, <3>2, <3>3, <3>4, <4>1
        <3> QED BY <3>5, <3>6, <3>7, <3>8 DEF Placed, ConnIsLive, UseStates
    <2>3. CASE OpenDone(t)
        <3>1. /\ UNCHANGED <<g_hash_table, base, dir>> /\ pc[t] = "open"
              /\ pc'[t] = "gap" /\ Others(t)
            BY <2>3, GotoOthers DEF OpenDone
        <3> QED BY <1>m, <1>p, <3>1, StateNames
    <2>4. CASE GapConn(t)
        <3>1. /\ UNCHANGED <<g_hash_table, base, dir>> /\ pc[t] = "gap" /\ base[t] \in InTable
              /\ pc'[t] = "conn" /\ Others(t)
            BY <2>4, GotoOthers DEF GapConn
        <3> QED BY <1>m, <1>p, <3>1, StateNames
    <2>5. CASE GapDangling(t)
        <3>1. /\ \A d \in Dirs : g_hash_table'[d] = NoBase
              /\ \A u \in Threads : base'[u] = NoBase /\ pc'[u] \in {"idle", "towait"}
            BY <2>5 DEF GapDangling, IdlePc
        <3>2. NoBase \notin InTable'
            BY DEF InTable
        <3>3. \A u \in Threads : pc'[u] \notin BaseStates /\ pc'[u] \notin UseStates
            BY <3>1, StateNames DEF FreeStates
        <3> QED BY <3>1, <3>2, <3>3 DEF Placed, ConnIsLive, UseStates
    <2>6. CASE Stays(t)
        BY <1>m, <1>p, <2>6, StaysShape, StateNames
    <2>7. CASE Lets(t)
        BY <1>l, <2>7, LetsShape
    <2>8. CASE UnloadTry(t)
        <3>1. CASE UNCHANGED <<g_hash_table, basevars, clientvars>>
            BY <1>l, <2>8, <3>1, UnloadShape
        <3>2. CASE \E b \in Bases : b = g_hash_table[dir[t]] /\ Closes(b)
            <4>1. \A u \in Threads :
                    \/ base'[u] = base[u] /\ dir'[u] = dir[u] /\ pc'[u] = pc[u]
                    \/ base'[u] = NoBase /\ pc'[u] \in FreeStates
                BY <2>8, UnloadShape DEF Others
            <4> QED BY <1>e, <3>2, <4>1
        <3> QED BY <2>8, <3>1, <3>2, UnloadShape
    <2> QED
        BY <1>1, <2>1, <2>2, <2>3, <2>4, <2>5, <2>6, <2>7, <2>8 DEF Step, Stays, Lets
<1>2. ASSUME NEW t \in Threads, NEW d \in Dirs, Request(t, d) PROVE Placed'
    <2>1. /\ pc[t] = "idle" /\ pc'[t] \in {"get", "unload"} /\ UNCHANGED <<base, g_hash_table>>
          /\ \A u \in Threads \ {t} : pc'[u] = pc[u] /\ dir'[u] = dir[u]
        BY <1>0, <1>2 DEF Request, Goto
    <2> QED BY <1>l, <1>p, <2>1, StateNames DEF Others, FreeStates
<1>3. ASSUME NEW b \in Bases, Age(b) PROVE Placed'
    BY <1>u, <1>3 DEF Age
<1>4. ASSUME NEW b \in Bases, ExpiryLook(b) PROVE Placed'
    BY <1>e, <1>u, <1>4, ExpiryShape
<1>5. CASE ExpiryPass
    BY <1>u, <1>5 DEF ExpiryPass
<1>6. CASE UNCHANGED vars
    BY <1>u, <1>6 DEF vars
<1> QED
    BY <1>1, <1>2, <1>3, <1>4, <1>5, <1>6 DEF Next

\* The states of the two kinds of threads, spelled out.
LEMMA KindNames ==
    /\ \A l : l \in RpcStates <=> l \in {"conn", "using", "rd", "wr", "done", "enqueue", "open",
                                         "gap", "idle", "get", "unload", "unloading"}
    /\ \A l : l \in PopulStates <=> l \in {"conn", "using", "rd", "wr", "done", "open",
                                           "gap", "get", "towait", "wait", "next"}
    BY DEF RpcStates, PopulStates, UseStates, ConnStates, LockStates

\* g_hash_lock is where db_engine_unload_db is.
LEMMA NextLocked == Typed /\ Counted /\ Placed /\ Locked /\ [Next]_vars => Locked'
<1> SUFFICES ASSUME Typed, Counted, Placed, Locked, [Next]_vars PROVE Locked'
    OBVIOUS
<1> USE DEF tablevars, basevars, clientvars, searchvars
<1>0. /\ g_hash_table \in [Dirs -> Bases \cup {NoBase}] /\ NoBase \notin Bases
      /\ pc \in [Threads -> BaseStates \cup FreeStates] /\ dir \in [Threads -> Dirs]
      /\ \A u \in Threads : (u \in Rpcs \/ u \in Populators) /\ u # Expiry /\ u # Nobody
      /\ Expiry # Nobody
    BY DbAssumption DEF Typed, Threads
<1>p. /\ \A u \in Rpcs : pc[u] \in RpcStates
      /\ \A u \in Populators : pc[u] \in PopulStates
      /\ \A u \in Threads : pc[u] = "unloading" <=> hashlock = u
      /\ \A u \in Threads : pc[u] = "unloading" => g_hash_table[dir[u]] # NoBase
    BY DEF Locked
<1>w. /\ Rpcs \subseteq Threads /\ Populators \subseteq Threads
      /\ \A u \in Threads : u \in Rpcs => u \notin Populators
    BY DbAssumption DEF Threads
\* g_hash_lock is the same, and a thread moves that does not unload.
<1>k. ASSUME NEW t \in Threads, hashlock' = hashlock, Others(t),
             pc[t] # "unloading", pc'[t] # "unloading",
             t \in Rpcs => pc'[t] \in RpcStates, t \in Populators => pc'[t] \in PopulStates,
             \A d \in Dirs : g_hash_table[d] # NoBase => g_hash_table'[d] # NoBase
      PROVE  Locked'
    <2>1. \A u \in Rpcs : pc'[u] \in RpcStates
        BY <1>k, <1>p, <1>w DEF Others
    <2>2. \A u \in Populators : pc'[u] \in PopulStates
        BY <1>k, <1>p, <1>w, KindNames DEF Others
    <2>3. \A u \in Threads : pc'[u] = "unloading" <=> hashlock' = u
        BY <1>k, <1>p DEF Others
    <2>4. \A u \in Threads : pc'[u] = "unloading" => g_hash_table'[dir'[u]] # NoBase
        BY <1>0, <1>k, <1>p DEF Others
    <2> QED BY <2>1, <2>2, <2>3, <2>4 DEF Locked
\* Nobody unloads before or after.
<1>n. ASSUME \A u \in Threads : hashlock # u, \A u \in Threads : hashlock' # u, pc' = pc
      PROVE  Locked'
    BY <1>n, <1>p DEF Locked
<1>1. ASSUME NEW t \in Threads, Step(t) PROVE Locked'
    <2>1. CASE GetFound(t) \/ OpenDone(t) \/ GapConn(t)
        <3>1. /\ UNCHANGED <<g_hash_table, hashlock>> /\ pc[t] # "unloading"
              /\ \E label \in {"conn", "gap"} : Goto(t, label)
              /\ \A u \in Threads \ {t} : base'[u] = base[u] /\ dir'[u] = dir[u]
            BY <2>1 DEF GetFound, OpenDone, GapConn, Typed
        <3>2. /\ pc'[t] \in {"conn", "gap"} /\ \A u \in Threads \ {t} : pc'[u] = pc[u]
            BY <1>0, <3>1 DEF Goto
        <3> QED BY <1>k, <3>1, <3>2, KindNames DEF Others
    <2>2. CASE GetCreates(t)
        <3>1. PICK b \in Bases :
               /\ b # NoBase /\ g_hash_table' = [g_hash_table EXCEPT ![dir[t]] = b]
               /\ base' = [base EXCEPT ![t] = b] /\ dir' = dir /\ hashlock' = hashlock
               /\ Goto(t, "open") /\ pc[t] = "get"
            BY <2>2, FreshBase
        <3>2. /\ pc'[t] = "open" /\ \A u \in Threads \ {t} : pc'[u] = pc[u] /\ base'[u] = base[u]
              /\ \A d \in Dirs : g_hash_table[d] # NoBase => g_hash_table'[d] # NoBase
            BY <1>0, <3>1 DEF Goto, Typed
        <3> QED BY <1>k, <3>1, <3>2, KindNames DEF Others
    <2>3. CASE GapDangling(t)
        <3>1. /\ hashlock' = Nobody
              /\ \A u \in Threads : pc'[u] = IF u \in Rpcs THEN "idle" ELSE "towait"
            BY <2>3 DEF GapDangling, IdlePc
        <3> QED BY <1>0, <1>w, <3>1, KindNames DEF Locked
    <2>4. CASE Stays(t)
        <3>1. /\ pc'[t] \in {"using", "rd", "wr", "done", "enqueue"}
              /\ pc'[t] \in {"rd", "enqueue"} => t \in Rpcs
              /\ pc[t] # "unloading" /\ UNCHANGED <<g_hash_table, hashlock>> /\ Others(t)
            <4>1. \A label : Goto(t, label) => pc'[t] = label
                BY GotoOthers
            <4>2. /\ pc'[t] \in {"using", "rd", "wr", "done", "enqueue"}
                  /\ pc'[t] \in {"rd", "enqueue"} => t \in Rpcs
                BY <2>4, <4>1
                DEF Stays, ConnOpen, ConnFails, UseSql, LockRd, LockWr, Unlock, AddObject,
                    RemoveObject, SetCriteria, PopulDone, PopulReload
            <4>3. pc[t] # "unloading"
                BY <2>4, StaysShape, StateNames
            <4> QED BY <2>4, <4>2, <4>3, StaysShape
        <3> QED BY <1>k, <1>w, <3>1, KindNames
    <2>5. CASE GetRefused(t) \/ OpenFails(t) \/ EnqueueNot(t)
        <3>1. Return(t) /\ pc[t] # "unloading" /\ UNCHANGED <<g_hash_table, hashlock>>
            BY <2>5 DEF GetRefused, OpenFails, EnqueueNot
        <3> QED BY <1>0, <1>k, <1>w, <3>1, ReturnOthers, KindNames
    <2>6. CASE Release(t)
        <3>1. pc[t] # "unloading" /\ UNCHANGED <<g_hash_table, hashlock>> /\ Others(t)
            BY <2>6, LetsShape DEF Release, Lets
        <3>2. CASE t \in Populators /\ reload[t] = "due"
            <4>1. pc'[t] = "get"
                BY <2>6, <3>2, GotoOthers DEF Release
            <4> QED BY <1>k, <3>1, <4>1, KindNames
        <3>3. CASE ~(t \in Populators /\ reload[t] = "due")
            <4>1. Return(t)
                BY <2>6, <3>3 DEF Release
            <4> QED BY <1>0, <1>k, <1>w, <3>1, <4>1, ReturnOthers, KindNames
        <3> QED BY <3>2, <3>3
    <2>7. CASE Enqueue(t)
        <3>1. /\ pc[t] = "enqueue" /\ pc'[t] = "idle" /\ UNCHANGED <<g_hash_table, hashlock>>
            BY <2>7 DEF Enqueue
        <3>2. t \notin Populators /\ Others(t)
            BY <1>p, <2>7, <3>1, LetsShape, KindNames DEF Lets
        <3> QED BY <1>k, <3>1, <3>2, KindNames
    <2>8. CASE PopulWait(t) \/ PopulTakes(t) \/ PopulIdle(t)
        <3>1. /\ t \in Populators /\ pc[t] \in {"towait", "next"}
              /\ UNCHANGED <<g_hash_table, hashlock>> /\ Others(t)
              /\ \E label \in {"wait", "get", "towait"} : Goto(t, label)
            BY <2>8, LetsShape DEF PopulWait, PopulTakes, PopulIdle, Lets
        <3>2. pc'[t] \in {"wait", "get", "towait"}
            BY <3>1, GotoOthers
        <3> QED BY <1>k, <1>w, <3>1, <3>2, KindNames
    <2>9. CASE UnloadLock(t)
        <3>1. /\ Others(t) /\ pc[t] = "unload" /\ hashlock = Nobody /\ g_hash_table' = g_hash_table
              /\ t \in Rpcs /\ t \notin Populators
            BY <1>0, <1>p, <1>w, <2>9, LetsShape, KindNames DEF UnloadLock, Lets
        <3>2. CASE g_hash_table[dir[t]] = NoBase
            <4>1. Return(t) /\ hashlock' = hashlock
                BY <2>9, <3>2 DEF UnloadLock
            <4> QED BY <1>0, <1>k, <1>w, <3>1, <4>1, ReturnOthers, KindNames
        <3>3. CASE g_hash_table[dir[t]] # NoBase
            <4>1. pc'[t] = "unloading" /\ hashlock' = t /\ dir' = dir
                BY <2>9, <3>3, GotoOthers DEF UnloadLock
            <4>2. \A u \in Threads \ {t} : pc[u] # "unloading" /\ pc'[u] # "unloading"
                BY <1>0, <1>p, <3>1 DEF Others
            <4>3. \A u \in Rpcs : pc'[u] \in RpcStates
                BY <1>p, <1>w, <3>1, <4>1, KindNames DEF Others
            <4>4. \A u \in Populators : pc'[u] \in PopulStates
                BY <1>p, <1>w, <3>1, KindNames DEF Others
            <4> QED BY <3>1, <3>3, <4>1, <4>2, <4>3, <4>4 DEF Locked
        <3> QED BY <3>2, <3>3
    <2>10. CASE UnloadTry(t)
        <3>1. /\ hashlock' = Nobody /\ hashlock = t /\ pc[t] = "unloading"
              /\ pc'[t] \in {"idle", "unload"} /\ t \in Rpcs
              /\ \A u \in Threads \ {t} : pc'[u] = pc[u]
            BY <1>0, <1>p, <2>10, UnloadShape, KindNames
        <3>2. \A u \in Threads : pc'[u] # "unloading"
            BY <1>p, <3>1
        <3> QED BY <1>0, <1>p, <1>w, <3>1, <3>2, KindNames DEF Locked
    <2> QED
        BY <1>1, <2>1, <2>2, <2>3, <2>4, <2>5, <2>6, <2>7, <2>8, <2>9, <2>10 DEF Step, Stays
<1>2. ASSUME NEW t \in Threads, NEW d \in Dirs, Request(t, d) PROVE Locked'
    <2>1. /\ pc[t] = "idle" /\ pc'[t] \in {"get", "unload"} /\ t \in Rpcs
          /\ UNCHANGED <<base, g_hash_table, hashlock>>
          /\ \A u \in Threads \ {t} : pc'[u] = pc[u] /\ dir'[u] = dir[u]
        BY <1>0, <1>2 DEF Request, Goto
    <2> QED BY <1>k, <1>w, <2>1, KindNames DEF Others
<1>3. ASSUME NEW b \in Bases, Age(b) PROVE Locked'
    BY <1>3 DEF Age, Locked
<1>4. ASSUME NEW b \in Bases, ExpiryLook(b) PROVE Locked'
    BY <1>0, <1>n, <1>4, ExpiryShape
<1>5. CASE ExpiryPass
    BY <1>0, <1>n, <1>5 DEF ExpiryPass
<1>6. CASE UNCHANGED vars
    BY <1>6 DEF vars, Locked
<1> QED
    BY <1>1, <1>2, <1>3, <1>4, <1>5, <1>6 DEF Next

\* Opening, thread by thread.
BusyStates == {"using"} \cup LockStates
OpeningOf ==
    /\ \A b \in Bases : b \in sqlite_lock <=> \E u \in Threads : base[u] = b /\ pc[u] = "open"
    /\ \A t, u \in Threads : pc[t] = "open" /\ pc[u] = "open" /\ base[t] = base[u] => t = u
    /\ \A t, u \in Threads : pc[t] \in BusyStates /\ base[u] = base[t] => pc[u] # "open"

LEMMA OpeningSame == Opening <=> OpeningOf
<1>1. \A b : At(b, {"open"}) # {} <=> \E u \in Threads : base[u] = b /\ pc[u] = "open"
    BY DEF At
<1>2. OpenedFirst <=>
        \A t, u \in Threads : pc[t] \in BusyStates /\ base[u] = base[t] => pc[u] # "open"
    BY <1>1 DEF OpenedFirst, BusyStates
<1> QED
    BY <1>1, <1>2 DEF Opening, OpeningOf

\* Nobody uses a mailbox before it is open.
LEMMA NextOpening ==
    Typed /\ Counted /\ Placed /\ Locked /\ Opening /\ [Next]_vars => Opening'
<1> SUFFICES ASSUME Typed, Counted, Placed, Locked, OpeningOf, [Next]_vars PROVE OpeningOf'
    BY OpeningSame, PTL
<1> USE DEF tablevars, basevars, clientvars, searchvars
<1>0. /\ g_hash_table \in [Dirs -> Bases \cup {NoBase}] /\ NoBase \notin Bases
      /\ pc \in [Threads -> BaseStates \cup FreeStates] /\ dir \in [Threads -> Dirs]
      /\ base \in [Threads -> Bases \cup {NoBase}] /\ sqlite_lock \subseteq Bases
      /\ \A u \in Threads : pc[u] \in UseStates => base[u] \in Bases
    BY DbAssumption, StateNames DEF Typed, Placed
<1>p. /\ \A b \in Bases : b \in sqlite_lock <=> \E u \in Threads : base[u] = b /\ pc[u] = "open"
      /\ \A t, u \in Threads : pc[t] = "open" /\ pc[u] = "open" /\ base[t] = base[u] => t = u
      /\ \A t, u \in Threads : pc[t] \in BusyStates /\ base[u] = base[t] => pc[u] # "open"
    BY DEF OpeningOf
<1>b. \A l : l \in BusyStates <=> l \in {"using", "rd", "wr", "enqueue"}
    BY DEF BusyStates, LockStates
\* Nobody begins or ends an open().
<1>s. ASSUME NEW t \in Threads, sqlite_lock' = sqlite_lock, Others(t),
             pc[t] # "open", pc'[t] # "open",
             pc'[t] \in BusyStates => base'[t] \in Bases \ sqlite_lock
      PROVE  OpeningOf'
    <2>1. \A u \in Threads : /\ pc'[u] = "open" <=> pc[u] = "open"
                             /\ pc[u] = "open" => base'[u] = base[u]
        BY <1>s DEF Others
    <2>2. \A u \in Threads \ {t} : pc'[u] \in BusyStates => pc[u] \in BusyStates /\ base'[u] = base[u]
        BY <1>s, <1>b DEF Others
    <2>3. \A b \in Bases : b \in sqlite_lock' <=> \E u \in Threads : base'[u] = b /\ pc'[u] = "open"
        BY <1>s, <1>p, <2>1
    <2>4. \A v, u \in Threads : pc'[v] = "open" /\ pc'[u] = "open" /\ base'[v] = base'[u] => v = u
        BY <1>p, <2>1
    <2>5. ASSUME NEW v \in Threads, NEW u \in Threads, pc'[v] \in BusyStates, base'[u] = base'[v]
          PROVE  pc'[u] # "open"
        <3>1. CASE v = t
            BY <1>s, <1>p, <2>1, <2>5, <3>1
        <3>2. CASE v # t
            BY <1>p, <2>1, <2>2, <2>5, <3>2
        <3> QED BY <3>1, <3>2
    <2> QED BY <2>3, <2>4, <2>5 DEF OpeningOf
\* The thread that opens a base ends.
<1>c. ASSUME NEW t \in Threads, NEW c \in Bases, c = base[t], pc[t] = "open", pc'[t] # "open",
             pc'[t] \notin BusyStates, sqlite_lock' = sqlite_lock \ {c}, Others(t)
      PROVE  OpeningOf'
    <2>1. \A u \in Threads \ {t} : /\ pc'[u] = "open" <=> pc[u] = "open"
                                   /\ base'[u] = base[u]
                                   /\ pc'[u] \in BusyStates <=> pc[u] \in BusyStates
        BY <1>c, <1>b DEF Others
    <2>2. \A u \in Threads \ {t} : pc[u] = "open" => base[u] # c
        BY <1>c, <1>p
    <2>3. \A b \in Bases : b \in sqlite_lock' <=> \E u \in Threads : base'[u] = b /\ pc'[u] = "open"
        BY <1>c, <1>p, <2>1, <2>2
    <2>4. \A v, u \in Threads : pc'[v] = "open" /\ pc'[u] = "open" /\ base'[v] = base'[u] => v = u
        BY <1>c, <1>p, <2>1
    <2>5. \A v, u \in Threads : pc'[v] \in BusyStates /\ base'[u] = base'[v] => pc'[u] # "open"
        BY <1>c, <1>p, <2>1
    <2> QED BY <2>3, <2>4, <2>5 DEF OpeningOf
<1>u. ASSUME UNCHANGED <<sqlite_lock, pc, base>> PROVE OpeningOf'
    BY <1>u DEF OpeningOf
<1>1. ASSUME NEW t \in Threads, Step(t) PROVE OpeningOf'
    <2>1. CASE GetFound(t)
        <3>1. /\ pc[t] = "get" /\ pc'[t] = "conn" /\ sqlite_lock' = sqlite_lock
              /\ \A u \in Threads \ {t} : pc'[u] = pc[u] /\ base'[u] = base[u] /\ dir'[u] = dir[u]
            BY <1>0, <2>1 DEF GetFound, Goto
        <3> QED BY <1>s, <1>b, <3>1 DEF Others
    <2>2. CASE GetCreates(t)
        <3>1. PICK c \in Bases :
               /\ Fresh(c) /\ base' = [base EXCEPT ![t] = c] /\ sqlite_lock' = sqlite_lock \cup {c}
               /\ Goto(t, "open") /\ pc[t] = "get"
            BY <2>2, FreshBase
        <3>2. /\ pc'[t] = "open" /\ base'[t] = c /\ \A u \in Threads : base[u] # c
              /\ \A u \in Threads \ {t} : pc'[u] = pc[u] /\ base'[u] = base[u]
            BY <1>0, <3>1 DEF Goto, Fresh
        <3>3. \A b \in Bases : b \in sqlite_lock' <=> \E u \in Threads : base'[u] = b /\ pc'[u] = "open"
            BY <1>p, <3>1, <3>2
        <3>4. \A v, u \in Threads : pc'[v] = "open" /\ pc'[u] = "open" /\ base'[v] = base'[u] => v = u
            BY <1>p, <3>2
        <3>5. \A v, u \in Threads : pc'[v] \in BusyStates /\ base'[u] = base'[v] => pc'[u] # "open"
            BY <1>p, <1>b, <3>2
        <3> QED BY <3>3, <3>4, <3>5 DEF OpeningOf
    <2>3. CASE OpenDone(t)
        <3>1. /\ base[t] \in Bases /\ pc[t] = "open" /\ pc'[t] = "gap" /\ Others(t)
              /\ sqlite_lock' = sqlite_lock \ {base[t]}
            BY <1>0, <2>3, GotoOthers, StateNames DEF OpenDone
        <3> QED BY <1>c, <1>b, <3>1
    <2>4. CASE OpenFails(t)
        <3>1. /\ base[t] \in Bases /\ pc[t] = "open" /\ pc'[t] \in {"idle", "next"} /\ Others(t)
              /\ sqlite_lock' = sqlite_lock \ {base[t]}
            BY <1>0, <2>4, ReturnOthers, StateNames DEF OpenFails
        <3> QED BY <1>c, <1>b, <3>1
    <2>5. CASE GapConn(t)
        <3>1. pc[t] = "gap" /\ pc'[t] = "conn" /\ Others(t) /\ sqlite_lock' = sqlite_lock
            BY <2>5, GotoOthers DEF GapConn
        <3> QED BY <1>s, <1>b, <3>1
    <2>6. CASE GapDangling(t)
        <3>1. sqlite_lock' = {} /\ \A u \in Threads : pc'[u] \in {"idle", "towait"}
            BY <2>6 DEF GapDangling, IdlePc
        <3> QED BY <1>b, <3>1 DEF OpeningOf
    <2>7. CASE Stays(t)
        <3>1. /\ UNCHANGED <<sqlite_lock, base>> /\ Others(t) /\ pc[t] # "open" /\ pc'[t] # "open"
              /\ base[t] \in Bases
            BY <1>0, <2>7, StaysShape
        <3>2. base[t] \notin sqlite_lock
            <4>1. (pc[t] = "conn" /\ base[t] \notin sqlite_lock) \/ pc[t] \in BusyStates
                BY <2>7, <1>b DEF Stays, ConnOpen, ConnFails, UseSql, LockRd, LockWr, Unlock,
                    AddObject, RemoveObject, SetCriteria, PopulDone, PopulReload
            <4> QED BY <1>p, <3>1, <4>1
        <3> QED BY <1>s, <3>1, <3>2
    <2>8. CASE Lets(t) /\ ~OpenFails(t)
        <3>1. /\ sqlite_lock' = sqlite_lock /\ pc[t] # "open"
            BY <2>8 DEF Lets, GetRefused, Release, Enqueue, EnqueueNot, PopulWait, PopulTakes,
                        PopulIdle, UnloadLock
        <3>2. /\ Others(t) /\ pc'[t] # "open" /\ pc'[t] \notin BusyStates
            BY <1>b, <2>8, LetsShape DEF FreeStates
        <3> QED BY <1>s, <3>1, <3>2
    <2>9. CASE UnloadTry(t)
        <3>1. sqlite_lock' = sqlite_lock
            BY <2>9 DEF UnloadTry, Erase
        <3>2. /\ Others(t) /\ pc'[t] # "open" /\ pc'[t] \notin BusyStates /\ pc[t] = "unloading"
            BY <1>b, <2>9, UnloadShape DEF FreeStates
        <3> QED BY <1>s, <3>1, <3>2
    <2> QED
        BY <1>1, <2>1, <2>2, <2>3, <2>4, <2>5, <2>6, <2>7, <2>8, <2>9 DEF Step, Stays, Lets
<1>2. ASSUME NEW t \in Threads, NEW d \in Dirs, Request(t, d) PROVE OpeningOf'
    <2>1. /\ pc[t] = "idle" /\ pc'[t] \in {"get", "unload"} /\ UNCHANGED <<base, sqlite_lock>>
          /\ \A u \in Threads \ {t} : pc'[u] = pc[u] /\ dir'[u] = dir[u]
        BY <1>0, <1>2 DEF Request, Goto
    <2> QED BY <1>s, <1>b, <2>1 DEF Others
<1>3. ASSUME NEW b \in Bases, Age(b) PROVE OpeningOf'
    BY <1>u, <1>3 DEF Age
<1>4. ASSUME NEW b \in Bases, ExpiryLook(b) PROVE OpeningOf'
    BY <1>u, <1>4 DEF ExpiryLook, Erase
<1>5. CASE ExpiryPass
    BY <1>u, <1>5 DEF ExpiryPass
<1>6. CASE UNCHANGED vars
    BY <1>u, <1>6 DEF vars
<1> QED
    BY <1>1, <1>2, <1>3, <1>4, <1>5, <1>6 DEF Next

\* What clients hold stays.
LEMMA NextKept == Typed /\ Counted /\ Placed /\ Locked /\ Kept /\ [Next]_vars => Kept'
<1> SUFFICES ASSUME Typed, Counted, Placed, Locked, Kept, [Next]_vars PROVE Kept'
    OBVIOUS
<1> USE DEF tablevars, basevars, clientvars, searchvars
<1>0. /\ g_hash_table \in [Dirs -> Bases \cup {NoBase}] /\ NoBase \notin Bases
      /\ base \in [Threads -> Bases \cup {NoBase}] /\ dir \in [Threads -> Dirs]
      /\ has \in [Bases -> SUBSET Kinds] /\ held \in [Dirs -> SUBSET Kinds]
    BY DbAssumption DEF Typed
<1>i. \A d, e \in Dirs :
             g_hash_table[d] = g_hash_table[e] /\ g_hash_table[d] # NoBase => d = e
    BY DEF Placed
<1>k. /\ \A d \in Dirs : \A k \in held[d] :
             \/ k = "table" /\ d \in lost
             \/ g_hash_table[d] # NoBase /\ k \in has[g_hash_table[d]]
      /\ \A b \in Bases \ InTable : has[b] = {}
    BY DEF Kept, HandlesSurvive
<1>u. ASSUME UNCHANGED <<g_hash_table, has, held, lost>> PROVE Kept'
    BY <1>u DEF Kept, HandlesSurvive, InTable
\* A base is erased that has nothing.
<1>e. ASSUME NEW b \in Bases, Closes(b) PROVE Kept'
    <2>1. /\ InTable' = InTable \ {b} /\ has[b] = {} /\ UNCHANGED <<held, lost>>
          /\ \A d \in Dirs : g_hash_table'[d] = IF g_hash_table[d] = b THEN NoBase
                                                ELSE g_hash_table[d]
          /\ \A c \in Bases : has'[c] = has[c]
        BY <1>0, <1>e, TableShrinks DEF Closes, Erase, Unused
    <2>2. HandlesSurvive'
        BY <1>0, <1>k, <2>1 DEF HandlesSurvive
    <2>3. \A c \in Bases \ InTable' : has'[c] = {}
        BY <1>k, <2>1
    <2> QED BY <2>2, <2>3 DEF Kept
\* The objects of one base change, that of the thread's directory.
<1>o. ASSUME NEW c \in Bases, NEW d \in Dirs, g_hash_table[d] = c, g_hash_table' = g_hash_table,
             \A b \in Bases \ {c} : has'[b] = has[b], \A e \in Dirs \ {d} : held'[e] = held[e],
             \A e \in Dirs \ {d} : e \in lost => e \in lost',
             \A k \in held'[d] : (k = "table" /\ d \in lost') \/ k \in has'[c]
      PROVE  Kept'
    <2>1. InTable' = InTable /\ c \in InTable
        BY <1>o, <1>0 DEF InTable
    <2>2. \A e \in Dirs \ {d} : g_hash_table[e] # c
        BY <1>0, <1>i, <1>o
    <2>3. ASSUME NEW e \in Dirs, NEW k \in held'[e]
          PROVE  \/ k = "table" /\ e \in lost'
                 \/ g_hash_table'[e] # NoBase /\ k \in has'[g_hash_table'[e]]
        <3>1. CASE e = d
            BY <1>0, <1>o, <2>3, <3>1
        <3>2. CASE e # d
            BY <1>0, <1>k, <1>o, <2>2, <2>3, <3>2
        <3> QED BY <3>1, <3>2
    <2>4. HandlesSurvive'
        BY <2>3 DEF HandlesSurvive
    <2>5. \A b \in Bases \ InTable' : has'[b] = {}
        BY <1>k, <1>o, <2>1
    <2> QED BY <2>4, <2>5 DEF Kept
<1>1. ASSUME NEW t \in Threads, Step(t) PROVE Kept'
    <2>b. pc[t] = "wr" => base[t] \in Bases /\ g_hash_table[dir[t]] = base[t]
        BY <1>0, StateNames DEF Placed, ConnIsLive, UseStates
    <2>1. CASE GetCreates(t)
        <3>1. PICK c \in Bases :
               /\ Fresh(c) /\ c # NoBase /\ g_hash_table[dir[t]] = NoBase
               /\ g_hash_table' = [g_hash_table EXCEPT ![dir[t]] = c]
               /\ UNCHANGED <<has, held, lost>>
            BY <2>1, FreshBase
        <3>2. InTable' = InTable \cup {c}
            BY <1>0, <3>1, TableGrows
        <3>3. HandlesSurvive'
            BY <1>0, <1>k, <3>1 DEF HandlesSurvive
        <3> QED BY <1>k, <3>1, <3>2, <3>3 DEF Kept
    <2>2. CASE GapDangling(t)
        BY <2>2 DEF GapDangling, Kept, HandlesSurvive
    <2>3. ASSUME NEW k \in Kinds, AddObject(t, k) PROVE Kept'
        <3>1. PICK c \in Bases, d \in Dirs : c = base[t] /\ d = dir[t] /\ g_hash_table[d] = c
            BY <1>0, <2>3, <2>b DEF AddObject
        <3>2. /\ has' = [has EXCEPT ![c] = @ \cup {k}] /\ held' = [held EXCEPT ![d] = @ \cup {k}]
              /\ lost' = lost /\ g_hash_table' = g_hash_table
            BY <2>3, <3>1 DEF AddObject
        <3>3. \A j \in held'[d] : (j = "table" /\ d \in lost') \/ j \in has'[c]
            BY <1>0, <1>k, <3>1, <3>2
        <3> QED BY <1>0, <1>o, <3>1, <3>2, <3>3
    <2>4. ASSUME NEW k \in Kinds, RemoveObject(t, k) PROVE Kept'
        <3>1. PICK c \in Bases, d \in Dirs : c = base[t] /\ d = dir[t] /\ g_hash_table[d] = c
            BY <1>0, <2>4, <2>b DEF RemoveObject
        <3>2. /\ has' = [has EXCEPT ![c] = @ \ {k}] /\ held' = [held EXCEPT ![d] = @ \ {k}]
              /\ lost' = (IF k = "table" THEN lost \ {d} ELSE lost) /\ g_hash_table' = g_hash_table
            BY <2>4, <3>1 DEF RemoveObject
        <3>3. \A j \in held'[d] : (j = "table" /\ d \in lost') \/ j \in has'[c]
            BY <1>0, <1>k, <3>1, <3>2
        <3> QED BY <1>0, <1>o, <3>1, <3>2, <3>3
    <2>5. CASE PopulReload(t)
        <3>1. CASE UNCHANGED <<has, lost>>
            BY <1>u, <2>5, <3>1 DEF PopulReload
        <3>2. CASE ~UNCHANGED <<has, lost>>
            <4>1. PICK c \in Bases, d \in Dirs : c = base[t] /\ d = dir[t] /\ g_hash_table[d] = c
                BY <1>0, <2>5, <2>b DEF PopulReload
            <4>2. /\ has' = [has EXCEPT ![c] = @ \ {"table"}] /\ lost' = lost \cup {d}
                  /\ UNCHANGED <<held, g_hash_table>>
                BY <2>5, <3>2, <4>1 DEF PopulReload
            <4>3. \A j \in held'[d] : (j = "table" /\ d \in lost') \/ j \in has'[c]
                BY <1>0, <1>k, <4>1, <4>2
            <4> QED BY <1>0, <1>o, <4>1, <4>2, <4>3
        <3> QED BY <3>1, <3>2
    <2>6. CASE UnloadTry(t)
        BY <1>e, <1>u, <2>6, UnloadShape
    <2>7. CASE \/ GetFound(t) \/ GetRefused(t) \/ OpenDone(t) \/ OpenFails(t) \/ GapConn(t)
               \/ ConnOpen(t) \/ ConnFails(t) \/ Release(t)
               \/ UseSql(t) \/ LockRd(t) \/ LockWr(t) \/ Unlock(t)
               \/ SetCriteria(t) \/ Enqueue(t) \/ EnqueueNot(t)
               \/ PopulWait(t) \/ PopulTakes(t) \/ PopulIdle(t) \/ PopulDone(t) \/ UnloadLock(t)
        <3>1. UNCHANGED <<g_hash_table, has, held, lost>>
            BY <2>7 DEF GetFound, GetRefused, OpenDone, OpenFails, GapConn, ConnOpen, ConnFails,
                Release, UseSql, LockRd, LockWr, Unlock, SetCriteria, Enqueue, EnqueueNot,
                PopulWait, PopulTakes, PopulIdle, PopulDone, UnloadLock
        <3> QED BY <1>u, <3>1
    <2> QED
        BY <1>1, <2>1, <2>2, <2>3, <2>4, <2>5, <2>6, <2>7 DEF Step
<1>2. ASSUME NEW t \in Threads, NEW d \in Dirs, Request(t, d) PROVE Kept'
    BY <1>u, <1>2 DEF Request
<1>3. ASSUME NEW b \in Bases, Age(b) PROVE Kept'
    BY <1>u, <1>3 DEF Age
<1>4. ASSUME NEW b \in Bases, ExpiryLook(b) PROVE Kept'
    BY <1>e, <1>u, <1>4, ExpiryShape
<1>5. CASE ExpiryPass
    BY <1>u, <1>5 DEF ExpiryPass
<1>6. CASE UNCHANGED vars
    BY <1>u, <1>6 DEF vars
<1> QED
    BY <1>1, <1>2, <1>3, <1>4, <1>5, <1>6 DEF Next

-----------------------------------------------------------------------------
LEMMA InitInd == Init => IndInv
<1> SUFFICES ASSUME Init PROVE IndInv
    OBVIOUS
<1>0. NoBase \notin Bases /\ AnyDir \in Dirs /\ Expiry # Nobody /\ Nobody \notin Threads
      /\ Rpcs \cap Populators = {} /\ MaxSearches \in Nat
    BY DbAssumption, AnyDirIsDir
<1>1. /\ \A u \in Threads : pc[u] = (IF u \in Rpcs THEN "idle" ELSE "towait") /\ base[u] = NoBase
      /\ \A d \in Dirs : g_hash_table[d] = NoBase
    BY DEF Init, IdlePc
<1>2. InTable = {} /\ \A u \in Threads : pc[u] \in FreeStates
    BY <1>1 DEF InTable, FreeStates
<1>3. Typed
    <2>1. pc \in [Threads -> BaseStates \cup FreeStates] /\ dir \in [Threads -> Dirs]
        BY <1>0 DEF Init, IdlePc, FreeStates
    <2>2. /\ g_hash_table \in [Dirs -> Bases \cup {NoBase}] /\ reference \in [Bases -> Nat]
          /\ has \in [Bases -> SUBSET Kinds] /\ held \in [Dirs -> SUBSET Kinds]
          /\ base \in [Threads -> Bases \cup {NoBase}]
          /\ reload \in [Populators -> {"no", "due", "now"}]
        BY DEF Init
    <2>3. /\ hashlock = Nobody /\ left = {} /\ sqlite_lock = {} /\ aged = {} /\ lost = {}
          /\ g_populating_list = <<>> /\ lostwake = FALSE
        BY DEF Init
    <2>4. g_populating_list \in Seq(Dirs) /\ Len(g_populating_list) <= MaxSearches
        BY <1>0, <2>3
    <2> QED BY <1>0, <1>2, <2>1, <2>2, <2>3, <2>4 DEF Typed
<1>4. Counted
    <2>1. \A b \in Bases : Users(b) = {} /\ reference[b] = 0
        BY <1>0, <1>1 DEF Users, At, Init
    <2> QED BY <2>1, FS_EmptySet DEF Counted
<1>5. Placed
    BY <1>1, <1>2, StateNames DEF Placed, ConnIsLive, UseStates
<1>6. Locked
    <2>1. hashlock = Nobody
        BY DEF Init
    <2> QED BY <1>0, <1>1, <2>1, KindNames DEF Locked, Threads
<1>7. OpeningOf
    <2>1. sqlite_lock = {}
        BY DEF Init
    <2> QED BY <1>1, <2>1 DEF OpeningOf, BusyStates, LockStates
<1>8. Kept
    BY DEF Init, Kept, HandlesSurvive
<1> QED
    BY <1>3, <1>4, <1>5, <1>6, <1>7, <1>8, OpeningSame DEF IndInv

LEMMA NextInd == IndInv /\ [Next]_vars => IndInv'
    BY NextTyped, NextCounted, NextPlaced, NextLocked, NextOpening, NextKept DEF IndInv

\* The invariant is what the run checks, and more.
LEMMA IndInvSound == IndInv => BasesSound
<1> SUFFICES ASSUME IndInv PROVE BasesSound
    OBVIOUS
<1>1. RefCount
    <2>1. \A b \in InTable : b \in Bases
        BY DEF IndInv, Typed, InTable
    <2> QED BY <2>1 DEF RefCount, IndInv, Counted, Users, CountStates
<1>2. TypeOK
    <2>1. \A b \in Bases : reference[b] \in 0..Cardinality(Threads)
        BY UsersFinite DEF IndInv, Counted
    <2>2. reference \in [Bases -> 0..Cardinality(Threads)]
        BY <2>1 DEF IndInv, Typed
    <2>3. pc \in [Threads -> ConnStates \cup LockStates \cup
                   {"idle", "get", "open", "gap", "unload", "unloading",
                    "towait", "wait", "next"}]
        BY DEF IndInv, Typed, BaseStates, UseStates, FreeStates
    <2> QED BY <2>2, <2>3 DEF IndInv, Typed, TypeOK
<1> QED
    BY <1>1, <1>2 DEF BasesSound, IndInv, Placed, Opening, Kept

\* For any number of mailboxes and threads: reference counts exactly the connections and
\* the running open(), no base is freed under a thread that may touch it, nobody uses a
\* mailbox before its open() has ended, and what clients hold outlives the idle periods
\* (db_conn, db_base::open, remove_from_hash, db_engine_unload_db).
THEOREM BasesSoundCorrect == Spec => []BasesSound
    BY InitInd, NextInd, IndInvSound, PTL DEF Spec

-----------------------------------------------------------------------------
\* What MailboxUse sees of a state.
OpenDirs == {d \in Dirs : g_hash_table[d] # NoBase}
UseMap == [t \in Threads |-> UseOf(t)]
ObjectsIn(d) == IF g_hash_table[d] = NoBase THEN {} ELSE has[g_hash_table[d]]
ObjectMap == [d \in Dirs |-> ObjectsIn(d)]

\* The threads that stay where they are go on using what they use.
LEMMA UseFrame ==
    ASSUME NEW t \in Threads, Others(t)
    PROVE  /\ UseMap' = [UseMap EXCEPT ![t] = UseOf(t)']
           /\ UseOf(t)' = UseOf(t) => UseMap' = UseMap
<1>1. \A u \in Threads \ {t} : pc'[u] \in UseStates <=> pc[u] \in UseStates
    BY StateNames DEF Others, FreeStates
<1>2. \A u \in Threads \ {t} : UseOf(u)' = UseOf(u)
    BY <1>1 DEF UseOf, Others, UseStates
<1> QED
    BY <1>2 DEF UseMap

\* Every step of the table is a step of MailboxUse, a stutter, or the crash.
LEMMA UseStep ==
    IndInv /\ [Next]_vars =>
        Use!Next \/ (\E t \in Threads : GapDangling(t)) \/ UNCHANGED Use!vars
<1> DEFINE Goal == Use!Next \/ (\E t \in Threads : GapDangling(t)) \/ UNCHANGED Use!vars
<1> SUFFICES ASSUME IndInv, [Next]_vars PROVE Goal
    OBVIOUS
<1> USE DEF tablevars, basevars, clientvars, searchvars
<1>0. /\ g_hash_table \in [Dirs -> Bases \cup {NoBase}]
      /\ NoBase \notin Bases /\ NoBase \notin Dirs
      /\ base \in [Threads -> Bases \cup {NoBase}] /\ dir \in [Threads -> Dirs]
      /\ has \in [Bases -> SUBSET Kinds]
      /\ Typed /\ Counted /\ Placed /\ Locked /\ Opening /\ Kept
    BY DbAssumption DEF IndInv, Typed
<1>i. /\ \A d, e \in Dirs :
             g_hash_table[d] = g_hash_table[e] /\ g_hash_table[d] # NoBase => d = e
      /\ \A u \in Threads : pc[u] \in UseStates => g_hash_table[dir[u]] = base[u]
      /\ \A u \in Threads : base[u] # NoBase <=> pc[u] \in BaseStates
    BY <1>0 DEF Placed, ConnIsLive, UseStates
<1>v. \A u \in Threads : UseOf(u) = IF pc[u] \in UseStates THEN dir[u] ELSE NoBase
    BY DEF UseOf, UseStates
<1>w. \A u \in Threads : UseOf(u)' = IF pc'[u] \in UseStates THEN dir'[u] ELSE NoBase
    BY DEF UseOf, UseStates
<1>s. ASSUME OpenDirs' = OpenDirs, UseMap' = UseMap, ObjectMap' = ObjectMap PROVE Goal
    BY <1>s DEF Use!vars, OpenDirs, UseMap, ObjectMap, ObjectsIn
<1>t. ASSUME UNCHANGED <<g_hash_table, has>>
      PROVE  OpenDirs' = OpenDirs /\ ObjectMap' = ObjectMap
    BY <1>t DEF OpenDirs, ObjectMap, ObjectsIn
<1>p. ASSUME UNCHANGED <<pc, dir>> PROVE UseMap' = UseMap
    BY <1>p DEF UseMap, UseOf
\* A thread neither begins nor ceases to use a mailbox.
<1>q. ASSUME NEW t \in Threads, UNCHANGED <<g_hash_table, has>>, Others(t),
             UseOf(t)' = UseOf(t)
      PROVE  Goal
    BY <1>q, <1>s, <1>t, UseFrame
\* It ceases.
<1>l. ASSUME NEW t \in Threads, UNCHANGED <<g_hash_table, has>>, Others(t),
             pc[t] \in UseStates, pc'[t] \notin UseStates
      PROVE  Goal
    <2>1. /\ UseMap' = [UseMap EXCEPT ![t] = NoBase] /\ UseMap[t] # NoBase
          /\ OpenDirs' = OpenDirs /\ ObjectMap' = ObjectMap
        BY <1>0, <1>l, <1>t, <1>v, <1>w, UseFrame DEF UseMap
    <2>2. Use!Leave(t)
        BY <2>1 DEF Use!Leave, OpenDirs, UseMap, ObjectMap, ObjectsIn
    <2> QED BY <2>2 DEF Use!Next
\* It begins, and the mailbox is open afterwards.
<1>e. ASSUME NEW t \in Threads, Others(t), pc[t] \notin UseStates, pc'[t] \in UseStates,
             NEW d \in Dirs, d = dir'[t], OpenDirs' = OpenDirs \cup {d}, ObjectMap' = ObjectMap
      PROVE  Goal
    <2>1. UseMap' = [UseMap EXCEPT ![t] = d] /\ UseMap[t] = NoBase
        BY <1>e, <1>v, <1>w, UseFrame DEF UseMap
    <2>2. Use!Enter(t, d)
        BY <1>e, <2>1 DEF Use!Enter, OpenDirs, UseMap, ObjectMap, ObjectsIn
    <2> QED BY <2>2 DEF Use!Next
\* Its mailbox gets one object more or less.
<1>c. ASSUME NEW t \in Threads, NEW c \in Bases, c = base[t], pc[t] \in UseStates, Others(t),
             UNCHANGED <<g_hash_table, dir>>, pc'[t] \in UseStates, NEW k \in Kinds,
             \/ has' = [has EXCEPT ![c] = @ \cup {k}]
             \/ has' = [has EXCEPT ![c] = @ \ {k}]
      PROVE  Goal
    <2>1. PICK d \in Dirs : d = dir[t] /\ g_hash_table[d] = c
        BY <1>0, <1>c, <1>i
    <2>2. OpenDirs' = OpenDirs /\ d \in OpenDirs /\ ObjectMap[d] = has[c]
        BY <1>0, <1>c, <2>1 DEF OpenDirs, ObjectMap, ObjectsIn
    <2>3. UseMap' = UseMap /\ UseMap[t] = d
        BY <1>c, <1>v, <1>w, <2>1, UseFrame DEF UseMap
    <2>4. \A e \in Dirs : g_hash_table[e] = c <=> e = d
        BY <1>0, <1>i, <2>1
    <2>5. CASE has'[c] = has[c]
        <3>1. has' = has
            BY <1>0, <1>c, <2>5
        <3> QED BY <1>s, <1>t, <1>c, <2>3, <3>1
    <2>6. CASE has'[c] # has[c]
        <3>1. has'[c] = (IF k \in has[c] THEN has[c] \ {k} ELSE has[c] \cup {k})
              /\ \A b \in Bases \ {c} : has'[b] = has[b]
            <4>1. CASE has' = [has EXCEPT ![c] = @ \cup {k}]
                BY <1>0, <2>6, <4>1
            <4>2. CASE has' = [has EXCEPT ![c] = @ \ {k}]
                BY <1>0, <2>6, <4>2
            <4> QED BY <1>c, <4>1, <4>2
        <3>2. \A e \in Dirs : ObjectsIn(e)' =
                IF e = d THEN (IF k \in has[c] THEN has[c] \ {k} ELSE has[c] \cup {k})
                ELSE ObjectsIn(e)
            BY <1>0, <1>c, <2>4, <3>1 DEF ObjectsIn
        <3>3. ObjectMap' = [ObjectMap EXCEPT ![d] = IF k \in @ THEN @ \ {k} ELSE @ \cup {k}]
            BY <2>2, <3>2 DEF ObjectMap
        <3>4. Use!Change(t, k)
            BY <2>2, <2>3, <3>3 DEF Use!Change, OpenDirs, UseMap, ObjectMap, ObjectsIn
        <3> QED BY <3>4 DEF Use!Next
    <2> QED BY <2>5, <2>6
\* A mailbox is closed.
<1>d. ASSUME NEW b \in Bases, Closes(b), NEW d \in Dirs, g_hash_table[d] = b, UseMap' = UseMap
      PROVE  Goal
    <2>1. /\ \A e \in Dirs : g_hash_table'[e] = IF g_hash_table[e] = b THEN NoBase
                                                ELSE g_hash_table[e]
          /\ \A c \in Bases : has'[c] = has[c]
          /\ has[b] = {}
        BY <1>0, <1>d DEF Closes, Erase, Unused
    <2>2. \A e \in Dirs : g_hash_table[e] = b <=> e = d
        BY <1>0, <1>d, <1>i
    <2>3. OpenDirs' = OpenDirs \ {d} /\ d \in OpenDirs
        BY <1>0, <1>d, <2>1, <2>2 DEF OpenDirs
    <2>4. ObjectMap' = ObjectMap /\ ObjectMap[d] = {}
        <3>1. \A e \in Dirs : ObjectsIn(e)' = ObjectsIn(e)
            BY <1>0, <1>d, <2>1, <2>2 DEF ObjectsIn
        <3> QED BY <1>d, <2>1, <3>1 DEF ObjectMap, ObjectsIn
    <2>5. \A u \in Threads : UseMap[u] # d
        <3>1. \A u \in Threads : base[u] = b => pc[u] \notin UseStates
            BY <1>0, <1>d, ErasedUnused DEF Closes
        <3> QED BY <1>0, <1>d, <1>i, <1>v, <3>1 DEF UseMap
    <2>6. Use!Close(d)
        BY <1>d, <2>3, <2>4, <2>5 DEF Use!Close, OpenDirs, UseMap, ObjectMap, ObjectsIn
    <2> QED BY <2>6 DEF Use!Next
<1>1. ASSUME NEW t \in Threads, Step(t) PROVE Goal
    <2>1. CASE GetFound(t)
        <3>1. PICK d \in Dirs : d = dir[t] /\ g_hash_table[d] # NoBase
            BY <1>0, <2>1 DEF GetFound
        <3>2. /\ UNCHANGED <<g_hash_table, has, dir>> /\ pc[t] = "get" /\ pc'[t] = "conn"
              /\ \A u \in Threads \ {t} : base'[u] = base[u] /\ pc'[u] = pc[u]
            BY <1>0, <2>1 DEF GetFound, Goto, Typed
        <3>3. OpenDirs' = OpenDirs \cup {d} /\ ObjectMap' = ObjectMap /\ Others(t)
            BY <1>t, <3>1, <3>2 DEF OpenDirs, Others
        <3> QED BY <1>e, <3>1, <3>2, <3>3, StateNames
    <2>2. CASE GetCreates(t)
        <3>1. PICK b \in Bases :
               /\ Fresh(b) /\ b # NoBase /\ pc[t] = "get" /\ UNCHANGED <<dir, has>>
               /\ g_hash_table' = [g_hash_table EXCEPT ![dir[t]] = b]
               /\ base' = [base EXCEPT ![t] = b]
               /\ Goto(t, "open") /\ g_hash_table[dir[t]] = NoBase
            BY <1>0, <2>2, FreshBase
        <3>2. PICK d \in Dirs : d = dir[t]
            BY <1>0
        <3>3. /\ pc'[t] = "open" /\ Others(t)
              /\ \A e \in Dirs : g_hash_table'[e] = IF e = d THEN b ELSE g_hash_table[e]
            BY <1>0, <3>1, <3>2 DEF Goto, Others, Typed
        <3>4. has[b] = {}
            BY <1>0, <3>1 DEF Kept, Fresh
        <3>5. OpenDirs' = OpenDirs \cup {d}
            BY <3>1, <3>2, <3>3 DEF OpenDirs
        <3>6. ObjectMap' = ObjectMap
            <4>1. \A e \in Dirs : ObjectsIn(e)' = ObjectsIn(e)
                BY <3>1, <3>2, <3>3, <3>4 DEF ObjectsIn
            <4> QED BY <4>1 DEF ObjectMap
        <3> QED BY <1>e, <3>1, <3>2, <3>3, <3>5, <3>6, StateNames
    <2>3. CASE OpenDone(t)
        <3>1. /\ UNCHANGED <<g_hash_table, has>> /\ pc[t] = "open" /\ pc'[t] = "gap" /\ Others(t)
            BY <1>0, <2>3, GotoOthers DEF OpenDone
        <3> QED BY <1>l, <3>1, StateNames
    <2>4. CASE GapConn(t)
        <3>1. PICK d \in Dirs : d = dir[t] /\ g_hash_table[d] # NoBase
            BY <1>0, <2>4 DEF GapConn, Placed, InTable
        <3>2. /\ UNCHANGED <<g_hash_table, has, dir>> /\ pc[t] = "gap" /\ pc'[t] = "conn"
              /\ Others(t)
            BY <1>0, <2>4, GotoOthers DEF GapConn
        <3>3. OpenDirs' = OpenDirs \cup {d} /\ ObjectMap' = ObjectMap
            BY <1>t, <3>1, <3>2 DEF OpenDirs
        <3> QED BY <1>e, <3>1, <3>2, <3>3, StateNames
    <2>5. CASE \E k \in Kinds : AddObject(t, k) \/ RemoveObject(t, k)
        <3>1. PICK k \in Kinds : AddObject(t, k) \/ RemoveObject(t, k)
            BY <2>5
        <3>2. /\ UNCHANGED <<g_hash_table, dir>> /\ pc[t] = "wr" /\ pc'[t] \in UseStates
              /\ Others(t) /\ base[t] \in Bases
            BY <1>0, <1>i, <2>5, <3>1, StaysShape, StateNames DEF Stays, AddObject, RemoveObject
        <3>3. \/ has' = [has EXCEPT ![base[t]] = @ \cup {k}]
              \/ has' = [has EXCEPT ![base[t]] = @ \ {k}]
            BY <3>1 DEF AddObject, RemoveObject
        <3> QED BY <1>c, <3>2, <3>3, StateNames
    <2>6. CASE PopulReload(t)
        <3>1. /\ UNCHANGED <<g_hash_table, dir>> /\ pc[t] = "wr" /\ pc'[t] \in UseStates
              /\ Others(t) /\ base[t] \in Bases
            BY <1>0, <1>i, <2>6, StaysShape, StateNames DEF Stays, PopulReload
        <3>2. CASE has' = has
            BY <1>q, <1>v, <1>w, <3>1, <3>2, StateNames
        <3>3. CASE has' # has
            <4>1. "table" \in has[base[t]] /\ has' = [has EXCEPT ![base[t]] = @ \ {"table"}]
                BY <2>6, <3>3 DEF PopulReload
            <4>2. "table" \in Kinds
                BY <1>0, <3>1, <4>1
            <4> QED BY <1>c, <3>1, <4>1, <4>2, StateNames
        <3> QED BY <3>2, <3>3
    <2>7. CASE ConnOpen(t) \/ ConnFails(t) \/ UseSql(t) \/ LockRd(t) \/ LockWr(t) \/ Unlock(t)
               \/ SetCriteria(t) \/ PopulDone(t)
        <3>1. has' = has
            BY <2>7 DEF ConnOpen, ConnFails, UseSql, LockRd, LockWr, Unlock, SetCriteria, PopulDone
        <3>2. /\ UNCHANGED <<g_hash_table, dir>> /\ pc[t] \in UseStates /\ pc'[t] \in UseStates
              /\ Others(t)
            BY <1>0, <2>7, StaysShape DEF Stays
        <3> QED BY <1>q, <1>v, <1>w, <3>1, <3>2
    <2>8. CASE Lets(t)
        <3>1. has' = has
            BY <2>8 DEF Lets, GetRefused, OpenFails, Release, Enqueue, EnqueueNot, PopulWait,
                        PopulTakes, PopulIdle, UnloadLock
        <3>2. /\ g_hash_table' = g_hash_table /\ pc'[t] \notin UseStates /\ Others(t)
            BY <1>0, <2>8, LetsShape, StateNames
        <3>3. CASE pc[t] \in UseStates
            BY <1>l, <3>1, <3>2, <3>3
        <3>4. CASE pc[t] \notin UseStates
            BY <1>q, <1>v, <1>w, <3>1, <3>2, <3>4
        <3> QED BY <3>3, <3>4
    <2>9. CASE UnloadTry(t)
        <3>1. /\ pc[t] \notin UseStates /\ pc'[t] \notin UseStates /\ Others(t)
              /\ \/ \E b \in Bases : b = g_hash_table[dir[t]] /\ Closes(b)
                 \/ UNCHANGED <<g_hash_table, basevars, clientvars>>
            BY <1>0, <2>9, UnloadShape, StateNames
        <3>2. UseMap' = UseMap
            BY <1>v, <1>w, <3>1, UseFrame
        <3>3. CASE UNCHANGED <<g_hash_table, basevars, clientvars>>
            BY <1>s, <1>t, <3>2, <3>3
        <3>4. CASE \E b \in Bases : b = g_hash_table[dir[t]] /\ Closes(b)
            BY <1>0, <1>d, <3>2, <3>4
        <3> QED BY <3>1, <3>3, <3>4
    <2>10. CASE GapDangling(t)
        BY <2>10
    <2> QED
        BY <1>1, <2>1, <2>2, <2>3, <2>4, <2>5, <2>6, <2>7, <2>8, <2>9, <2>10 DEF Step, Lets
<1>2. ASSUME NEW t \in Threads, NEW d \in Dirs, Request(t, d) PROVE Goal
    <2>1. /\ pc[t] = "idle" /\ pc'[t] \in {"get", "unload"} /\ UNCHANGED <<base, g_hash_table, has>>
          /\ \A u \in Threads \ {t} : pc'[u] = pc[u] /\ dir'[u] = dir[u]
        BY <1>0, <1>2 DEF Request, Goto, Typed
    <2>2. Others(t) /\ UseOf(t)' = UseOf(t)
        BY <1>v, <1>w, <2>1, StateNames DEF Others
    <2> QED BY <1>q, <2>1, <2>2
<1>3. ASSUME NEW b \in Bases, Age(b) PROVE Goal
    BY <1>s, <1>t, <1>p, <1>3 DEF Age
<1>4. ASSUME NEW b \in Bases, ExpiryLook(b) PROVE Goal
    <2>1. b \in InTable /\ UseMap' = UseMap
        BY <1>0, <1>p, <1>4, ExpiryShape DEF ExpiryLook, Typed
    <2>2. PICK d \in Dirs : g_hash_table[d] = b
        BY <2>1 DEF InTable
    <2>3. Closes(b) \/ UNCHANGED <<g_hash_table, basevars, clientvars>>
        BY <1>4, ExpiryShape
    <2> QED BY <1>s, <1>t, <1>d, <2>1, <2>2, <2>3
<1>5. CASE ExpiryPass
    BY <1>s, <1>t, <1>p, <1>5 DEF ExpiryPass
<1>6. CASE UNCHANGED vars
    BY <1>s, <1>t, <1>p, <1>6 DEF vars
<1> QED
    BY <1>1, <1>2, <1>3, <1>4, <1>5, <1>6 DEF Next

\* The table of open mailboxes, with all its locks and reference counts, implements
\* MailboxUse for any number of mailboxes and threads: a mailbox is closed only when no
\* thread uses it and no client has anything open in it.  The crash on a base freed before
\* its first db_conn is the one exception (db_engine_get_db, db_base::open).
THEOREM UseCorrect == Spec => UseSpec
<1>1. Init => Use!Init
    <2> SUFFICES ASSUME Init PROVE Use!Init
        OBVIOUS
    <2>1. /\ \A d \in Dirs : g_hash_table[d] = NoBase
          /\ \A t \in Threads : pc[t] = IF t \in Rpcs THEN "idle" ELSE "towait"
        BY DEF Init, IdlePc
    <2>2. \A t \in Threads : UseOf(t) = NoBase
        BY <2>1 DEF UseOf, ConnStates, LockStates
    <2> QED BY <2>1, <2>2 DEF Use!Init
<1> QED
    BY <1>1, InitInd, NextInd, UseStep, PTL DEF Spec, UseSpec

=============================================================================
