------------------------- MODULE ImapSessionsProofs -------------------------
(***************************************************************************)
(* Proofs about the IMAP sessions, for any number of sessions, folders and *)
(* messages.                                                               *)
(***************************************************************************)
EXTENDS ImapSessions, FiniteSetTheorems, TLAPS

\* The UIDs that midb has given out.
Given(f) == 1..uidnext[f]-1

Typed ==
    /\ touches \subseteq Folders /\ subscribed \subseteq Folders
    /\ expunges \subseteq Folders \X AllUids
    /\ proto_stat \in [Sessions -> {"noauth", "auth", "select"}]
    /\ selected_folder \in [Sessions -> Folders \cup {NoFolder}]
    /\ prev_selected \in [Sessions -> Folders \cup {NoFolder}]
    /\ unsub \in [Sessions -> Folders \cup {NoFolder}]
    /\ b_readonly \in [Sessions -> BOOLEAN] /\ mask \in [Sessions -> BOOLEAN]
    /\ contents \in [Sessions -> SUBSET AllUids]
    /\ f_flags \in [Sessions -> SUBSET AllUids]
    /\ f_expunged_uids \in [Sessions -> SUBSET AllUids]
    /\ work \in [Sessions -> SUBSET AllUids]
    /\ sched_stat \in [Sessions -> {"rdcmd", "idling", "notifying"}]
    /\ pc \in [Sessions -> {"ready", "read", "add", "leave", "remove", "close",
                            "echo", "bye"}]
    /\ asleep \subseteq Sessions /\ listed \subseteq Sessions
    /\ owed \in [Sessions -> SUBSET AllUids]
    /\ carried \in [Sessions -> SUBSET AllUids]
    /\ lapse \in [Sessions -> BOOLEAN]

\* midb's index has all that the store has, and UIDs are given out once.
Indexed ==
    /\ store \in [Folders -> SUBSET AllUids] /\ idx \in [Folders -> SUBSET AllUids]
    /\ deleted \in [Folders -> SUBSET AllUids]
    /\ uidnext \in [Folders -> Nat] /\ incoming \in [Folders -> Nat]
    /\ \A f \in Folders :
           /\ store[f] \subseteq idx[f] /\ deleted[f] \subseteq idx[f]
           /\ idx[f] \subseteq Given(f)
           /\ uidnext[f] >= 1 /\ uidnext[f] + incoming[f] <= MaxUid[f] + 1

\* A UID that midb gave up for another is not used again.
Retired ==
    /\ replaced \in [Folders -> SUBSET AllUids]
    /\ \A f \in Folders : replaced[f] \subseteq Given(f) /\ replaced[f] \cap idx[f] = {}

\* Where a command stands says whether its session has a folder, sleeps, is in
\* g_select_hash and has a list of messages.
Role(s) ==
    /\ Selected(s) <=> selected_folder[s] # NoFolder
    /\ pc[s] \in {"read", "leave", "close", "bye"} => ~Selected(s)
    /\ pc[s] \in {"add", "remove"} => Selected(s)
    /\ s \in asleep => pc[s] = "ready"
    /\ pc[s] = "close" => prev_selected[s] # NoFolder
    /\ s \in listed <=> Selected(s) /\ pc[s] # "add"
    /\ pc[s] \notin {"remove", "echo"} => work[s] = {}

\* What is queued has its mask; a session without a folder owes its client
\* nothing, and has only left-over UIDs.
Queued(s) ==
    /\ f_expunged_uids[s] # {} => mask[s]
    /\ owed[s] \subseteq f_flags[s] /\ (owed[s] # {} => mask[s])
    /\ ~Selected(s) => owed[s] = {} /\ f_expunged_uids[s] \subseteq carried[s]

\* A session's EXPUNGE: what it removes was given out, and is queued for itself.
Removing(s) ==
    /\ pc[s] = "remove" => work[s] \subseteq Given(selected_folder[s])
    /\ pc[s] = "echo" => /\ work[s] \cap contents[s] \subseteq f_expunged_uids[s]
                         /\ work[s] # {} => mask[s]

\* What is announced as expunged is gone, and its UID does not come again.
Gone(f, U) == U \subseteq Given(f) /\ U \cap store[f] = {}

Announced(f) == \A u \in AllUids : <<f, u>> \in expunges => Gone(f, {u})

Expunged(s) ==
    Selected(s) => Gone(selected_folder[s], f_expunged_uids[s] \ carried[s])

\* Every difference between a view and the index has an event under way or a
\* notice in the session's queue, or is a UID that was given up unannounced,
\* unless the session has missed an event.
Explained(s) ==
    Selected(s) /\ ~lapse[s] =>
        /\ \A u \in contents[s] \ idx[selected_folder[s]] :
               \/ u \in f_expunged_uids[s] \/ <<selected_folder[s], u>> \in expunges
               \/ u \in replaced[selected_folder[s]]
        /\ idx[selected_folder[s]] \subseteq contents[s]
           \/ mask[s] \/ selected_folder[s] \in touches

IndInv ==
    /\ Typed /\ Indexed /\ Retired
    /\ \A f \in Folders : Announced(f)
    /\ \A s \in Sessions :
           Role(s) /\ Queued(s) /\ Removing(s) /\ Expunged(s) /\ Explained(s)

-----------------------------------------------------------------------------
(* UIDs.                                                                   *)

LEMMA UidFacts ==
    ASSUME NEW f \in Folders
    PROVE  MaxUid[f] \in Nat /\ Uids(f) = 1..MaxUid[f] /\ Uids(f) \subseteq AllUids
BY ImapAssumption DEF Uids, AllUids

\* What is given out is in the bounds.
LEMMA GivenFacts ==
    ASSUME Indexed, NEW f \in Folders
    PROVE  /\ uidnext[f] \in Nat /\ incoming[f] \in Nat /\ Given(f) \subseteq Uids(f)
           /\ Given(f) \subseteq AllUids /\ IsFiniteSet(idx[f])
           /\ uidnext[f] \notin Given(f)
<1>1. /\ MaxUid[f] \in Nat /\ Uids(f) = 1..MaxUid[f] /\ Uids(f) \subseteq AllUids
    BY UidFacts
<1>2. /\ uidnext[f] \in Nat /\ incoming[f] \in Nat /\ uidnext[f] + incoming[f] <= MaxUid[f] + 1
      /\ idx[f] \subseteq Given(f)
    BY DEF Indexed
<1>3. Given(f) \subseteq Uids(f)
    BY <1>1, <1>2 DEF Given
<1>4. IsFiniteSet(Given(f))
    BY <1>2, FS_Interval DEF Given
<1>5. IsFiniteSet(idx[f])
    BY <1>2, <1>4, FS_Subset
<1>6. uidnext[f] \notin Given(f)
    BY <1>2 DEF Given
<1> QED
    BY <1>1, <1>2, <1>3, <1>5, <1>6

\* What the replacement of a message does to the store and to the index.
LEMMA ReplacesFacts ==
    ASSUME Indexed, NEW f \in Folders, NEW u, MidbReplaces(f, u)
    PROVE  \E S, I :
               /\ store' = [store EXCEPT ![f] = S] /\ idx' = [idx EXCEPT ![f] = I]
               /\ S \subseteq I /\ idx[f] \ {u} \subseteq I
               /\ I \subseteq (idx[f] \ {u}) \cup {uidnext[f]}
               /\ S \subseteq store[f] \cup {uidnext[f]}
<1> DEFINE n == uidnext[f]
           I1 == (idx[f] \ {u}) \cup {n}
           S1 == IF u \in store[f] THEN (store[f] \ {u}) \cup {n} ELSE store[f]
           I2 == idx[f] \ {u}
<1>1. store[f] \subseteq idx[f] /\ store = [store EXCEPT ![f] = store[f]]
    BY DEF Indexed
<1>2. CASE idx' = [idx EXCEPT ![f] = I1] /\ store' = [store EXCEPT ![f] = S1]
  <2>1. S1 \subseteq I1 /\ idx[f] \ {u} \subseteq I1 /\ I1 \subseteq (idx[f] \ {u}) \cup {n}
        /\ S1 \subseteq store[f] \cup {n}
    BY <1>1
  <2> QED
    BY <1>2, <2>1
<1>3. CASE u \notin store[f] /\ idx' = [idx EXCEPT ![f] = I2] /\ store' = store
  <2>1. store[f] \subseteq I2 /\ I2 \subseteq (idx[f] \ {u}) \cup {n}
        /\ store[f] \subseteq store[f] \cup {n}
    BY <1>1, <1>3
  <2>2. store' = [store EXCEPT ![f] = store[f]]
    BY <1>1, <1>3
  <2> QED
    BY <1>3, <2>1, <2>2
<1> QED
    BY <1>2, <1>3 DEF MidbReplaces

-----------------------------------------------------------------------------
(* Types.                                                                  *)

LEMMA LeaveTyped ==
    ASSUME Typed, NEW s \in Sessions, RemoveSelect(s), Deselect(s),
           UNCHANGED <<touches, expunges, subscribed, sched_stat, work>>,
           pc' \in [Sessions -> {"ready", "read", "add", "leave", "remove", "close", "echo", "bye"}],
           prev_selected' \in [Sessions -> Folders \cup {NoFolder}],
           asleep' \subseteq Sessions
    PROVE  Typed'
<1>1. /\ proto_stat' \in [Sessions -> {"noauth", "auth", "select"}]
      /\ selected_folder' \in [Sessions -> Folders \cup {NoFolder}]
      /\ contents' \in [Sessions -> SUBSET AllUids] /\ b_readonly' \in [Sessions -> BOOLEAN]
      /\ owed' \in [Sessions -> SUBSET AllUids] /\ lapse' \in [Sessions -> BOOLEAN]
    BY DEF Deselect, Typed
<1>2. listed' \subseteq Sessions /\ unsub' \in [Sessions -> Folders \cup {NoFolder}]
    BY DEF RemoveSelect, Typed
<1>3. /\ mask' \in [Sessions -> BOOLEAN] /\ f_flags' \in [Sessions -> SUBSET AllUids]
      /\ f_expunged_uids' \in [Sessions -> SUBSET AllUids]
      /\ carried' \in [Sessions -> SUBSET AllUids]
  <2>1. CASE listed \ {s} = {}
    BY <2>1 DEF RemoveSelect, queues, Typed
  <2>2. CASE listed \ {s} # {}
    BY <2>2, ZenonT(60) DEF RemoveSelect, Typed
  <2> QED
    BY <2>1, <2>2
<1> QED
    BY <1>1, <1>2, <1>3 DEF Typed

LEMMA TypedStep ==
    ASSUME Typed, Indexed, \A s \in Sessions : Role(s), [Next]_vars
    PROVE  Typed'
<1> USE DEF mailbox, bus, session, queues, place, ghosts
<1>1. ASSUME NEW s \in Sessions, Login(s) PROVE Typed'
    BY <1>1 DEF Login, Typed
<1>2. ASSUME NEW s \in Sessions, SelexBegin(s) PROVE Typed'
  <2>1. CASE Selected(s)
    <3>1. /\ RemoveSelect(s) /\ Deselect(s)
          /\ UNCHANGED <<touches, expunges, subscribed, sched_stat, work>>
          /\ pc' \in [Sessions -> {"ready", "read", "add", "leave", "remove", "close", "echo", "bye"}]
          /\ prev_selected' \in [Sessions -> Folders \cup {NoFolder}]
          /\ asleep' \subseteq Sessions
        BY <1>2, <2>1 DEF SelexBegin, Goto, Typed
    <3> QED
        BY <3>1, LeaveTyped
  <2>2. CASE ~Selected(s)
    BY <1>2, <2>2 DEF SelexBegin, Goto, Typed
  <2> QED
    BY <2>1, <2>2
<1>3. ASSUME NEW s \in Sessions, Unselect(s) PROVE Typed'
  <2>1. /\ RemoveSelect(s) /\ Deselect(s)
        /\ UNCHANGED <<touches, expunges, subscribed, sched_stat, work>>
        /\ pc' \in [Sessions -> {"ready", "read", "add", "leave", "remove", "close", "echo", "bye"}]
        /\ prev_selected' \in [Sessions -> Folders \cup {NoFolder}]
        /\ asleep' \subseteq Sessions
    BY <1>3 DEF Unselect, Goto, Typed
  <2> QED
    BY <2>1, LeaveTyped
<1>4. ASSUME NEW s \in Sessions, CloseLeave(s) PROVE Typed'
  <2>1. /\ RemoveSelect(s) /\ Deselect(s)
        /\ UNCHANGED <<touches, expunges, subscribed, sched_stat, work>>
        /\ pc' \in [Sessions -> {"ready", "read", "add", "leave", "remove", "close", "echo", "bye"}]
        /\ prev_selected' \in [Sessions -> Folders \cup {NoFolder}]
        /\ asleep' \subseteq Sessions
    BY <1>4 DEF CloseLeave, Goto, Typed
  <2> QED
    BY <2>1, LeaveTyped
<1>5. ASSUME NEW s \in Sessions, Report(s) PROVE Typed'
    BY <1>5 DEF Report, Goto, Ready, Typed
<1>6. ASSUME NEW s \in Sessions, NEW U \in SUBSET AllUids, Fetch(s, U) PROVE Typed'
    BY <1>6 DEF Fetch, Goto, Ready, BcastFlags, Owe, Typed
<1>7. ASSUME NEW s \in Sessions, NEW U \in SUBSET AllUids, NEW set \in BOOLEAN, Store(s, U, set) PROVE Typed'
    BY <1>7 DEF Store, Goto, Ready, BcastFlags, Owe, Typed
<1>8. ASSUME NEW s \in Sessions, NEW U \in SUBSET AllUids, ExpungeList(s, U) PROVE Typed'
    BY <1>8 DEF ExpungeList, Goto, Ready, Typed
<1>9. ASSUME NEW s \in Sessions, NEW f \in Folders, NEW U \in SUBSET AllUids, NEW ok \in BOOLEAN, Copy(s, f, U, ok) PROVE Typed'
    BY <1>9 DEF Copy, Goto, Ready, Typed
<1>10. ASSUME NEW s \in Sessions, NEW f \in Folders, Append(s, f) PROVE Typed'
    BY <1>10 DEF Append, Goto, Ready, BcastTouch, Typed
<1>11. ASSUME NEW s \in Sessions, Idle(s) PROVE Typed'
    BY <1>11 DEF Idle, Ready, Typed
<1>12. ASSUME NEW s \in Sessions, NEW f \in Folders, NEW ro \in Modes, SelexRead(s, f, ro) PROVE Typed'
  <2>1. idx[f] \in SUBSET AllUids /\ ro \in BOOLEAN
    BY ImapAssumption DEF Indexed
  <2> QED
    BY <1>12, <2>1 DEF SelexRead, Goto, SendUnselect, Typed
<1>13. ASSUME NEW s \in Sessions, SelexFails(s) PROVE Typed'
    BY <1>13 DEF SelexFails, Goto, SendUnselect, Typed
<1>14. ASSUME NEW s \in Sessions, AddSelect(s) PROVE Typed'
  <2>1. selected_folder[s] \in Folders
    BY <1>14 DEF AddSelect, At, Role, Typed
  <2> QED
    BY <1>14, <2>1 DEF AddSelect, Goto, Typed
<1>15. ASSUME NEW s \in Sessions, Leave(s) PROVE Typed'
    BY <1>15 DEF Leave, Goto, SendUnselect, Typed
<1>16. ASSUME NEW s \in Sessions, ExpungeRemove(s) PROVE Typed'
    BY <1>16 DEF ExpungeRemove, Goto, BcastExpunge, Typed
<1>17. ASSUME NEW s \in Sessions, ExpungeFails(s) PROVE Typed'
    BY <1>17 DEF ExpungeFails, Goto, Typed
<1>18. ASSUME NEW s \in Sessions, CloseRemove(s) PROVE Typed'
    BY <1>18 DEF CloseRemove, Goto, SendUnselect, BcastTouch, Typed
<1>18a. ASSUME NEW s \in Sessions, CloseFails(s) PROVE Typed'
    BY <1>18a DEF CloseFails, Goto, SendUnselect, Typed
<1>19. ASSUME NEW s \in Sessions, EchoNothing(s) PROVE Typed'
    BY <1>19 DEF EchoNothing, EchoReturns, Goto, Typed
<1>20. ASSUME NEW s \in Sessions, EchoModify(s) PROVE Typed'
  <2>1. PICK v \in SUBSET AllUids : v = Refreshed(s, f_expunged_uids[s] # {})
    <3>1. selected_folder[s] \in Folders
        BY <1>20 DEF EchoModify, Typed
    <3> QED
        BY <3>1 DEF Refreshed, Indexed, Typed
  <2>2. /\ contents' = [contents EXCEPT ![s] = v]
        /\ owed' = [owed EXCEPT ![s] = (@ \ f_flags[s]) \cap v]
    BY <1>20, <2>1 DEF EchoModify
  <2>3. contents' \in [Sessions -> SUBSET AllUids] /\ owed' \in [Sessions -> SUBSET AllUids]
    BY <2>1, <2>2 DEF Typed
  <2>4. lapse' \in [Sessions -> BOOLEAN]
    BY <1>20 DEF EchoModify, Typed
  <2> QED
    BY <1>20, <2>3, <2>4 DEF EchoModify, EchoReturns, EchoTake, Goto, Typed
<1>21. ASSUME NEW s \in Sessions, EchoFails(s) PROVE Typed'
  <2>1. owed' \in [Sessions -> SUBSET AllUids]
    BY <1>21 DEF EchoFails, Typed
  <2>2. lapse' \in [Sessions -> BOOLEAN]
    BY <1>21 DEF EchoFails, Typed, Selected
  <2> QED
    BY <1>21, <2>1, <2>2 DEF EchoFails, EchoReturns, EchoTake, Goto, Typed
<1>22. ASSUME NEW s \in Sessions, ContextClear(s) PROVE Typed'
    BY <1>22 DEF ContextClear, Goto, SendUnselect, Typed
<1>23. ASSUME NEW s \in Sessions, Sleep(s) PROVE Typed'
    BY <1>23 DEF Sleep, Typed
<1>24. ASSUME NEW s \in Sessions, IdleDone(s) PROVE Typed'
    BY <1>24 DEF IdleDone, Typed
<1>25. ASSUME NEW s \in Sessions, ScanNotify(s) PROVE Typed'
    BY <1>25 DEF ScanNotify, Goto, Typed
<1>26. ASSUME NEW s \in Sessions, ScanWake(s) PROVE Typed'
    BY <1>26 DEF ScanWake, Typed
<1>27. ASSUME NEW s \in Sessions, EndProcessing(s) PROVE Typed'
  <2>1. CASE Selected(s)
    <3>1. /\ RemoveSelect(s) /\ Deselect(s)
          /\ UNCHANGED <<touches, expunges, subscribed, sched_stat, work>>
          /\ pc' \in [Sessions -> {"ready", "read", "add", "leave", "remove", "close", "echo", "bye"}]
          /\ prev_selected' \in [Sessions -> Folders \cup {NoFolder}]
          /\ asleep' \subseteq Sessions
        BY <1>27, <2>1 DEF EndProcessing, Goto, Typed
    <3> QED
        BY <3>1, LeaveTyped
  <2>2. CASE ~Selected(s)
    BY <1>27, <2>2 DEF EndProcessing, Goto, Typed
  <2> QED
    BY <2>1, <2>2
<1>28. ASSUME NEW f \in Folders, Deliver(f) PROVE Typed'
    BY <1>28 DEF Deliver, Typed
<1>29. ASSUME NEW f \in Folders, MidbAdds(f) PROVE Typed'
    BY <1>29 DEF MidbAdds, Forward, Typed
<1>29a. ASSUME NEW f \in Folders, NEW u \in Uids(f), MidbReplaces(f, u) PROVE Typed'
    BY <1>29a DEF MidbReplaces, Forward, Typed
<1>29b. ASSUME NEW f \in Folders, MidbReflags(f) PROVE Typed'
    BY <1>29b DEF MidbReflags, Forward, Typed
<1>30. ASSUME NEW f \in Folders, EventTouch(f) PROVE Typed'
    BY <1>30 DEF EventTouch, On, Late, Typed
<1>31. ASSUME NEW f \in Folders, NEW u \in Uids(f), OtherDeletes(f, u) PROVE Typed'
    BY <1>31 DEF OtherDeletes, Typed
<1>32. ASSUME NEW f \in Folders, NEW u \in Uids(f), MidbDeletes(f, u) PROVE Typed'
  <2>1. u \in AllUids
    BY UidFacts
  <2>2. lapse' \in [Sessions -> BOOLEAN]
    BY <1>32 DEF MidbDeletes, Forward, Typed
  <2>3. expunges' \subseteq Folders \X AllUids /\ touches' \subseteq Folders
    BY <1>32, <2>1 DEF MidbDeletes, Forward, Typed
  <2> QED
    BY <1>32, <2>2, <2>3 DEF MidbDeletes, Forward, Typed
<1>33. ASSUME NEW f \in Folders, NEW u \in Uids(f), EventExpunge(f, u) PROVE Typed'
    BY <1>33 DEF EventExpunge, On, Late, Typed
<1>34. ASSUME NEW f \in Folders, NEW u \in Uids(f), EventFlag(f, u) PROVE Typed'
  <2>1. u \in AllUids
    BY UidFacts
  <2>2. f_flags' \in [Sessions -> SUBSET AllUids] /\ mask' \in [Sessions -> BOOLEAN]
    BY <1>34, <2>1 DEF EventFlag, Typed
  <2>3. owed' \in [Sessions -> SUBSET AllUids]
    BY <1>34, <2>1 DEF EventFlag, Owe, Typed
  <2> QED
    BY <1>34, <2>2, <2>3 DEF EventFlag, Typed
<1>35. ASSUME NEW s \in Sessions, Command(s) PROVE Typed'
  <2>1. \A U \in SUBSET contents[s] : U \in SUBSET AllUids
    BY DEF Typed
  <2> QED
    BY <1>1, <1>2, <1>3, <1>4, <1>5, <1>6, <1>7, <1>8, <1>9, <1>10, <1>11, <1>35, <2>1
    DEF Command, Noop, ManageFolders, ListFolders, Search
<1>36. ASSUME NEW s \in Sessions, Continue(s) PROVE Typed'
    BY <1>12, <1>13, <1>14, <1>15, <1>16, <1>17, <1>18, <1>18a, <1>19, <1>20, <1>21, <1>22, <1>36 DEF Continue
<1>37. ASSUME NEW s \in Sessions, Connection(s) PROVE Typed'
    BY <1>23, <1>24, <1>25, <1>26, <1>27, <1>37 DEF Connection
<1>38. ASSUME NEW f \in Folders, World(f) PROVE Typed'
    BY <1>28, <1>29, <1>29a, <1>29b, <1>30, <1>31, <1>32, <1>33, <1>34, <1>38 DEF World
<1>39. CASE UNCHANGED vars
    BY <1>39 DEF vars, Typed
<1> QED
    BY <1>35, <1>36, <1>37, <1>38, <1>39 DEF Next

-----------------------------------------------------------------------------
(* The store and midb's index.                                             *)

LEMMA IndexedStep ==
    ASSUME Typed, Indexed, \A s \in Sessions : Role(s), [Next]_vars
    PROVE  Indexed'
<1>1. CASE UNCHANGED mailbox
    BY <1>1 DEF Indexed, Given, mailbox
<1>2. ASSUME NEW s \in Sessions, NEW U \in SUBSET AllUids, NEW set \in BOOLEAN, Store(s, U, set) PROVE Indexed'
  <2>0. selected_folder[s] \in Folders
    BY <1>2 DEF Store, At, Role, Typed
  <2>1. PICK g \in Folders : g = selected_folder[s]
    BY <2>0
  <2>2. /\ deleted' = [deleted EXCEPT ![g] = IF set THEN @ \cup U ELSE @ \ U]
        /\ UNCHANGED <<store, idx, uidnext, incoming>> /\ U \subseteq idx[g]
    BY <1>2, <2>1 DEF Store
  <2> QED
    BY <2>1, <2>2 DEF Indexed, Given
<1>3. ASSUME NEW s \in Sessions, NEW f \in Folders, NEW U \in SUBSET AllUids, NEW ok \in BOOLEAN, Copy(s, f, U, ok) PROVE Indexed'
  <2>0. selected_folder[s] \in Folders
    BY <1>3 DEF Copy, At, Role, Typed
  <2>1. IsFiniteSet(idx[selected_folder[s]]) /\ U \subseteq idx[selected_folder[s]]
    BY <1>3, <2>0, GivenFacts DEF Copy
  <2>2. PICK n \in Nat : n = Cardinality(U)
    BY <2>1, FS_Subset, FS_CardinalityType
  <2>3. /\ uidnext[f] + incoming[f] + n <= MaxUid[f] + 1
        /\ incoming' = [incoming EXCEPT ![f] = @ + n] /\ UNCHANGED <<store, idx, deleted, uidnext>>
    BY <1>3, <2>2 DEF Copy
  <2>4. incoming' \in [Folders -> Nat] /\ incoming'[f] = incoming[f] + n
        /\ \A g \in Folders : g # f => incoming'[g] = incoming[g]
    BY <2>2, <2>3 DEF Indexed
  <2>5. uidnext[f] + incoming'[f] <= MaxUid[f] + 1
    BY <2>2, <2>3, <2>4, GivenFacts, UidFacts
  <2> QED
    BY <2>3, <2>4, <2>5 DEF Indexed, Given
<1>4. ASSUME NEW s \in Sessions, NEW f \in Folders, Append(s, f) PROVE Indexed'
  <2>1. /\ uidnext[f] + incoming[f] <= MaxUid[f]
        /\ incoming' = [incoming EXCEPT ![f] = @ + 1] /\ UNCHANGED <<store, idx, deleted, uidnext>>
    BY <1>4 DEF Append
  <2>2. incoming' \in [Folders -> Nat] /\ incoming'[f] = incoming[f] + 1
        /\ \A g \in Folders : g # f => incoming'[g] = incoming[g]
    BY <2>1 DEF Indexed
  <2>3. uidnext[f] + incoming'[f] <= MaxUid[f] + 1
    BY <2>1, <2>2, GivenFacts, UidFacts
  <2> QED
    BY <2>1, <2>2, <2>3 DEF Indexed, Given
<1>5. ASSUME NEW s \in Sessions, ExpungeRemove(s) PROVE Indexed'
  <2>0. selected_folder[s] \in Folders
    BY <1>5 DEF ExpungeRemove, At, Role, Typed
  <2>1. PICK g \in Folders : g = selected_folder[s]
    BY <2>0
  <2>2. store' = [store EXCEPT ![g] = @ \ work[s]] /\ UNCHANGED <<deleted, idx, uidnext, incoming>>
    BY <1>5, <2>1 DEF ExpungeRemove
  <2> QED
    BY <2>1, <2>2 DEF Indexed, Given
<1>6. ASSUME NEW s \in Sessions, CloseRemove(s) PROVE Indexed'
  <2>1. PICK g \in Folders : g = prev_selected[s]
    BY <1>6 DEF CloseRemove, At, Role, Typed
  <2>2. store' = [store EXCEPT ![g] = @ \ deleted[g]] /\ UNCHANGED <<deleted, idx, uidnext, incoming>>
    BY <1>6, <2>1 DEF CloseRemove
  <2> QED
    BY <2>1, <2>2 DEF Indexed, Given
<1>6a. ASSUME NEW s \in Sessions, ExpungeFails(s) PROVE Indexed'
  <2>0. selected_folder[s] \in Folders
    BY <1>6a DEF ExpungeFails, At, Role, Typed
  <2>1. PICK g \in Folders : g = selected_folder[s]
    BY <2>0
  <2>2. PICK V \in SUBSET work[s] : store' = [store EXCEPT ![g] = @ \ V]
    BY <1>6a, <2>1 DEF ExpungeFails
  <2>3. UNCHANGED <<deleted, idx, uidnext, incoming>>
    BY <1>6a DEF ExpungeFails
  <2> QED
    BY <2>1, <2>2, <2>3 DEF Indexed, Given
<1>6b. ASSUME NEW s \in Sessions, CloseFails(s) PROVE Indexed'
  <2>1. PICK g \in Folders : g = prev_selected[s]
    BY <1>6b DEF CloseFails, At, Role, Typed
  <2>2. PICK V \in SUBSET deleted[g] : store' = [store EXCEPT ![g] = @ \ V]
    BY <1>6b, <2>1 DEF CloseFails
  <2>3. UNCHANGED <<deleted, idx, uidnext, incoming>>
    BY <1>6b DEF CloseFails
  <2> QED
    BY <2>1, <2>2, <2>3 DEF Indexed, Given
<1>7. ASSUME NEW f \in Folders, Deliver(f) PROVE Indexed'
  <2>1. /\ uidnext[f] + incoming[f] <= MaxUid[f]
        /\ incoming' = [incoming EXCEPT ![f] = @ + 1] /\ UNCHANGED <<store, idx, deleted, uidnext>>
    BY <1>7 DEF Deliver
  <2>2. incoming' \in [Folders -> Nat] /\ incoming'[f] = incoming[f] + 1
        /\ \A g \in Folders : g # f => incoming'[g] = incoming[g]
    BY <2>1 DEF Indexed
  <2>3. uidnext[f] + incoming'[f] <= MaxUid[f] + 1
    BY <2>1, <2>2, GivenFacts, UidFacts
  <2> QED
    BY <2>1, <2>2, <2>3 DEF Indexed, Given
<1>8. ASSUME NEW f \in Folders, MidbAdds(f) PROVE Indexed'
  <2>1. PICK n \in Nat : n = uidnext[f]
    BY GivenFacts
  <2>2. /\ incoming[f] > 0 /\ incoming' = [incoming EXCEPT ![f] = @ - 1]
        /\ uidnext' = [uidnext EXCEPT ![f] = n + 1] /\ UNCHANGED deleted
        /\ store' = [store EXCEPT ![f] = @ \cup {n}] /\ idx' = [idx EXCEPT ![f] = @ \cup {n}]
    BY <1>8, <2>1 DEF MidbAdds
  <2>3. /\ incoming[f] \in Nat /\ n >= 1 /\ n + incoming[f] <= MaxUid[f] + 1 /\ MaxUid[f] \in Nat
    BY <2>1, UidFacts DEF Indexed
  <2>4. n \in AllUids
    <3>1. n \in 1..MaxUid[f]
        BY <2>2, <2>3
    <3> QED
        BY <3>1, UidFacts
  <2>5. /\ incoming' \in [Folders -> Nat] /\ uidnext' \in [Folders -> Nat]
        /\ store' \in [Folders -> SUBSET AllUids] /\ idx' \in [Folders -> SUBSET AllUids]
    BY <2>2, <2>3, <2>4 DEF Indexed
  <2>6. ASSUME NEW g \in Folders
        PROVE  /\ store'[g] \subseteq idx'[g] /\ deleted'[g] \subseteq idx'[g]
               /\ idx'[g] \subseteq 1..uidnext'[g]-1
               /\ uidnext'[g] >= 1 /\ uidnext'[g] + incoming'[g] <= MaxUid[g] + 1
    <3>1. CASE g = f
      <4>1. /\ store'[g] = store[f] \cup {n} /\ idx'[g] = idx[f] \cup {n}
            /\ uidnext'[g] = n + 1 /\ incoming'[g] = incoming[f] - 1
        BY <2>2, <3>1 DEF Indexed
      <4>2. idx[f] \subseteq 1..n-1
        BY <2>1 DEF Indexed, Given
      <4>3. idx[f] \cup {n} \subseteq 1..(n + 1)-1
        BY <2>3, <4>2
      <4>4. n + 1 >= 1 /\ (n + 1) + (incoming[f] - 1) <= MaxUid[f] + 1
        BY <2>2, <2>3
      <4> QED
        BY <2>2, <3>1, <4>1, <4>3, <4>4 DEF Indexed
    <3>2. CASE g # f
        BY <2>2, <3>2 DEF Indexed, Given
    <3> QED
        BY <3>1, <3>2
  <2> QED
    BY <2>2, <2>5, <2>6 DEF Indexed, Given
<1>9. ASSUME NEW f \in Folders, NEW u \in Uids(f), OtherDeletes(f, u) PROVE Indexed'
  <2>1. store' = [store EXCEPT ![f] = @ \ {u}] /\ UNCHANGED <<deleted, idx, uidnext, incoming>>
    BY <1>9 DEF OtherDeletes
  <2> QED
    BY <2>1 DEF Indexed, Given
<1>10. ASSUME NEW f \in Folders, NEW u \in Uids(f), MidbDeletes(f, u) PROVE Indexed'
  <2>1. /\ u \notin store[f] /\ idx' = [idx EXCEPT ![f] = @ \ {u}]
        /\ deleted' = [deleted EXCEPT ![f] = @ \ {u}] /\ UNCHANGED <<store, uidnext, incoming>>
    BY <1>10 DEF MidbDeletes
  <2> QED
    BY <2>1 DEF Indexed, Given
<1>10a. ASSUME NEW f \in Folders, NEW u \in Uids(f), MidbReplaces(f, u) PROVE Indexed'
  <2>1. PICK n \in Nat : n = uidnext[f]
    BY GivenFacts
  <2>2. PICK S, I :
           /\ store' = [store EXCEPT ![f] = S] /\ idx' = [idx EXCEPT ![f] = I]
           /\ S \subseteq I /\ idx[f] \ {u} \subseteq I
           /\ I \subseteq (idx[f] \ {u}) \cup {uidnext[f]}
           /\ S \subseteq store[f] \cup {uidnext[f]}
    BY <1>10a, ReplacesFacts
  <2>3. /\ n + incoming[f] <= MaxUid[f] /\ uidnext' = [uidnext EXCEPT ![f] = n + 1]
        /\ deleted' = [deleted EXCEPT ![f] = @ \ {u}] /\ UNCHANGED incoming
    BY <1>10a, <2>1 DEF MidbReplaces
  <2>4. incoming[f] \in Nat /\ n >= 1 /\ MaxUid[f] \in Nat /\ idx[f] \subseteq 1..n-1
    BY <2>1, UidFacts DEF Indexed, Given
  <2>5. n \in 1..MaxUid[f]
    BY <2>3, <2>4
  <2>6. n \in AllUids
    BY <2>5, UidFacts
  <2>7. I \subseteq AllUids /\ S \subseteq AllUids
    BY <2>1, <2>2, <2>6 DEF Indexed
  <2>8. /\ uidnext' \in [Folders -> Nat] /\ store' \in [Folders -> SUBSET AllUids]
        /\ idx' \in [Folders -> SUBSET AllUids] /\ deleted' \in [Folders -> SUBSET AllUids]
    BY <2>2, <2>3, <2>7 DEF Indexed
  <2>9. ASSUME NEW g \in Folders
        PROVE  /\ store'[g] \subseteq idx'[g] /\ deleted'[g] \subseteq idx'[g]
               /\ idx'[g] \subseteq 1..uidnext'[g]-1
               /\ uidnext'[g] >= 1 /\ uidnext'[g] + incoming'[g] <= MaxUid[g] + 1
    <3>1. CASE g = f
      <4>1. /\ store'[g] = S /\ idx'[g] = I /\ deleted'[g] = deleted[f] \ {u}
            /\ uidnext'[g] = n + 1 /\ incoming'[g] = incoming[f]
        BY <2>2, <2>3, <3>1 DEF Indexed
      <4>2. idx[f] \cup {n} \subseteq 1..(n + 1)-1
        BY <2>4
      <4>3. n + 1 >= 1 /\ (n + 1) + incoming[f] <= MaxUid[f] + 1
        BY <2>3, <2>4
      <4>4. deleted[f] \ {u} \subseteq I
        BY <2>2 DEF Indexed
      <4>5. I \subseteq 1..(n + 1)-1
        BY <2>1, <2>2, <4>2
      <4> QED
        BY <2>2, <3>1, <4>1, <4>3, <4>4, <4>5
    <3>2. CASE g # f
        BY <2>2, <2>3, <3>2 DEF Indexed, Given
    <3> QED
        BY <3>1, <3>2
  <2> QED
    BY <2>3, <2>8, <2>9 DEF Indexed, Given
<1>11. ASSUME NEW f \in Folders, NEW u \in Uids(f), EventFlag(f, u) PROVE Indexed'
  <2>1. PICK set \in BOOLEAN : deleted' = [deleted EXCEPT ![f] = IF set THEN @ \cup {u} ELSE @ \ {u}]
    BY <1>11 DEF EventFlag
  <2>2. u \in idx[f] /\ UNCHANGED <<store, idx, uidnext, incoming>>
    BY <1>11 DEF EventFlag
  <2> QED
    BY <2>1, <2>2 DEF Indexed, Given
<1>12. \A s, U : Login(s) \/ SelexBegin(s) \/ Unselect(s) \/ CloseLeave(s) \/ Report(s) \/ Fetch(s, U) \/ ExpungeList(s, U) \/ Idle(s)
          => UNCHANGED mailbox
    BY DEF Login, SelexBegin, Unselect, CloseLeave, Report, Fetch, ExpungeList, Idle
<1>13. \A s, f, ro : SelexRead(s, f, ro) \/ SelexFails(s) \/ AddSelect(s) \/ Leave(s) \/ EchoNothing(s) \/ EchoModify(s) \/ EchoFails(s) \/ ContextClear(s)
          => UNCHANGED mailbox
    BY DEF SelexRead, SelexFails, AddSelect, Leave, EchoNothing, EchoModify, EchoFails, ContextClear
<1>14. \A s : Sleep(s) \/ IdleDone(s) \/ ScanNotify(s) \/ ScanWake(s) \/ EndProcessing(s)
          => UNCHANGED mailbox
    BY DEF Sleep, IdleDone, ScanNotify, ScanWake, EndProcessing
<1>15. \A f, u : EventTouch(f) \/ EventExpunge(f, u) \/ MidbReflags(f)
          => UNCHANGED mailbox
    BY DEF EventTouch, EventExpunge, MidbReflags
<1>16. ASSUME NEW s \in Sessions, Command(s) PROVE Indexed'
  <2>1. \A U \in SUBSET contents[s] : U \in SUBSET AllUids
    BY DEF Typed
  <2> QED
    BY <1>1, <1>2, <1>3, <1>4, <1>12, <1>16, <2>1
    DEF Command, Noop, ManageFolders, ListFolders, Search
<1>17. ASSUME NEW s \in Sessions, Continue(s) PROVE Indexed'
    BY <1>1, <1>5, <1>6, <1>6a, <1>6b, <1>13, <1>17 DEF Continue
<1>18. ASSUME NEW s \in Sessions, Connection(s) PROVE Indexed'
    BY <1>1, <1>14, <1>18 DEF Connection
<1>19. ASSUME NEW f \in Folders, World(f) PROVE Indexed'
    BY <1>1, <1>7, <1>8, <1>9, <1>10, <1>10a, <1>11, <1>15, <1>19 DEF World
<1>20. CASE UNCHANGED vars
    BY <1>1, <1>20 DEF vars
<1> QED
    BY <1>16, <1>17, <1>18, <1>19, <1>20 DEF Next

\* A UID that was given up stays so, and midb does not give it out again.
LEMMA RetiredStep ==
    ASSUME Typed, Indexed, Retired, [Next]_vars
    PROVE  Retired' /\ \A g \in Folders : replaced[g] \subseteq replaced'[g]
<1> USE DEF session, place, bus, mailbox, queues, ghosts
<1> DEFINE Kept == Retired' /\ \A g \in Folders : replaced[g] \subseteq replaced'[g]
<1>1. CASE UNCHANGED <<replaced, idx, uidnext>>
    BY <1>1 DEF Retired, Given
<1>2. ASSUME NEW f \in Folders, MidbAdds(f) PROVE Kept
  <2>1. PICK n \in Nat : n = uidnext[f]
    BY DEF Indexed
  <2>2. /\ uidnext' = [uidnext EXCEPT ![f] = n + 1] /\ idx' = [idx EXCEPT ![f] = @ \cup {n}]
        /\ UNCHANGED replaced
    BY <1>2, <2>1 DEF MidbAdds
  <2>3. ASSUME NEW g \in Folders
        PROVE  replaced[g] \subseteq 1..uidnext'[g]-1 /\ replaced[g] \cap idx'[g] = {}
    <3>1. CASE g # f
        BY <2>2, <3>1 DEF Retired, Given, Indexed
    <3>2. CASE g = f
      <4>1. uidnext'[g] = n + 1 /\ idx'[g] = idx[g] \cup {n} /\ uidnext[g] = n
        BY <2>1, <2>2, <3>2 DEF Indexed
      <4>2. n \notin 1..n-1 /\ 1..n-1 \subseteq 1..(n + 1)-1
        BY <2>1
      <4> QED
        BY <4>1, <4>2 DEF Retired, Given
    <3> QED
        BY <3>1, <3>2
  <2> QED
    BY <2>2, <2>3 DEF Retired, Given
<1>3. ASSUME NEW f \in Folders, NEW u \in Uids(f), MidbDeletes(f, u) PROVE Kept
  <2>1. idx' = [idx EXCEPT ![f] = @ \ {u}] /\ UNCHANGED <<replaced, uidnext>>
    BY <1>3 DEF MidbDeletes
  <2> QED
    BY <2>1 DEF Retired, Given, Indexed
<1>4. ASSUME NEW f \in Folders, NEW u \in Uids(f), MidbReplaces(f, u) PROVE Kept
  <2>1. PICK n \in Nat : n = uidnext[f]
    BY DEF Indexed
  <2>2. PICK S, I :
           idx' = [idx EXCEPT ![f] = I] /\ I \subseteq (idx[f] \ {u}) \cup {n}
    BY <1>4, <2>1, ReplacesFacts
  <2>3. /\ uidnext' = [uidnext EXCEPT ![f] = n + 1] /\ u \in idx[f]
        /\ replaced' = [replaced EXCEPT ![f] = @ \cup {u}]
    BY <1>4, <2>1 DEF MidbReplaces
  <2>4. replaced' \in [Folders -> SUBSET AllUids]
    BY <2>3 DEF Retired, Indexed
  <2>5. ASSUME NEW g \in Folders
        PROVE  /\ replaced'[g] \subseteq 1..uidnext'[g]-1 /\ replaced'[g] \cap idx'[g] = {}
               /\ replaced[g] \subseteq replaced'[g]
    <3>1. CASE g # f
        BY <2>2, <2>3, <3>1 DEF Retired, Given, Indexed
    <3>2. CASE g = f
      <4>1. /\ uidnext'[g] = n + 1 /\ idx'[g] = I /\ uidnext[g] = n
            /\ replaced'[g] = replaced[g] \cup {u}
        BY <2>1, <2>2, <2>3, <3>2 DEF Indexed, Retired
      <4>2. n \notin 1..n-1 /\ 1..n-1 \subseteq 1..(n + 1)-1
        BY <2>1
      <4>3. /\ idx[g] \subseteq 1..n-1 /\ replaced[g] \subseteq 1..n-1
            /\ replaced[g] \cap idx[g] = {}
        BY <4>1 DEF Indexed, Retired, Given
      <4> QED
        BY <2>2, <2>3, <3>2, <4>1, <4>2, <4>3
    <3> QED
        BY <3>1, <3>2
  <2> QED
    BY <2>4, <2>5 DEF Retired, Given
<1>5. \A s, f, U, set, ok :
          \/ Login(s) \/ SelexBegin(s) \/ Unselect(s) \/ CloseLeave(s)
          \/ Report(s) \/ Fetch(s, U) \/ Store(s, U, set)
          \/ ExpungeList(s, U) \/ Copy(s, f, U, ok) \/ Append(s, f)
          \/ Idle(s)
          => UNCHANGED <<replaced, idx, uidnext>>
    BY DEF Login, SelexBegin, Unselect, CloseLeave, Report, Fetch, Store, ExpungeList, Copy, Append, Idle
<1>6. \A s, f, ro :
          \/ SelexRead(s, f, ro) \/ SelexFails(s) \/ AddSelect(s)
          \/ Leave(s) \/ ExpungeRemove(s) \/ ExpungeFails(s)
          \/ CloseRemove(s) \/ CloseFails(s) \/ EchoNothing(s) \/ EchoModify(s)
          \/ EchoFails(s) \/ ContextClear(s)
          => UNCHANGED <<replaced, idx, uidnext>>
    BY DEF SelexRead, SelexFails, AddSelect, Leave, ExpungeRemove, ExpungeFails, CloseRemove, CloseFails, EchoNothing, EchoModify, EchoFails, ContextClear
<1>7. \A s :
          \/ Sleep(s) \/ IdleDone(s) \/ ScanNotify(s) \/ ScanWake(s)
          \/ EndProcessing(s)
          => UNCHANGED <<replaced, idx, uidnext>>
    BY DEF Sleep, IdleDone, ScanNotify, ScanWake, EndProcessing
<1>8. \A f, u :
          \/ Deliver(f) \/ MidbReflags(f) \/ EventTouch(f) \/ OtherDeletes(f, u)
          \/ EventExpunge(f, u) \/ EventFlag(f, u)
          => UNCHANGED <<replaced, idx, uidnext>>
    BY DEF Deliver, MidbReflags, EventTouch, OtherDeletes, EventExpunge, EventFlag
<1>9. ASSUME NEW s \in Sessions, Command(s) PROVE Kept
    BY <1>1, <1>5, <1>9 DEF Command, Noop, ManageFolders, ListFolders, Search
<1>10. ASSUME NEW s \in Sessions, Continue(s) PROVE Kept
    BY <1>1, <1>6, <1>10 DEF Continue
<1>11. ASSUME NEW s \in Sessions, Connection(s) PROVE Kept
    BY <1>1, <1>7, <1>11 DEF Connection
<1>12. ASSUME NEW f \in Folders, World(f) PROVE Kept
    BY <1>1, <1>2, <1>3, <1>4, <1>8, <1>12 DEF World
<1>13. CASE UNCHANGED vars
    BY <1>1, <1>13 DEF vars
<1> QED
    BY <1>9, <1>10, <1>11, <1>12, <1>13 DEF Next

-----------------------------------------------------------------------------
(* Where a command stands.                                                 *)

\* The state of a session agrees with the step its command has come to.
LEMMA RoleStep ==
    ASSUME Typed, NEW t \in Sessions, \A s \in Sessions : Role(s), [Next]_vars
    PROVE  Role(t)'
<1> USE DEF session, place, bus, mailbox, queues, ghosts
<1>1. CASE UNCHANGED <<session, pc, asleep, prev_selected, listed, work>>
    BY <1>1 DEF session, Role, Selected
<1>2. ASSUME NEW s \in Sessions, Login(s) PROVE Role(t)'
  <2>1. CASE t # s
    BY <1>2, <2>1 DEF Login, Ready, Authed, Typed, Role, Selected, At
  <2>2. CASE t = s
    BY <1>2, <2>2 DEF Login, Ready, Authed, Typed, Role, Selected, At
  <2> QED
    BY <2>1, <2>2
<1>3. ASSUME NEW s \in Sessions, SelexBegin(s) PROVE Role(t)'
  <2>1. CASE t # s
    BY <1>3, <2>1 DEF SelexBegin, RemoveSelect, Deselect, Goto, Ready, Authed, Typed, Role, Selected, At
  <2>2. CASE t = s
    BY <1>3, <2>2 DEF SelexBegin, RemoveSelect, Deselect, Goto, Ready, Authed, Typed, Role, Selected, At
  <2> QED
    BY <2>1, <2>2
<1>4. ASSUME NEW s \in Sessions, Unselect(s) PROVE Role(t)'
  <2>1. CASE t # s
    BY <1>4, <2>1 DEF Unselect, RemoveSelect, Deselect, Goto, Ready, Typed, Role, Selected, At
  <2>2. CASE t = s
    BY <1>4, <2>2 DEF Unselect, RemoveSelect, Deselect, Goto, Ready, Typed, Role, Selected, At
  <2> QED
    BY <2>1, <2>2
<1>5. ASSUME NEW s \in Sessions, CloseLeave(s) PROVE Role(t)'
  <2>1. CASE t # s
    BY <1>5, <2>1 DEF CloseLeave, RemoveSelect, Deselect, Goto, Ready, Typed, Role, Selected, At
  <2>2. CASE t = s
    BY <1>5, <2>2 DEF CloseLeave, RemoveSelect, Deselect, Goto, Ready, Typed, Role, Selected, At
  <2> QED
    BY <2>1, <2>2
<1>6. ASSUME NEW s \in Sessions, Report(s) PROVE Role(t)'
  <2>1. CASE t # s
    BY <1>6, <2>1 DEF Report, Goto, Ready, Typed, Role, Selected, At
  <2>2. CASE t = s
    BY <1>6, <2>2 DEF Report, Goto, Ready, Typed, Role, Selected, At
  <2> QED
    BY <2>1, <2>2
<1>7. ASSUME NEW s \in Sessions, NEW U \in SUBSET AllUids, Fetch(s, U) PROVE Role(t)'
  <2>1. CASE t # s
    BY <1>7, <2>1 DEF Fetch, Goto, Ready, BcastFlags, Owe, Typed, Role, Selected, At
  <2>2. CASE t = s
    BY <1>7, <2>2 DEF Fetch, Goto, Ready, BcastFlags, Owe, Typed, Role, Selected, At
  <2> QED
    BY <2>1, <2>2
<1>8. ASSUME NEW s \in Sessions, NEW U \in SUBSET AllUids, NEW set \in BOOLEAN, Store(s, U, set) PROVE Role(t)'
  <2>1. CASE t # s
    BY <1>8, <2>1 DEF Store, Goto, Ready, BcastFlags, Owe, Typed, Role, Selected, At
  <2>2. CASE t = s
    BY <1>8, <2>2 DEF Store, Goto, Ready, BcastFlags, Owe, Typed, Role, Selected, At
  <2> QED
    BY <2>1, <2>2
<1>9. ASSUME NEW s \in Sessions, NEW U \in SUBSET AllUids, ExpungeList(s, U) PROVE Role(t)'
  <2>1. CASE t # s
    BY <1>9, <2>1 DEF ExpungeList, Goto, Ready, Typed, Role, Selected, At
  <2>2. CASE t = s
    BY <1>9, <2>2 DEF ExpungeList, Goto, Ready, Typed, Role, Selected, At
  <2> QED
    BY <2>1, <2>2
<1>10. ASSUME NEW s \in Sessions, NEW f \in Folders, NEW U \in SUBSET AllUids, NEW ok \in BOOLEAN, Copy(s, f, U, ok) PROVE Role(t)'
  <2>1. CASE t # s
    BY <1>10, <2>1 DEF Copy, Goto, Ready, Typed, Role, Selected, At
  <2>2. CASE t = s
    BY <1>10, <2>2 DEF Copy, Goto, Ready, Typed, Role, Selected, At
  <2> QED
    BY <2>1, <2>2
<1>11. ASSUME NEW s \in Sessions, NEW f \in Folders, Append(s, f) PROVE Role(t)'
  <2>1. CASE t # s
    BY <1>11, <2>1 DEF Append, Goto, Ready, BcastTouch, Typed, Role, Selected, At
  <2>2. CASE t = s
    BY <1>11, <2>2 DEF Append, Goto, Ready, BcastTouch, Typed, Role, Selected, At
  <2> QED
    BY <2>1, <2>2
<1>12. ASSUME NEW s \in Sessions, Idle(s) PROVE Role(t)'
  <2>1. CASE t # s
    BY <1>12, <2>1 DEF Idle, Ready, Typed, Role, Selected, At
  <2>2. CASE t = s
    BY <1>12, <2>2 DEF Idle, Ready, Typed, Role, Selected, At
  <2> QED
    BY <2>1, <2>2
<1>13. ASSUME NEW s \in Sessions, NEW f \in Folders, NEW ro \in Modes, SelexRead(s, f, ro) PROVE Role(t)'
  <2>1. CASE t # s
    BY <1>13, <2>1 DEF SelexRead, Goto, SendUnselect, Typed, Role, Selected, At
  <2>2. CASE t = s
    BY <1>13, <2>2, ImapAssumption DEF SelexRead, Goto, SendUnselect, Typed, Role, Selected, At
  <2> QED
    BY <2>1, <2>2
<1>14. ASSUME NEW s \in Sessions, SelexFails(s) PROVE Role(t)'
  <2>1. CASE t # s
    BY <1>14, <2>1 DEF SelexFails, Goto, SendUnselect, Typed, Role, Selected, At
  <2>2. CASE t = s
    BY <1>14, <2>2 DEF SelexFails, Goto, SendUnselect, Typed, Role, Selected, At
  <2> QED
    BY <2>1, <2>2
<1>15. ASSUME NEW s \in Sessions, AddSelect(s) PROVE Role(t)'
  <2>1. CASE t # s
    BY <1>15, <2>1 DEF AddSelect, Goto, Typed, Role, Selected, At
  <2>2. CASE t = s
    BY <1>15, <2>2 DEF AddSelect, Goto, Typed, Role, Selected, At
  <2> QED
    BY <2>1, <2>2
<1>16. ASSUME NEW s \in Sessions, Leave(s) PROVE Role(t)'
  <2>1. CASE t # s
    BY <1>16, <2>1 DEF Leave, Goto, SendUnselect, Typed, Role, Selected, At
  <2>2. CASE t = s
    BY <1>16, <2>2 DEF Leave, Goto, SendUnselect, Typed, Role, Selected, At
  <2> QED
    BY <2>1, <2>2
<1>17. ASSUME NEW s \in Sessions, ExpungeRemove(s) PROVE Role(t)'
  <2>1. CASE t # s
    BY <1>17, <2>1 DEF ExpungeRemove, Goto, BcastExpunge, Typed, Role, Selected, At
  <2>2. CASE t = s
    BY <1>17, <2>2 DEF ExpungeRemove, Goto, BcastExpunge, Typed, Role, Selected, At
  <2> QED
    BY <2>1, <2>2
<1>18. ASSUME NEW s \in Sessions, ExpungeFails(s) PROVE Role(t)'
  <2>1. CASE t # s
    BY <1>18, <2>1 DEF ExpungeFails, Goto, Typed, Role, Selected, At
  <2>2. CASE t = s
    BY <1>18, <2>2 DEF ExpungeFails, Goto, Typed, Role, Selected, At
  <2> QED
    BY <2>1, <2>2
<1>19. ASSUME NEW s \in Sessions, CloseRemove(s) PROVE Role(t)'
  <2>1. CASE t # s
    BY <1>19, <2>1 DEF CloseRemove, Goto, SendUnselect, BcastTouch, Typed, Role, Selected, At
  <2>2. CASE t = s
    BY <1>19, <2>2 DEF CloseRemove, Goto, SendUnselect, BcastTouch, Typed, Role, Selected, At
  <2> QED
    BY <2>1, <2>2
<1>19a. ASSUME NEW s \in Sessions, CloseFails(s) PROVE Role(t)'
  <2>1. CASE t # s
    BY <1>19a, <2>1 DEF CloseFails, Goto, SendUnselect, Typed, Role, Selected, At
  <2>2. CASE t = s
    BY <1>19a, <2>2 DEF CloseFails, Goto, SendUnselect, Typed, Role, Selected, At
  <2> QED
    BY <2>1, <2>2
<1>20. ASSUME NEW s \in Sessions, EchoNothing(s) PROVE Role(t)'
  <2>1. CASE t # s
    BY <1>20, <2>1 DEF EchoNothing, EchoReturns, Goto, Typed, Role, Selected, At
  <2>2. CASE t = s
    BY <1>20, <2>2 DEF EchoNothing, EchoReturns, Goto, Typed, Role, Selected, At
  <2> QED
    BY <2>1, <2>2
<1>21. ASSUME NEW s \in Sessions, EchoModify(s) PROVE Role(t)'
  <2>1. CASE t # s
    BY <1>21, <2>1 DEF EchoModify, EchoReturns, EchoTake, Goto, Refreshed, Typed, Role, Selected, At
  <2>2. CASE t = s
    BY <1>21, <2>2 DEF EchoModify, EchoReturns, EchoTake, Goto, Refreshed, Typed, Role, Selected, At
  <2> QED
    BY <2>1, <2>2
<1>22. ASSUME NEW s \in Sessions, EchoFails(s) PROVE Role(t)'
  <2>1. CASE t # s
    BY <1>22, <2>1 DEF EchoFails, EchoReturns, EchoTake, Goto, Typed, Role, Selected, At
  <2>2. CASE t = s
    BY <1>22, <2>2 DEF EchoFails, EchoReturns, EchoTake, Goto, Typed, Role, Selected, At
  <2> QED
    BY <2>1, <2>2
<1>23. ASSUME NEW s \in Sessions, ContextClear(s) PROVE Role(t)'
  <2>1. CASE t # s
    BY <1>23, <2>1 DEF ContextClear, Goto, SendUnselect, Typed, Role, Selected, At
  <2>2. CASE t = s
    BY <1>23, <2>2 DEF ContextClear, Goto, SendUnselect, Typed, Role, Selected, At
  <2> QED
    BY <2>1, <2>2
<1>24. ASSUME NEW s \in Sessions, Sleep(s) PROVE Role(t)'
  <2>1. CASE t # s
    BY <1>24, <2>1 DEF Sleep, Typed, Role, Selected, At
  <2>2. CASE t = s
    BY <1>24, <2>2 DEF Sleep, Typed, Role, Selected, At
  <2> QED
    BY <2>1, <2>2
<1>25. ASSUME NEW s \in Sessions, IdleDone(s) PROVE Role(t)'
  <2>1. CASE t # s
    BY <1>25, <2>1 DEF IdleDone, Typed, Role, Selected, At
  <2>2. CASE t = s
    BY <1>25, <2>2 DEF IdleDone, Typed, Role, Selected, At
  <2> QED
    BY <2>1, <2>2
<1>26. ASSUME NEW s \in Sessions, ScanNotify(s) PROVE Role(t)'
  <2>1. CASE t # s
    BY <1>26, <2>1 DEF ScanNotify, Goto, Typed, Role, Selected, At
  <2>2. CASE t = s
    BY <1>26, <2>2 DEF ScanNotify, Goto, Typed, Role, Selected, At
  <2> QED
    BY <2>1, <2>2
<1>27. ASSUME NEW s \in Sessions, ScanWake(s) PROVE Role(t)'
  <2>1. CASE t # s
    BY <1>27, <2>1 DEF ScanWake, Typed, Role, Selected, At
  <2>2. CASE t = s
    BY <1>27, <2>2 DEF ScanWake, Typed, Role, Selected, At
  <2> QED
    BY <2>1, <2>2
<1>28. ASSUME NEW s \in Sessions, EndProcessing(s) PROVE Role(t)'
  <2>1. CASE t # s
    BY <1>28, <2>1 DEF EndProcessing, RemoveSelect, Deselect, Goto, Typed, Role, Selected, At
  <2>2. CASE t = s
    BY <1>28, <2>2 DEF EndProcessing, RemoveSelect, Deselect, Goto, Typed, Role, Selected, At
  <2> QED
    BY <2>1, <2>2
<1>29. \A f, u : 
          \/ Deliver(f) \/ MidbAdds(f) \/ EventTouch(f)
          \/ OtherDeletes(f, u) \/ MidbDeletes(f, u) \/ EventExpunge(f, u)
          \/ EventFlag(f, u) \/ MidbReplaces(f, u) \/ MidbReflags(f)
          => UNCHANGED <<session, pc, asleep, prev_selected, listed, work>>
    BY DEF Deliver, MidbAdds, EventTouch, OtherDeletes, MidbDeletes, EventExpunge, EventFlag, MidbReplaces, MidbReflags, session, place, bus, mailbox, queues, ghosts
<1>30. ASSUME NEW s \in Sessions, Command(s) PROVE Role(t)'
  <2>1. \A U \in SUBSET contents[s] : U \in SUBSET AllUids
    BY DEF Typed
  <2> QED
    BY <1>1, <1>2, <1>3, <1>4, <1>5, <1>6, <1>7, <1>8, <1>9, <1>10, <1>11, <1>12, <1>30, <2>1
    DEF Command, Noop, ManageFolders, ListFolders, Search
<1>31. ASSUME NEW s \in Sessions, Continue(s) PROVE Role(t)'
    BY <1>1, <1>13, <1>14, <1>15, <1>16, <1>17, <1>18, <1>19, <1>19a, <1>20, <1>21, <1>22, <1>23, <1>31 DEF Continue
<1>32. ASSUME NEW s \in Sessions, Connection(s) PROVE Role(t)'
    BY <1>1, <1>24, <1>25, <1>26, <1>27, <1>28, <1>32 DEF Connection
<1>33. ASSUME NEW f \in Folders, World(f) PROVE Role(t)'
    BY <1>1, <1>29, <1>33 DEF World
<1>34. CASE UNCHANGED vars
    BY <1>1, <1>34 DEF vars, session, place, bus, mailbox, queues, ghosts
<1> QED
    BY <1>30, <1>31, <1>32, <1>33, <1>34 DEF Next

-----------------------------------------------------------------------------
(* The queues of a session.                                                *)

\* What is queued for a client stays queued, with its mask, until it is told.
LEMMA QueuedStep ==
    ASSUME Typed, NEW t \in Sessions, \A s \in Sessions : Role(s) /\ Queued(s), [Next]_vars
    PROVE  Queued(t)'
<1> USE DEF session, place, bus, mailbox, queues, ghosts
<1>1. CASE UNCHANGED <<proto_stat, queues, owed, carried>>
    BY <1>1 DEF Queued, Selected
<1>2. ASSUME NEW s \in Sessions, Login(s) PROVE Queued(t)'
  <2>1. CASE t # s
    BY <1>2, <2>1 DEF Login, Ready, Authed, Typed, Role, Queued, Selected, At
  <2>2. CASE t = s
    BY <1>2, <2>2 DEF Login, Ready, Authed, Typed, Role, Queued, Selected, At
  <2> QED
    BY <2>1, <2>2
<1>3. ASSUME NEW s \in Sessions, SelexBegin(s) PROVE Queued(t)'
  <2>1. CASE t # s
    BY <1>3, <2>1 DEF SelexBegin, RemoveSelect, Deselect, Goto, Ready, Authed, Typed, Role, Queued, Selected, At
  <2>2. CASE t = s
    BY <1>3, <2>2 DEF SelexBegin, RemoveSelect, Deselect, Goto, Ready, Authed, Typed, Role, Queued, Selected, At
  <2> QED
    BY <2>1, <2>2
<1>4. ASSUME NEW s \in Sessions, Unselect(s) PROVE Queued(t)'
  <2>1. CASE t # s
    BY <1>4, <2>1 DEF Unselect, RemoveSelect, Deselect, Goto, Ready, Typed, Role, Queued, Selected, At
  <2>2. CASE t = s
    BY <1>4, <2>2 DEF Unselect, RemoveSelect, Deselect, Goto, Ready, Typed, Role, Queued, Selected, At
  <2> QED
    BY <2>1, <2>2
<1>5. ASSUME NEW s \in Sessions, CloseLeave(s) PROVE Queued(t)'
  <2>1. CASE t # s
    BY <1>5, <2>1 DEF CloseLeave, RemoveSelect, Deselect, Goto, Ready, Typed, Role, Queued, Selected, At
  <2>2. CASE t = s
    BY <1>5, <2>2 DEF CloseLeave, RemoveSelect, Deselect, Goto, Ready, Typed, Role, Queued, Selected, At
  <2> QED
    BY <2>1, <2>2
<1>6. ASSUME NEW s \in Sessions, NEW U \in SUBSET AllUids, Fetch(s, U) PROVE Queued(t)'
  <2>1. /\ f_flags'[t] = f_flags[t] \cup IF t \in On(selected_folder[s]) \ {s} THEN U ELSE {}
        /\ mask'[t] = (mask[t] \/ (t \in On(selected_folder[s]) \ {s} /\ U # {}))
        /\ owed'[t] = owed[t] \cup IF t \in MustLearn(selected_folder[s], s) THEN U \cap contents[t] ELSE {}
        /\ UNCHANGED <<proto_stat, f_expunged_uids, carried>>
    BY <1>6 DEF Fetch, BcastFlags, Owe
  <2>2. t \in MustLearn(selected_folder[s], s) => t \in On(selected_folder[s]) \ {s} /\ Selected(t)
    BY DEF MustLearn, On, Role, At
  <2> QED
    BY <2>1, <2>2 DEF Queued, Selected
<1>7. ASSUME NEW s \in Sessions, NEW U \in SUBSET AllUids, NEW set \in BOOLEAN, Store(s, U, set) PROVE Queued(t)'
  <2>1. /\ f_flags'[t] = f_flags[t] \cup IF t \in On(selected_folder[s]) \ {s} THEN U ELSE {}
        /\ mask'[t] = (mask[t] \/ (t \in On(selected_folder[s]) \ {s} /\ U # {}))
        /\ owed'[t] = owed[t] \cup IF t \in MustLearn(selected_folder[s], s) THEN U \cap contents[t] ELSE {}
        /\ UNCHANGED <<proto_stat, f_expunged_uids, carried>>
    BY <1>7 DEF Store, BcastFlags, Owe
  <2>2. t \in MustLearn(selected_folder[s], s) => t \in On(selected_folder[s]) \ {s} /\ Selected(t)
    BY DEF MustLearn, On, Role, At
  <2> QED
    BY <2>1, <2>2 DEF Queued, Selected
<1>8. ASSUME NEW s \in Sessions, NEW f \in Folders, Append(s, f) PROVE Queued(t)'
  <2>1. CASE t # s
    BY <1>8, <2>1 DEF Append, Goto, Ready, BcastTouch, Typed, Role, Queued, Selected, At
  <2>2. CASE t = s
    BY <1>8, <2>2 DEF Append, Goto, Ready, BcastTouch, Typed, Role, Queued, Selected, At
  <2> QED
    BY <2>1, <2>2
<1>9. ASSUME NEW s \in Sessions, NEW f \in Folders, NEW ro \in Modes, SelexRead(s, f, ro) PROVE Queued(t)'
  <2>1. CASE t # s
    BY <1>9, <2>1 DEF SelexRead, Goto, SendUnselect, Typed, Role, Queued, Selected, At
  <2>2. CASE t = s
    BY <1>9, <2>2 DEF SelexRead, Goto, SendUnselect, Typed, Role, Queued, Selected, At
  <2> QED
    BY <2>1, <2>2
<1>10. ASSUME NEW s \in Sessions, ExpungeRemove(s) PROVE Queued(t)'
  <2>1. /\ f_expunged_uids'[t] = f_expunged_uids[t] \cup IF t \in On(selected_folder[s]) THEN work[s] ELSE {}
        /\ mask'[t] = (mask[t] \/ (t \in On(selected_folder[s]) /\ work[s] # {}))
        /\ UNCHANGED <<proto_stat, f_flags, owed, carried>>
    BY <1>10 DEF ExpungeRemove, BcastExpunge
  <2>2. t \in On(selected_folder[s]) => Selected(t)
    BY DEF On, Role
  <2> QED
    BY <2>1, <2>2 DEF Queued, Selected
<1>11. ASSUME NEW s \in Sessions, CloseRemove(s) PROVE Queued(t)'
  <2>1. CASE t # s
    BY <1>11, <2>1 DEF CloseRemove, Goto, SendUnselect, BcastTouch, Typed, Role, Queued, Selected, At
  <2>2. CASE t = s
    BY <1>11, <2>2 DEF CloseRemove, Goto, SendUnselect, BcastTouch, Typed, Role, Queued, Selected, At
  <2> QED
    BY <2>1, <2>2
<1>12. ASSUME NEW s \in Sessions, EchoModify(s) PROVE Queued(t)'
  <2>1. CASE t # s
    BY <1>12, <2>1 DEF EchoModify, EchoReturns, EchoTake, Goto, Refreshed, Typed, Role, Queued, Selected, At
  <2>2. CASE t = s
    BY <1>12, <2>2 DEF EchoModify, EchoReturns, EchoTake, Goto, Refreshed, Typed, Role, Queued, Selected, At
  <2> QED
    BY <2>1, <2>2
<1>13. ASSUME NEW s \in Sessions, EchoFails(s) PROVE Queued(t)'
  <2>1. CASE t # s
    BY <1>13, <2>1 DEF EchoFails, EchoReturns, EchoTake, Goto, Typed, Role, Queued, Selected, At
  <2>2. CASE t = s
    BY <1>13, <2>2 DEF EchoFails, EchoReturns, EchoTake, Goto, Typed, Role, Queued, Selected, At
  <2> QED
    BY <2>1, <2>2
<1>14. ASSUME NEW s \in Sessions, ContextClear(s) PROVE Queued(t)'
  <2>1. CASE t # s
    BY <1>14, <2>1 DEF ContextClear, Goto, SendUnselect, Typed, Role, Queued, Selected, At
  <2>2. CASE t = s
    BY <1>14, <2>2 DEF ContextClear, Goto, SendUnselect, Typed, Role, Queued, Selected, At
  <2> QED
    BY <2>1, <2>2
<1>15. ASSUME NEW s \in Sessions, EndProcessing(s) PROVE Queued(t)'
  <2>1. CASE t # s
    BY <1>15, <2>1 DEF EndProcessing, RemoveSelect, Deselect, Goto, Typed, Role, Queued, Selected, At
  <2>2. CASE t = s
    BY <1>15, <2>2 DEF EndProcessing, RemoveSelect, Deselect, Goto, Typed, Role, Queued, Selected, At
  <2> QED
    BY <2>1, <2>2
<1>16. ASSUME NEW f \in Folders, EventTouch(f) PROVE Queued(t)'
    BY <1>16 DEF EventTouch, On, Late, Typed, Role, Queued, Selected, At
<1>17. ASSUME NEW f \in Folders, NEW u \in Uids(f), EventExpunge(f, u) PROVE Queued(t)'
  <2>1. /\ f_expunged_uids'[t] = f_expunged_uids[t] \cup IF t \in On(f) THEN {u} ELSE {}
        /\ mask'[t] = (mask[t] \/ t \in On(f)) /\ UNCHANGED <<proto_stat, f_flags, owed, carried>>
    BY <1>17 DEF EventExpunge
  <2>2. t \in On(f) => Selected(t)
    BY DEF On, Role
  <2> QED
    BY <2>1, <2>2 DEF Queued, Selected
<1>18. ASSUME NEW f \in Folders, NEW u \in Uids(f), EventFlag(f, u) PROVE Queued(t)'
  <2> DEFINE O == {s \in Sessions : Selected(s) /\ ~At(s, "add") /\ selected_folder[s] = f}
  <2>1. /\ f_flags'[t] = f_flags[t] \cup IF t \in On(f) THEN {u} ELSE {}
        /\ mask'[t] = (mask[t] \/ t \in On(f)) /\ UNCHANGED <<proto_stat, f_expunged_uids, carried>>
    BY <1>18 DEF EventFlag
  <2>2. owed'[t] = owed[t] \cup IF t \in O THEN {u} \cap contents[t] ELSE {}
    BY <1>18 DEF EventFlag, Owe
  <2>3. t \in O => t \in On(f) /\ Selected(t)
    BY DEF On, Role, At
  <2> QED
    BY <2>1, <2>2, <2>3 DEF Queued, Selected
<1>19. \A s, f, U, ok : Report(s) \/ ExpungeList(s, U) \/ Copy(s, f, U, ok) \/ Idle(s)
          => UNCHANGED <<proto_stat, queues, owed, carried>>
    BY DEF Report, ExpungeList, Copy, Idle
<1>20. \A s : 
          \/ SelexFails(s) \/ AddSelect(s) \/ Leave(s) \/ ExpungeFails(s)
          \/ CloseFails(s) \/ EchoNothing(s)
          => UNCHANGED <<proto_stat, queues, owed, carried>>
    BY DEF SelexFails, AddSelect, Leave, ExpungeFails, CloseFails, EchoNothing
<1>21. \A s : Sleep(s) \/ IdleDone(s) \/ ScanNotify(s) \/ ScanWake(s)
          => UNCHANGED <<proto_stat, queues, owed, carried>>
    BY DEF Sleep, IdleDone, ScanNotify, ScanWake
<1>22. \A f, u : 
          \/ Deliver(f) \/ MidbAdds(f) \/ OtherDeletes(f, u)
          \/ MidbDeletes(f, u) \/ MidbReplaces(f, u) \/ MidbReflags(f)
          => UNCHANGED <<proto_stat, queues, owed, carried>>
    BY DEF Deliver, MidbAdds, OtherDeletes, MidbDeletes, MidbReplaces, MidbReflags
<1>23. ASSUME NEW s \in Sessions, Command(s) PROVE Queued(t)'
  <2>1. \A U \in SUBSET contents[s] : U \in SUBSET AllUids
    BY DEF Typed
  <2> QED
    BY <1>1, <1>2, <1>3, <1>4, <1>5, <1>6, <1>7, <1>8, <1>19, <1>23, <2>1
    DEF Command, Noop, ManageFolders, ListFolders, Search
<1>24. ASSUME NEW s \in Sessions, Continue(s) PROVE Queued(t)'
    BY <1>1, <1>9, <1>10, <1>11, <1>12, <1>13, <1>14, <1>20, <1>24 DEF Continue
<1>25. ASSUME NEW s \in Sessions, Connection(s) PROVE Queued(t)'
    BY <1>1, <1>15, <1>21, <1>25 DEF Connection
<1>26. ASSUME NEW f \in Folders, World(f) PROVE Queued(t)'
    BY <1>1, <1>16, <1>17, <1>18, <1>22, <1>26 DEF World
<1>27. CASE UNCHANGED vars
    BY <1>1, <1>27 DEF vars
<1> QED
    BY <1>23, <1>24, <1>25, <1>26, <1>27 DEF Next

-----------------------------------------------------------------------------
(* UIDs are given once.                                                    *)

\* A UID that was given out stays given out, and its message does not come back.
LEMMA UidsOnce ==
    ASSUME Typed, Indexed, \A s \in Sessions : Role(s), [Next]_vars, NEW g \in Folders
    PROVE  Given(g) \subseteq Given(g)' /\ store'[g] \cap Given(g) \subseteq store[g]
<1> USE DEF session, place, bus, mailbox, queues, ghosts
<1>1. CASE UNCHANGED <<store, uidnext>>
    BY <1>1 DEF Given
<1>2. ASSUME NEW s \in Sessions, ExpungeRemove(s) PROVE Given(g) \subseteq Given(g)' /\ store'[g] \cap Given(g) \subseteq store[g]
  <2>1. PICK h \in Folders : h = selected_folder[s]
    BY <1>2 DEF ExpungeRemove, At, Role, Selected, Typed
  <2>2. store' = [store EXCEPT ![h] = @ \ work[s]] /\ UNCHANGED uidnext
    BY <1>2, <2>1 DEF ExpungeRemove
  <2> QED
    BY <2>1, <2>2 DEF Given, Indexed
<1>3. ASSUME NEW s \in Sessions, CloseRemove(s) PROVE Given(g) \subseteq Given(g)' /\ store'[g] \cap Given(g) \subseteq store[g]
  <2>1. PICK h \in Folders : h = prev_selected[s]
    BY <1>3 DEF CloseRemove, At, Role, Selected, Typed
  <2>2. store' = [store EXCEPT ![h] = @ \ deleted[h]] /\ UNCHANGED uidnext
    BY <1>3, <2>1 DEF CloseRemove
  <2> QED
    BY <2>1, <2>2 DEF Given, Indexed
<1>3a. ASSUME NEW s \in Sessions, ExpungeFails(s) PROVE Given(g) \subseteq Given(g)' /\ store'[g] \cap Given(g) \subseteq store[g]
  <2>1. PICK h \in Folders : h = selected_folder[s]
    BY <1>3a DEF ExpungeFails, At, Role, Selected, Typed
  <2>2. PICK V \in SUBSET work[s] : store' = [store EXCEPT ![h] = @ \ V]
    BY <1>3a, <2>1 DEF ExpungeFails
  <2>3. UNCHANGED uidnext
    BY <1>3a DEF ExpungeFails
  <2> QED
    BY <2>1, <2>2, <2>3 DEF Given, Indexed
<1>3b. ASSUME NEW s \in Sessions, CloseFails(s) PROVE Given(g) \subseteq Given(g)' /\ store'[g] \cap Given(g) \subseteq store[g]
  <2>1. PICK h \in Folders : h = prev_selected[s]
    BY <1>3b DEF CloseFails, At, Role, Selected, Typed
  <2>2. PICK V \in SUBSET deleted[h] : store' = [store EXCEPT ![h] = @ \ V]
    BY <1>3b, <2>1 DEF CloseFails
  <2>3. UNCHANGED uidnext
    BY <1>3b DEF CloseFails
  <2> QED
    BY <2>1, <2>2, <2>3 DEF Given, Indexed
<1>4. ASSUME NEW f \in Folders, MidbAdds(f) PROVE Given(g) \subseteq Given(g)' /\ store'[g] \cap Given(g) \subseteq store[g]
  <2>1. PICK n \in Nat : n = uidnext[f]
    BY DEF Indexed
  <2>2. /\ uidnext' = [uidnext EXCEPT ![f] = n + 1] /\ store' = [store EXCEPT ![f] = @ \cup {n}]
    BY <1>4, <2>1 DEF MidbAdds
  <2>3. CASE g # f
    BY <2>2, <2>3 DEF Given, Indexed
  <2>4. CASE g = f
    <3>1. uidnext'[g] = n + 1 /\ store'[g] = store[g] \cup {n} /\ uidnext[g] = n
        BY <2>1, <2>2, <2>4 DEF Indexed
    <3>2. n \notin 1..n-1 /\ 1..n-1 \subseteq 1..(n + 1)-1
        BY <2>1
    <3> QED
        BY <3>1, <3>2 DEF Given
  <2> QED
    BY <2>3, <2>4
<1>4a. ASSUME NEW f \in Folders, NEW u \in Uids(f), MidbReplaces(f, u) PROVE Given(g) \subseteq Given(g)' /\ store'[g] \cap Given(g) \subseteq store[g]
  <2>1. PICK n \in Nat : n = uidnext[f]
    BY DEF Indexed
  <2>2. PICK S, I : store' = [store EXCEPT ![f] = S] /\ S \subseteq store[f] \cup {n}
    BY <1>4a, <2>1, ReplacesFacts
  <2>3. uidnext' = [uidnext EXCEPT ![f] = n + 1]
    BY <1>4a, <2>1 DEF MidbReplaces
  <2>4. CASE g # f
    BY <2>2, <2>3, <2>4 DEF Given, Indexed
  <2>5. CASE g = f
    <3>1. uidnext'[g] = n + 1 /\ store'[g] = S /\ uidnext[g] = n
        BY <2>1, <2>2, <2>3, <2>5 DEF Indexed
    <3>2. n \notin 1..n-1 /\ 1..n-1 \subseteq 1..(n + 1)-1
        BY <2>1
    <3> QED
        BY <2>2, <2>5, <3>1, <3>2 DEF Given
  <2> QED
    BY <2>4, <2>5
<1>5. ASSUME NEW f \in Folders, NEW u \in Uids(f), OtherDeletes(f, u) PROVE Given(g) \subseteq Given(g)' /\ store'[g] \cap Given(g) \subseteq store[g]
    BY <1>5 DEF OtherDeletes, Given, Indexed
<1>6. \A s, f, U, set, ok : 
          \/ Login(s) \/ SelexBegin(s) \/ Unselect(s) \/ CloseLeave(s)
          \/ Report(s) \/ Fetch(s, U) \/ Store(s, U, set)
          \/ ExpungeList(s, U) \/ Copy(s, f, U, ok) \/ Append(s, f)
          \/ Idle(s)
          => UNCHANGED <<store, uidnext>>
    BY DEF Login, SelexBegin, Unselect, CloseLeave, Report, Fetch, Store, ExpungeList, Copy, Append, Idle
<1>7. \A s, f, ro : 
          \/ SelexRead(s, f, ro) \/ SelexFails(s) \/ AddSelect(s)
          \/ Leave(s) \/ EchoNothing(s) \/ EchoModify(s)
          \/ EchoFails(s) \/ ContextClear(s)
          => UNCHANGED <<store, uidnext>>
    BY DEF SelexRead, SelexFails, AddSelect, Leave, EchoNothing, EchoModify, EchoFails, ContextClear
<1>8. \A s : 
          \/ Sleep(s) \/ IdleDone(s) \/ ScanNotify(s) \/ ScanWake(s)
          \/ EndProcessing(s)
          => UNCHANGED <<store, uidnext>>
    BY DEF Sleep, IdleDone, ScanNotify, ScanWake, EndProcessing
<1>9. \A f, u : 
          \/ Deliver(f) \/ EventTouch(f) \/ MidbDeletes(f, u)
          \/ EventExpunge(f, u) \/ EventFlag(f, u) \/ MidbReflags(f)
          => UNCHANGED <<store, uidnext>>
    BY DEF Deliver, EventTouch, MidbDeletes, EventExpunge, EventFlag, MidbReflags
<1>10. ASSUME NEW s \in Sessions, Command(s) PROVE Given(g) \subseteq Given(g)' /\ store'[g] \cap Given(g) \subseteq store[g]
  <2>1. \A U \in SUBSET contents[s] : U \in SUBSET AllUids
    BY DEF Typed
  <2> QED
    BY <1>1, <1>6, <1>10, <2>1
    DEF Command, Noop, ManageFolders, ListFolders, Search
<1>11. ASSUME NEW s \in Sessions, Continue(s) PROVE Given(g) \subseteq Given(g)' /\ store'[g] \cap Given(g) \subseteq store[g]
    BY <1>1, <1>2, <1>3, <1>3a, <1>3b, <1>7, <1>11 DEF Continue
<1>12. ASSUME NEW s \in Sessions, Connection(s) PROVE Given(g) \subseteq Given(g)' /\ store'[g] \cap Given(g) \subseteq store[g]
    BY <1>1, <1>8, <1>12 DEF Connection
<1>13. ASSUME NEW f \in Folders, World(f) PROVE Given(g) \subseteq Given(g)' /\ store'[g] \cap Given(g) \subseteq store[g]
    BY <1>1, <1>4, <1>4a, <1>5, <1>9, <1>13 DEF World
<1>14. CASE UNCHANGED vars
    BY <1>1, <1>14 DEF vars
<1> QED
    BY <1>10, <1>11, <1>12, <1>13, <1>14 DEF Next

-----------------------------------------------------------------------------
(* A session's own EXPUNGE.                                                *)

\* What a session has removed is queued for itself when it answers.
LEMMA RemovingStep ==
    ASSUME Typed, Indexed, NEW t \in Sessions,
           \A s \in Sessions : Role(s) /\ Removing(s), [Next]_vars
    PROVE  Removing(t)'
<1> USE DEF session, place, bus, mailbox, queues, ghosts
<1>1. CASE UNCHANGED <<pc, work, selected_folder, uidnext, contents, f_expunged_uids, mask>>
    BY <1>1 DEF Removing, Given
<1>2. ASSUME NEW s \in Sessions, Login(s) PROVE Removing(t)'
  <2>1. CASE t # s
    BY <1>2, <2>1 DEF Login, Ready, Authed, Typed, Role, Removing, Selected, At, Given
  <2>2. CASE t = s
    BY <1>2, <2>2 DEF Login, Ready, Authed, Typed, Role, Removing, Selected, At, Given
  <2> QED
    BY <2>1, <2>2
<1>3. ASSUME NEW s \in Sessions, SelexBegin(s) PROVE Removing(t)'
  <2>1. CASE t # s
    BY <1>3, <2>1 DEF SelexBegin, RemoveSelect, Deselect, Goto, Ready, Authed, Typed, Role, Removing, Selected, At, Given
  <2>2. CASE t = s
    BY <1>3, <2>2 DEF SelexBegin, RemoveSelect, Deselect, Goto, Ready, Authed, Typed, Role, Removing, Selected, At, Given
  <2> QED
    BY <2>1, <2>2
<1>4. ASSUME NEW s \in Sessions, Unselect(s) PROVE Removing(t)'
  <2>1. CASE t # s
    BY <1>4, <2>1 DEF Unselect, RemoveSelect, Deselect, Goto, Ready, Typed, Role, Removing, Selected, At, Given
  <2>2. CASE t = s
    BY <1>4, <2>2 DEF Unselect, RemoveSelect, Deselect, Goto, Ready, Typed, Role, Removing, Selected, At, Given
  <2> QED
    BY <2>1, <2>2
<1>5. ASSUME NEW s \in Sessions, CloseLeave(s) PROVE Removing(t)'
  <2>1. CASE t # s
    BY <1>5, <2>1 DEF CloseLeave, RemoveSelect, Deselect, Goto, Ready, Typed, Role, Removing, Selected, At, Given
  <2>2. CASE t = s
    BY <1>5, <2>2 DEF CloseLeave, RemoveSelect, Deselect, Goto, Ready, Typed, Role, Removing, Selected, At, Given
  <2> QED
    BY <2>1, <2>2
<1>6. ASSUME NEW s \in Sessions, Report(s) PROVE Removing(t)'
  <2>1. CASE t # s
    BY <1>6, <2>1 DEF Report, Goto, Ready, Typed, Role, Removing, Selected, At, Given
  <2>2. CASE t = s
    BY <1>6, <2>2 DEF Report, Goto, Ready, Typed, Role, Removing, Selected, At, Given
  <2> QED
    BY <2>1, <2>2
<1>7. ASSUME NEW s \in Sessions, NEW U \in SUBSET AllUids, Fetch(s, U) PROVE Removing(t)'
  <2>1. CASE t # s
    BY <1>7, <2>1 DEF Fetch, Goto, Ready, BcastFlags, Owe, Typed, Role, Removing, Selected, At, Given
  <2>2. CASE t = s
    BY <1>7, <2>2 DEF Fetch, Goto, Ready, BcastFlags, Owe, Typed, Role, Removing, Selected, At, Given
  <2> QED
    BY <2>1, <2>2
<1>8. ASSUME NEW s \in Sessions, NEW U \in SUBSET AllUids, NEW set \in BOOLEAN, Store(s, U, set) PROVE Removing(t)'
  <2>1. CASE t # s
    BY <1>8, <2>1 DEF Store, Goto, Ready, BcastFlags, Owe, Typed, Role, Removing, Selected, At, Given
  <2>2. CASE t = s
    BY <1>8, <2>2 DEF Store, Goto, Ready, BcastFlags, Owe, Typed, Role, Removing, Selected, At, Given
  <2> QED
    BY <2>1, <2>2
<1>9. ASSUME NEW s \in Sessions, NEW U \in SUBSET AllUids, ExpungeList(s, U) PROVE Removing(t)'
  <2>1. CASE t # s
    BY <1>9, <2>1 DEF ExpungeList, Goto, Removing, Given, Typed
  <2>2. CASE t = s
    <3>1. PICK f \in Folders : f = selected_folder[s]
        BY <1>9 DEF ExpungeList, Typed, Role, Selected
    <3>2. /\ work'[s] = U /\ pc'[s] = (IF deleted[f] = {} THEN "echo" ELSE "remove")
          /\ U \subseteq deleted[f] /\ UNCHANGED <<selected_folder, uidnext>>
        BY <1>9, <3>1 DEF ExpungeList, Goto, Typed
    <3>3. U \subseteq Given(f)
        BY <3>2 DEF Indexed
    <3> QED
        BY <2>2, <3>1, <3>2, <3>3 DEF Removing, Given
  <2> QED
    BY <2>1, <2>2
<1>10. ASSUME NEW s \in Sessions, NEW f \in Folders, NEW U \in SUBSET AllUids, NEW ok \in BOOLEAN, Copy(s, f, U, ok) PROVE Removing(t)'
  <2>1. CASE t # s
    BY <1>10, <2>1 DEF Copy, Goto, Ready, Typed, Role, Removing, Selected, At, Given
  <2>2. CASE t = s
    BY <1>10, <2>2 DEF Copy, Goto, Ready, Typed, Role, Removing, Selected, At, Given
  <2> QED
    BY <2>1, <2>2
<1>11. ASSUME NEW s \in Sessions, NEW f \in Folders, Append(s, f) PROVE Removing(t)'
  <2>1. CASE t # s
    BY <1>11, <2>1 DEF Append, Goto, Ready, BcastTouch, Typed, Role, Removing, Selected, At, Given
  <2>2. CASE t = s
    BY <1>11, <2>2 DEF Append, Goto, Ready, BcastTouch, Typed, Role, Removing, Selected, At, Given
  <2> QED
    BY <2>1, <2>2
<1>12. ASSUME NEW s \in Sessions, Idle(s) PROVE Removing(t)'
  <2>1. CASE t # s
    BY <1>12, <2>1 DEF Idle, Ready, Typed, Role, Removing, Selected, At, Given
  <2>2. CASE t = s
    BY <1>12, <2>2 DEF Idle, Ready, Typed, Role, Removing, Selected, At, Given
  <2> QED
    BY <2>1, <2>2
<1>13. ASSUME NEW s \in Sessions, NEW f \in Folders, NEW ro \in Modes, SelexRead(s, f, ro) PROVE Removing(t)'
  <2>1. CASE t # s
    BY <1>13, <2>1 DEF SelexRead, Goto, SendUnselect, Typed, Role, Removing, Selected, At, Given
  <2>2. CASE t = s
    BY <1>13, <2>2 DEF SelexRead, Goto, SendUnselect, Typed, Role, Removing, Selected, At, Given
  <2> QED
    BY <2>1, <2>2
<1>14. ASSUME NEW s \in Sessions, SelexFails(s) PROVE Removing(t)'
  <2>1. CASE t # s
    BY <1>14, <2>1 DEF SelexFails, Goto, SendUnselect, Typed, Role, Removing, Selected, At, Given
  <2>2. CASE t = s
    BY <1>14, <2>2 DEF SelexFails, Goto, SendUnselect, Typed, Role, Removing, Selected, At, Given
  <2> QED
    BY <2>1, <2>2
<1>15. ASSUME NEW s \in Sessions, AddSelect(s) PROVE Removing(t)'
  <2>1. CASE t # s
    BY <1>15, <2>1 DEF AddSelect, Goto, Typed, Role, Removing, Selected, At, Given
  <2>2. CASE t = s
    BY <1>15, <2>2 DEF AddSelect, Goto, Typed, Role, Removing, Selected, At, Given
  <2> QED
    BY <2>1, <2>2
<1>16. ASSUME NEW s \in Sessions, Leave(s) PROVE Removing(t)'
  <2>1. CASE t # s
    BY <1>16, <2>1 DEF Leave, Goto, SendUnselect, Typed, Role, Removing, Selected, At, Given
  <2>2. CASE t = s
    BY <1>16, <2>2 DEF Leave, Goto, SendUnselect, Typed, Role, Removing, Selected, At, Given
  <2> QED
    BY <2>1, <2>2
<1>17. ASSUME NEW s \in Sessions, ExpungeRemove(s) PROVE Removing(t)'
  <2>1. /\ f_expunged_uids'[t] = f_expunged_uids[t] \cup IF t \in On(selected_folder[s]) THEN work[s] ELSE {}
        /\ mask'[t] = (mask[t] \/ (t \in On(selected_folder[s]) /\ work[s] # {}))
        /\ UNCHANGED <<selected_folder, uidnext, work, contents>>
        /\ pc' = [pc EXCEPT ![s] = "echo"]
    BY <1>17 DEF ExpungeRemove, BcastExpunge, Goto
  <2>2. CASE t # s
    BY <2>1, <2>2 DEF Removing, Given, Typed
  <2>3. CASE t = s
    <3>1. s \in On(selected_folder[s])
        BY <1>17 DEF ExpungeRemove, At, On, Role
    <3> QED
        BY <2>1, <2>3, <3>1 DEF Removing, Typed
  <2> QED
    BY <2>2, <2>3
<1>18. ASSUME NEW s \in Sessions, ExpungeFails(s) PROVE Removing(t)'
  <2>1. CASE t # s
    BY <1>18, <2>1 DEF ExpungeFails, Goto, Typed, Role, Removing, Selected, At, Given
  <2>2. CASE t = s
    BY <1>18, <2>2 DEF ExpungeFails, Goto, Typed, Role, Removing, Selected, At, Given
  <2> QED
    BY <2>1, <2>2
<1>19. ASSUME NEW s \in Sessions, CloseRemove(s) PROVE Removing(t)'
  <2>1. CASE t # s
    BY <1>19, <2>1 DEF CloseRemove, Goto, SendUnselect, BcastTouch, Typed, Role, Removing, Selected, At, Given
  <2>2. CASE t = s
    BY <1>19, <2>2 DEF CloseRemove, Goto, SendUnselect, BcastTouch, Typed, Role, Removing, Selected, At, Given
  <2> QED
    BY <2>1, <2>2
<1>19a. ASSUME NEW s \in Sessions, CloseFails(s) PROVE Removing(t)'
  <2>1. CASE t # s
    BY <1>19a, <2>1 DEF CloseFails, Goto, SendUnselect, Typed, Role, Removing, Selected, At, Given
  <2>2. CASE t = s
    BY <1>19a, <2>2 DEF CloseFails, Goto, SendUnselect, Typed, Role, Removing, Selected, At, Given
  <2> QED
    BY <2>1, <2>2
<1>20. ASSUME NEW s \in Sessions, EchoNothing(s) PROVE Removing(t)'
  <2>1. CASE t # s
    BY <1>20, <2>1 DEF EchoNothing, EchoReturns, Goto, Typed, Role, Removing, Selected, At, Given
  <2>2. CASE t = s
    BY <1>20, <2>2 DEF EchoNothing, EchoReturns, Goto, Typed, Role, Removing, Selected, At, Given
  <2> QED
    BY <2>1, <2>2
<1>21. ASSUME NEW s \in Sessions, EchoModify(s) PROVE Removing(t)'
  <2>1. CASE t # s
    BY <1>21, <2>1 DEF EchoModify, EchoReturns, EchoTake, Goto, Refreshed, Typed, Role, Removing, Selected, At, Given
  <2>2. CASE t = s
    BY <1>21, <2>2 DEF EchoModify, EchoReturns, EchoTake, Goto, Refreshed, Typed, Role, Removing, Selected, At, Given
  <2> QED
    BY <2>1, <2>2
<1>22. ASSUME NEW s \in Sessions, EchoFails(s) PROVE Removing(t)'
  <2>1. CASE t # s
    BY <1>22, <2>1 DEF EchoFails, EchoReturns, EchoTake, Goto, Typed, Role, Removing, Selected, At, Given
  <2>2. CASE t = s
    BY <1>22, <2>2 DEF EchoFails, EchoReturns, EchoTake, Goto, Typed, Role, Removing, Selected, At, Given
  <2> QED
    BY <2>1, <2>2
<1>23. ASSUME NEW s \in Sessions, ContextClear(s) PROVE Removing(t)'
  <2>1. CASE t # s
    BY <1>23, <2>1 DEF ContextClear, Goto, SendUnselect, Typed, Role, Removing, Selected, At, Given
  <2>2. CASE t = s
    BY <1>23, <2>2 DEF ContextClear, Goto, SendUnselect, Typed, Role, Removing, Selected, At, Given
  <2> QED
    BY <2>1, <2>2
<1>24. ASSUME NEW s \in Sessions, Sleep(s) PROVE Removing(t)'
  <2>1. CASE t # s
    BY <1>24, <2>1 DEF Sleep, Typed, Role, Removing, Selected, At, Given
  <2>2. CASE t = s
    BY <1>24, <2>2 DEF Sleep, Typed, Role, Removing, Selected, At, Given
  <2> QED
    BY <2>1, <2>2
<1>25. ASSUME NEW s \in Sessions, IdleDone(s) PROVE Removing(t)'
  <2>1. CASE t # s
    BY <1>25, <2>1 DEF IdleDone, Typed, Role, Removing, Selected, At, Given
  <2>2. CASE t = s
    BY <1>25, <2>2 DEF IdleDone, Typed, Role, Removing, Selected, At, Given
  <2> QED
    BY <2>1, <2>2
<1>26. ASSUME NEW s \in Sessions, ScanNotify(s) PROVE Removing(t)'
  <2>1. CASE t # s
    BY <1>26, <2>1 DEF ScanNotify, Goto, Typed, Role, Removing, Selected, At, Given
  <2>2. CASE t = s
    BY <1>26, <2>2 DEF ScanNotify, Goto, Typed, Role, Removing, Selected, At, Given
  <2> QED
    BY <2>1, <2>2
<1>27. ASSUME NEW s \in Sessions, ScanWake(s) PROVE Removing(t)'
  <2>1. CASE t # s
    BY <1>27, <2>1 DEF ScanWake, Typed, Role, Removing, Selected, At, Given
  <2>2. CASE t = s
    BY <1>27, <2>2 DEF ScanWake, Typed, Role, Removing, Selected, At, Given
  <2> QED
    BY <2>1, <2>2
<1>28. ASSUME NEW s \in Sessions, EndProcessing(s) PROVE Removing(t)'
  <2>1. CASE t # s
    BY <1>28, <2>1 DEF EndProcessing, RemoveSelect, Deselect, Goto, Typed, Role, Removing, Selected, At, Given
  <2>2. CASE t = s
    BY <1>28, <2>2 DEF EndProcessing, RemoveSelect, Deselect, Goto, Typed, Role, Removing, Selected, At, Given
  <2> QED
    BY <2>1, <2>2
<1>29. ASSUME NEW f \in Folders, MidbAdds(f) PROVE Removing(t)'
  <2>1. UNCHANGED <<pc, work, selected_folder, contents, f_expunged_uids, mask>>
    BY <1>29 DEF MidbAdds
  <2>2. pc[t] = "remove" => selected_folder[t] \in Folders
    BY DEF Typed, Role, Selected
  <2> QED
    BY <2>1, <2>2, UidsOnce DEF Removing
<1>29a. ASSUME NEW f \in Folders, NEW u \in Uids(f), MidbReplaces(f, u) PROVE Removing(t)'
  <2>1. UNCHANGED <<pc, work, selected_folder, contents, f_expunged_uids, mask>>
    BY <1>29a DEF MidbReplaces
  <2>2. pc[t] = "remove" => selected_folder[t] \in Folders
    BY DEF Typed, Role, Selected
  <2> QED
    BY <2>1, <2>2, UidsOnce DEF Removing
<1>30. ASSUME NEW f \in Folders, EventTouch(f) PROVE Removing(t)'
    BY <1>30 DEF EventTouch, On, Late, Typed, Role, Removing, Selected, At, Given
<1>31. ASSUME NEW f \in Folders, NEW u \in Uids(f), EventExpunge(f, u) PROVE Removing(t)'
    BY <1>31 DEF EventExpunge, On, Late, Typed, Role, Removing, Selected, At, Given
<1>32. ASSUME NEW f \in Folders, NEW u \in Uids(f), EventFlag(f, u) PROVE Removing(t)'
    BY <1>32 DEF EventFlag, On, Owe, Typed, Role, Removing, Selected, At, Given
<1>33. \A f, u : Deliver(f) \/ MidbReflags(f) \/ OtherDeletes(f, u) \/ MidbDeletes(f, u)
          => UNCHANGED <<pc, work, selected_folder, uidnext, contents, f_expunged_uids, mask>>
    BY DEF Deliver, MidbReflags, OtherDeletes, MidbDeletes
<1>34. ASSUME NEW s \in Sessions, Command(s) PROVE Removing(t)'
  <2>1. \A U \in SUBSET contents[s] : U \in SUBSET AllUids
    BY DEF Typed
  <2> QED
    BY <1>1, <1>2, <1>3, <1>4, <1>5, <1>6, <1>7, <1>8, <1>9, <1>10, <1>11, <1>12, <1>34, <2>1
    DEF Command, Noop, ManageFolders, ListFolders, Search
<1>35. ASSUME NEW s \in Sessions, Continue(s) PROVE Removing(t)'
    BY <1>1, <1>13, <1>14, <1>15, <1>16, <1>17, <1>18, <1>19, <1>19a, <1>20, <1>21, <1>22, <1>23, <1>35 DEF Continue
<1>36. ASSUME NEW s \in Sessions, Connection(s) PROVE Removing(t)'
    BY <1>1, <1>24, <1>25, <1>26, <1>27, <1>28, <1>36 DEF Connection
<1>37. ASSUME NEW f \in Folders, World(f) PROVE Removing(t)'
    BY <1>1, <1>29, <1>29a, <1>30, <1>31, <1>32, <1>33, <1>37 DEF World
<1>38. CASE UNCHANGED vars
    BY <1>1, <1>38 DEF vars
<1> QED
    BY <1>34, <1>35, <1>36, <1>37, <1>38 DEF Next

-----------------------------------------------------------------------------
(* Announced expunges are true.                                            *)

\* What the bus announces as expunged is gone for good.
LEMMA AnnouncedStep ==
    ASSUME Typed, Indexed, \A s \in Sessions : Role(s), NEW g \in Folders, Announced(g),
           [Next]_vars
    PROVE  Announced(g)'
<1> USE DEF session, place, bus, mailbox, queues, ghosts
<1>1. CASE UNCHANGED expunges
    BY <1>1, UidsOnce DEF Announced, Gone
<1>2. ASSUME NEW f \in Folders, NEW u \in Uids(f), MidbDeletes(f, u) PROVE Announced(g)'
  <2>1. /\ expunges' \subseteq expunges \cup {<<f, u>>} /\ u \in idx[f] \ store[f]
        /\ UNCHANGED <<store, uidnext>>
    BY <1>2 DEF MidbDeletes, Forward
  <2>2. u \in Given(f)
    BY <2>1 DEF Indexed
  <2> QED
    BY <2>1, <2>2 DEF Announced, Gone, Given
<1>3. ASSUME NEW f \in Folders, NEW u \in Uids(f), EventExpunge(f, u) PROVE Announced(g)'
    BY <1>3 DEF EventExpunge, Announced, Gone, Given
<1>4. \A s, f, U, set, ok : 
          \/ Login(s) \/ SelexBegin(s) \/ Unselect(s) \/ CloseLeave(s)
          \/ Report(s) \/ Fetch(s, U) \/ Store(s, U, set)
          \/ ExpungeList(s, U) \/ Copy(s, f, U, ok) \/ Append(s, f)
          \/ Idle(s)
          => UNCHANGED expunges
    BY DEF Login, SelexBegin, Unselect, CloseLeave, Report, Fetch, Store, ExpungeList, Copy, Append, Idle, Forward
<1>5. \A s, f, ro : 
          \/ SelexRead(s, f, ro) \/ SelexFails(s) \/ AddSelect(s)
          \/ Leave(s) \/ ExpungeRemove(s) \/ ExpungeFails(s)
          \/ CloseRemove(s) \/ CloseFails(s) \/ EchoNothing(s) \/ EchoModify(s)
          \/ EchoFails(s) \/ ContextClear(s)
          => UNCHANGED expunges
    BY DEF SelexRead, SelexFails, AddSelect, Leave, ExpungeRemove, ExpungeFails, CloseRemove, CloseFails, EchoNothing, EchoModify, EchoFails, ContextClear, Forward
<1>6. \A s : 
          \/ Sleep(s) \/ IdleDone(s) \/ ScanNotify(s) \/ ScanWake(s)
          \/ EndProcessing(s)
          => UNCHANGED expunges
    BY DEF Sleep, IdleDone, ScanNotify, ScanWake, EndProcessing, Forward
<1>7. \A f, u : 
          \/ Deliver(f) \/ MidbAdds(f) \/ EventTouch(f)
          \/ OtherDeletes(f, u) \/ EventFlag(f, u) \/ MidbReplaces(f, u) \/ MidbReflags(f)
          => UNCHANGED expunges
    BY DEF Deliver, MidbAdds, EventTouch, OtherDeletes, EventFlag, MidbReplaces, MidbReflags, Forward
<1>8. ASSUME NEW s \in Sessions, Command(s) PROVE Announced(g)'
  <2>1. \A U \in SUBSET contents[s] : U \in SUBSET AllUids
    BY DEF Typed
  <2> QED
    BY <1>1, <1>4, <1>8, <2>1
    DEF Command, Noop, ManageFolders, ListFolders, Search
<1>9. ASSUME NEW s \in Sessions, Continue(s) PROVE Announced(g)'
    BY <1>1, <1>5, <1>9 DEF Continue
<1>10. ASSUME NEW s \in Sessions, Connection(s) PROVE Announced(g)'
    BY <1>1, <1>6, <1>10 DEF Connection
<1>11. ASSUME NEW f \in Folders, World(f) PROVE Announced(g)'
    BY <1>1, <1>2, <1>3, <1>7, <1>11 DEF World
<1>12. CASE UNCHANGED vars
    BY <1>1, <1>12 DEF vars, Forward
<1> QED
    BY <1>8, <1>9, <1>10, <1>11, <1>12 DEF Next

\* What is queued as expunged, but for what an earlier folder has left, is gone.
LEMMA ExpungedStep ==
    ASSUME Typed, Indexed, NEW t \in Sessions, \A f \in Folders : Announced(f),
           \A s \in Sessions : Role(s) /\ Queued(s) /\ Removing(s) /\ Expunged(s), [Next]_vars
    PROVE  Expunged(t)'
<1> USE DEF session, place, bus, mailbox, queues, ghosts
<1>0. ASSUME UNCHANGED <<proto_stat[t], selected_folder[t], f_expunged_uids[t], carried[t]>> PROVE Expunged(t)'
  <2>1. CASE ~Selected(t)
    BY <1>0, <2>1 DEF Expunged, Selected
  <2>2. CASE Selected(t)
    <3>1. PICK g \in Folders : g = selected_folder[t]
        BY <2>2 DEF Role, Typed
    <3>2. Given(g) \subseteq Given(g)' /\ store'[g] \cap Given(g) \subseteq store[g]
        BY UidsOnce
    <3>3. Gone(g, f_expunged_uids[t] \ carried[t])
        BY <2>2, <3>1 DEF Expunged
    <3>4. Gone(g, f_expunged_uids[t] \ carried[t])'
        BY <1>0, <3>2, <3>3 DEF Gone
    <3>5. g = selected_folder'[t]
        BY <1>0, <3>1
    <3> QED
        BY <3>4, <3>5 DEF Expunged, Gone, Given
  <2> QED
    BY <2>1, <2>2
<1>1. CASE UNCHANGED <<proto_stat, selected_folder, f_expunged_uids, carried>>
    BY <1>0, <1>1
<1>2. ASSUME NEW s \in Sessions, Login(s) PROVE Expunged(t)'
  <2>1. CASE t # s
    <3>1. UNCHANGED <<proto_stat[t], selected_folder[t], f_expunged_uids[t], carried[t]>>
        BY <1>2, <2>1 DEF Login, Ready, Authed, Typed
    <3> QED
        BY <1>0, <3>1
  <2>2. CASE t = s
    <3>1. proto_stat'[t] # "select"
        BY <1>2, <2>2 DEF Login, Ready, Authed, Typed, Role, Selected, At
    <3> QED
        BY <3>1 DEF Expunged, Selected
  <2> QED
    BY <2>1, <2>2
<1>3. ASSUME NEW s \in Sessions, SelexBegin(s) PROVE Expunged(t)'
  <2>1. CASE t # s
    <3>1. UNCHANGED <<proto_stat[t], selected_folder[t], f_expunged_uids[t], carried[t]>>
        BY <1>3, <2>1 DEF SelexBegin, RemoveSelect, Deselect, Goto, Ready, Authed, Typed
    <3> QED
        BY <1>0, <3>1
  <2>2. CASE t = s
    <3>1. proto_stat'[t] # "select"
        BY <1>3, <2>2 DEF SelexBegin, RemoveSelect, Deselect, Goto, Ready, Authed, Typed, Role, Selected, At
    <3> QED
        BY <3>1 DEF Expunged, Selected
  <2> QED
    BY <2>1, <2>2
<1>4. ASSUME NEW s \in Sessions, Unselect(s) PROVE Expunged(t)'
  <2>1. CASE t # s
    <3>1. UNCHANGED <<proto_stat[t], selected_folder[t], f_expunged_uids[t], carried[t]>>
        BY <1>4, <2>1 DEF Unselect, RemoveSelect, Deselect, Goto, Ready, Typed
    <3> QED
        BY <1>0, <3>1
  <2>2. CASE t = s
    <3>1. proto_stat'[t] # "select"
        BY <1>4, <2>2 DEF Unselect, RemoveSelect, Deselect, Goto, Ready, Typed, Role, Selected, At
    <3> QED
        BY <3>1 DEF Expunged, Selected
  <2> QED
    BY <2>1, <2>2
<1>5. ASSUME NEW s \in Sessions, CloseLeave(s) PROVE Expunged(t)'
  <2>1. CASE t # s
    <3>1. UNCHANGED <<proto_stat[t], selected_folder[t], f_expunged_uids[t], carried[t]>>
        BY <1>5, <2>1 DEF CloseLeave, RemoveSelect, Deselect, Goto, Ready, Typed
    <3> QED
        BY <1>0, <3>1
  <2>2. CASE t = s
    <3>1. proto_stat'[t] # "select"
        BY <1>5, <2>2 DEF CloseLeave, RemoveSelect, Deselect, Goto, Ready, Typed, Role, Selected, At
    <3> QED
        BY <3>1 DEF Expunged, Selected
  <2> QED
    BY <2>1, <2>2
<1>6. ASSUME NEW s \in Sessions, NEW f \in Folders, NEW ro \in Modes, SelexRead(s, f, ro) PROVE Expunged(t)'
  <2>1. CASE t # s
    <3>1. UNCHANGED <<proto_stat[t], selected_folder[t], f_expunged_uids[t], carried[t]>>
        BY <1>6, <2>1 DEF SelexRead, Typed
    <3> QED
        BY <1>0, <3>1
  <2>2. CASE t = s
    <3>1. f_expunged_uids[s] \ carried[s] = {}
        BY <1>6 DEF SelexRead, At, Role, Queued
    <3>2. UNCHANGED <<f_expunged_uids, carried>>
        BY <1>6 DEF SelexRead
    <3> QED
        BY <2>2, <3>1, <3>2 DEF Expunged, Gone
  <2> QED
    BY <2>1, <2>2
<1>7. ASSUME NEW s \in Sessions, ExpungeRemove(s) PROVE Expunged(t)'
  <2>1. PICK f \in Folders : f = selected_folder[s]
    BY <1>7 DEF ExpungeRemove, At, Role, Selected, Typed
  <2>2. /\ f_expunged_uids'[t] = f_expunged_uids[t] \cup IF t \in On(f) THEN work[s] ELSE {}
        /\ UNCHANGED <<proto_stat, selected_folder, carried, uidnext>>
        /\ store' = [store EXCEPT ![f] = @ \ work[s]]
    BY <1>7, <2>1 DEF ExpungeRemove, BcastExpunge
  <2>3. CASE t \notin On(f)
    BY <1>0, <2>2, <2>3
  <2>4. CASE t \in On(f)
    <3>1. selected_folder[t] = f /\ Selected(t)
        BY <2>4 DEF On, Role
    <3>2. work[s] \subseteq Given(f) /\ store'[f] = store[f] \ work[s]
        BY <1>7, <2>1, <2>2 DEF ExpungeRemove, At, Removing, Indexed
    <3>3. Gone(f, f_expunged_uids[t] \ carried[t])
        BY <3>1 DEF Expunged
    <3> QED
        BY <2>2, <2>4, <3>1, <3>2, <3>3 DEF Expunged, Gone, Given, Selected
  <2> QED
    BY <2>3, <2>4
<1>8. ASSUME NEW s \in Sessions, EchoModify(s) PROVE Expunged(t)'
  <2>1. CASE t # s
    <3>1. UNCHANGED <<proto_stat[t], selected_folder[t], f_expunged_uids[t], carried[t]>>
        BY <1>8, <2>1 DEF EchoModify, EchoReturns, EchoTake, Goto, Refreshed, Typed
    <3> QED
        BY <1>0, <3>1
  <2>2. CASE t = s
    <3>1. f_expunged_uids'[t] = {}
        BY <1>8, <2>2 DEF EchoModify, EchoReturns, EchoTake, Goto, Refreshed, Typed
    <3> QED
        BY <3>1 DEF Expunged, Gone
  <2> QED
    BY <2>1, <2>2
<1>9. ASSUME NEW s \in Sessions, EchoFails(s) PROVE Expunged(t)'
  <2>1. CASE t # s
    <3>1. UNCHANGED <<proto_stat[t], selected_folder[t], f_expunged_uids[t], carried[t]>>
        BY <1>9, <2>1 DEF EchoFails, EchoReturns, EchoTake, Goto, Typed
    <3> QED
        BY <1>0, <3>1
  <2>2. CASE t = s
    <3>1. f_expunged_uids'[t] = {}
        BY <1>9, <2>2 DEF EchoFails, EchoReturns, EchoTake, Goto, Typed
    <3> QED
        BY <3>1 DEF Expunged, Gone
  <2> QED
    BY <2>1, <2>2
<1>10. ASSUME NEW s \in Sessions, ContextClear(s) PROVE Expunged(t)'
  <2>1. CASE t # s
    <3>1. UNCHANGED <<proto_stat[t], selected_folder[t], f_expunged_uids[t], carried[t]>>
        BY <1>10, <2>1 DEF ContextClear, Goto, SendUnselect, Typed
    <3> QED
        BY <1>0, <3>1
  <2>2. CASE t = s
    <3>1. proto_stat'[t] # "select"
        BY <1>10, <2>2 DEF ContextClear, Goto, SendUnselect, Typed, Role, Selected, At
    <3> QED
        BY <3>1 DEF Expunged, Selected
  <2> QED
    BY <2>1, <2>2
<1>11. ASSUME NEW s \in Sessions, EndProcessing(s) PROVE Expunged(t)'
  <2>1. CASE t # s
    <3>1. UNCHANGED <<proto_stat[t], selected_folder[t], f_expunged_uids[t], carried[t]>>
        BY <1>11, <2>1 DEF EndProcessing, RemoveSelect, Deselect, Goto, Typed
    <3> QED
        BY <1>0, <3>1
  <2>2. CASE t = s
    <3>1. proto_stat'[t] # "select"
        BY <1>11, <2>2 DEF EndProcessing, RemoveSelect, Deselect, Goto, Typed, Role, Selected, At
    <3> QED
        BY <3>1 DEF Expunged, Selected
  <2> QED
    BY <2>1, <2>2
<1>12. ASSUME NEW f \in Folders, NEW u \in Uids(f), EventExpunge(f, u) PROVE Expunged(t)'
  <2>1. /\ f_expunged_uids'[t] = f_expunged_uids[t] \cup IF t \in On(f) THEN {u} ELSE {}
        /\ UNCHANGED <<proto_stat, selected_folder, carried, uidnext, store>>
        /\ <<f, u>> \in expunges
    BY <1>12 DEF EventExpunge
  <2>2. CASE t \notin On(f)
    BY <1>0, <2>1, <2>2
  <2>3. CASE t \in On(f)
    <3>1. selected_folder[t] = f /\ Selected(t)
        BY <2>3 DEF On, Role
    <3>2. Gone(f, {u})
        BY <2>1, UidFacts DEF Announced
    <3>3. Gone(f, f_expunged_uids[t] \ carried[t])
        BY <3>1 DEF Expunged
    <3> QED
        BY <2>1, <2>3, <3>1, <3>2, <3>3 DEF Expunged, Gone, Given, Selected
  <2> QED
    BY <2>2, <2>3
<1>13. \A s, f, U, set, ok : 
          \/ Report(s) \/ Fetch(s, U) \/ Store(s, U, set)
          \/ ExpungeList(s, U) \/ Copy(s, f, U, ok) \/ Append(s, f)
          \/ Idle(s)
          => UNCHANGED <<proto_stat, selected_folder, f_expunged_uids, carried>>
    BY DEF Report, Fetch, Store, ExpungeList, Copy, Append, Idle
<1>14. \A s : 
          \/ SelexFails(s) \/ AddSelect(s) \/ Leave(s) \/ ExpungeFails(s)
          \/ CloseRemove(s) \/ CloseFails(s) \/ EchoNothing(s)
          => UNCHANGED <<proto_stat, selected_folder, f_expunged_uids, carried>>
    BY DEF SelexFails, AddSelect, Leave, ExpungeFails, CloseRemove, CloseFails, EchoNothing
<1>15. \A s : Sleep(s) \/ IdleDone(s) \/ ScanNotify(s) \/ ScanWake(s)
          => UNCHANGED <<proto_stat, selected_folder, f_expunged_uids, carried>>
    BY DEF Sleep, IdleDone, ScanNotify, ScanWake
<1>16. \A f, u : 
          \/ Deliver(f) \/ MidbAdds(f) \/ EventTouch(f)
          \/ OtherDeletes(f, u) \/ MidbDeletes(f, u) \/ EventFlag(f, u)
          \/ MidbReplaces(f, u) \/ MidbReflags(f)
          => UNCHANGED <<proto_stat, selected_folder, f_expunged_uids, carried>>
    BY DEF Deliver, MidbAdds, EventTouch, OtherDeletes, MidbDeletes, EventFlag, MidbReplaces, MidbReflags
<1>17. ASSUME NEW s \in Sessions, Command(s) PROVE Expunged(t)'
  <2>1. \A U \in SUBSET contents[s] : U \in SUBSET AllUids
    BY DEF Typed
  <2> QED
    BY <1>1, <1>2, <1>3, <1>4, <1>5, <1>13, <1>17, <2>1
    DEF Command, Noop, ManageFolders, ListFolders, Search
<1>18. ASSUME NEW s \in Sessions, Continue(s) PROVE Expunged(t)'
    BY <1>1, <1>6, <1>7, <1>8, <1>9, <1>10, <1>14, <1>18 DEF Continue
<1>19. ASSUME NEW s \in Sessions, Connection(s) PROVE Expunged(t)'
    BY <1>1, <1>11, <1>15, <1>19 DEF Connection
<1>20. ASSUME NEW f \in Folders, World(f) PROVE Expunged(t)'
    BY <1>1, <1>12, <1>16, <1>20 DEF World
<1>21. CASE UNCHANGED vars
    BY <1>1, <1>21 DEF vars
<1> QED
    BY <1>17, <1>18, <1>19, <1>20, <1>21 DEF Next

-----------------------------------------------------------------------------
(* A view and the index.                                                   *)

\* No change of a folder gets lost on its way to a session that is listed.
LEMMA ExplainedStep ==
    ASSUME Typed, Indexed, Retired, NEW t \in Sessions,
           \A s \in Sessions : Role(s) /\ Explained(s), [Next]_vars
    PROVE  Explained(t)'
<1> USE DEF session, place, bus, mailbox, queues, ghosts
<1>0. ASSUME /\ UNCHANGED <<proto_stat[t], selected_folder[t], lapse[t], contents[t], idx, replaced, expunges, touches>>
             /\ f_expunged_uids[t] \subseteq f_expunged_uids'[t] /\ (mask[t] => mask'[t])
      PROVE Explained(t)'
  <2>1. PICK f : f = selected_folder[t]
    OBVIOUS
  <2>2. f = selected_folder'[t] /\ idx'[f] = idx[f] /\ replaced' = replaced /\ (Selected(t)' <=> Selected(t))
    BY <1>0, <2>1 DEF Selected
  <2>3. CASE ~Selected(t) \/ lapse[t]
    BY <1>0, <2>2, <2>3 DEF Explained
  <2>4. CASE Selected(t) /\ ~lapse[t]
    <3>1. /\ \A u \in contents[t] \ idx[f] : u \in f_expunged_uids[t] \/ <<f, u>> \in expunges \/ u \in replaced[f]
          /\ idx[f] \subseteq contents[t] \/ mask[t] \/ f \in touches
        BY <2>1, <2>4 DEF Explained
    <3>2. /\ \A u \in contents'[t] \ idx'[f] : u \in f_expunged_uids'[t] \/ <<f, u>> \in expunges' \/ u \in replaced'[f]
          /\ idx'[f] \subseteq contents'[t] \/ mask'[t] \/ f \in touches'
        BY <1>0, <2>2, <3>1
    <3> QED
        BY <2>2, <3>2 DEF Explained
  <2> QED
    BY <2>3, <2>4
<1>1. CASE UNCHANGED <<proto_stat, selected_folder, lapse, contents, idx, replaced, expunges, touches,
                           f_expunged_uids, mask>>
    BY <1>0, <1>1
<1>2. ASSUME NEW s \in Sessions, Login(s) PROVE Explained(t)'
  <2>1. CASE t # s
    <3>1. /\ UNCHANGED <<proto_stat[t], selected_folder[t], lapse[t], contents[t], idx, replaced, expunges, touches>>
          /\ f_expunged_uids[t] \subseteq f_expunged_uids'[t] /\ (mask[t] => mask'[t])
        BY <1>2, <2>1 DEF Login, Ready, Authed, Typed
    <3> QED
        BY <1>0, <3>1
  <2>2. CASE t = s
    <3>1. proto_stat'[t] # "select"
        BY <1>2, <2>2 DEF Login, Ready, Authed, Typed, Role, Selected, At
    <3> QED
        BY <3>1 DEF Explained, Selected
  <2> QED
    BY <2>1, <2>2
<1>3. ASSUME NEW s \in Sessions, SelexBegin(s) PROVE Explained(t)'
  <2>1. CASE t # s
    <3>1. /\ UNCHANGED <<proto_stat[t], selected_folder[t], lapse[t], contents[t], idx, replaced, expunges, touches>>
          /\ f_expunged_uids[t] \subseteq f_expunged_uids'[t] /\ (mask[t] => mask'[t])
        BY <1>3, <2>1 DEF SelexBegin, RemoveSelect, Deselect, Goto, Ready, Authed, Typed
    <3> QED
        BY <1>0, <3>1
  <2>2. CASE t = s
    <3>1. proto_stat'[t] # "select"
        BY <1>3, <2>2 DEF SelexBegin, RemoveSelect, Deselect, Goto, Ready, Authed, Typed, Role, Selected, At
    <3> QED
        BY <3>1 DEF Explained, Selected
  <2> QED
    BY <2>1, <2>2
<1>4. ASSUME NEW s \in Sessions, Unselect(s) PROVE Explained(t)'
  <2>1. CASE t # s
    <3>1. /\ UNCHANGED <<proto_stat[t], selected_folder[t], lapse[t], contents[t], idx, replaced, expunges, touches>>
          /\ f_expunged_uids[t] \subseteq f_expunged_uids'[t] /\ (mask[t] => mask'[t])
        BY <1>4, <2>1 DEF Unselect, RemoveSelect, Deselect, Goto, Ready, Typed
    <3> QED
        BY <1>0, <3>1
  <2>2. CASE t = s
    <3>1. proto_stat'[t] # "select"
        BY <1>4, <2>2 DEF Unselect, RemoveSelect, Deselect, Goto, Ready, Typed, Role, Selected, At
    <3> QED
        BY <3>1 DEF Explained, Selected
  <2> QED
    BY <2>1, <2>2
<1>5. ASSUME NEW s \in Sessions, CloseLeave(s) PROVE Explained(t)'
  <2>1. CASE t # s
    <3>1. /\ UNCHANGED <<proto_stat[t], selected_folder[t], lapse[t], contents[t], idx, replaced, expunges, touches>>
          /\ f_expunged_uids[t] \subseteq f_expunged_uids'[t] /\ (mask[t] => mask'[t])
        BY <1>5, <2>1 DEF CloseLeave, RemoveSelect, Deselect, Goto, Ready, Typed
    <3> QED
        BY <1>0, <3>1
  <2>2. CASE t = s
    <3>1. proto_stat'[t] # "select"
        BY <1>5, <2>2 DEF CloseLeave, RemoveSelect, Deselect, Goto, Ready, Typed, Role, Selected, At
    <3> QED
        BY <3>1 DEF Explained, Selected
  <2> QED
    BY <2>1, <2>2
<1>6. ASSUME NEW s \in Sessions, NEW U \in SUBSET AllUids, Fetch(s, U) PROVE Explained(t)'
  <2>1. /\ UNCHANGED <<proto_stat[t], selected_folder[t], lapse[t], contents[t], idx, replaced, expunges, touches>>
        /\ f_expunged_uids[t] \subseteq f_expunged_uids'[t] /\ (mask[t] => mask'[t])
    BY <1>6 DEF Fetch, BcastFlags, Typed
  <2> QED
    BY <1>0, <2>1
<1>7. ASSUME NEW s \in Sessions, NEW U \in SUBSET AllUids, NEW set \in BOOLEAN, Store(s, U, set) PROVE Explained(t)'
  <2>1. /\ UNCHANGED <<proto_stat[t], selected_folder[t], lapse[t], contents[t], idx, replaced, expunges, touches>>
        /\ f_expunged_uids[t] \subseteq f_expunged_uids'[t] /\ (mask[t] => mask'[t])
    BY <1>7 DEF Store, BcastFlags, Typed
  <2> QED
    BY <1>0, <2>1
<1>8. ASSUME NEW s \in Sessions, NEW f \in Folders, Append(s, f) PROVE Explained(t)'
  <2>1. /\ UNCHANGED <<proto_stat[t], selected_folder[t], lapse[t], contents[t], idx, replaced, expunges, touches>>
        /\ f_expunged_uids[t] \subseteq f_expunged_uids'[t] /\ (mask[t] => mask'[t])
    BY <1>8 DEF Append, BcastTouch, Typed
  <2> QED
    BY <1>0, <2>1
<1>9. ASSUME NEW s \in Sessions, NEW f \in Folders, NEW ro \in Modes, SelexRead(s, f, ro) PROVE Explained(t)'
  <2>1. CASE t # s
    <3>1. /\ UNCHANGED <<proto_stat[t], selected_folder[t], lapse[t], contents[t], idx, replaced, expunges, touches>>
          /\ f_expunged_uids[t] \subseteq f_expunged_uids'[t] /\ (mask[t] => mask'[t])
        BY <1>9, <2>1 DEF SelexRead, Goto, SendUnselect, Typed
    <3> QED
        BY <1>0, <3>1
  <2>2. CASE t = s
    <3>1. contents'[t] = idx[f] /\ selected_folder'[t] = f /\ idx' = idx
        BY <1>9, <2>2 DEF SelexRead, Typed
    <3> QED
        BY <3>1 DEF Explained
  <2> QED
    BY <2>1, <2>2
<1>10. ASSUME NEW s \in Sessions, ExpungeRemove(s) PROVE Explained(t)'
  <2>1. /\ UNCHANGED <<proto_stat[t], selected_folder[t], lapse[t], contents[t], idx, replaced, expunges, touches>>
        /\ f_expunged_uids[t] \subseteq f_expunged_uids'[t] /\ (mask[t] => mask'[t])
    BY <1>10 DEF ExpungeRemove, BcastExpunge, Typed
  <2> QED
    BY <1>0, <2>1
<1>10a. ASSUME NEW s \in Sessions, CloseFails(s) PROVE Explained(t)'
  <2>1. UNCHANGED <<proto_stat, selected_folder, lapse, contents, idx, replaced, expunges, touches,
                    f_expunged_uids, mask>>
    BY <1>10a DEF CloseFails
  <2> QED
    BY <1>1, <2>1
<1>11. ASSUME NEW s \in Sessions, CloseRemove(s) PROVE Explained(t)'
  <2>1. /\ UNCHANGED <<proto_stat[t], selected_folder[t], lapse[t], contents[t], idx, replaced, expunges, touches>>
        /\ f_expunged_uids[t] \subseteq f_expunged_uids'[t] /\ (mask[t] => mask'[t])
    BY <1>11 DEF CloseRemove, BcastTouch, Typed
  <2> QED
    BY <1>0, <2>1
<1>12. ASSUME NEW s \in Sessions, EchoModify(s) PROVE Explained(t)'
  <2>1. CASE t # s
    <3>1. /\ UNCHANGED <<proto_stat[t], selected_folder[t], lapse[t], contents[t], idx, replaced, expunges, touches>>
          /\ f_expunged_uids[t] \subseteq f_expunged_uids'[t] /\ (mask[t] => mask'[t])
        BY <1>12, <2>1 DEF EchoModify, EchoReturns, EchoTake, Goto, Refreshed, Typed
    <3> QED
        BY <1>0, <3>1
  <2>2. CASE t = s
    <3>1. PICK f \in Folders : f = selected_folder[t]
        BY <1>12, <2>2 DEF EchoModify, Typed
    <3>2. UNCHANGED <<proto_stat, selected_folder, idx, replaced, expunges, touches>>
        BY <1>12 DEF EchoModify
    <3>3. CASE f_expunged_uids[t] # {}
      <4>1. contents'[t] = idx[f]
        BY <1>12, <2>2, <3>1, <3>3 DEF EchoModify, Refreshed, Typed
      <4> QED
        BY <3>1, <3>2, <4>1 DEF Explained, Selected
    <3>4. CASE f_expunged_uids[t] = {}
      <4>1. contents'[t] = contents[t] \cup idx[f] /\ lapse'[t] = lapse[t]
        BY <1>12, <2>2, <3>1, <3>4 DEF EchoModify, Refreshed, Typed
      <4> QED
        BY <3>1, <3>2, <3>4, <4>1 DEF Explained, Selected
    <3> QED
        BY <3>3, <3>4
  <2> QED
    BY <2>1, <2>2
<1>13. ASSUME NEW s \in Sessions, EchoFails(s) PROVE Explained(t)'
  <2>1. CASE t # s
    <3>1. /\ UNCHANGED <<proto_stat[t], selected_folder[t], lapse[t], contents[t], idx, replaced, expunges, touches>>
          /\ f_expunged_uids[t] \subseteq f_expunged_uids'[t] /\ (mask[t] => mask'[t])
        BY <1>13, <2>1 DEF EchoFails, EchoReturns, EchoTake, Goto, Typed
    <3> QED
        BY <1>0, <3>1
  <2>2. CASE t = s
    <3>1. lapse'[t] = Selected(t) /\ proto_stat' = proto_stat
        BY <1>13, <2>2 DEF EchoFails, Typed
    <3> QED
        BY <3>1 DEF Explained, Selected
  <2> QED
    BY <2>1, <2>2
<1>14. ASSUME NEW s \in Sessions, ContextClear(s) PROVE Explained(t)'
  <2>1. CASE t # s
    <3>1. /\ UNCHANGED <<proto_stat[t], selected_folder[t], lapse[t], contents[t], idx, replaced, expunges, touches>>
          /\ f_expunged_uids[t] \subseteq f_expunged_uids'[t] /\ (mask[t] => mask'[t])
        BY <1>14, <2>1 DEF ContextClear, Goto, SendUnselect, Typed
    <3> QED
        BY <1>0, <3>1
  <2>2. CASE t = s
    <3>1. proto_stat'[t] # "select"
        BY <1>14, <2>2 DEF ContextClear, Goto, SendUnselect, Typed, Role, Selected, At
    <3> QED
        BY <3>1 DEF Explained, Selected
  <2> QED
    BY <2>1, <2>2
<1>15. ASSUME NEW s \in Sessions, EndProcessing(s) PROVE Explained(t)'
  <2>1. CASE t # s
    <3>1. /\ UNCHANGED <<proto_stat[t], selected_folder[t], lapse[t], contents[t], idx, replaced, expunges, touches>>
          /\ f_expunged_uids[t] \subseteq f_expunged_uids'[t] /\ (mask[t] => mask'[t])
        BY <1>15, <2>1 DEF EndProcessing, RemoveSelect, Deselect, Goto, Typed
    <3> QED
        BY <1>0, <3>1
  <2>2. CASE t = s
    <3>1. proto_stat'[t] # "select"
        BY <1>15, <2>2 DEF EndProcessing, RemoveSelect, Deselect, Goto, Typed, Role, Selected, At
    <3> QED
        BY <3>1 DEF Explained, Selected
  <2> QED
    BY <2>1, <2>2
<1>16. ASSUME NEW f \in Folders, MidbAdds(f) PROVE Explained(t)'
  <2>1. /\ UNCHANGED <<proto_stat, selected_folder, contents, f_expunged_uids, mask, expunges, replaced>>
        /\ idx' = [idx EXCEPT ![f] = @ \cup {uidnext[f]}]
        /\ touches' = IF f \in subscribed THEN touches \cup {f} ELSE touches
        /\ lapse'[t] = (lapse[t] \/ (f \notin subscribed /\ selected_folder[t] = f))
    BY <1>16 DEF MidbAdds, Forward
  <2>2. CASE selected_folder[t] = f
    <3>1. idx'[f] = idx[f] \cup {uidnext[f]}
        BY <2>1 DEF Indexed
    <3> QED
        BY <2>1, <2>2, <3>1 DEF Explained, Selected
  <2>3. CASE selected_folder[t] # f
    <3>1. Selected(t) => idx'[selected_folder[t]] = idx[selected_folder[t]]
        BY <2>1, <2>3 DEF Indexed, Typed, Role
    <3> QED
        BY <2>1, <2>3, <3>1 DEF Explained, Selected
  <2> QED
    BY <2>2, <2>3
<1>16a. ASSUME NEW f \in Folders, NEW u \in Uids(f), MidbReplaces(f, u) PROVE Explained(t)'
  <2>0. PICK S, I :
           idx' = [idx EXCEPT ![f] = I] /\ idx[f] \ {u} \subseteq I
    BY <1>16a, ReplacesFacts
  <2>1. /\ UNCHANGED <<proto_stat, selected_folder, contents, f_expunged_uids, mask, expunges>>
        /\ replaced' = [replaced EXCEPT ![f] = @ \cup {u}]
        /\ touches' = IF f \in subscribed THEN touches \cup {f} ELSE touches
        /\ lapse'[t] = (lapse[t] \/ (f \notin subscribed /\ selected_folder[t] = f))
    BY <1>16a DEF MidbReplaces, Forward
  <2>2. CASE selected_folder[t] = f
    <3>1. idx'[f] = I /\ replaced'[f] = replaced[f] \cup {u}
        BY <2>0, <2>1 DEF Indexed, Retired
    <3> QED
        BY <2>0, <2>1, <2>2, <3>1 DEF Explained, Selected
  <2>3. CASE selected_folder[t] # f
    <3>1. Selected(t) => /\ idx'[selected_folder[t]] = idx[selected_folder[t]]
                         /\ replaced'[selected_folder[t]] = replaced[selected_folder[t]]
        BY <2>0, <2>1, <2>3 DEF Indexed, Retired, Typed, Role
    <3> QED
        BY <2>1, <2>3, <3>1 DEF Explained, Selected
  <2> QED
    BY <2>2, <2>3
<1>16b. ASSUME NEW f \in Folders, MidbReflags(f) PROVE Explained(t)'
  <2>1. /\ UNCHANGED <<proto_stat, selected_folder, contents, f_expunged_uids, mask, expunges, idx, replaced>>
        /\ touches \subseteq touches' /\ (lapse[t] => lapse'[t])
    BY <1>16b DEF MidbReflags, Forward
  <2> QED
    BY <2>1 DEF Explained, Selected
<1>17. ASSUME NEW f \in Folders, EventTouch(f) PROVE Explained(t)'
  <2>1. /\ UNCHANGED <<proto_stat, selected_folder, contents, idx, replaced, f_expunged_uids, expunges>>
        /\ touches' = touches \ {f} /\ mask'[t] = (mask[t] \/ t \in On(f))
        /\ lapse'[t] = (lapse[t] \/ t \in Late(f))
    BY <1>17 DEF EventTouch
  <2>2. Selected(t) /\ selected_folder[t] = f => t \in On(f) \/ t \in Late(f)
    BY DEF Role, On, Late, At
  <2> QED
    BY <2>1, <2>2 DEF Explained, Selected
<1>18. ASSUME NEW f \in Folders, NEW u \in Uids(f), MidbDeletes(f, u) PROVE Explained(t)'
  <2>1. /\ UNCHANGED <<proto_stat, selected_folder, contents, f_expunged_uids, mask, touches, replaced>>
        /\ idx' = [idx EXCEPT ![f] = @ \ {u}]
        /\ expunges' = IF f \in subscribed THEN expunges \cup {<<f, u>>} ELSE expunges
        /\ lapse'[t] = (lapse[t] \/ (f \notin subscribed /\ selected_folder[t] = f))
    BY <1>18 DEF MidbDeletes, Forward
  <2>2. CASE selected_folder[t] = f
    <3>1. idx'[f] = idx[f] \ {u}
        BY <2>1 DEF Indexed
    <3> QED
        BY <2>1, <2>2, <3>1 DEF Explained, Selected
  <2>3. CASE selected_folder[t] # f
    <3>1. Selected(t) => idx'[selected_folder[t]] = idx[selected_folder[t]]
        BY <2>1, <2>3 DEF Indexed, Typed, Role
    <3> QED
        BY <2>1, <2>3, <3>1 DEF Explained, Selected
  <2> QED
    BY <2>2, <2>3
<1>19. ASSUME NEW f \in Folders, NEW u \in Uids(f), EventExpunge(f, u) PROVE Explained(t)'
  <2>1. /\ UNCHANGED <<proto_stat, selected_folder, contents, idx, replaced, touches>>
        /\ expunges' = expunges \ {<<f, u>>} /\ mask'[t] = (mask[t] \/ t \in On(f))
        /\ f_expunged_uids'[t] = f_expunged_uids[t] \cup IF t \in On(f) THEN {u} ELSE {}
        /\ lapse'[t] = (lapse[t] \/ t \in Late(f))
    BY <1>19 DEF EventExpunge
  <2>2. Selected(t) /\ selected_folder[t] = f => t \in On(f) \/ t \in Late(f)
    BY DEF Role, On, Late, At
  <2> QED
    BY <2>1, <2>2 DEF Explained, Selected
<1>20. ASSUME NEW f \in Folders, NEW u \in Uids(f), EventFlag(f, u) PROVE Explained(t)'
  <2>1. /\ UNCHANGED <<proto_stat[t], selected_folder[t], lapse[t], contents[t], idx, replaced, expunges, touches>>
        /\ f_expunged_uids[t] \subseteq f_expunged_uids'[t] /\ (mask[t] => mask'[t])
    BY <1>20 DEF EventFlag, Typed
  <2> QED
    BY <1>0, <2>1
<1>21. \A s, f, U, ok : Report(s) \/ ExpungeList(s, U) \/ Copy(s, f, U, ok) \/ Idle(s)
          => UNCHANGED <<proto_stat, selected_folder, lapse, contents, idx, replaced, expunges, touches,
                           f_expunged_uids, mask>>
    BY DEF Report, ExpungeList, Copy, Idle
<1>22. \A s : 
          \/ SelexFails(s) \/ AddSelect(s) \/ Leave(s) \/ ExpungeFails(s)
          \/ EchoNothing(s)
          => UNCHANGED <<proto_stat, selected_folder, lapse, contents, idx, replaced, expunges, touches,
                           f_expunged_uids, mask>>
    BY DEF SelexFails, AddSelect, Leave, ExpungeFails, EchoNothing
<1>23. \A s : Sleep(s) \/ IdleDone(s) \/ ScanNotify(s) \/ ScanWake(s)
          => UNCHANGED <<proto_stat, selected_folder, lapse, contents, idx, replaced, expunges, touches,
                           f_expunged_uids, mask>>
    BY DEF Sleep, IdleDone, ScanNotify, ScanWake
<1>24. \A f, u : Deliver(f) \/ OtherDeletes(f, u)
          => UNCHANGED <<proto_stat, selected_folder, lapse, contents, idx, replaced, expunges, touches,
                           f_expunged_uids, mask>>
    BY DEF Deliver, OtherDeletes
<1>25. ASSUME NEW s \in Sessions, Command(s) PROVE Explained(t)'
  <2>1. \A U \in SUBSET contents[s] : U \in SUBSET AllUids
    BY DEF Typed
  <2> QED
    BY <1>1, <1>2, <1>3, <1>4, <1>5, <1>6, <1>7, <1>8, <1>21, <1>25, <2>1
    DEF Command, Noop, ManageFolders, ListFolders, Search
<1>26. ASSUME NEW s \in Sessions, Continue(s) PROVE Explained(t)'
    BY <1>1, <1>9, <1>10, <1>10a, <1>11, <1>12, <1>13, <1>14, <1>22, <1>26 DEF Continue
<1>27. ASSUME NEW s \in Sessions, Connection(s) PROVE Explained(t)'
    BY <1>1, <1>15, <1>23, <1>27 DEF Connection
<1>28. ASSUME NEW f \in Folders, World(f) PROVE Explained(t)'
    BY <1>1, <1>16, <1>16a, <1>16b, <1>17, <1>18, <1>19, <1>20, <1>24, <1>28 DEF World
<1>29. CASE UNCHANGED vars
    BY <1>1, <1>29 DEF vars
<1> QED
    BY <1>25, <1>26, <1>27, <1>28, <1>29 DEF Next

-----------------------------------------------------------------------------
(* The invariant.                                                          *)

LEMMA InitInv == Init => IndInv
<1> SUFFICES ASSUME Init PROVE IndInv
    OBVIOUS
<1> USE DEF Init
<1>1. Typed
    BY DEF Typed
<1>2. Indexed
  <2>1. ASSUME NEW f \in Folders
        PROVE  /\ StartUid[f] \in Nat /\ 1..StartUid[f] \subseteq AllUids
               /\ 1..StartUid[f] \subseteq 1..(StartUid[f] + 1)-1
               /\ StartUid[f] + 1 >= 1 /\ (StartUid[f] + 1) + 0 <= MaxUid[f] + 1
    <3>1. StartUid[f] \in Nat /\ MaxUid[f] \in Nat /\ StartUid[f] <= MaxUid[f]
        BY ImapAssumption
    <3>2. 1..StartUid[f] \subseteq 1..MaxUid[f]
        BY <3>1
    <3> QED
        BY <3>1, <3>2, UidFacts
  <2> QED
    BY <2>1 DEF Indexed, Given
<1>2a. Retired
    BY DEF Retired
<1>3. \A f \in Folders : Announced(f)
    BY DEF Announced
<1>4. ASSUME NEW s \in Sessions
      PROVE  Role(s) /\ Queued(s) /\ Removing(s) /\ Expunged(s) /\ Explained(s)
    BY DEF Role, Queued, Removing, Expunged, Explained, Selected
<1> QED
    BY <1>1, <1>2, <1>2a, <1>3, <1>4 DEF IndInv

LEMMA Inductive == IndInv /\ [Next]_vars => IndInv'
<1> SUFFICES ASSUME IndInv, [Next]_vars PROVE IndInv'
    OBVIOUS
<1>1. /\ Typed /\ Indexed /\ Retired /\ \A f \in Folders : Announced(f)
      /\ \A s \in Sessions :
             Role(s) /\ Queued(s) /\ Removing(s) /\ Expunged(s) /\ Explained(s)
    BY DEF IndInv
<1>2. Typed' /\ Indexed' /\ Retired'
    BY <1>1, TypedStep, IndexedStep, RetiredStep
<1>3. \A f \in Folders : Announced(f)'
    BY <1>1, AnnouncedStep
<1>4. ASSUME NEW t \in Sessions
      PROVE  (Role(t) /\ Queued(t) /\ Removing(t) /\ Expunged(t) /\ Explained(t))'
    BY <1>1, RoleStep, QueuedStep, RemovingStep, ExpungedStep, ExplainedStep
<1> QED
    BY <1>2, <1>3, <1>4 DEF IndInv

LEMMA AlwaysInv == Spec => []IndInv
BY InitInv, Inductive, PTL DEF Spec

-----------------------------------------------------------------------------
(* Theorems.                                                               *)

\* g_select_hash names exactly the contexts that are in a folder, in every
\* interleaving of SELECT, CLOSE, the end of connections and their reuse.
THEOREM SelectSoundCorrect == Spec => []SelectSound
<1>1. IndInv => SelectSound
  <2> SUFFICES ASSUME IndInv PROVE SelectSound
    OBVIOUS
  <2>1. ASSUME NEW f \in Folders
        PROVE  /\ store[f] \subseteq Uids(f) /\ deleted[f] \subseteq idx[f]
               /\ store[f] \subseteq idx[f] /\ idx[f] \subseteq 1..uidnext[f]-1
               /\ uidnext[f] + incoming[f] \in 1..MaxUid[f]+1
               /\ replaced[f] \subseteq Uids(f)
    <3>1. /\ store[f] \subseteq idx[f] /\ deleted[f] \subseteq idx[f] /\ idx[f] \subseteq Given(f)
          /\ uidnext[f] >= 1 /\ uidnext[f] + incoming[f] <= MaxUid[f] + 1
        BY DEF IndInv, Indexed
    <3>2. uidnext[f] \in Nat /\ incoming[f] \in Nat /\ Given(f) \subseteq Uids(f) /\ MaxUid[f] \in Nat
        BY GivenFacts, UidFacts DEF IndInv
    <3>3. uidnext[f] + incoming[f] \in 1..MaxUid[f]+1
        BY <3>1, <3>2
    <3>4. replaced[f] \subseteq Given(f)
        BY DEF IndInv, Retired
    <3> QED
        BY <3>1, <3>2, <3>3, <3>4 DEF Given
  <2>2. TypeOK
    BY <2>1 DEF IndInv, Typed, Role, TypeOK
  <2>3. ListedIsSelected
    BY DEF IndInv, Typed, Role, ListedIsSelected, At
  <2> QED
    BY <2>2, <2>3 DEF SelectSound
<1> QED
    BY <1>1, AlwaysInv, PTL

\* A session whose folder is quiet and that has nothing queued has midb's view
\* of it, but for UIDs that midb gave up unannounced: the ways of a change
\* through the shared lists and over the bus leave no other gap than the ones
\* `lapse' names.
THEOREM QuietViewCurrentCorrect == Spec => []QuietViewCurrent
<1>1. IndInv => QuietViewCurrent
  <2> SUFFICES ASSUME IndInv, NEW s \in Sessions, Selected(s), ~mask[s], ~lapse[s],
                      Quiet(selected_folder[s])
               PROVE  contents[s] \ replaced[selected_folder[s]] = idx[selected_folder[s]]
    BY DEF QuietViewCurrent
  <2>1. PICK f \in Folders : f = selected_folder[s]
    BY DEF IndInv, Role, Typed
  <2>2. Quiet(f)
    BY <2>1
  <2>3. f_expunged_uids[s] = {}
    BY DEF IndInv, Queued
  <2>4. /\ \A u \in contents[s] \ idx[f] : <<f, u>> \in expunges \/ u \in replaced[f]
        /\ idx[f] \subseteq contents[s] \/ f \in touches
    BY <2>1, <2>3 DEF IndInv, Explained
  <2>5. \A u \in AllUids : <<f, u>> \in expunges => u \in Uids(f)
    BY GivenFacts DEF IndInv, Announced, Gone
  <2>6. contents[s] \subseteq AllUids
    BY DEF IndInv, Typed
  <2>7. replaced[f] \cap idx[f] = {}
    BY DEF IndInv, Retired
  <2> QED
    BY <2>1, <2>2, <2>4, <2>5, <2>6, <2>7 DEF Quiet
<1> QED
    BY <1>1, AlwaysInv, PTL

\* A flag change by another IMAP session, of this process or another, stays
\* queued, with its mask, until imap_parser_echo_modify has told the client.
THEOREM FlagsQueuedCorrect == Spec => []FlagsQueued
<1>1. IndInv => FlagsQueued
    BY DEF IndInv, Queued, FlagsQueued
<1> QED
    BY <1>1, AlwaysInv, PTL

\* An EXPUNGE response is true: the message is gone, but for UIDs that an
\* earlier folder has left in f_expunged_uids.
THEOREM ExpungeIsTrueCorrect == Spec => []ExpungeIsTrue
<1>1. IndInv => ExpungeIsTrue
    BY DEF IndInv, Expunged, Gone, ExpungeIsTrue
<1> QED
    BY <1>1, AlwaysInv, PTL

\* EXPUNGE answers for all it has removed from the view.
THEOREM ExpungeAnswersCorrect == Spec => []ExpungeAnswers
<1>1. IndInv => ExpungeAnswers
    BY DEF IndInv, Removing, ExpungeAnswers, At
<1> QED
    BY <1>1, AlwaysInv, PTL

=============================================================================
