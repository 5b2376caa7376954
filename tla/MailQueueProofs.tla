-------------------------- MODULE MailQueueProofs --------------------------
(***************************************************************************)
(* Proofs about the mail queue for any number of mails, transport threads  *)
(* and crashes, as long as the frontend's IDs do not wrap around and       *)
(* g_mess_hash has room for every mail of the run.                         *)
(***************************************************************************)
EXTENDS MailQueue, FiniteSetTheorems, WellFoundedInduction, TLAPS

\* The runs the theorems are about.  Past MaxId mails an ID is used again while its file
\* may still be there.  An ID stays in g_mess_hash when a transport thread is done with it
\* before the loader enters it; 2 * Units + 1 of those, and nothing is entered any more.
Scope ==
    /\ IsFiniteSet(Mails) /\ Cardinality(Mails) <= MaxId
    /\ Cardinality(Mails) <= 2 * Units + 1

\* The client has nothing more to send.
Done == {"saved", "acked", "unanswered"}
Begun == {m \in Mails : session[m] # "new"}
Whole(m) == [mail |-> m, full |-> TRUE]

LoaderHas == {"node", "read", "used", "emplace"}
LoaderIds == {"lookup", "open"} \cup LoaderHas
WorkStates == {"process", "remove", "erase", "memory", "node"}
\* The file of the message is still there, and its ID in g_mess_hash.
FileStates == {"process", "remove"}
HashStates == {"process", "remove", "erase"}

\* What a variable may be, where the proof depends on it.
Typed ==
    /\ session \in [Mails -> {"new", "open", "failed"} \cup Done]
    /\ flushID \in [Mails -> 0..MaxId] /\ currentID \in 0..MaxId
    /\ mess \in [Ids -> Files]
    /\ ipc \in Seq(Ids) /\ used \in Seq(Messages) /\ hash \subseteq Ids /\ todo \subseteq Ids
    /\ loader \in [pc : {"receive", "gate", "scan"} \cup LoaderIds,
                   id : 0..MaxId, file : Files, size : 0..Units, back : {"receive", "scan"}]
    /\ loader.pc \in LoaderIds => loader.id \in Ids
    /\ loader.pc \in {"node", "read", "used"} => loader.size \in 1..Units
    /\ left \in Files
    /\ worker \in [Workers -> [pc : {"idle", "tired", "parked", "off"} \cup WorkStates,
                               msg : {NoMsg} \cup Messages]]
    /\ \A w \in Workers : worker[w].pc \in WorkStates => worker[w].msg \in Messages
    /\ handled \in [Mails -> Nat] /\ saved \subseteq Mails /\ unchecked \subseteq Mails
    /\ cut \subseteq Mails /\ restarts \in [smtp : Nat, delivery : Nat]

\* The directory.  No complete file has an ID that is still to be drawn.
Drawn ==
    /\ currentID <= Cardinality(Begun)
    /\ \A m \in Mails : IF session[m] = "new" THEN flushID[m] = 0 ELSE flushID[m] \in Ids
    /\ \A i \in Ids : mess[i] # NoFile => flushID[mess[i].mail] = i
    /\ \A i \in Ids : mess[i].full => i <= currentID /\ session[mess[i].mail] \in Done
    /\ \A m \in Mails : session[m] = "open" =>
           flushID[m] <= currentID /\ mess[flushID[m]] = [mail |-> m, full |-> FALSE]

\* What the loader has opened: its file belongs to the ID, is not loaded, and stays there
\* if it is complete.
LoaderSound ==
    /\ loader.pc \in LoaderHas =>
           /\ loader.file # NoFile /\ flushID[loader.file.mail] = loader.id
           /\ loader.file.full \/ loader.pc \in {"used", "emplace"} =>
                  session[loader.file.mail] \in Done
    /\ loader.pc \in {"open", "node", "read", "used"} => loader.id \notin hash
    /\ loader.pc = "used" \/ (loader.pc \in {"node", "read"} /\ loader.file.full) =>
           mess[loader.id] = Whole(loader.file.mail)
    /\ loader.pc \in {"node", "read"} => ~left.full

\* What is loaded is a mail the frontend has finished with, under its ID.
Known ==
    /\ \A i \in 1..Len(used) : /\ session[used[i].mail] \in Done
                               /\ flushID[used[i].mail] = used[i].id
    /\ \A w \in Workers : worker[w].pc \in WorkStates =>
           /\ session[worker[w].msg.mail] \in Done
           /\ flushID[worker[w].msg.mail] = worker[w].msg.id
    /\ \A i \in hash : \E m \in Mails : flushID[m] = i

\* No ID is loaded twice: g_mess_hash has it, or the loader is about to enter it.
InHash(i) == i \in hash \/ (loader.pc = "emplace" /\ loader.id = i)
Single ==
    /\ \A i, j \in 1..Len(used) : used[i].id = used[j].id => i = j
    /\ \A w, v \in Workers :
           worker[w].pc \in HashStates /\ worker[v].pc \in HashStates
           /\ worker[w].msg.id = worker[v].msg.id => w = v
    /\ \A i \in 1..Len(used), w \in Workers :
           worker[w].pc \in HashStates => used[i].id # worker[w].msg.id
    /\ \A i \in 1..Len(used) : InHash(used[i].id)
    /\ \A w \in Workers : worker[w].pc \in HashStates => InHash(worker[w].msg.id)

\* The file of a loaded mail is there until its transport thread removes it.
Present ==
    /\ \A i \in 1..Len(used) : mess[used[i].id] = Whole(used[i].mail)
    /\ \A w \in Workers : worker[w].pc \in FileStates =>
           mess[worker[w].msg.id] = Whole(worker[w].msg.mail)

\* A mail that was handled since the last crash is being removed, or is gone.
Removing(m) == \E w \in Workers : worker[w].pc = "remove" /\ worker[w].msg.mail = m
Counts ==
    \A m \in Mails :
        \/ handled[m] <= restarts.delivery
        \/ /\ handled[m] = restarts.delivery + 1 /\ session[m] \in Done
           /\ mess[flushID[m]] # Whole(m) \/ Removing(m)

\* What a client broke off is not handled.
Broken == \A m \in Mails : session[m] \in {"new", "open", "failed"} => ~Taken(m)

\* A mail the frontend has finished with is there, or a hook or the save directory has it.
Safe ==
    /\ \A m \in Mails : session[m] \in Done =>
           Taken(m) \/ m \in unchecked \/ mess[flushID[m]] = Whole(m)
    /\ \A w \in Workers : worker[w].pc = "remove" =>
           Taken(worker[w].msg.mail) \/ worker[w].msg.mail \in unchecked
    /\ Broken

IndInv == Typed /\ Drawn /\ LoaderSound /\ Known /\ Single /\ Present /\ Counts /\ Safe
-----------------------------------------------------------------------------
\* What a file says.
LEMMA FileFacts ==
    ASSUME NEW f \in Files
    PROVE  /\ f.full \in BOOLEAN /\ f.mail \in Mails \cup {NoMail}
           /\ f # NoFile <=> f.mail \in Mails
           /\ f.full => f # NoFile /\ f = Whole(f.mail)
           /\ \A m \in Mails : f = Whole(m) <=> f.full /\ f.mail = m
<1>1. CASE f = NoFile
    BY <1>1, QueueAssumption DEF NoFile, Whole
<1>2. CASE f \in [mail : Mails, full : BOOLEAN]
    <2>1. f.full \in BOOLEAN /\ f.mail \in Mails /\ f = [mail |-> f.mail, full |-> f.full]
        BY <1>2
    <2>2. f # NoFile
        BY <2>1, QueueAssumption DEF NoFile
    <2>3. \A m \in Mails : f = Whole(m) <=> f.full /\ f.mail = m
        BY <2>1 DEF Whole
    <2> QED BY <2>1, <2>2, <2>3
<1> QED
    BY <1>1, <1>2 DEF Files

LEMMA QueueFacts ==
    /\ MaxId \in Nat \ {0} /\ Units \in Nat \ {0} /\ NoMail \notin Mails /\ 0 \notin Ids
    /\ Ids \subseteq 0..MaxId /\ Ids \subseteq Nat
    BY QueueAssumption DEF Ids

\* Among finitely many IDs there is a largest.
LEMMA LargestId ==
    ASSUME NEW S \in SUBSET Ids, S # {}
    PROVE  \E i \in S : \A j \in S : i >= j
<1> DEFINE T == {MaxId - i : i \in S}
<1>1. T \subseteq Nat /\ T # {}
    <2>1. \A i \in S : MaxId - i \in Nat
        BY QueueAssumption DEF Ids
    <2>2. PICK i \in S : TRUE
        OBVIOUS
    <2>3. MaxId - i \in T
        BY <2>2
    <2> QED BY <2>1, <2>3
<1>2. PICK k \in T : \A j \in T : ~(j < k)
    <2>1. \E k \in T : \A j \in T : <<j, k>> \notin OpToRel(<, Nat)
        BY <1>1, WFMin, NatLessThanWellFounded, Zenon
    <2> QED BY <1>1, <2>1, Zenon DEF OpToRel
<1>3. PICK i \in S : k = MaxId - i
    BY <1>2
<1>4. \A j \in S : ~(MaxId - j < MaxId - i)
    BY <1>2, <1>3
<1> QED
    BY <1>4, QueueAssumption DEF Ids

LEMMA MaxFullIsId == MaxFullID \in 0..MaxId
<1> DEFINE full == {i \in Ids : mess[i].full}
<1>1. CASE full = {}
    BY <1>1, QueueFacts DEF MaxFullID
<1>2. CASE full # {}
    <2>1. \E i \in full : \A j \in full : i >= j
        BY <1>2, LargestId
    <2>2. Max(full) \in full
        BY <2>1 DEF Max
    <2> QED BY <1>2, <2>2, QueueFacts DEF MaxFullID
<1> QED
    BY <1>1, <1>2

\* A thread that goes on keeps its message.
LEMMA WorkerMoves ==
    ASSUME Typed, NEW w \in Workers, NEW pc, WorkerGoes(w, pc)
    PROVE  /\ worker'[w].pc = pc /\ worker'[w].msg = worker[w].msg
           /\ \A v \in Workers \ {w} : worker'[v] = worker[v]
           /\ pc \in {"idle", "tired", "parked", "off"} \cup WorkStates =>
                worker' \in [Workers -> [pc : {"idle", "tired", "parked", "off"} \cup WorkStates,
                                         msg : {NoMsg} \cup Messages]]
    BY DEF Typed, WorkerGoes

\* The loader's places.
LEMMA LoaderMoves ==
    ASSUME Typed
    PROVE  /\ \A pc : LoaderGoes(pc) =>
                /\ loader'.pc = pc /\ loader'.id = loader.id /\ loader'.file = loader.file
                /\ loader'.size = loader.size /\ loader'.back = loader.back
                /\ pc \in {"receive", "gate", "scan"} \cup LoaderIds =>
                     loader' \in [pc : {"receive", "gate", "scan"} \cup LoaderIds,
                                  id : 0..MaxId, file : Files, size : 0..Units, back : {"receive", "scan"}]
           /\ LoaderReturns =>
                /\ loader'.pc \in {"receive", "scan"}
                /\ loader' \in [pc : {"receive", "gate", "scan"} \cup LoaderIds,
                                id : 0..MaxId, file : Files, size : 0..Units, back : {"receive", "scan"}]
<1>1. ASSUME NEW pc, LoaderGoes(pc)
      PROVE  /\ loader'.pc = pc /\ loader'.id = loader.id /\ loader'.file = loader.file
             /\ loader'.size = loader.size /\ loader'.back = loader.back
             /\ pc \in {"receive", "gate", "scan"} \cup LoaderIds =>
                     loader' \in [pc : {"receive", "gate", "scan"} \cup LoaderIds,
                                  id : 0..MaxId, file : Files, size : 0..Units, back : {"receive", "scan"}]
    BY <1>1 DEF Typed, LoaderGoes
<1>2. ASSUME LoaderReturns
      PROVE  /\ loader'.pc \in {"receive", "scan"}
             /\ loader' \in [pc : {"receive", "gate", "scan"} \cup LoaderIds,
                                id : 0..MaxId, file : Files, size : 0..Units, back : {"receive", "scan"}]
    <2>1. NoFile \in Files /\ loader.back \in {"receive", "scan"} /\ 0 \in 0..MaxId /\ 0 \in 0..Units
        BY QueueFacts DEF Typed, Files
    <2>2. loader' = [pc |-> loader.back, id |-> 0, file |-> NoFile, size |-> 0, back |-> "receive"]
        BY <1>2 DEF LoaderReturns, LoaderIdle
    <2> QED BY <2>1, <2>2
<1> QED
    BY <1>1, <1>2

\* The threads after a start.
LEMMA StartedType ==
    ASSUME NEW awake
    PROVE  /\ \A w \in Workers : Started(awake)[w].pc \in {"idle", "parked", "off"}
           /\ Started(awake) \in [Workers -> [pc : {"idle", "tired", "parked", "off"} \cup WorkStates,
                                              msg : {NoMsg} \cup Messages]]
    BY DEF Started, Idle, Parked, Off

\* A crash is counted.
LEMMA RestartCounted ==
    ASSUME Typed
    PROVE  /\ [restarts EXCEPT !.smtp = @ + 1] \in [smtp : Nat, delivery : Nat]
           /\ [restarts EXCEPT !.smtp = @ + 1].delivery = restarts.delivery
           /\ [restarts EXCEPT !.delivery = @ + 1] \in [smtp : Nat, delivery : Nat]
           /\ [restarts EXCEPT !.delivery = @ + 1].delivery = restarts.delivery + 1
<1>1. restarts \in [smtp : Nat, delivery : Nat]
    BY DEF Typed
<1>2. restarts.smtp + 1 \in Nat /\ restarts.delivery + 1 \in Nat
    BY <1>1
<1> QED
    BY <1>1, <1>2

\* The length a file has when it is opened.
LEMMA ReserveSize ==
    ASSUME Typed, Reserve
    PROVE  \/ LoaderReturns /\ UNCHANGED <<mem, left>>
           \/ /\ mess[loader.id] # NoFile /\ left' = NoFile
              /\ \E size \in 1..Units :
                    /\ ~(mem + size > Units) /\ mem' = mem + size
                    /\ loader' = [loader EXCEPT !.pc = "node", !.file = mess[loader.id], !.size = size]
<1> DEFINE file == mess[loader.id]
<1>1. file \in Files
    BY DEF Reserve, Typed, LoaderIds
<1>2. file # NoFile => Size[file.mail] \in 1..Units
    BY <1>1, FileFacts, QueueAssumption
<1>3. \/ LoaderReturns /\ UNCHANGED <<mem, left>>
      \/ /\ file # NoFile
         /\ \E size \in (IF file.full THEN {Size[file.mail]} ELSE 1..Size[file.mail]) :
              IF mem + size > Units
                THEN LoaderReturns /\ UNCHANGED <<mem, left>>
                ELSE /\ mem' = mem + size
                     /\ loader' = [loader EXCEPT !.pc = "node", !.file = file, !.size = size]
                     /\ left' = NoFile
    BY DEF Reserve
<1> HIDE DEF file
<1>4. file # NoFile => /\ {Size[file.mail]} \subseteq 1..Units
                       /\ 1..Size[file.mail] \subseteq 1..Units
    BY <1>2, QueueFacts
<1>5. \/ LoaderReturns /\ UNCHANGED <<mem, left>>
      \/ /\ file # NoFile /\ left' = NoFile
         /\ \E size \in 1..Units :
               /\ ~(mem + size > Units) /\ mem' = mem + size
               /\ loader' = [loader EXCEPT !.pc = "node", !.file = file, !.size = size]
    BY <1>3, <1>4
<1> QED
    BY <1>5 DEF file

\* What the loader is told of a file it has open.
LEMMA LeftMoves ==
    ASSUME Typed, [Next]_vars
    PROVE  /\ \/ left' = left \/ left' = NoFile
              \/ loader.pc \in {"node", "read"} /\ left' = mess[loader.id]
           /\ left' \in Files
<1> USE DEF history
<1>1. \A ids : Unlinked(ids) => left' = left \/ (loader.pc \in {"node", "read"} /\ left' = mess[loader.id])
    BY DEF Unlinked
<1>2. ASSUME NEW m \in Mails, Smtp(m)
      PROVE  left' = left \/ (loader.pc \in {"node", "read"} /\ left' = mess[loader.id])
    BY <1>1, <1>2 DEF Smtp, BeginMess, Cancel, FlushFails, RemoveMess, SaveMess, Acknowledge
<1>3. ASSUME SmtpRestart
      PROVE  left' = left \/ (loader.pc \in {"node", "read"} /\ left' = mess[loader.id])
    <2>1. \E gone \in SUBSET Ids : Unlinked(gone)
        BY <1>3 DEF SmtpRestart
    <2> QED BY <1>1, <2>1
<1>4. ASSUME Loader PROVE left' = left \/ left' = NoFile
    <2>1. CASE Reserve
        BY <2>1, ReserveSize
    <2> QED BY <1>4, <2>1 DEF Loader, Receive, Gate, ScanEntry, ScanEnds, Lookup, TakeNode,
                ReadMess, GiveUp, PutToUsed, Emplace, LoaderOnly
<1>5. ASSUME NEW w \in Workers, Worker(w)
      PROVE  left' = left \/ (loader.pc \in {"node", "read"} /\ left' = mess[loader.id])
    BY <1>1, <1>5 DEF Worker, Get, NotServed, Rest, Accepted, SaveForLater, SaveFailsKept,
                SaveFailsIgnored, PutRemove, PutErase, PutMemory, PutNode, WorkerOnly
<1>6. ASSUME AddThread \/ DeliveryRestart \/ UNCHANGED vars PROVE left' = left
    BY <1>6 DEF AddThread, WorkerOnly, DeliveryRestart, vars
<1>7. \/ left' = left \/ left' = NoFile
      \/ loader.pc \in {"node", "read"} /\ left' = mess[loader.id]
    BY <1>2, <1>3, <1>4, <1>5, <1>6 DEF Next
<1>8. loader.pc \in {"node", "read"} => mess[loader.id] \in Files
    BY DEF Typed, LoaderIds, LoaderHas
<1>9. left \in Files /\ NoFile \in Files
    BY DEF Typed, Files
<1> QED
    BY <1>7, <1>8, <1>9

\* Every variable keeps its type.
LEMMA NextTyped == Typed /\ Drawn /\ LoaderSound /\ [Next]_vars => Typed'
<1> SUFFICES ASSUME Typed, Drawn, LoaderSound, [Next]_vars PROVE Typed'
    OBVIOUS
<1> USE DEF smtp, memory, history
<1> DEFINE LType == [pc : {"receive", "gate", "scan"} \cup LoaderIds,
                     id : 0..MaxId, file : Files, size : 0..Units, back : {"receive", "scan"}]
           WType == [Workers -> [pc : {"idle", "tired", "parked", "off"} \cup WorkStates,
                                 msg : {NoMsg} \cup Messages]]
<1>0. /\ session \in [Mails -> {"new", "open", "failed"} \cup Done]
      /\ flushID \in [Mails -> 0..MaxId] /\ currentID \in 0..MaxId /\ mess \in [Ids -> Files]
      /\ \A m \in Mails : session[m] # "new" => flushID[m] \in Ids
      /\ NoFile \in Files
    BY DEF Typed, Drawn, Files
<1>9. left' \in Files
    BY LeftMoves
<1>s. ASSUME session' \in [Mails -> {"new", "open", "failed"} \cup Done],
             flushID' \in [Mails -> 0..MaxId], currentID' \in 0..MaxId,
             mess' \in [Ids -> Files], ipc' \in Seq(Ids), unchecked' \subseteq Mails,
             restarts' \in [smtp : Nat, delivery : Nat],
             UNCHANGED <<memory, handled, saved, cut>>
      PROVE  Typed'
    BY <1>9, <1>s DEF Typed
<1>l. ASSUME loader' \in LType, loader'.pc \in LoaderIds => loader'.id \in Ids,
             loader'.pc \in {"node", "read", "used"} => loader'.size \in 1..Units,
             ipc' \in Seq(Ids), hash' \subseteq Ids, todo' \subseteq Ids,
             LoaderReads
      PROVE  Typed'
    BY <1>9, <1>l DEF Typed, LoaderReads, history
<1>w. ASSUME worker' \in WType,
             \A w \in Workers : worker'[w].pc \in WorkStates => worker'[w].msg \in Messages,
             mess' \in [Ids -> Files], used' \in Seq(Messages), hash' \subseteq Ids,
             handled' \in [Mails -> Nat], saved' \subseteq Mails, unchecked' \subseteq Mails,
             cut' \subseteq Mails,
             UNCHANGED <<smtp, ipc, loader, todo, restarts>>
      PROVE  Typed'
    BY <1>9, <1>w DEF Typed
<1>1. ASSUME NEW m \in Mails, Smtp(m) PROVE Typed'
    <2>1. CASE BeginMess(m)
        <3>1. NextID \in Ids
            BY <1>0, QueueFacts DEF NextID, Ids
        <3>2. /\ flushID' \in [Mails -> 0..MaxId] /\ currentID' \in 0..MaxId
              /\ mess' \in [Ids -> Files]
            BY <1>0, <2>1, <3>1, QueueFacts DEF BeginMess, Files, history
        <3>3. session' \in [Mails -> {"new", "open", "failed"} \cup Done]
            BY <1>0, <2>1 DEF BeginMess, history
        <3> QED BY <1>s, <2>1, <3>2, <3>3 DEF BeginMess, Typed, history
    <2>2. CASE Cancel(m) \/ FlushFails(m)
        <3>1. RemoveMess(m)
            BY <2>2 DEF Cancel, FlushFails
        <3>2. mess' \in [Ids -> Files] /\ session' \in [Mails -> {"new", "open", "failed"} \cup Done]
            BY <1>0, <3>1 DEF RemoveMess, history
        <3> QED BY <1>s, <3>1, <3>2 DEF RemoveMess, Typed, history
    <2>3. CASE SaveMess(m)
        <3>1. session' \in [Mails -> {"new", "open", "failed"} \cup Done]
            BY <1>0, <2>3 DEF SaveMess, Done, history
        <3>2. unchecked' \subseteq Mails
            BY <2>3 DEF SaveMess, Typed, history
        <3>3. flushID[m] \in Ids /\ mess[flushID[m]] = [mail |-> m, full |-> FALSE]
            BY <1>0, <2>3 DEF SaveMess, Drawn, history
        <3>4. PICK full \in BOOLEAN : mess' = [mess EXCEPT ![flushID[m]].full = full]
            BY <2>3 DEF SaveMess, history
        <3>5. [mess[flushID[m]] EXCEPT !.full = full] \in Files
            BY <3>3 DEF Files
        <3>6. mess' \in [Ids -> Files]
            BY <1>0, <3>3, <3>4, <3>5
        <3> QED BY <1>s, <2>3, <3>1, <3>2, <3>6 DEF SaveMess, Typed, history
    <2>4. CASE Acknowledge(m)
        <3>1. flushID[m] \in Ids /\ session' \in [Mails -> {"new", "open", "failed"} \cup Done]
            BY <1>0, <2>4 DEF Acknowledge, Done, history
        <3>2. ipc' \in Seq(Ids)
            BY <2>4, <3>1 DEF Acknowledge, Typed, history
        <3> QED BY <1>s, <2>4, <3>1, <3>2 DEF Acknowledge, Typed, history
    <2> QED BY <1>1, <2>1, <2>2, <2>3, <2>4 DEF Smtp
<1>2. CASE SmtpRestart
    <2>1. session' \in [Mails -> {"new", "open", "failed"} \cup Done]
        BY <1>0, <1>2 DEF SmtpRestart, Done, history
    <2>2. mess' \in [Ids -> Files]
        BY <1>0, <1>2 DEF SmtpRestart, history
    <2>3. restarts' \in [smtp : Nat, delivery : Nat]
        BY <1>2, RestartCounted DEF SmtpRestart, history
    <2>4. MaxFullID \in 0..MaxId
        BY MaxFullIsId
    <2> QED BY <1>s, <1>2, <2>1, <2>2, <2>3, <2>4 DEF SmtpRestart, Typed, history
<1>3. CASE Loader
    <2>0. loader \in LType /\ ipc \in Seq(Ids) /\ hash \subseteq Ids /\ todo \subseteq Ids
        BY DEF Typed
    <2>r. ASSUME LoaderReturns
          PROVE  loader' \in LType /\ loader'.pc \notin LoaderIds
        BY <2>r, LoaderMoves DEF LoaderIds, LoaderHas
    <2>g. ASSUME NEW pc \in {"receive", "gate", "scan"}, LoaderGoes(pc)
          PROVE  loader' \in LType /\ loader'.pc \notin LoaderIds
        BY <2>g, LoaderMoves DEF LoaderIds, LoaderHas
    <2>h. ASSUME NEW pc \in LoaderIds, LoaderGoes(pc), loader.pc \in LoaderIds
          PROVE  loader' \in LType /\ loader'.pc = pc /\ loader'.id \in Ids /\ loader'.size = loader.size
        BY <2>h, LoaderMoves DEF Typed
    <2>i. LoaderIdle \in LType /\ LoaderIdle.pc \notin LoaderIds
        BY QueueFacts DEF LoaderIdle, Files, LoaderIds, LoaderHas
    <2>n. {"node", "read", "used"} \subseteq LoaderIds /\ (LoaderOnly => LoaderReads)
        BY DEF LoaderIds, LoaderHas, LoaderOnly
    <2>1. CASE Receive
        <3>1. CASE ipc = <<>>
            BY <1>l, <2>0, <2>n, <2>1, <2>g, <3>1 DEF Receive
        <3>2. CASE ipc # <<>>
            <4>1. Head(ipc) \in Ids /\ Tail(ipc) \in Seq(Ids)
                BY <2>0, <3>2
            <4>2. loader' = [LoaderIdle EXCEPT !.pc = "lookup", !.id = Head(ipc)] /\ ipc' = Tail(ipc)
                BY <2>1, <3>2 DEF Receive
            <4>3. loader' \in LType /\ loader'.id \in Ids /\ loader'.pc = "lookup"
                <5>1. loader' = [pc |-> "lookup", id |-> Head(ipc), file |-> NoFile, size |-> 0,
                                 back |-> "receive"]
                    BY <4>2 DEF LoaderIdle
                <5>2. NoFile \in Files /\ 0 \in 0..Units /\ Head(ipc) \in 0..MaxId
                    <6>1. NoFile \in Files
                        BY DEF Files
                    <6>2. 0 \in 0..Units
                        BY QueueFacts
                    <6>3. Head(ipc) \in 0..MaxId
                        BY <4>1, QueueFacts, Zenon
                    <6> QED BY <6>1, <6>2, <6>3
                <5> QED BY <4>1, <5>1, <5>2 DEF LoaderIds, LoaderHas
            <4> QED BY <1>l, <2>0, <2>n, <2>1, <4>1, <4>2, <4>3 DEF Receive
        <3> QED BY <3>1, <3>2
    <2>2. CASE Gate
        <3>1. todo' \subseteq Ids /\ \E pc \in {"receive", "scan"} : LoaderGoes(pc)
            BY <2>0, <2>2 DEF Gate
        <3> QED BY <1>l, <2>0, <2>n, <2>2, <2>g, <3>1 DEF Gate
    <2>3. CASE ScanEntry
        <3>1. PICK i \in todo : /\ todo' = todo \ {i}
                  /\ IF mess[i].full
                     THEN loader' = [LoaderIdle EXCEPT !.pc = "lookup", !.id = i, !.back = "scan"]
                     ELSE UNCHANGED loader
            BY <2>3 DEF ScanEntry
        <3>2. CASE mess[i].full
            <4>1. loader' \in LType /\ loader'.id \in Ids /\ loader'.pc = "lookup"
                <5>1. loader' = [pc |-> "lookup", id |-> i, file |-> NoFile, size |-> 0,
                                 back |-> "scan"]
                    BY <3>1, <3>2 DEF LoaderIdle
                <5> QED BY <1>0, <2>0, <3>1, <5>1, QueueFacts DEF LoaderIds, LoaderHas
            <4> QED BY <1>l, <2>0, <2>n, <2>3, <3>1, <4>1 DEF ScanEntry
        <3>3. CASE ~mess[i].full
            BY <1>l, <2>0, <2>n, <2>3, <3>1, <3>3 DEF ScanEntry, Typed
        <3> QED BY <3>2, <3>3
    <2>4. CASE ScanEnds
        BY <1>l, <2>0, <2>n, <2>4, <2>i DEF ScanEnds
    <2>5. CASE Lookup
        <3>1. LoaderReturns \/ LoaderGoes("open")
            BY <2>5 DEF Lookup
        <3> QED BY <1>l, <2>0, <2>n, <2>5, <2>r, <2>h, <3>1 DEF Lookup, LoaderIds
    <2>6. CASE Reserve
        <3>1. CASE LoaderReturns
            BY <1>l, <2>0, <2>n, <2>6, <2>r, <3>1 DEF Reserve
        <3>2. ASSUME NEW size \in 1..Units,
                     loader' = [loader EXCEPT !.pc = "node", !.file = mess[loader.id], !.size = size]
              PROVE  Typed'
            <4>1. loader.id \in Ids
                BY <2>6 DEF Reserve, Typed, LoaderIds
            <4>2. loader' \in LType /\ loader'.id \in Ids /\ loader'.size = size
                <5>1. mess[loader.id] \in Files /\ size \in 0..Units
                    BY <1>0, <3>2, <4>1, QueueFacts
                <5> QED BY <2>0, <3>2, <4>1, <5>1 DEF LoaderIds, LoaderHas
            <4> QED BY <1>l, <2>0, <2>6, <4>2 DEF Reserve
        <3> QED BY <2>6, <3>1, <3>2, ReserveSize
    <2>8. CASE ReadMess
        <3>1. /\ loader.pc = "read" /\ loader.size \in 1..Units /\ loader.id \in Ids /\ LoaderReads
              /\ loader' = [loader EXCEPT !.pc = "used", !.file.mail = Opened.mail]
              /\ UNCHANGED <<ipc, hash, todo>> /\ loader.file.full \in BOOLEAN
            BY <2>8, <2>n, <2>0, FileFacts DEF ReadMess, Typed, LoaderIds, LoaderHas
        <3>2. Opened.mail \in Mails
            <4>1. Opened \in Files /\ Opened.full
                BY <2>8, <3>1 DEF ReadMess, HeaderNow, Opened, Typed
            <4> QED BY <4>1, FileFacts
        <3>3. loader' = [pc |-> "used", id |-> loader.id, size |-> loader.size, back |-> loader.back,
                         file |-> [loader.file EXCEPT !.mail = Opened.mail]]
            BY <2>0, <3>1
        <3>4. [loader.file EXCEPT !.mail = Opened.mail] \in Files
            <4>1. loader.file \in Files
                BY <2>0
            <4>2. [loader.file EXCEPT !.mail = Opened.mail]
                      = [mail |-> Opened.mail, full |-> loader.file.full]
                BY <4>1 DEF Files, NoFile
            <4> QED BY <3>1, <3>2, <4>2 DEF Files
        <3>5. loader' \in LType
            BY <2>0, <3>3, <3>4 DEF LoaderIds, LoaderHas
        <3> QED BY <1>l, <2>0, <3>1, <3>3, <3>5
    <2>7. CASE TakeNode
        <3>1. LoaderReturns \/ LoaderGoes("read")
            BY <2>7 DEF TakeNode
        <3>2. loader.pc = "node" /\ loader.size \in 1..Units
            BY <2>7 DEF TakeNode, Typed
        <3> QED BY <1>l, <2>0, <2>n, <2>7, <2>r, <2>h, <3>1, <3>2 DEF TakeNode, LoaderIds, LoaderHas
    <2>9. CASE GiveUp
        BY <1>l, <2>0, <2>n, <2>9, <2>r DEF GiveUp
    <2>10. CASE PutToUsed
        <3>1. loader.file.mail \in Mails /\ loader.id \in Ids
            BY <2>0, <2>10, FileFacts DEF PutToUsed, LoaderSound, Typed, LoaderIds, LoaderHas, history
        <3>5. loader.pc = "used" /\ loader.size \in 1..Units /\ loader.file.full \in BOOLEAN
            BY <2>0, <2>10, FileFacts DEF PutToUsed, Typed
        <3>2. used' \in Seq(Messages)
            <4>1. [id |-> loader.id, mail |-> loader.file.mail, size |-> loader.size,
                   whole |-> loader.file.full] \in Messages
                BY <3>1, <3>5 DEF Messages
            <4> QED BY <2>10, <4>1 DEF PutToUsed, Typed
        <3>3. /\ worker' \in WType
              /\ \A w \in Workers : worker'[w].pc \in WorkStates => worker'[w].msg \in Messages
            <4>1. CASE worker' = worker
                BY <4>1 DEF Typed
            <4>2. CASE \E w \in Workers : worker' = [worker EXCEPT ![w] = Idle]
                BY <4>2 DEF Typed, Idle, WorkStates
            <4> QED BY <2>10, <4>1, <4>2 DEF PutToUsed, WakeOne, history
        <3>4. loader' \in LType /\ loader'.id \in Ids
            BY <2>10, <2>h, <3>1, LoaderMoves DEF PutToUsed, LoaderIds, LoaderHas, history
        <3>6. loader'.pc = "emplace"
            BY <2>10, LoaderMoves DEF PutToUsed
        <3> QED BY <1>9, <2>10, <3>2, <3>3, <3>4, <3>6 DEF PutToUsed, Typed, history
    <2>11. CASE Emplace
        <3>1. loader.id \in Ids
            BY <2>11 DEF Emplace, Typed, LoaderIds, LoaderHas
        <3>2. hash' \subseteq Ids
            BY <2>0, <2>11, <3>1 DEF Emplace
        <3> QED BY <1>l, <2>0, <2>n, <2>11, <2>r, <3>2 DEF Emplace
    <2> QED
        BY <1>3, <2>1, <2>2, <2>3, <2>4, <2>5, <2>6, <2>7, <2>8, <2>9, <2>10, <2>11 DEF Loader
<1>4. ASSUME NEW w \in Workers, Worker(w) PROVE Typed'
    <2>0. /\ worker \in WType /\ used \in Seq(Messages) /\ hash \subseteq Ids
          /\ \A v \in Workers : worker[v].pc \in WorkStates => worker[v].msg \in Messages
          /\ handled \in [Mails -> Nat] /\ saved \subseteq Mails /\ unchecked \subseteq Mails
          /\ cut \subseteq Mails
        BY DEF Typed
    <2>g. ASSUME NEW pc \in WorkStates, WorkerGoes(w, pc), worker[w].pc \in WorkStates
          PROVE  /\ worker' \in WType
                 /\ \A v \in Workers : worker'[v].pc \in WorkStates => worker'[v].msg \in Messages
        BY <2>0, <2>g, WorkerMoves
    <2>i. ASSUME NEW r \in {Idle, Parked, Off}, worker' = [worker EXCEPT ![w] = r]
          PROVE  /\ worker' \in WType
                 /\ \A v \in Workers : worker'[v].pc \in WorkStates => worker'[v].msg \in Messages
        BY <2>0, <2>i DEF Idle, Parked, Off, WorkStates
    <2>m. worker[w].pc \in WorkStates => worker[w].msg.mail \in Mails /\ worker[w].msg.id \in Ids
        BY <2>0 DEF Messages
    <2>1. CASE Get(w)
        <3>1. Head(used) \in Messages /\ Tail(used) \in Seq(Messages)
            BY <2>0, <2>1 DEF Get
        <3>2. /\ worker' \in WType
              /\ \A v \in Workers : worker'[v].pc \in WorkStates => worker'[v].msg \in Messages
            BY <2>0, <2>1, <3>1 DEF Get, WorkStates
        <3> QED BY <1>0, <1>w, <2>0, <2>1, <3>1, <3>2 DEF Get, WorkerOnly, WorkerSpares, history
    <2>2. CASE NotServed(w)
        <3>1. /\ worker' \in WType
              /\ \A v \in Workers : worker'[v].pc \in WorkStates => worker'[v].msg \in Messages
            BY <2>0, <2>2, WorkerMoves DEF NotServed, WorkStates
        <3> QED BY <1>0, <1>w, <2>0, <2>2, <3>1 DEF NotServed, WorkerOnly, WorkerSpares, history
    <2>3. CASE Rest(w)
        <3>1. \E r \in {Idle, Parked, Off} : worker' = [worker EXCEPT ![w] = r]
            BY <2>3 DEF Rest
        <3> QED BY <1>0, <1>w, <2>0, <2>3, <2>i, <3>1 DEF Rest, WorkerOnly, WorkerSpares, history
    <2>4. CASE Accepted(w)
        <3>1. handled' \in [Mails -> Nat]
            BY <2>0, <2>4, <2>m DEF Accepted, WorkStates, WorkerSpares
        <3>2. cut' \subseteq Mails
            BY <2>0, <2>4, <2>m DEF Accepted, WorkStates
        <3> QED BY <1>0, <1>w, <2>0, <2>4, <2>g, <3>1, <3>2 DEF Accepted, WorkerOnly, WorkStates, WorkerSpares, history
    <2>5. CASE SaveForLater(w)
        <3>1. saved' \subseteq Mails
            BY <2>0, <2>5, <2>m DEF SaveForLater, WorkStates
        <3> QED BY <1>0, <1>w, <2>0, <2>5, <2>g, <3>1 DEF SaveForLater, WorkerOnly, WorkStates, WorkerSpares, history
    <2>6. CASE SaveFailsKept(w)
        BY <1>0, <1>w, <2>0, <2>6, <2>i DEF SaveFailsKept, WorkerOnly, WorkerSpares, history
    <2>7. CASE SaveFailsIgnored(w)
        <3>1. unchecked' \subseteq Mails
            BY <2>0, <2>7, <2>m DEF SaveFailsIgnored, WorkStates, history
        <3> QED BY <1>0, <1>w, <2>0, <2>7, <2>g, <3>1 DEF SaveFailsIgnored, WorkStates, history
    <2>8. CASE PutRemove(w)
        <3>1. mess' \in [Ids -> Files]
            BY <1>0, <2>8, <2>m DEF PutRemove, WorkStates, WorkerSpares
        <3> QED BY <1>0, <1>w, <2>0, <2>8, <2>g, <3>1 DEF PutRemove, WorkerOnly, WorkStates, WorkerSpares, history
    <2>9. CASE PutErase(w)
        <3>1. hash' \subseteq Ids
            BY <2>0, <2>9 DEF PutErase
        <3> QED BY <1>0, <1>w, <2>0, <2>9, <2>g, <3>1 DEF PutErase, WorkerOnly, WorkStates, WorkerSpares, history
    <2>10. CASE PutMemory(w)
        BY <1>0, <1>w, <2>0, <2>10, <2>g DEF PutMemory, WorkerOnly, WorkStates, WorkerSpares, history
    <2>11. CASE PutNode(w)
        BY <1>0, <1>w, <2>0, <2>11, <2>i DEF PutNode, WorkerOnly, WorkerSpares, history
    <2> QED
        BY <1>4, <2>1, <2>2, <2>3, <2>4, <2>5, <2>6, <2>7, <2>8, <2>9, <2>10, <2>11 DEF Worker
<1>5. CASE AddThread
    <2>1. PICK w \in Workers :
             worker' = [worker EXCEPT ![w] = IF w \in MinWorkers THEN Parked ELSE Idle]
        BY <1>5 DEF AddThread
    <2>2. /\ worker' \in WType
          /\ \A v \in Workers : worker'[v].pc \in WorkStates => worker'[v].msg \in Messages
        BY <2>1 DEF Typed, Idle, Parked, WorkStates
    <2> QED BY <1>w, <1>5, <2>2 DEF AddThread, WorkerOnly, Typed, WorkerSpares, history
<1>6. CASE DeliveryRestart
    <2>1. PICK awake \in SUBSET MinWorkers : worker' = Started(awake)
        BY <1>6 DEF DeliveryRestart, EmptyMemory, history
    <2>2. /\ worker' \in WType
          /\ \A v \in Workers : worker'[v].pc \in WorkStates => worker'[v].msg \in Messages
        <3>1. \A v \in Workers : worker'[v].pc \in {"idle", "parked", "off"}
            BY <2>1, StartedType
        <3> QED BY <2>1, <3>1, StartedType DEF WorkStates
    <2>3. restarts' \in [smtp : Nat, delivery : Nat]
        BY <1>6, RestartCounted DEF DeliveryRestart, history
    <2>4. /\ loader' \in LType /\ loader'.pc \notin LoaderIds
          /\ used' = <<>> /\ hash' = {} /\ todo' = {}
        BY <1>6, QueueFacts
        DEF DeliveryRestart, EmptyMemory, LoaderIdle, Files, LoaderIds, LoaderHas, history
    <2>5. used' \in Seq(Messages)
        BY <2>4
    <2> QED BY <1>6, <2>2, <2>3, <2>4, <2>5 DEF DeliveryRestart, Typed, history
<1>7. CASE UNCHANGED vars
    BY <1>7 DEF vars, Typed
<1> QED
    BY <1>1, <1>2, <1>3, <1>4, <1>5, <1>6, <1>7 DEF Next

-----------------------------------------------------------------------------
(***************************************************************************)
(* The frontend                                                            *)
(***************************************************************************)

\* A message that is on the used list or with a thread has an ID and a mail.
LEMMA LoadedTypes ==
    ASSUME Typed
    PROVE  /\ \A i \in 1..Len(used) : used[i].id \in Ids /\ used[i].mail \in Mails
           /\ \A w \in Workers : worker[w].pc \in WorkStates =>
                  worker[w].msg.id \in Ids /\ worker[w].msg.mail \in Mails
<1>1. \A i \in 1..Len(used) : used[i] \in Messages
    BY DEF Typed
<1>2. \A w \in Workers : worker[w].pc \in WorkStates => worker[w].msg \in Messages
    BY DEF Typed
<1> QED
    BY <1>1, <1>2 DEF Messages

\* Whatever the frontend does to the files of mails it has not finished with, what
\* gromox-delivery relies on stays.
LEMMA FrontendStep ==
    ASSUME IndInv, UNCHANGED <<memory, handled, saved>>,
           restarts'.delivery = restarts.delivery, unchecked \subseteq unchecked',
           left' = left \/ ~left'.full,
           \A m \in Mails : session[m] # "new" => flushID'[m] = flushID[m],
           \A m \in Mails : session[m] \in Done => session'[m] \in Done,
           \A m \in Mails : session[m] \in Done =>
               (mess'[flushID[m]] = Whole(m) <=> mess[flushID[m]] = Whole(m)),
           \A m \in Mails : session[m] \notin Done /\ session'[m] \in Done =>
               m \in unchecked' \/ mess'[flushID'[m]] = Whole(m)
    PROVE  LoaderSound' /\ Known' /\ Single' /\ Present' /\ Counts' /\ Safe'
<1> USE DEF memory, history
<1>1. /\ Typed /\ Drawn /\ LoaderSound /\ Known /\ Single /\ Present /\ Counts /\ Safe
      /\ \A m \in Mails : session[m] \in Done => session[m] # "new"
      /\ \A m \in Mails : flushID[m] \in Ids => session[m] # "new"
    BY QueueFacts DEF IndInv, Done, Drawn
<1>2. LoaderSound'
    <2>1. ASSUME loader.pc \in LoaderHas
          PROVE  /\ loader.file # NoFile /\ loader.file.mail \in Mails /\ loader.id \in Ids
                 /\ flushID[loader.file.mail] = loader.id
                 /\ session[loader.file.mail] # "new"
        <3>1. loader.file \in Files /\ loader.id \in Ids
            BY <1>1, <2>1 DEF Typed, LoaderIds
        <3>2. loader.file # NoFile /\ flushID[loader.file.mail] = loader.id
            BY <1>1, <2>1 DEF LoaderSound
        <3>3. loader.file.mail \in Mails
            BY <3>1, <3>2, FileFacts
        <3> QED BY <1>1, <3>1, <3>2, <3>3
    <2>2. loader.pc \in LoaderHas /\ (loader.file.full \/ loader.pc \in {"used", "emplace"}) =>
              session[loader.file.mail] \in Done
        BY <1>1 DEF LoaderSound
    <2>3. loader.pc = "used" \/ (loader.pc \in {"node", "read"} /\ loader.file.full) =>
              mess[loader.id] = Whole(loader.file.mail)
        BY <1>1 DEF LoaderSound
    <2>4. loader.pc \in {"open", "node", "read", "used"} => loader.id \notin hash
        BY <1>1 DEF LoaderSound
    <2>5. loader.pc \in {"node", "read"} => ~left'.full
        BY <1>1 DEF LoaderSound
    <2> QED BY <2>1, <2>2, <2>3, <2>4, <2>5 DEF LoaderSound, LoaderHas, Whole
<1>3. Known'
    <2>1. \A i \in 1..Len(used) : session'[used[i].mail] \in Done /\ flushID'[used[i].mail] = used[i].id
        BY <1>1, LoadedTypes DEF Known
    <2>2. \A w \in Workers : worker[w].pc \in WorkStates =>
             session'[worker[w].msg.mail] \in Done /\ flushID'[worker[w].msg.mail] = worker[w].msg.id
        BY <1>1, LoadedTypes DEF Known
    <2>3. \A i \in hash : \E m \in Mails : flushID'[m] = i
        <3> SUFFICES ASSUME NEW i \in hash PROVE \E m \in Mails : flushID'[m] = i
            OBVIOUS
        <3>1. PICK m \in Mails : flushID[m] = i
            BY <1>1 DEF Known
        <3>2. i \in Ids
            BY <1>1 DEF Typed
        <3> QED BY <1>1, <3>1, <3>2
    <2> QED BY <2>1, <2>2, <2>3 DEF Known
<1>4. Single'
    BY <1>1 DEF Single, InHash
<1>5. Present'
    <2>1. \A i \in 1..Len(used) : mess'[used[i].id] = Whole(used[i].mail)
        BY <1>1, LoadedTypes DEF Known, Present
    <2>2. \A w \in Workers : worker[w].pc \in FileStates =>
             mess'[worker[w].msg.id] = Whole(worker[w].msg.mail)
        BY <1>1, LoadedTypes DEF Known, Present, FileStates, WorkStates
    <2> QED BY <2>1, <2>2 DEF Present, Whole
<1>6. Counts'
    <2>1. ASSUME NEW m \in Mails
          PROVE  \/ handled[m] <= restarts.delivery
                 \/ /\ handled[m] = restarts.delivery + 1 /\ session'[m] \in Done
                    /\ mess'[flushID'[m]] # Whole(m) \/ Removing(m)
        BY <1>1 DEF Counts
    <2> QED BY <2>1 DEF Counts, Removing, Whole
<1>7. Safe'
    <2>1. ASSUME NEW m \in Mails, session'[m] \in Done
          PROVE  Taken(m) \/ m \in unchecked' \/ mess'[flushID'[m]] = Whole(m)
        BY <1>1, <2>1 DEF Safe
    <2>2. ASSUME NEW w \in Workers, worker[w].pc = "remove"
          PROVE  Taken(worker[w].msg.mail) \/ worker[w].msg.mail \in unchecked'
        BY <1>1, <2>2 DEF Safe
    <2>3. ASSUME NEW m \in Mails, session'[m] \in {"new", "open", "failed"}
          PROVE  ~Taken(m)
        <3>1. session[m] \in {"new", "open", "failed"}
            BY <1>1, <2>3 DEF Typed, Done
        <3> QED BY <1>1, <3>1 DEF Safe, Broken
    <2> QED BY <2>1, <2>2, <2>3 DEF Safe, Broken, Taken, Whole
<1> QED
    BY <1>2, <1>3, <1>4, <1>5, <1>6, <1>7

\* An ID is drawn that no complete file and no open session has.
LEMMA BeginMessKeeps ==
    ASSUME Scope, IndInv, NEW m \in Mails, BeginMess(m)
    PROVE  Drawn' /\ LoaderSound' /\ Known' /\ Single' /\ Present' /\ Counts' /\ Safe'
<1>1. Typed /\ Drawn
    BY DEF IndInv
<1>2. /\ session \in [Mails -> {"new", "open", "failed"} \cup Done] /\ flushID \in [Mails -> 0..MaxId]
      /\ mess \in [Ids -> Files] /\ currentID \in 0..MaxId /\ session[m] = "new" /\ flushID[m] = 0
      /\ MaxId \in Nat
    BY <1>1, QueueFacts DEF Typed, Drawn, BeginMess, history
<1>3. session' = [session EXCEPT ![m] = "open"]
    BY DEF BeginMess, history
<1>4. /\ IsFiniteSet(Begun) /\ Cardinality(Begun) \in Nat /\ m \notin Begun
      /\ Cardinality(Begun') = Cardinality(Begun) + 1 /\ Cardinality(Begun) < MaxId
    <2>1. Begun \subseteq Mails /\ m \notin Begun /\ Begun' = Begun \cup {m}
        BY <1>2, <1>3 DEF Begun
    <2>2. IsFiniteSet(Begun)
        BY <2>1, FS_Subset DEF Scope
    <2>3. Cardinality(Begun') = Cardinality(Begun) + 1
        BY <2>1, <2>2, FS_AddElement
    <2>4. Begun' \subseteq Mails
        BY <2>1
    <2>5. Cardinality(Begun') <= Cardinality(Mails)
        BY <2>4, FS_Subset DEF Scope
    <2>6. Cardinality(Begun) \in Nat /\ Cardinality(Mails) \in Nat
        BY <2>2, FS_CardinalityType DEF Scope
    <2> QED BY <1>2, <2>1, <2>2, <2>3, <2>5, <2>6 DEF Scope
<1>5. NextID = currentID + 1 /\ NextID \in Ids
    BY <1>1, <1>2, <1>4 DEF Drawn, NextID, Ids
<1>6. /\ currentID' = currentID + 1 /\ flushID'[m] = currentID + 1
      /\ \A n \in Mails : n # m => flushID'[n] = flushID[n] /\ session'[n] = session[n]
      /\ session'[m] = "open"
      /\ mess'[currentID + 1] = [mail |-> m, full |-> FALSE]
      /\ \A i \in Ids : i # currentID + 1 => mess'[i] = mess[i]
    BY <1>2, <1>3, <1>5 DEF BeginMess, history
<1>7. \A i \in Ids : mess[i].full => i # currentID + 1
    BY <1>1, <1>2 DEF Drawn, Ids
<1>8. \A i \in Ids : mess[i] # NoFile => mess[i].mail \in Mails \ {m}
    <2>1. \A i \in Ids : mess[i] # NoFile => mess[i].mail \in Mails
        BY <1>2, FileFacts
    <2>2. \A i \in Ids : mess[i] # NoFile => flushID[mess[i].mail] = i
        BY <1>1 DEF Drawn
    <2> QED BY <1>2, <2>1, <2>2, QueueFacts
<1>9. Drawn'
    <2>1. (currentID <= Cardinality(Begun))'
        BY <1>1, <1>2, <1>4, <1>6 DEF Drawn
    <2>2. ASSUME NEW n \in Mails
          PROVE  IF session'[n] = "new" THEN flushID'[n] = 0 ELSE flushID'[n] \in Ids
        BY <1>1, <1>5, <1>6 DEF Drawn
    <2>3. ASSUME NEW i \in Ids, mess'[i] # NoFile
          PROVE  flushID'[mess'[i].mail] = i
        <3>1. CASE i = currentID + 1
            BY <1>6, <3>1
        <3>2. CASE i # currentID + 1
            BY <1>1, <1>6, <1>8, <2>3, <3>2 DEF Drawn
        <3> QED BY <3>1, <3>2
    <2>4. ASSUME NEW i \in Ids, mess'[i].full
          PROVE  i <= currentID' /\ session'[mess'[i].mail] \in Done
        <3>1. i # currentID + 1 /\ mess'[i] = mess[i]
            BY <1>6, <2>4
        <3>2. mess[i] # NoFile
            BY <1>2, <2>4, <3>1, FileFacts
        <3>3. i <= currentID /\ session[mess[i].mail] \in Done
            BY <1>1, <2>4, <3>1 DEF Drawn
        <3> QED BY <1>2, <1>6, <1>8, <3>1, <3>2, <3>3 DEF Ids
    <2>5. ASSUME NEW n \in Mails, session'[n] = "open"
          PROVE  flushID'[n] <= currentID' /\ mess'[flushID'[n]] = [mail |-> n, full |-> FALSE]
        <3>1. CASE n = m
            BY <1>2, <1>6, <3>1
        <3>2. CASE n # m
            <4>1. /\ session[n] = "open" /\ flushID[n] <= currentID /\ flushID[n] \in Ids
                  /\ mess[flushID[n]] = [mail |-> n, full |-> FALSE]
                BY <1>1, <1>6, <2>5, <3>2 DEF Drawn
            <4>2. flushID[n] # currentID + 1 /\ flushID[n] <= currentID + 1
                BY <1>2, <4>1 DEF Ids
            <4> QED BY <1>6, <3>2, <4>1, <4>2
        <3> QED BY <3>1, <3>2
    <2> QED BY <2>1, <2>2, <2>3, <2>4, <2>5 DEF Drawn
<1>10. ASSUME NEW n \in Mails, session[n] \in Done
       PROVE  /\ session'[n] \in Done
              /\ mess'[flushID[n]] = Whole(n) <=> mess[flushID[n]] = Whole(n)
    <2>1. n # m /\ session'[n] = session[n] /\ flushID[n] \in Ids
        BY <1>1, <1>2, <1>6, <1>10 DEF Done, Drawn
    <2>2. CASE flushID[n] = currentID + 1
        <3>1. mess'[flushID[n]] # Whole(n)
            BY <1>6, <2>2 DEF Whole
        <3>2. ~mess[flushID[n]].full
            BY <1>7, <2>1, <2>2
        <3> QED BY <1>10, <2>1, <3>1, <3>2 DEF Whole
    <2>3. CASE flushID[n] # currentID + 1
        BY <1>6, <1>10, <2>1, <2>3
    <2> QED BY <2>2, <2>3
<1>11. \A n \in Mails : session[n] # "new" => flushID'[n] = flushID[n]
    BY <1>2, <1>6
<1>12. \A n \in Mails : session[n] \notin Done /\ session'[n] \in Done =>
               n \in unchecked' \/ mess'[flushID'[n]] = Whole(n)
    BY <1>6 DEF Done
<1>13. UNCHANGED <<memory, left, handled, saved, cut, unchecked, restarts>>
    BY DEF BeginMess, history
<1>14. LoaderSound' /\ Known' /\ Single' /\ Present' /\ Counts' /\ Safe'
    BY <1>10, <1>11, <1>12, <1>13, FrontendStep
<1> QED
    BY <1>9, <1>14

\* The end of a session, whether the file goes, is completed or is left half written: only
\* the file under its own ID changes.
LEMMA SessionEnds ==
    ASSUME IndInv, NEW m \in Mails, session[m] = "open", NEW s \in {"failed", "saved"},
           session' = [session EXCEPT ![m] = s],
           NEW f \in {NoFile, [mail |-> m, full |-> FALSE], Whole(m)},
           mess' = [mess EXCEPT ![flushID[m]] = f], f.full => s = "saved",
           s = "saved" => f = Whole(m) \/ m \in unchecked',
           unchecked \subseteq unchecked', left' = left \/ ~left'.full,
           UNCHANGED <<flushID, currentID, memory, handled, saved, cut, restarts>>
    PROVE  Drawn' /\ LoaderSound' /\ Known' /\ Single' /\ Present' /\ Counts' /\ Safe'
<1>1. Typed /\ Drawn
    BY DEF IndInv
<1>2. /\ session \in [Mails -> {"new", "open", "failed"} \cup Done] /\ flushID \in [Mails -> 0..MaxId]
      /\ mess \in [Ids -> Files] /\ flushID[m] \in Ids /\ flushID[m] <= currentID
      /\ mess[flushID[m]] = [mail |-> m, full |-> FALSE]
    BY <1>1 DEF Typed, Drawn
<1>3. /\ session'[m] = s /\ \A n \in Mails : n # m => session'[n] = session[n]
      /\ mess'[flushID[m]] = f /\ \A i \in Ids : i # flushID[m] => mess'[i] = mess[i]
      /\ flushID' = flushID /\ currentID' = currentID
    BY <1>2
<1>4. f # NoFile => f.mail = m
    BY DEF Whole
<1>5. \A i \in Ids : i # flushID[m] /\ mess[i] # NoFile => mess[i].mail \in Mails \ {m}
    <2>1. \A i \in Ids : mess[i] # NoFile => mess[i].mail \in Mails /\ flushID[mess[i].mail] = i
        BY <1>1, <1>2, FileFacts DEF Drawn
    <2> QED BY <2>1
<1>6. Drawn'
    <2>1. Begun' = Begun
        BY <1>3 DEF Begun
    <2>2. ASSUME NEW n \in Mails
          PROVE  IF session'[n] = "new" THEN flushID[n] = 0 ELSE flushID[n] \in Ids
        BY <1>1, <1>2, <1>3 DEF Drawn
    <2>3. ASSUME NEW i \in Ids, mess'[i] # NoFile
          PROVE  flushID[mess'[i].mail] = i
        BY <1>1, <1>3, <1>4, <2>3 DEF Drawn
    <2>4. ASSUME NEW i \in Ids, mess'[i].full
          PROVE  i <= currentID /\ session'[mess'[i].mail] \in Done
        <3>1. CASE i = flushID[m]
            BY <1>2, <1>3, <1>4, <2>4, <3>1 DEF Done, NoFile
        <3>2. CASE i # flushID[m]
            <4>1. mess[i].full /\ mess[i] # NoFile /\ mess'[i] = mess[i]
                BY <1>2, <1>3, <2>4, <3>2, FileFacts
            <4> QED BY <1>1, <1>3, <1>5, <3>2, <4>1 DEF Drawn
        <3> QED BY <3>1, <3>2
    <2>5. ASSUME NEW n \in Mails, session'[n] = "open"
          PROVE  flushID[n] <= currentID /\ mess'[flushID[n]] = [mail |-> n, full |-> FALSE]
        <3>1. n # m /\ session[n] = "open"
            BY <1>3, <2>5
        <3>2. /\ flushID[n] <= currentID /\ mess[flushID[n]] = [mail |-> n, full |-> FALSE]
              /\ flushID[n] \in Ids
            BY <1>1, <3>1 DEF Drawn
        <3>3. flushID[n] # flushID[m]
            BY <1>2, <3>1, <3>2
        <3> QED BY <1>3, <3>2, <3>3
    <2>6. currentID <= Cardinality(Begun)
        BY <1>1 DEF Drawn
    <2> QED BY <1>3, <2>1, <2>2, <2>3, <2>4, <2>5, <2>6 DEF Drawn
<1>7. ASSUME NEW n \in Mails, session[n] \in Done
      PROVE  /\ session'[n] \in Done
             /\ mess'[flushID[n]] = Whole(n) <=> mess[flushID[n]] = Whole(n)
    <2>1. n # m /\ session'[n] = session[n] /\ flushID[n] \in Ids
        BY <1>1, <1>3, <1>7 DEF Done, Drawn
    <2>2. CASE flushID[n] = flushID[m]
        BY <1>2, <1>3, <1>4, <1>7, <2>1, <2>2, QueueFacts DEF Whole, NoFile
    <2>3. CASE flushID[n] # flushID[m]
        BY <1>3, <1>7, <2>1, <2>3
    <2> QED BY <2>2, <2>3
<1>8. \A n \in Mails : session[n] # "new" => flushID'[n] = flushID[n]
    BY <1>3
<1>9. \A n \in Mails : session[n] \notin Done /\ session'[n] \in Done =>
               n \in unchecked' \/ mess'[flushID'[n]] = Whole(n)
    BY <1>3 DEF Done
<1>10. LoaderSound' /\ Known' /\ Single' /\ Present' /\ Counts' /\ Safe'
    BY <1>7, <1>8, <1>9, FrontendStep
<1> QED
    BY <1>6, <1>10

LEMMA RemoveMessKeeps ==
    ASSUME IndInv, NEW m \in Mails, RemoveMess(m)
    PROVE  Drawn' /\ LoaderSound' /\ Known' /\ Single' /\ Present' /\ Counts' /\ Safe'
<1> DEFINE f == NoFile
           s == "failed"
<1>1. /\ session[m] = "open" /\ session' = [session EXCEPT ![m] = s]
      /\ mess' = [mess EXCEPT ![flushID[m]] = f] /\ ~f.full
      /\ UNCHANGED <<flushID, currentID, memory, handled, saved, cut, restarts, unchecked>>
    BY DEF RemoveMess, NoFile, history
<1>4. left' = left \/ ~left'.full
    <2>1. left' = left \/ left' = mess[flushID[m]]
        BY DEF RemoveMess, Unlinked
    <2>2. mess[flushID[m]] = [mail |-> m, full |-> FALSE]
        BY <1>1 DEF IndInv, Drawn
    <2> QED BY <2>1, <2>2
<1>2. s \in {"failed", "saved"} /\ f \in {NoFile, [mail |-> m, full |-> FALSE], Whole(m)}
    OBVIOUS
<1>3. s # "saved" /\ unchecked \subseteq unchecked'
    BY <1>1
<1> HIDE DEF f, s
<1> QED
    BY <1>1, <1>2, <1>3, <1>4, SessionEnds

LEMMA SaveMessKeeps ==
    ASSUME IndInv, NEW m \in Mails, SaveMess(m)
    PROVE  Drawn' /\ LoaderSound' /\ Known' /\ Single' /\ Present' /\ Counts' /\ Safe'
<1> DEFINE s == "saved"
<1>1. PICK full \in BOOLEAN :
          /\ mess' = [mess EXCEPT ![flushID[m]].full = full]
          /\ unchecked' = IF full THEN unchecked ELSE unchecked \cup {m}
    BY DEF SaveMess, history
<1> DEFINE f == [mail |-> m, full |-> full]
<1>2. flushID[m] \in Ids /\ mess[flushID[m]] = [mail |-> m, full |-> FALSE] /\ mess \in [Ids -> Files]
    BY DEF IndInv, Typed, Drawn, SaveMess, history
<1>3. mess' = [mess EXCEPT ![flushID[m]] = f]
    <2>1. [mess[flushID[m]] EXCEPT !.full = full] = f
        BY <1>2
    <2>2. mess' = [mess EXCEPT ![flushID[m]] = [mess[flushID[m]] EXCEPT !.full = full]]
        BY <1>1, <1>2, Zenon
    <2> QED BY <2>1, <2>2, Zenon
<1>4. /\ session[m] = "open" /\ session' = [session EXCEPT ![m] = s]
      /\ UNCHANGED <<flushID, currentID, memory, left, handled, saved, cut, restarts>>
    BY DEF SaveMess, history
<1>5. /\ s \in {"failed", "saved"} /\ f \in {NoFile, [mail |-> m, full |-> FALSE], Whole(m)}
      /\ f = Whole(m) \/ m \in unchecked'
    BY <1>1 DEF Whole
<1>6. unchecked \subseteq unchecked' /\ s = "saved"
    BY <1>1
<1> HIDE DEF f, s
<1> QED
    BY <1>3, <1>4, <1>5, <1>6, SessionEnds

LEMMA AcknowledgeKeeps ==
    ASSUME IndInv, NEW m \in Mails, Acknowledge(m)
    PROVE  Drawn' /\ LoaderSound' /\ Known' /\ Single' /\ Present' /\ Counts' /\ Safe'
<1>1. Typed /\ Drawn
    BY DEF IndInv
<1>2. /\ session \in [Mails -> {"new", "open", "failed"} \cup Done] /\ session[m] = "saved"
      /\ session'[m] = "acked" /\ \A n \in Mails : n # m => session'[n] = session[n]
      /\ UNCHANGED <<flushID, currentID, mess, memory, left, handled, saved, cut, unchecked, restarts>>
    BY <1>1 DEF Typed, Acknowledge, history
<1>3. Drawn'
    <2>1. Begun' = Begun
        BY <1>2 DEF Begun
    <2>2. \A i \in Ids : mess[i].full => session'[mess[i].mail] \in Done
        <3>1. \A i \in Ids : mess[i].full => mess[i].mail \in Mails
            BY <1>1, FileFacts DEF Typed
        <3> QED BY <1>1, <1>2, <3>1 DEF Drawn, Done
    <2>3. \A n \in Mails : session'[n] = "open" => session[n] = "open"
        BY <1>2
    <2>4. \A n \in Mails : session'[n] = "new" <=> session[n] = "new"
        BY <1>2
    <2> QED BY <1>1, <1>2, <2>1, <2>2, <2>3, <2>4 DEF Drawn
<1>4. \A n \in Mails : session[n] \in Done <=> session'[n] \in Done
    BY <1>2 DEF Done
<1>5. LoaderSound' /\ Known' /\ Single' /\ Present' /\ Counts' /\ Safe'
    BY <1>2, <1>4, FrontendStep
<1> QED
    BY <1>3, <1>5

\* After a crash the counter starts from the largest ID of a complete file.
LEMMA SmtpRestartKeeps ==
    ASSUME Scope, IndInv, SmtpRestart
    PROVE  Drawn' /\ LoaderSound' /\ Known' /\ Single' /\ Present' /\ Counts' /\ Safe'
<1>1. Typed /\ Drawn
    BY DEF IndInv
<1>2. PICK gone \in SUBSET {i \in Ids : mess[i] # NoFile /\ ~mess[i].full} :
          mess' = [i \in Ids |-> IF i \in gone THEN NoFile ELSE mess[i]] /\ Unlinked(gone)
    BY DEF SmtpRestart, history
<1>3. /\ session \in [Mails -> {"new", "open", "failed"} \cup Done] /\ mess \in [Ids -> Files]
      /\ currentID \in 0..MaxId /\ flushID \in [Mails -> 0..MaxId]
      /\ \A n \in Mails : /\ session'[n] # "open"
                          /\ session[n] = "new" <=> session'[n] = "new"
                          /\ session[n] \in Done <=> session'[n] \in Done
    <2>1. session \in [Mails -> {"new", "open", "failed"} \cup Done]
        BY <1>1 DEF Typed
    <2>2. ASSUME NEW n \in Mails
          PROVE  /\ session'[n] # "open"
                 /\ session[n] = "new" <=> session'[n] = "new"
                 /\ session[n] \in Done <=> session'[n] \in Done
        <3>1. session'[n] = CASE session[n] = "open" -> "failed"
                              [] session[n] = "saved" -> "unanswered"
                              [] OTHER -> session[n]
            BY DEF SmtpRestart, history
        <3>2. CASE session[n] = "open"
            BY <3>1, <3>2 DEF Done
        <3>3. CASE session[n] = "saved"
            BY <3>1, <3>3 DEF Done
        <3>4. CASE session[n] # "open" /\ session[n] # "saved"
            BY <3>1, <3>4 DEF Done
        <3> QED BY <3>2, <3>3, <3>4
    <2> QED BY <1>1, <2>1, <2>2 DEF Typed
<1>10. left' = left \/ ~left'.full
    BY <1>2 DEF Unlinked
<1>4. UNCHANGED <<flushID, memory, handled, saved, cut, unchecked>> /\ restarts'.delivery = restarts.delivery
    BY <1>1, RestartCounted DEF SmtpRestart, history
<1>5. \A i \in Ids : /\ mess'[i].full => mess'[i] = mess[i]
                     /\ mess[i].full => mess'[i] = mess[i]
                     /\ mess'[i] # NoFile => mess'[i] = mess[i]
    BY <1>2 DEF NoFile
<1>6. currentID' <= currentID /\ \A i \in Ids : mess[i].full => i <= currentID'
    <2> DEFINE full == {i \in Ids : mess[i].full}
    <2>0. currentID' = MaxFullID
        BY DEF SmtpRestart, history
    <2>1. CASE full = {}
        BY <1>3, <2>0, <2>1, QueueFacts DEF MaxFullID
    <2>2. CASE full # {}
        <3>1. \E i \in full : \A j \in full : i >= j
            BY <2>2, LargestId
        <3>2. Max(full) \in full /\ \A j \in full : Max(full) >= j
            BY <3>1 DEF Max
        <3>3. currentID' \in full /\ \A j \in full : currentID' >= j
            BY <2>0, <2>2, <3>2 DEF MaxFullID
        <3>4. currentID' <= currentID
            BY <1>1, <3>3 DEF Drawn
        <3>5. full \subseteq Nat
            BY QueueFacts
        <3> QED BY <3>3, <3>4, <3>5
    <2> QED BY <2>1, <2>2
<1>7. Drawn'
    <2>1. Begun' = Begun
        BY <1>3 DEF Begun
    <2>2. currentID' <= Cardinality(Begun)
        <3>1. Begun \in SUBSET Mails
            BY DEF Begun
        <3>2. Cardinality(Begun) \in Nat
            BY <3>1, FS_Subset, FS_CardinalityType DEF Scope
        <3>3. currentID' \in Int
            BY MaxFullIsId DEF SmtpRestart, history
        <3> QED BY <1>1, <1>3, <1>6, <3>2, <3>3 DEF Drawn
    <2>3. \A i \in Ids : mess'[i].full => i <= currentID' /\ session'[mess'[i].mail] \in Done
        <3>1. \A i \in Ids : mess[i].full => mess[i].mail \in Mails /\ session[mess[i].mail] \in Done
            BY <1>1, <1>3, FileFacts DEF Drawn
        <3> QED BY <1>3, <1>5, <1>6, <3>1
    <2>4. \A i \in Ids : mess'[i] # NoFile => flushID[mess'[i].mail] = i
        BY <1>1, <1>5 DEF Drawn
    <2>5. \A n \in Mails : IF session'[n] = "new" THEN flushID[n] = 0 ELSE flushID[n] \in Ids
        BY <1>1, <1>3 DEF Drawn
    <2> QED BY <1>3, <1>4, <2>1, <2>2, <2>3, <2>4, <2>5 DEF Drawn
<1>8. ASSUME NEW n \in Mails, session[n] \in Done
      PROVE  mess'[flushID[n]] = Whole(n) <=> mess[flushID[n]] = Whole(n)
    <2>1. flushID[n] \in Ids
        BY <1>1, <1>8 DEF Drawn, Done
    <2>2. mess'[flushID[n]] = Whole(n) => mess[flushID[n]] = Whole(n)
        BY <1>5, <2>1 DEF Whole
    <2>3. mess[flushID[n]] = Whole(n) => mess'[flushID[n]] = Whole(n)
        BY <1>5, <2>1 DEF Whole
    <2> QED BY <2>2, <2>3
<1>9. LoaderSound' /\ Known' /\ Single' /\ Present' /\ Counts' /\ Safe'
    BY <1>3, <1>4, <1>8, <1>10, FrontendStep
<1> QED
    BY <1>7, <1>9

-----------------------------------------------------------------------------
(***************************************************************************)
(* The loader                                                              *)
(***************************************************************************)

\* The loader moves on its own: nothing is loaded or removed.
LEMMA LoaderStep ==
    ASSUME IndInv, LoaderReads, UNCHANGED hash, loader.pc # "emplace", LoaderSound'
    PROVE  Drawn' /\ Known' /\ Single' /\ Present' /\ Counts' /\ Safe'
<1> USE DEF LoaderOnly, smtp, LoaderReads, history
<1>1. Drawn'
    BY DEF IndInv, Drawn, Begun
<1>2. Known'
    BY DEF IndInv, Known
<1>3. Single'
    BY DEF IndInv, Single, InHash
<1>4. Present'
    BY DEF IndInv, Present, Whole
<1>5. Counts'
    BY DEF IndInv, Counts, Removing, Whole
<1>6. Safe'
    BY DEF IndInv, Safe, Taken, Broken, Whole
<1> QED
    BY <1>1, <1>2, <1>3, <1>4, <1>5, <1>6

\* The loader has no file in its hands.
LEMMA LoaderEmpty ==
    ASSUME loader'.pc \in {"receive", "gate", "scan", "lookup"}
    PROVE  LoaderSound'
    BY DEF LoaderSound, LoaderHas

\* There is room in g_mess_hash for every mail of the run.
LEMMA HashHasRoom ==
    ASSUME Scope, IndInv, loader.pc = "emplace", loader.id \notin hash
    PROVE  Cardinality(hash) < 2 * Units + 1
<1> DEFINE T == {flushID[m] : m \in Mails}
<1>1. flushID \in Surjection(Mails, T)
    BY DEF IndInv, Typed, Surjection
<1>2. IsFiniteSet(T) /\ Cardinality(T) <= Cardinality(Mails)
    BY <1>1, FS_Surjection DEF Scope
<1>3. hash \subseteq T
    BY DEF IndInv, Known
<1>4. loader.id \in T
    <2>1. /\ loader.file \in Files /\ loader.file # NoFile
          /\ flushID[loader.file.mail] = loader.id
        BY DEF IndInv, Typed, LoaderSound, LoaderHas
    <2>2. loader.file.mail \in Mails
        BY <2>1, FileFacts
    <2> QED BY <2>1, <2>2
<1> DEFINE H == hash \cup {loader.id}
<1>5. IsFiniteSet(hash)
    BY <1>2, <1>3, FS_Subset
<1>6. Cardinality(H) = Cardinality(hash) + 1
    BY <1>5, FS_AddElement
<1>7. H \in SUBSET T
    BY <1>3, <1>4
<1> HIDE DEF T, H
<1>8. Cardinality(H) <= Cardinality(T)
    BY <1>2, <1>7, FS_Subset
<1>9. Cardinality(hash) \in Nat /\ Cardinality(T) \in Nat /\ Cardinality(Mails) \in Nat
    BY <1>2, <1>5, FS_CardinalityType DEF Scope
<1> QED
    BY <1>2, <1>6, <1>8, <1>9, QueueFacts DEF Scope

\* A message goes on the used list under an ID that nobody has loaded.
LEMMA PutToUsedKeeps ==
    ASSUME IndInv, PutToUsed
    PROVE  Drawn' /\ LoaderSound' /\ Known' /\ Single' /\ Present' /\ Counts' /\ Safe'
<1>0. Typed /\ Drawn /\ LoaderSound /\ Known /\ Single /\ Present /\ Counts /\ Safe
    BY DEF IndInv
<1> DEFINE n == Len(used)
           new == [id |-> loader.id, mail |-> loader.file.mail,
                   size |-> loader.size, whole |-> loader.file.full]
<1>1. /\ loader.pc = "used" /\ used' = Append(used, new)
      /\ UNCHANGED <<smtp, mess, hash, handled, saved, unchecked, restarts>>
      /\ LoaderGoes("emplace")
    BY DEF PutToUsed, history
<1>2. /\ loader'.pc = "emplace" /\ loader'.id = loader.id /\ loader'.file = loader.file
      /\ loader.file # NoFile /\ flushID[loader.file.mail] = loader.id
      /\ session[loader.file.mail] \in Done /\ loader.id \notin hash
      /\ mess[loader.id] = Whole(loader.file.mail)
    <2>1. loader'.pc = "emplace" /\ loader'.id = loader.id /\ loader'.file = loader.file
        BY <1>0, <1>1, LoaderMoves
    <2> QED BY <1>0, <1>1, <2>1 DEF LoaderSound, LoaderHas
<1>3. /\ n \in Nat /\ Len(used') = n + 1 /\ used'[n + 1] = new
      /\ \A i \in 1..n : used'[i] = used[i]
    BY <1>0, <1>1 DEF Typed
<1>4. \A w \in Workers : worker'[w] = worker[w] \/ worker'[w] = Idle
    <2>1. CASE worker' = worker
        BY <2>1
    <2>2. CASE \E w \in Workers : worker' = [worker EXCEPT ![w] = Idle]
        BY <1>0, <2>2 DEF Typed
    <2> QED BY <2>1, <2>2 DEF PutToUsed, WakeOne, history
<1>5. \A w \in Workers : worker'[w].pc \in WorkStates => worker'[w] = worker[w]
    BY <1>4 DEF Idle, WorkStates
<1>6. \A w \in Workers : worker[w].pc \in WorkStates => worker'[w] = worker[w]
    <2>1. CASE worker' = worker
        BY <2>1
    <2>2. CASE \E w \in Workers : worker[w] = Parked /\ worker' = [worker EXCEPT ![w] = Idle]
        BY <1>0, <2>2 DEF Typed, Parked, WorkStates
    <2> QED BY <2>1, <2>2 DEF PutToUsed, WakeOne, history
<1>7. \A i : i \in 1..(n+1) <=> i \in 1..n \/ i = n + 1
    BY <1>3
<1>8. \A i : InHash(i) => i \in hash /\ i # loader.id
    BY <1>1, <1>2 DEF InHash
<1>9. \A pc \in HashStates \cup FileStates : pc \in WorkStates
    BY DEF HashStates, FileStates, WorkStates
<1>10. Drawn'
    BY <1>0, <1>1 DEF Drawn, Begun, smtp, history
<1>11. LoaderSound'
    BY <1>1, <1>2 DEF LoaderSound, smtp, LoaderHas, history
<1>12. Known'
    <2>1. \A i \in 1..(n+1) : session[used'[i].mail] \in Done /\ flushID[used'[i].mail] = used'[i].id
        BY <1>0, <1>2, <1>3, <1>7 DEF Known
    <2>2. \A w \in Workers : worker'[w].pc \in WorkStates =>
             session[worker'[w].msg.mail] \in Done /\ flushID[worker'[w].msg.mail] = worker'[w].msg.id
        BY <1>0, <1>5 DEF Known
    <2> QED BY <1>0, <1>1, <1>3, <2>1, <2>2 DEF Known, smtp, history
<1>13. Single'
    <2>0. \A i \in 1..n : InHash(used[i].id)
        BY <1>0 DEF Single
    <2>1. \A i \in 1..n : used[i].id \in hash /\ used[i].id # loader.id
        BY <1>8, <2>0
    <2>2. \A w \in Workers : worker'[w].pc \in HashStates =>
              /\ worker'[w] = worker[w] /\ worker[w].pc \in HashStates /\ InHash(worker[w].msg.id)
        BY <1>0, <1>5, <1>9 DEF Single
    <2>3. \A w \in Workers : worker'[w].pc \in HashStates =>
              worker'[w] = worker[w] /\ worker[w].msg.id \in hash /\ worker[w].msg.id # loader.id
        BY <1>8, <2>2
    <2>4. \A i, j \in 1..(n+1) : used'[i].id = used'[j].id => i = j
        BY <1>0, <1>3, <1>7, <2>1 DEF Single
    <2>5. \A w, v \in Workers :
              worker'[w].pc \in HashStates /\ worker'[v].pc \in HashStates
              /\ worker'[w].msg.id = worker'[v].msg.id => w = v
        BY <1>0, <2>2 DEF Single
    <2>6. \A i \in 1..(n+1), w \in Workers :
              worker'[w].pc \in HashStates => used'[i].id # worker'[w].msg.id
        <3>1. \A i \in 1..n, w \in Workers :
              worker'[w].pc \in HashStates => used[i].id # worker'[w].msg.id
            BY <1>0, <2>2 DEF Single
        <3> QED BY <1>3, <1>7, <2>3, <3>1
    <2>7. \A i \in 1..(n+1) : used'[i].id \in hash' \/ (loader'.pc = "emplace" /\ loader'.id = used'[i].id)
        BY <1>1, <1>2, <1>3, <1>7, <2>1
    <2>8. \A w \in Workers : worker'[w].pc \in HashStates => worker'[w].msg.id \in hash'
        BY <1>1, <2>3
    <2> QED BY <1>3, <2>4, <2>5, <2>6, <2>7, <2>8 DEF Single, InHash
<1>14. Present'
    <2>1. \A i \in 1..(n+1) : mess[used'[i].id] = Whole(used'[i].mail)
        BY <1>0, <1>2, <1>3, <1>7 DEF Present
    <2>2. \A w \in Workers : worker'[w].pc \in FileStates =>
             mess[worker'[w].msg.id] = Whole(worker'[w].msg.mail)
        BY <1>0, <1>5, <1>9 DEF Present
    <2> QED BY <1>1, <1>3, <2>1, <2>2 DEF Present, Whole
<1>15. Counts'
    <2>1. \A m \in Mails : Removing(m) => Removing(m)'
        <3> SUFFICES ASSUME NEW m \in Mails, NEW w \in Workers,
                            worker[w].pc = "remove", worker[w].msg.mail = m
                     PROVE  worker'[w].pc = "remove" /\ worker'[w].msg.mail = m
            BY DEF Removing
        <3> QED BY <1>6 DEF WorkStates
    <2> QED BY <1>0, <1>1, <2>1 DEF Counts, Whole, smtp, history
<1>16. Safe'
    <2>1. \A w \in Workers : worker'[w].pc = "remove" =>
           Taken(worker'[w].msg.mail) \/ worker'[w].msg.mail \in unchecked
        BY <1>0, <1>5 DEF Safe, WorkStates
    <2> QED BY <1>0, <1>1, <2>1 DEF Safe, Taken, Broken, Whole, smtp, history
<1> QED
    BY <1>10, <1>11, <1>12, <1>13, <1>14, <1>15, <1>16

\* The ID enters g_mess_hash.
LEMMA EmplaceKeeps ==
    ASSUME Scope, IndInv, Emplace
    PROVE  Drawn' /\ LoaderSound' /\ Known' /\ Single' /\ Present' /\ Counts' /\ Safe'
<1> USE DEF LoaderOnly, smtp, LoaderReads, history
<1>0. Typed /\ Drawn /\ LoaderSound /\ Known /\ Single /\ Present /\ Counts /\ Safe
    BY DEF IndInv
<1>1. loader.pc = "emplace" /\ LoaderReturns /\ LoaderOnly
    BY DEF Emplace
<1>2. hash' = hash \cup {loader.id}
    <2>1. CASE loader.id \in hash
        BY <2>1 DEF Emplace
    <2>2. CASE loader.id \notin hash
        <3>1. Cardinality(hash) < 2 * Units + 1
            BY <1>1, <2>2, HashHasRoom
        <3>2. IsFiniteSet(hash)
            <4>1. IsFiniteSet(Ids)
                BY FS_Interval, QueueFacts DEF Ids
            <4>2. hash \in SUBSET Ids
                BY <1>0 DEF Typed
            <4> QED BY <4>1, <4>2, FS_Subset
        <3>3. Cardinality(hash) \in Nat
            BY <3>2, FS_CardinalityType
        <3>4. ~(Cardinality(hash) >= 2 * Units + 1)
            BY <3>1, <3>3, QueueFacts
        <3> QED BY <3>4 DEF Emplace
    <2> QED BY <2>1, <2>2
<1>3. loader'.pc \in {"receive", "scan"}
    BY <1>0, <1>1, LoaderMoves
<1>4. Drawn'
    BY <1>0, <1>1 DEF Drawn, Begun
<1>5. LoaderSound'
    BY <1>3, LoaderEmpty
<1>6. Known'
    <2>1. \E m \in Mails : flushID[m] = loader.id
        <3>1. /\ loader.file \in Files /\ loader.file # NoFile
              /\ flushID[loader.file.mail] = loader.id
            BY <1>0, <1>1 DEF Typed, LoaderSound, LoaderHas
        <3> QED BY <3>1, FileFacts
    <2> QED BY <1>0, <1>1, <1>2, <2>1 DEF Known
<1>7. Single'
    <2>1. \A i : InHash(i) => i \in hash'
        BY <1>2 DEF InHash
    <2>2. \A i \in 1..Len(used) : used[i].id \in hash'
        BY <1>0, <2>1 DEF Single
    <2>3. \A w \in Workers : worker[w].pc \in HashStates => worker[w].msg.id \in hash'
        BY <1>0, <2>1 DEF Single
    <2> QED BY <1>0, <1>1, <2>2, <2>3 DEF Single, InHash
<1>8. Present' /\ Counts' /\ Safe'
    BY <1>0, <1>1 DEF Present, Counts, Removing, Safe, Taken, Broken, Whole
<1> QED
    BY <1>4, <1>5, <1>6, <1>7, <1>8

LEMMA LoaderKeeps ==
    ASSUME Scope, IndInv, Loader
    PROVE  Drawn' /\ LoaderSound' /\ Known' /\ Single' /\ Present' /\ Counts' /\ Safe'
<1>0. Typed /\ Drawn /\ LoaderSound
    BY DEF IndInv
<1>r. LoaderReturns => LoaderSound'
    BY <1>0, LoaderMoves, LoaderEmpty
<1>g. \A pc : LoaderGoes(pc) => loader'.pc = pc /\ loader'.id = loader.id /\ loader'.file = loader.file
    BY <1>0, LoaderMoves
<1>1. CASE Receive
    <2>1. loader'.pc \in {"gate", "lookup"}
        BY <1>1, <1>g DEF Receive, LoaderIdle
    <2> QED BY <1>1, <2>1, LoaderEmpty, LoaderStep DEF Receive, LoaderOnly
<1>2. CASE Gate
    <2>1. loader'.pc \in {"receive", "scan"}
        BY <1>2, <1>g DEF Gate
    <2> QED BY <1>2, <2>1, LoaderEmpty, LoaderStep DEF Gate, LoaderOnly
<1>3. CASE ScanEntry
    <2>1. loader'.pc \in {"scan", "lookup"}
        BY <1>3 DEF ScanEntry, LoaderIdle
    <2> QED BY <1>3, <2>1, LoaderEmpty, LoaderStep DEF ScanEntry, LoaderOnly
<1>4. CASE ScanEnds
    <2>1. loader'.pc = "receive"
        BY <1>4 DEF ScanEnds, LoaderIdle
    <2> QED BY <1>4, <2>1, LoaderEmpty, LoaderStep DEF ScanEnds, LoaderOnly
<1>5. CASE Lookup
    <2>1. LoaderSound'
        <3>1. CASE loader.id \in hash
            BY <1>5, <1>r, <3>1 DEF Lookup
        <3>2. CASE loader.id \notin hash
            <4>1. loader'.pc = "open" /\ loader'.id \notin hash /\ hash' = hash
                BY <1>5, <1>g, <3>2 DEF Lookup
            <4> QED BY <4>1 DEF LoaderSound, LoaderHas
        <3> QED BY <3>1, <3>2
    <2> QED BY <1>5, <2>1, LoaderStep DEF Lookup, LoaderOnly
<1>6. CASE Reserve
    <2>1. LoaderSound'
        <3> DEFINE file == mess[loader.id]
        <3>1. CASE LoaderReturns
            BY <1>r, <3>1
        <3>2. ASSUME NEW size, file # NoFile, left' = NoFile,
                     loader' = [loader EXCEPT !.pc = "node", !.file = file, !.size = size]
              PROVE  LoaderSound'
            <4>1. loader.id \in Ids /\ file \in Files /\ loader.id \notin hash
                BY <1>0, <1>6 DEF Reserve, Typed, LoaderIds, LoaderSound, LoaderReads
            <4>2. loader'.pc = "node" /\ loader'.id = loader.id /\ loader'.file = file
                BY <1>0, <3>2 DEF Typed
            <4>3. flushID[file.mail] = loader.id /\ (file.full => session[file.mail] \in Done)
                BY <1>0, <3>2, <4>1 DEF Drawn
            <4>4. file.full => file = Whole(file.mail)
                BY <4>1, FileFacts
            <4>5. UNCHANGED <<session, flushID, mess, hash>> /\ ~left'.full
                BY <1>6, <3>2 DEF Reserve, smtp, LoaderReads, NoFile
            <4>6. file # NoFile
                BY <3>2
            <4> HIDE DEF file
            <4>7. loader.id \notin hash /\ file = mess[loader.id]
                BY <4>1 DEF file
            <4> QED BY <4>2, <4>3, <4>4, <4>5, <4>6, <4>7 DEF LoaderSound, LoaderHas, Whole, NoFile
        <3> QED BY <1>0, <1>6, <3>1, <3>2, ReserveSize
    <2>2. loader.pc = "open" /\ LoaderReads /\ hash' = hash
        BY <1>6 DEF Reserve
    <2> QED BY <2>1, <2>2, LoaderStep
<1>7. CASE TakeNode
    <2>1. LoaderSound'
        <3>1. CASE LoaderReturns
            BY <1>r, <3>1
        <3>2. CASE LoaderGoes("read")
            <4>1. loader.pc = "node" /\ UNCHANGED <<session, flushID, mess, hash, left>>
                BY <1>7 DEF TakeNode, LoaderOnly, smtp, LoaderReads, history
            <4>2. loader'.pc = "read" /\ loader'.id = loader.id /\ loader'.file = loader.file
                BY <1>g, <3>2
            <4> QED BY <1>0, <4>1, <4>2 DEF LoaderSound, LoaderHas, Whole
        <3> QED BY <1>7, <3>1, <3>2 DEF TakeNode
    <2> QED BY <1>7, <2>1, LoaderStep DEF TakeNode, LoaderOnly
<1>8. CASE ReadMess
    <2>1. LoaderSound'
        <3>1. loader.pc = "read" /\ UNCHANGED <<session, flushID, mess, hash>>
            BY <1>8 DEF ReadMess, LoaderOnly, smtp, LoaderReads
        <3>2. loader.id \in Ids /\ mess[loader.id] \in Files
            BY <1>0, <3>1 DEF Typed, LoaderIds, LoaderHas
        <3>3. Opened = mess[loader.id] /\ mess[loader.id].full
            BY <1>0, <1>8, <3>1 DEF ReadMess, HeaderNow, Opened, LoaderSound
        <3> DEFINE m == mess[loader.id].mail
        <3>4. /\ mess[loader.id] = Whole(m) /\ flushID[m] = loader.id /\ session[m] \in Done
              /\ m \in Mails
            BY <1>0, <3>2, <3>3, FileFacts DEF Drawn
        <3>5. /\ loader'.pc = "used" /\ loader'.id = loader.id
              /\ loader'.file = [loader.file EXCEPT !.mail = m]
            BY <1>0, <1>8, <3>3 DEF ReadMess, Typed
        <3>6. loader'.file.mail = m /\ loader'.file # NoFile
            <4>1. loader.file \in Files
                BY <1>0 DEF Typed
            <4>2. [loader.file EXCEPT !.mail = m] = [mail |-> m, full |-> loader.file.full]
                BY <4>1 DEF Files, NoFile
            <4> QED BY <3>4, <3>5, <4>2, QueueFacts DEF NoFile
        <3> HIDE DEF m
        <3>7. loader.id \notin hash
            BY <1>0, <3>1 DEF LoaderSound
        <3> QED BY <3>1, <3>4, <3>5, <3>6, <3>7 DEF LoaderSound, LoaderHas, Whole
    <2> QED BY <1>8, <2>1, LoaderStep DEF ReadMess, LoaderOnly
<1>9. CASE GiveUp
    BY <1>9, <1>r, LoaderStep DEF GiveUp, LoaderOnly
<1>10. CASE PutToUsed
    BY <1>10, PutToUsedKeeps
<1>11. CASE Emplace
    BY <1>11, EmplaceKeeps
<1> QED
    BY <1>1, <1>2, <1>3, <1>4, <1>5, <1>6, <1>7, <1>8, <1>9, <1>10, <1>11 DEF Loader

-----------------------------------------------------------------------------
(***************************************************************************)
(* The transport threads                                                   *)
(***************************************************************************)

\* A thread goes on with its message, or without one.
LEMMA ThreadStep ==
    ASSUME IndInv, NEW w \in Workers, UNCHANGED <<smtp, mess, used, hash, loader, left>>,
           \A v \in Workers \ {w} : worker'[v] = worker[v],
           worker'[w].pc \in WorkStates =>
               worker[w].pc \in WorkStates /\ worker'[w].msg = worker[w].msg,
           worker'[w].pc \in HashStates => worker[w].pc \in HashStates,
           worker'[w].pc \in FileStates => worker[w].pc \in FileStates
    PROVE  Drawn' /\ LoaderSound' /\ Known' /\ Single' /\ Present'
<1> USE DEF smtp, history
<1>0. Drawn /\ LoaderSound /\ Known /\ Single /\ Present
    BY DEF IndInv
<1>1. \A v \in Workers :
          /\ worker'[v].pc \in WorkStates =>
                 worker[v].pc \in WorkStates /\ worker'[v].msg = worker[v].msg
          /\ worker'[v].pc \in HashStates =>
                 worker[v].pc \in HashStates /\ worker'[v].msg = worker[v].msg
          /\ worker'[v].pc \in FileStates =>
                 worker[v].pc \in FileStates /\ worker'[v].msg = worker[v].msg
    BY DEF HashStates, FileStates, WorkStates
<1>2. Drawn'
    BY <1>0 DEF Drawn, Begun
<1>3. LoaderSound'
    BY <1>0 DEF LoaderSound, Whole
<1>4. Known'
    BY <1>0, <1>1 DEF Known
<1>5. Single'
    BY <1>0, <1>1 DEF Single, InHash
<1>6. Present'
    BY <1>0, <1>1 DEF Present, Whole
<1> QED
    BY <1>2, <1>3, <1>4, <1>5, <1>6

\* Nothing is handled, saved or given up, and no thread is removing or comes to it.
LEMMA QuietStep ==
    ASSUME IndInv, NEW w \in Workers,
           UNCHANGED <<smtp, mess, handled, saved, unchecked, restarts>>,
           \A v \in Workers \ {w} : worker'[v] = worker[v],
           worker[w].pc # "remove", worker'[w].pc # "remove"
    PROVE  Counts' /\ Safe'
<1> USE DEF smtp, history
<1>0. Counts /\ Safe
    BY DEF IndInv
<1>1. \A v \in Workers : worker'[v].pc = "remove" \/ worker[v].pc = "remove" => worker'[v] = worker[v]
    OBVIOUS
<1>2. \A m \in Mails : Removing(m) => Removing(m)'
    BY <1>1 DEF Removing
<1>3. Counts'
    BY <1>0, <1>2 DEF Counts, Whole
<1>4. Safe'
    BY <1>0, <1>1 DEF Safe, Taken, Broken, Whole
<1> QED
    BY <1>3, <1>4

\* The head of the used list goes to a thread.
LEMMA GetKeeps ==
    ASSUME IndInv, NEW w \in Workers, Get(w)
    PROVE  Drawn' /\ LoaderSound' /\ Known' /\ Single' /\ Present' /\ Counts' /\ Safe'
<1> USE DEF smtp, WorkerOnly, WorkerSpares, history
<1>0. Typed /\ Drawn /\ LoaderSound /\ Known /\ Single /\ Present
    BY DEF IndInv
<1>1. /\ worker[w].pc = "idle" /\ used # <<>> /\ used' = Tail(used)
      /\ UNCHANGED <<smtp, mess, hash, loader, left, handled, saved, unchecked, restarts>>
    BY DEF Get
<1>2. /\ worker'[w].pc = "process" /\ worker'[w].msg = used[1]
      /\ \A v \in Workers : v # w => worker'[v] = worker[v]
    BY <1>0 DEF Get, Typed
<1>3. /\ Len(used) \in Nat /\ Len(used) >= 1 /\ Len(used') = Len(used) - 1
      /\ \A i \in 1..Len(used') : i + 1 \in 1..Len(used) /\ used'[i] = used[i + 1]
    BY <1>0, <1>1 DEF Typed
<1>4. 1 \in 1..Len(used) /\ \A i \in 1..Len(used') : i + 1 # 1 /\ i \in Int
    BY <1>3
<1>5. Drawn' /\ LoaderSound'
    BY <1>0, <1>1 DEF Drawn, Begun, LoaderSound, Whole
<1>6. Known'
    <2>1. \A i \in 1..Len(used') :
             session[used'[i].mail] \in Done /\ flushID[used'[i].mail] = used'[i].id
        BY <1>0, <1>3 DEF Known
    <2>2. \A v \in Workers : worker'[v].pc \in WorkStates =>
             session[worker'[v].msg.mail] \in Done /\ flushID[worker'[v].msg.mail] = worker'[v].msg.id
        BY <1>0, <1>2, <1>4 DEF Known
    <2> QED BY <1>0, <1>1, <2>1, <2>2 DEF Known
<1>7. Single'
    <2>1. \A i, j \in 1..Len(used') : used'[i].id = used'[j].id => i = j
        <3>1. \A i, j \in 1..Len(used') : used'[i].id = used'[j].id => i + 1 = j + 1
            BY <1>0, <1>3, SMTT(30) DEF Single
        <3> QED BY <1>4, <3>1
    <2>2. \A i \in 1..Len(used') : used'[i].id # used[1].id
        BY <1>0, <1>3, <1>4 DEF Single
    <2>3. \A v \in Workers : v # w /\ worker[v].pc \in HashStates => used[1].id # worker[v].msg.id
        BY <1>0, <1>4 DEF Single
    <2>4. \A v, u \in Workers :
              worker'[v].pc \in HashStates /\ worker'[u].pc \in HashStates
              /\ worker'[v].msg.id = worker'[u].msg.id => v = u
        BY <1>0, <1>2, <2>3 DEF Single
    <2>5. \A i \in 1..Len(used'), v \in Workers :
              worker'[v].pc \in HashStates => used'[i].id # worker'[v].msg.id
        <3>1. \A i \in 1..Len(used'), v \in Workers : v # w =>
                 (worker'[v].pc \in HashStates => used'[i].id # worker'[v].msg.id)
            BY <1>0, <1>2, <1>3 DEF Single
        <3> QED BY <1>2, <2>2, <3>1
    <2>6. \A i \in 1..Len(used') : InHash(used'[i].id)
        BY <1>0, <1>3 DEF Single
    <2>7. \A v \in Workers : worker'[v].pc \in HashStates => InHash(worker'[v].msg.id)
        BY <1>0, <1>2, <1>4 DEF Single
    <2> QED BY <1>1, <2>1, <2>4, <2>5, <2>6, <2>7 DEF Single, InHash
<1>8. Present'
    <2>1. \A i \in 1..Len(used') : mess[used'[i].id] = Whole(used'[i].mail)
        BY <1>0, <1>3 DEF Present
    <2>2. \A v \in Workers : worker'[v].pc \in FileStates =>
             mess[worker'[v].msg.id] = Whole(worker'[v].msg.mail)
        BY <1>0, <1>2, <1>4 DEF Present
    <2> QED BY <1>1, <2>1, <2>2 DEF Present, Whole
<1>9. Counts' /\ Safe'
    BY <1>1, <1>2, QuietStep
<1> QED
    BY <1>5, <1>6, <1>7, <1>8, <1>9

\* The end of the hooks: the mail is accepted, saved, or its failure goes unnoticed, and
\* the thread turns to its file.
LEMMA ProcessedKeeps ==
    ASSUME IndInv, NEW w \in Workers, Accepted(w) \/ SaveForLater(w) \/ SaveFailsIgnored(w)
    PROVE  Drawn' /\ LoaderSound' /\ Known' /\ Single' /\ Present' /\ Counts' /\ Safe'
<1> USE DEF smtp, WorkerOnly, WorkerSpares, history
<1> DEFINE msg == worker[w].msg
<1>0. Typed /\ Drawn /\ Known /\ Single /\ Present /\ Counts /\ Safe
    BY DEF IndInv
<1>1. /\ worker[w].pc = "process" /\ WorkerGoes(w, "remove")
      /\ UNCHANGED <<smtp, mess, used, hash, loader, left, restarts>>
    BY DEF Accepted, SaveForLater, SaveFailsIgnored, history, WorkerSpares
<1>2. /\ worker'[w].pc = "remove" /\ worker'[w].msg = msg
      /\ \A v \in Workers \ {w} : worker'[v] = worker[v]
    BY <1>0, <1>1, WorkerMoves
<1>3. Drawn' /\ LoaderSound' /\ Known' /\ Single' /\ Present'
    BY <1>1, <1>2, ThreadStep DEF WorkStates, HashStates, FileStates
<1>4. /\ msg.mail \in Mails /\ msg.id \in Ids /\ session[msg.mail] \in Done
      /\ flushID[msg.mail] = msg.id /\ mess[msg.id] = Whole(msg.mail)
    BY <1>0, <1>1, LoadedTypes DEF Known, Present, WorkStates, FileStates
<1>5. handled[msg.mail] <= restarts.delivery
    <2>1. ~Removing(msg.mail)
        <3> SUFFICES ASSUME NEW v \in Workers, worker[v].pc = "remove", worker[v].msg.mail = msg.mail
                     PROVE  FALSE
            BY DEF Removing
        <3>1. worker[v].msg.id = msg.id
            BY <1>0, <1>4 DEF Known, WorkStates
        <3>2. v = w
            BY <1>0, <1>1, <3>1 DEF Single, HashStates
        <3> QED BY <1>1, <3>2
    <2> QED BY <1>0, <1>4, <2>1 DEF Counts
<1>6. /\ handled \in [Mails -> Nat] /\ restarts.delivery \in Nat
      /\ \A m \in Mails : m # msg.mail => handled'[m] = handled[m]
      /\ handled'[msg.mail] \in {handled[msg.mail], handled[msg.mail] + 1}
      /\ saved \subseteq saved' /\ unchecked \subseteq unchecked'
      /\ \A m \in Mails : m # msg.mail => (m \in saved' <=> m \in saved)
      /\ handled'[msg.mail] = handled[msg.mail] + 1 \/ msg.mail \in saved' \cup unchecked'
    <2>0. handled \in [Mails -> Nat] /\ restarts.delivery \in Nat
        BY <1>0 DEF Typed
    <2>1. CASE Accepted(w)
        BY <1>4, <2>0, <2>1 DEF Accepted, WorkerSpares
    <2>2. CASE SaveForLater(w)
        BY <2>0, <2>2 DEF SaveForLater
    <2>3. CASE SaveFailsIgnored(w)
        BY <2>0, <2>3 DEF SaveFailsIgnored, history
    <2> QED BY <2>1, <2>2, <2>3
<1>7. \A m \in Mails : Removing(m) => Removing(m)'
    BY <1>1, <1>2 DEF Removing
<1>8. \A m \in Mails : m = msg.mail => Removing(m)'
    BY <1>2 DEF Removing
<1>9. Counts'
    <2> SUFFICES ASSUME NEW m \in Mails
                 PROVE  \/ handled'[m] <= restarts.delivery
                        \/ /\ handled'[m] = restarts.delivery + 1 /\ session[m] \in Done
                           /\ mess[flushID[m]] # Whole(m) \/ Removing(m)'
        BY <1>1 DEF Counts, Whole
    <2>1. CASE m = msg.mail
        BY <1>4, <1>5, <1>6, <1>8, <2>1
    <2>2. CASE m # msg.mail
        BY <1>0, <1>6, <1>7, <2>2 DEF Counts
    <2> QED BY <2>1, <2>2
<1>10. \A m \in Mails : Taken(m) => Taken(m)'
    BY <1>6 DEF Taken
<1>11. Safe'
    <2>1. ASSUME NEW m \in Mails, session[m] \in Done
          PROVE  Taken(m)' \/ m \in unchecked' \/ mess[flushID[m]] = Whole(m)
        BY <1>0, <1>6, <1>10, <2>1 DEF Safe
    <2>2. ASSUME NEW v \in Workers, worker'[v].pc = "remove"
          PROVE  handled'[worker'[v].msg.mail] > 0 \/ worker'[v].msg.mail \in saved'
                 \/ worker'[v].msg.mail \in unchecked'
        <3>1. CASE v = w
            BY <1>2, <1>4, <1>6, <3>1
        <3>2. CASE v # w
            <4>1. worker'[v] = worker[v] /\ worker[v].pc = "remove"
                BY <1>2, <2>2, <3>2
            <4>2. Taken(worker[v].msg.mail) \/ worker[v].msg.mail \in unchecked
                BY <1>0, <4>1 DEF Safe
            <4>3. worker[v].msg.mail \in Mails
                BY <1>0, <4>1, LoadedTypes DEF WorkStates
            <4> QED BY <1>4, <1>6, <4>1, <4>2, <4>3 DEF Taken
        <3> QED BY <3>1, <3>2
    <2>3. ASSUME NEW m \in Mails, session[m] \in {"new", "open", "failed"}
          PROVE  ~Taken(m)'
        <3>1. m # msg.mail
            BY <1>4, <2>3 DEF Done
        <3> QED BY <1>0, <1>6, <2>3, <3>1 DEF Safe, Broken, Taken
    <2> QED BY <1>1, <2>1, <2>2, <2>3 DEF Safe, Taken, Broken, Whole
<1> QED
    BY <1>3, <1>9, <1>11

\* A thread removes its file, which no other thread and not the loader counts on.
LEMMA PutRemoveKeeps ==
    ASSUME IndInv, NEW w \in Workers, PutRemove(w)
    PROVE  Drawn' /\ LoaderSound' /\ Known' /\ Single' /\ Present' /\ Counts' /\ Safe'
<1> USE DEF smtp, WorkerOnly, WorkerSpares, history
<1> DEFINE msg == worker[w].msg
<1>0. Typed /\ Drawn /\ LoaderSound /\ Known /\ Single /\ Present /\ Counts /\ Safe
    BY DEF IndInv
<1>1. /\ worker[w].pc = "remove" /\ WorkerGoes(w, "erase") /\ mess' = [mess EXCEPT ![msg.id] = NoFile]
      /\ UNCHANGED <<smtp, used, hash, loader, handled, saved, unchecked, restarts>>
    BY DEF PutRemove, WorkerSpares
<1>2. /\ worker'[w].pc = "erase" /\ worker'[w].msg = msg
      /\ \A v \in Workers \ {w} : worker'[v] = worker[v]
    BY <1>0, <1>1, WorkerMoves
<1>3. /\ msg.mail \in Mails /\ msg.id \in Ids /\ session[msg.mail] \in Done
      /\ flushID[msg.mail] = msg.id /\ mess[msg.id] = Whole(msg.mail)
    BY <1>0, <1>1, LoadedTypes DEF Known, Present, WorkStates, FileStates
<1>4. mess'[msg.id] = NoFile /\ \A i \in Ids : i # msg.id => mess'[i] = mess[i]
    BY <1>0, <1>1, <1>3 DEF Typed
<1>5. Drawn'
    <2>1. \A i \in Ids : mess'[i] # NoFile => mess'[i] = mess[i]
        BY <1>4
    <2>2. \A i \in Ids : mess'[i].full => mess'[i] = mess[i]
        BY <1>4 DEF NoFile
    <2>3. ASSUME NEW m \in Mails, session[m] = "open"
          PROVE  flushID[m] \in Ids /\ flushID[m] # msg.id
        <3>1. flushID[m] \in Ids /\ ~mess[flushID[m]].full
            <4>1. mess[flushID[m]] = [mail |-> m, full |-> FALSE]
                BY <1>0, <2>3 DEF Drawn
            <4>2. flushID[m] \in Ids
                BY <1>0, <2>3 DEF Drawn
            <4> QED BY <4>1, <4>2
        <3>2. mess[msg.id].full
            BY <1>3 DEF Whole
        <3> QED BY <3>1, <3>2
    <2>4. \A m \in Mails : session[m] = "open" =>
              flushID[m] <= currentID /\ mess'[flushID[m]] = [mail |-> m, full |-> FALSE]
        BY <1>0, <1>4, <2>3 DEF Drawn
    <2>5. \A i \in Ids : mess'[i] # NoFile => flushID[mess'[i].mail] = i
        BY <1>0, <2>1 DEF Drawn
    <2>6. \A i \in Ids : mess'[i].full => i <= currentID /\ session[mess'[i].mail] \in Done
        BY <1>0, <2>2 DEF Drawn
    <2> QED BY <1>0, <1>1, <2>4, <2>5, <2>6 DEF Drawn, Begun
<1>6. LoaderSound'
    <2>1. loader.pc \in {"node", "read", "used"} => loader.id \in Ids /\ loader.id # msg.id
        <3>1. InHash(msg.id)
            BY <1>0, <1>1 DEF Single, HashStates
        <3> QED BY <1>0, <3>1 DEF InHash, LoaderSound, Typed, LoaderIds, LoaderHas
    <2>2. loader.pc \in {"node", "read"} => left' = left
        BY <2>1 DEF PutRemove, Unlinked
    <2> QED BY <1>0, <1>1, <1>4, <2>1, <2>2 DEF LoaderSound, Whole, LoaderHas
<1>7. \A v \in Workers :
          /\ worker'[v].pc \in WorkStates <=> worker[v].pc \in WorkStates
          /\ worker'[v].pc \in HashStates <=> worker[v].pc \in HashStates
          /\ worker'[v].msg = worker[v].msg
          /\ worker'[v].pc \in FileStates => v # w /\ worker[v].pc \in FileStates
    BY <1>1, <1>2 DEF WorkStates, HashStates, FileStates
<1>8. Known'
    BY <1>0, <1>1, <1>7 DEF Known
<1>9. Single'
    BY <1>0, <1>1, <1>7 DEF Single, InHash
<1>10. Present'
    <2>1. \A i \in 1..Len(used) : mess'[used[i].id] = Whole(used[i].mail)
        <3>1. \A i \in 1..Len(used) : used[i].id \in Ids /\ used[i].id # msg.id
            BY <1>0, <1>1, LoadedTypes DEF Single, HashStates
        <3> QED BY <1>0, <1>4, <3>1 DEF Present
    <2>2. \A v \in Workers : worker'[v].pc \in FileStates =>
             mess'[worker'[v].msg.id] = Whole(worker'[v].msg.mail)
        <3> SUFFICES ASSUME NEW v \in Workers, worker'[v].pc \in FileStates
                     PROVE  mess'[worker[v].msg.id] = Whole(worker[v].msg.mail)
            BY <1>7
        <3>1. v # w /\ worker[v].pc \in FileStates
            BY <1>7
        <3>2. worker[v].msg.id # msg.id
            BY <1>0, <1>1, <3>1 DEF Single, HashStates, FileStates
        <3>3. worker[v].msg.id \in Ids
            BY <1>0, <3>1, LoadedTypes DEF FileStates, WorkStates
        <3> QED BY <1>0, <1>4, <3>1, <3>2, <3>3 DEF Present
    <2> QED BY <1>1, <2>1, <2>2 DEF Present, Whole
<1>11. \A m \in Mails : m # msg.mail => mess'[flushID[m]] = Whole(m) \/ mess[flushID[m]] # Whole(m)
    <2>1. \A m \in Mails : m # msg.mail /\ flushID[m] = msg.id => mess[flushID[m]] # Whole(m)
        BY <1>3 DEF Whole
    <2>2. \A m \in Mails : flushID[m] \in Ids \/ session[m] = "new"
        BY <1>0 DEF Drawn
    <2>3. \A m \in Mails : flushID[m] \in Ids /\ flushID[m] # msg.id => mess'[flushID[m]] = mess[flushID[m]]
        BY <1>4
    <2>4. \A m \in Mails : flushID[m] \notin Ids => mess'[flushID[m]] = mess[flushID[m]]
        BY <1>1, <1>3
    <2> QED BY <2>1, <2>3, <2>4
<1>12. Counts'
    <2> SUFFICES ASSUME NEW m \in Mails
                 PROVE  \/ handled[m] <= restarts.delivery
                        \/ /\ handled[m] = restarts.delivery + 1 /\ session[m] \in Done
                           /\ mess'[flushID[m]] # Whole(m) \/ Removing(m)'
        BY <1>1 DEF Counts, Whole
    <2>1. CASE m = msg.mail
        <3>1. mess'[flushID[m]] # Whole(m)
            BY <1>3, <1>4, <2>1 DEF NoFile, Whole
        <3> QED BY <1>0, <3>1 DEF Counts
    <2>2. CASE m # msg.mail
        <3>1. Removing(m) => Removing(m)'
            BY <1>2, <1>7, <2>2 DEF Removing
        <3>2. mess[flushID[m]] # Whole(m) => mess'[flushID[m]] # Whole(m) \/ session[m] \notin Done
            <4>1. CASE flushID[m] = msg.id
                BY <1>4, <4>1 DEF Whole, NoFile
            <4>2. CASE flushID[m] # msg.id /\ session[m] \in Done
                BY <1>0, <1>4, <4>2 DEF Drawn, Done
            <4> QED BY <4>1, <4>2
        <3> QED BY <1>0, <3>1, <3>2 DEF Counts
    <2> QED BY <2>1, <2>2
<1>13. Safe'
    <2>1. ASSUME NEW m \in Mails, session[m] \in Done
          PROVE  Taken(m) \/ m \in unchecked \/ mess'[flushID[m]] = Whole(m)
        <3>1. CASE m = msg.mail
            BY <1>0, <1>1, <3>1 DEF Safe
        <3>2. CASE m # msg.mail
            BY <1>0, <1>11, <2>1, <3>2 DEF Safe
        <3> QED BY <3>1, <3>2
    <2>2. \A v \in Workers : worker'[v].pc = "remove" => worker'[v] = worker[v]
        BY <1>2
    <2> QED BY <1>0, <1>1, <2>1, <2>2 DEF Safe, Taken, Broken, Whole
<1> QED
    BY <1>5, <1>6, <1>8, <1>9, <1>10, <1>12, <1>13

\* A thread takes its ID out of g_mess_hash: nobody else has that ID.
LEMMA PutEraseKeeps ==
    ASSUME IndInv, NEW w \in Workers, PutErase(w)
    PROVE  Drawn' /\ LoaderSound' /\ Known' /\ Single' /\ Present' /\ Counts' /\ Safe'
<1> USE DEF smtp, WorkerOnly, WorkerSpares, history
<1> DEFINE id == worker[w].msg.id
<1>0. Typed /\ Drawn /\ LoaderSound /\ Known /\ Single /\ Present
    BY DEF IndInv
<1>1. /\ worker[w].pc = "erase" /\ WorkerGoes(w, "memory") /\ hash' = hash \ {id}
      /\ UNCHANGED <<smtp, mess, used, loader, left, handled, saved, unchecked, restarts>>
    BY DEF PutErase
<1>2. /\ worker'[w].pc = "memory" /\ worker'[w].msg = worker[w].msg
      /\ \A v \in Workers \ {w} : worker'[v] = worker[v]
    BY <1>0, <1>1, WorkerMoves
<1>3. Drawn' /\ LoaderSound'
    BY <1>0, <1>1 DEF Drawn, Begun, LoaderSound, Whole
<1>4. \A v \in Workers :
          /\ worker'[v].pc \in WorkStates =>
                 worker[v].pc \in WorkStates /\ worker'[v].msg = worker[v].msg
          /\ worker'[v].pc \in HashStates =>
                 v # w /\ worker[v].pc \in HashStates /\ worker'[v].msg = worker[v].msg
          /\ worker'[v].pc \in FileStates =>
                 worker[v].pc \in FileStates /\ worker'[v].msg = worker[v].msg
    BY <1>1, <1>2 DEF WorkStates, HashStates, FileStates
<1>5. Known'
    BY <1>0, <1>1, <1>4 DEF Known
<1>6. Single'
    <2>1. \A i \in 1..Len(used) : used[i].id # id /\ InHash(used[i].id)
        BY <1>0, <1>1 DEF Single, HashStates
    <2>2. \A v \in Workers : worker'[v].pc \in HashStates =>
              worker[v].msg.id # id /\ InHash(worker[v].msg.id)
        BY <1>0, <1>1, <1>4 DEF Single, HashStates
    <2>3. \A i : i # id /\ InHash(i) => i \in hash' \/ (loader'.pc = "emplace" /\ loader'.id = i)
        BY <1>1 DEF InHash
    <2>4. \A i \in 1..Len(used) : used[i].id \in hash' \/ (loader'.pc = "emplace" /\ loader'.id = used[i].id)
        BY <2>1, <2>3
    <2>5. \A v \in Workers : worker'[v].pc \in HashStates =>
              worker'[v].msg.id \in hash' \/ (loader'.pc = "emplace" /\ loader'.id = worker'[v].msg.id)
        BY <1>4, <2>2, <2>3
    <2> QED BY <1>0, <1>1, <1>4, <2>4, <2>5 DEF Single, InHash
<1>7. Present'
    BY <1>0, <1>1, <1>4 DEF Present, Whole
<1>8. Counts' /\ Safe'
    BY <1>1, <1>2, QuietStep
<1> QED
    BY <1>3, <1>5, <1>6, <1>7, <1>8

LEMMA WorkerKeeps ==
    ASSUME IndInv, NEW w \in Workers, Worker(w)
    PROVE  Drawn' /\ LoaderSound' /\ Known' /\ Single' /\ Present' /\ Counts' /\ Safe'
<1> USE DEF WorkerOnly, WorkerSpares, history
<1>0. Typed /\ worker \in [Workers -> [pc : {"idle", "tired", "parked", "off"} \cup WorkStates,
                                       msg : {NoMsg} \cup Messages]]
    BY DEF IndInv, Typed
<1>q. ASSUME worker[w].pc # "remove", worker'[w].pc \notin HashStates,
             \A v \in Workers \ {w} : worker'[v] = worker[v],
             worker'[w].pc \in WorkStates =>
                 worker[w].pc \in WorkStates /\ worker'[w].msg = worker[w].msg,
             UNCHANGED <<mess, used, hash, handled, saved>>, WorkerOnly
      PROVE  Drawn' /\ LoaderSound' /\ Known' /\ Single' /\ Present' /\ Counts' /\ Safe'
    <2>1. worker'[w].pc \notin FileStates /\ worker'[w].pc # "remove"
        BY <1>q DEF FileStates, HashStates
    <2> QED BY <1>q, <2>1, ThreadStep, QuietStep
<1>1. CASE Get(w)
    BY <1>1, GetKeeps
<1>2. CASE NotServed(w)
    <2>1. worker'[w].pc = "tired" /\ \A v \in Workers \ {w} : worker'[v] = worker[v]
        BY <1>0, <1>2, WorkerMoves DEF NotServed
    <2> QED BY <1>2, <1>q, <2>1 DEF NotServed, HashStates, WorkStates
<1>3. CASE Rest(w)
    <2>1. worker'[w].pc \in {"off", "parked"} /\ \A v \in Workers \ {w} : worker'[v] = worker[v]
        BY <1>0, <1>3 DEF Rest, Off, Parked
    <2> QED BY <1>3, <1>q, <2>1 DEF Rest, HashStates, WorkStates
<1>4. CASE Accepted(w) \/ SaveForLater(w) \/ SaveFailsIgnored(w)
    BY <1>4, ProcessedKeeps
<1>5. CASE SaveFailsKept(w)
    <2>1. worker'[w].pc = "idle" /\ \A v \in Workers \ {w} : worker'[v] = worker[v]
        BY <1>0, <1>5 DEF SaveFailsKept, Idle
    <2> QED BY <1>5, <1>q, <2>1 DEF SaveFailsKept, HashStates, WorkStates
<1>6. CASE PutRemove(w)
    BY <1>6, PutRemoveKeeps
<1>7. CASE PutErase(w)
    BY <1>7, PutEraseKeeps
<1>8. CASE PutMemory(w)
    <2>1. /\ worker'[w].pc = "node" /\ worker'[w].msg = worker[w].msg
          /\ \A v \in Workers \ {w} : worker'[v] = worker[v]
        BY <1>0, <1>8, WorkerMoves DEF PutMemory
    <2> QED BY <1>8, <1>q, <2>1 DEF PutMemory, HashStates, WorkStates
<1>9. CASE PutNode(w)
    <2>1. worker'[w].pc = "idle" /\ \A v \in Workers \ {w} : worker'[v] = worker[v]
        BY <1>0, <1>9 DEF PutNode, Idle
    <2> QED BY <1>9, <1>q, <2>1 DEF PutNode, HashStates, WorkStates
<1> QED
    BY <1>1, <1>2, <1>3, <1>4, <1>5, <1>6, <1>7, <1>8, <1>9 DEF Worker

LEMMA AddThreadKeeps ==
    ASSUME IndInv, AddThread
    PROVE  Drawn' /\ LoaderSound' /\ Known' /\ Single' /\ Present' /\ Counts' /\ Safe'
<1> USE DEF WorkerOnly, WorkerSpares, history
<1>0. worker \in [Workers -> [pc : {"idle", "tired", "parked", "off"} \cup WorkStates,
                              msg : {NoMsg} \cup Messages]]
    BY DEF IndInv, Typed
<1>1. PICK w \in Workers \ Listed :
         worker' = [worker EXCEPT ![w] = IF w \in MinWorkers THEN Parked ELSE Idle]
    BY DEF AddThread
<1>2. /\ w \in Workers /\ worker[w].pc = "off" /\ worker'[w].pc \in {"idle", "parked"}
      /\ \A v \in Workers \ {w} : worker'[v] = worker[v]
    BY <1>0, <1>1 DEF Listed, Off, Idle, Parked
<1>3. /\ worker'[w].pc \notin WorkStates /\ worker'[w].pc \notin HashStates
      /\ worker'[w].pc \notin FileStates /\ worker'[w].pc # "remove" /\ worker[w].pc # "remove"
    BY <1>2 DEF WorkStates, HashStates, FileStates
<1>4. UNCHANGED <<smtp, mess, used, hash, loader, left, handled, saved, unchecked, restarts>>
    BY DEF AddThread
<1> QED
    BY <1>2, <1>3, <1>4, ThreadStep, QuietStep

\* What is in memory is lost; every mail that is still a file may be handled once more.
LEMMA DeliveryRestartKeeps ==
    ASSUME IndInv, DeliveryRestart
    PROVE  Drawn' /\ LoaderSound' /\ Known' /\ Single' /\ Present' /\ Counts' /\ Safe'
<1>0. Typed /\ Drawn /\ Counts /\ Safe /\ restarts.delivery \in Nat /\ handled \in [Mails -> Nat]
    BY DEF IndInv, Typed
<1>1. /\ used' = <<>> /\ hash' = {} /\ loader'.pc = "receive"
      /\ UNCHANGED <<smtp, mess, handled, saved, unchecked>>
      /\ restarts'.delivery = restarts.delivery + 1
    BY <1>0, RestartCounted DEF DeliveryRestart, EmptyMemory, LoaderIdle, history
<1>2. \A w \in Workers : worker'[w].pc \in {"idle", "parked", "off"}
    <2>1. PICK awake \in SUBSET MinWorkers : worker' = Started(awake)
        BY DEF DeliveryRestart, EmptyMemory, history
    <2> QED BY <2>1, StartedType
<1>3. \A w \in Workers : /\ worker'[w].pc \notin WorkStates /\ worker'[w].pc \notin HashStates
                         /\ worker'[w].pc \notin FileStates /\ worker'[w].pc # "remove"
    BY <1>2 DEF WorkStates, HashStates, FileStates
<1>4. 1..Len(used') = {}
    BY <1>1
<1>5. Drawn'
    BY <1>0, <1>1 DEF Drawn, Begun, smtp, history
<1>6. LoaderSound'
    BY <1>1, LoaderEmpty
<1>7. Known' /\ Single' /\ Present'
    BY <1>1, <1>3, <1>4 DEF Known, Single, Present
<1>8. Counts'
    <2>1. \A m \in Mails : handled[m] <= restarts.delivery + 1
        BY <1>0 DEF Counts
    <2> QED BY <1>1, <2>1 DEF Counts
<1>9. Safe'
    BY <1>0, <1>1, <1>3 DEF Safe, Taken, Broken, Whole, smtp, history
<1> QED
    BY <1>5, <1>6, <1>7, <1>8, <1>9

-----------------------------------------------------------------------------
(***************************************************************************)
(* The theorems                                                            *)
(***************************************************************************)

LEMMA InitHolds == Init => IndInv
<1> SUFFICES ASSUME Init PROVE IndInv
    OBVIOUS
<1> USE DEF Init
<1>1. PICK awake \in SUBSET MinWorkers : worker = Started(awake)
    OBVIOUS
<1>2. \A w \in Workers : worker[w].pc \in {"idle", "parked", "off"}
    BY <1>1, StartedType
<1>3. \A w \in Workers : /\ worker[w].pc \notin WorkStates /\ worker[w].pc \notin HashStates
                         /\ worker[w].pc \notin FileStates /\ worker[w].pc # "remove"
    BY <1>2 DEF WorkStates, HashStates, FileStates
<1>4. /\ 1..Len(used) = {} /\ used = <<>> /\ loader.pc = "receive"
      /\ \A m \in Mails : session[m] = "new" /\ flushID[m] = 0 /\ handled[m] = 0
      /\ \A i \in Ids : mess[i] = NoFile
    BY DEF LoaderIdle
<1>5. NoFile \in Files /\ ~NoFile.full /\ 0 \in 0..MaxId
    BY QueueFacts DEF Files, NoFile
<1>6. Typed
    <2>1. loader \in [pc : {"receive", "gate", "scan"} \cup LoaderIds,
                      id : 0..MaxId, file : Files, size : 0..Units, back : {"receive", "scan"}]
        BY <1>5, QueueFacts DEF LoaderIdle
    <2>2. loader.pc \notin LoaderIds
        BY <1>4 DEF LoaderIds, LoaderHas
    <2>3. worker \in [Workers -> [pc : {"idle", "tired", "parked", "off"} \cup WorkStates,
                                  msg : {NoMsg} \cup Messages]]
        BY <1>1, StartedType
    <2>4. restarts \in [smtp : Nat, delivery : Nat]
        OBVIOUS
    <2>5. session \in [Mails -> {"new", "open", "failed"} \cup Done] /\ handled \in [Mails -> Nat]
        OBVIOUS
    <2>6. flushID \in [Mails -> 0..MaxId] /\ currentID \in 0..MaxId /\ mess \in [Ids -> Files]
        BY <1>5
    <2>7. loader.pc \notin {"node", "read", "used"}
        BY <1>4
    <2> QED BY <1>3, <1>5, <2>1, <2>2, <2>3, <2>4, <2>5, <2>6, <2>7 DEF Typed
<1>7. Drawn
    <2>1. Begun = {}
        BY <1>4 DEF Begun
    <2>2. currentID <= Cardinality(Begun)
        BY <2>1, FS_EmptySet
    <2> QED BY <1>4, <1>5, <2>2 DEF Drawn
<1>8. LoaderSound /\ Known /\ Single /\ Present
    BY <1>3, <1>4 DEF LoaderSound, LoaderHas, Known, Single, Present
<1>9. Counts
    BY <1>4 DEF Counts
<1>10. Safe
    BY <1>3, <1>4 DEF Safe, Taken, Broken, Done
<1> QED
    BY <1>6, <1>7, <1>8, <1>9, <1>10 DEF IndInv

LEMMA NextHolds == Scope /\ IndInv /\ [Next]_vars => IndInv'
<1> SUFFICES ASSUME Scope, IndInv, [Next]_vars PROVE IndInv'
    OBVIOUS
<1> DEFINE Kept == Drawn' /\ LoaderSound' /\ Known' /\ Single' /\ Present' /\ Counts' /\ Safe'
<1>0. Typed'
    BY NextTyped DEF IndInv
<1>1. ASSUME NEW m \in Mails, Smtp(m) PROVE Kept
    BY <1>1, BeginMessKeeps, RemoveMessKeeps, SaveMessKeeps, AcknowledgeKeeps
    DEF Smtp, Cancel, FlushFails
<1>2. ASSUME SmtpRestart PROVE Kept
    BY <1>2, SmtpRestartKeeps
<1>3. ASSUME Loader PROVE Kept
    BY <1>3, LoaderKeeps
<1>4. ASSUME NEW w \in Workers, Worker(w) PROVE Kept
    BY <1>4, WorkerKeeps
<1>5. ASSUME AddThread PROVE Kept
    BY <1>5, AddThreadKeeps
<1>6. ASSUME DeliveryRestart PROVE Kept
    BY <1>6, DeliveryRestartKeeps
<1>7. ASSUME UNCHANGED vars PROVE Kept
    BY <1>7 DEF vars, smtp, memory, IndInv, Drawn, Begun, LoaderSound, Known, Single, InHash,
                Present, Counts, Removing, Safe, Taken, Broken, Whole, history
<1> QED
    BY <1>0, <1>1, <1>2, <1>3, <1>4, <1>5, <1>6, <1>7 DEF Next, IndInv

\* The inductive invariant holds of every run in scope.
LEMMA IndInvCorrect == ASSUME Scope PROVE Spec => []IndInv
    BY InitHolds, NextHolds, PTL DEF Spec

-----------------------------------------------------------------------------
(***************************************************************************)
(* Truncated copies                                                        *)
(***************************************************************************)

\* Another mail has the ID of m; some mail the frontend has finished with has the ID i.
Shared(ids, m)   == \E d \in Mails \ {m} : ids[d] = ids[m]
Owned(st, ids, i) == \E d \in Mails : st[d] \in Done /\ ids[d] = i

\* The mail whose ID brought the loader to a file is not the one that is written into it.
Reopened ==
    loader.pc \in {"node", "read"} /\ ~loader.file.full =>
        \E d \in Mails : /\ session[d] \in Done /\ flushID[d] = loader.id
                         /\ mess[loader.id] # Whole(d)

\* What is loaded in part is of a mail that shares its ID.
Parts ==
    /\ loader.pc = "used" /\ ~loader.file.full => Shared(flushID, loader.file.mail)
    /\ \A i \in 1..Len(used) : used[i].whole \/ Shared(flushID, used[i].mail)
    /\ \A w \in Workers : worker[w].pc \in WorkStates =>
           worker[w].msg.whole \/ Shared(flushID, worker[w].msg.mail)
    /\ \A m \in cut : session[m] \in Done /\ Shared(flushID, m)

\* Whatever ID the loader looks up was some mail's.
Looked ==
    /\ \A k \in 1..Len(ipc) : Owned(session, flushID, ipc[k])
    /\ loader.pc \in LoaderIds => Owned(session, flushID, loader.id)

Mixed == Looked /\ Reopened /\ Parts

\* A step takes no mail its ID, and completes no file of a mail that was finished with.
StepKeeps ==
    /\ \A m \in Mails : session[m] \in Done => session'[m] \in Done /\ flushID'[m] = flushID[m]
    /\ \A i \in Ids, d \in Mails : session[d] \in Done /\ mess'[i] = Whole(d) => mess[i] = Whole(d)

LEMMA EveryStepKeeps ==
    IndInv /\ [Next]_vars =>
        StepKeeps /\ \A m \in Mails : session[m] # "new" => flushID'[m] = flushID[m]
<1> SUFFICES ASSUME IndInv, [Next]_vars
             PROVE  StepKeeps /\ \A m \in Mails : session[m] # "new" => flushID'[m] = flushID[m]
    OBVIOUS
<1> DEFINE Goal == StepKeeps /\ \A m \in Mails : session[m] # "new" => flushID'[m] = flushID[m]
<1> USE DEF StepKeeps, history
<1>0. /\ mess \in [Ids -> Files] /\ session \in [Mails -> {"new", "open", "failed"} \cup Done]
      /\ flushID \in [Mails -> 0..MaxId]
      /\ \A m \in Mails : session[m] = "open" =>
             mess[flushID[m]] = [mail |-> m, full |-> FALSE]
      /\ \A m \in Mails : session[m] # "new" => flushID[m] \in Ids
    BY DEF IndInv, Typed, Drawn
<1>1. \A d \in Mails : NoFile # Whole(d)
    BY DEF NoFile, Whole
<1>2. ASSUME UNCHANGED <<smtp, mess>> PROVE Goal
    BY <1>2 DEF smtp
<1>3. ASSUME UNCHANGED smtp, NEW i \in Ids, mess' = [mess EXCEPT ![i] = NoFile] PROVE Goal
    BY <1>0, <1>1, <1>3 DEF smtp
<1>4. ASSUME NEW m \in Mails, BeginMess(m) PROVE Goal
    <2>1. \A d \in Mails : [mail |-> m, full |-> FALSE] # Whole(d)
        BY DEF Whole
    <2>2. /\ session[m] = "new" /\ session' = [session EXCEPT ![m] = "open"]
          /\ flushID' = [flushID EXCEPT ![m] = NextID]
          /\ mess' = [mess EXCEPT ![NextID] = [mail |-> m, full |-> FALSE]]
        BY <1>4 DEF BeginMess
    <2> QED BY <1>0, <2>1, <2>2 DEF Done
<1>5. ASSUME NEW m \in Mails, RemoveMess(m) PROVE Goal
    <2>1. /\ session[m] = "open" /\ session' = [session EXCEPT ![m] = "failed"]
          /\ flushID' = flushID /\ mess' = [mess EXCEPT ![flushID[m]] = NoFile]
        BY <1>5 DEF RemoveMess
    <2> QED BY <1>0, <1>1, <2>1 DEF Done
<1>6. ASSUME NEW m \in Mails, SaveMess(m) PROVE Goal
    <2>1. PICK full : mess' = [mess EXCEPT ![flushID[m]].full = full]
        BY <1>6 DEF SaveMess
    <2>2. /\ session[m] = "open" /\ session' = [session EXCEPT ![m] = "saved"] /\ flushID' = flushID
        BY <1>6 DEF SaveMess
    <2>3. mess[flushID[m]] = [mail |-> m, full |-> FALSE] /\ flushID[m] \in Ids
        BY <1>0, <2>2
    <2>4. mess'[flushID[m]].mail = m /\ \A i \in Ids : i # flushID[m] => mess'[i] = mess[i]
        BY <1>0, <2>1, <2>3
    <2>5. \A d \in Mails : mess'[flushID[m]] = Whole(d) => d = m
        BY <2>4 DEF Whole
    <2>6. \A i \in Ids, d \in Mails : session[d] \in Done /\ mess'[i] = Whole(d) => mess[i] = Whole(d)
        BY <2>2, <2>4, <2>5 DEF Done
    <2>7. \A d \in Mails : session[d] \in Done => session'[d] \in Done
        BY <1>0, <2>2 DEF Done
    <2> QED BY <2>2, <2>6, <2>7
<1>7. ASSUME NEW m \in Mails, Acknowledge(m) PROVE Goal
    BY <1>0, <1>7 DEF Acknowledge, Done
<1>8. CASE SmtpRestart
    <2>1. PICK gone \in SUBSET Ids : mess' = [i \in Ids |-> IF i \in gone THEN NoFile ELSE mess[i]]
        BY <1>8 DEF SmtpRestart
    <2>2. /\ flushID' = flushID
          /\ session' = [m \in Mails |-> CASE session[m] = "open" -> "failed"
                                    [] session[m] = "saved" -> "unanswered"
                                    [] OTHER -> session[m]]
        BY <1>8 DEF SmtpRestart
    <2>3. \A m \in Mails : session[m] \in Done => session'[m] \in Done
        BY <2>2 DEF Done
    <2>4. \A i \in Ids, d \in Mails : mess'[i] = Whole(d) => mess[i] = Whole(d)
        BY <1>1, <2>1
    <2> QED BY <2>2, <2>3, <2>4
<1>9. ASSUME Loader PROVE UNCHANGED <<smtp, mess>>
    BY <1>9 DEF Loader, Receive, Gate, ScanEntry, ScanEnds, Lookup, Reserve, TakeNode,
                ReadMess, GiveUp, PutToUsed, Emplace, LoaderReads, LoaderOnly
<1>10. ASSUME NEW w \in Workers, Worker(w) PROVE Goal
    <2>1. CASE PutRemove(w)
        <3>1. worker[w].pc \in WorkStates /\ worker[w].msg \in Messages
            BY <2>1 DEF PutRemove, IndInv, Typed, WorkStates
        <3>2. worker[w].msg.id \in Ids
            BY <3>1 DEF Messages
        <3> QED BY <1>3, <2>1, <3>2 DEF PutRemove, WorkerSpares
    <2>2. CASE UNCHANGED <<smtp, mess>>
        BY <1>2, <2>2
    <2> QED BY <1>10, <2>1, <2>2 DEF Worker, Get, NotServed, Rest, Accepted, SaveForLater,
                SaveFailsKept, SaveFailsIgnored, PutErase, PutMemory, PutNode, WorkerOnly, WorkerSpares
<1>11. ASSUME AddThread \/ DeliveryRestart \/ UNCHANGED vars PROVE UNCHANGED <<smtp, mess>>
    BY <1>11 DEF AddThread, DeliveryRestart, vars, WorkerOnly, WorkerSpares
<1> QED
    BY <1>2, <1>4, <1>5, <1>6, <1>7, <1>8, <1>9, <1>10, <1>11 DEF Next, Smtp, Cancel, FlushFails

\* The loader: what it is led to by an ID, and what it reads of a file it opened too early.
LEMMA LoaderMixed ==
    ASSUME IndInv, Mixed, Loader, StepKeeps, [Next]_vars,
           \A i : Owned(session, flushID, i) => Owned(session', flushID', i),
           \A m \in Mails : session[m] \in Done /\ Shared(flushID, m) => Shared(flushID', m) /\ session'[m] \in Done
    PROVE  Mixed'
<1> USE DEF history
<1>0. Typed /\ Drawn /\ LoaderSound /\ Known /\ Looked /\ Reopened /\ Parts
    BY DEF IndInv, Mixed
<1>v. UNCHANGED <<smtp, mess, cut>>
    BY DEF Loader, Receive, Gate, ScanEntry, ScanEnds, Lookup, Reserve, TakeNode,
           ReadMess, GiveUp, PutToUsed, Emplace, LoaderReads, LoaderOnly
<1>o. \A i : Owned(session', flushID', i) <=> Owned(session, flushID, i)
    BY <1>v DEF Owned, smtp
<1>s. \A m : Shared(flushID', m) <=> Shared(flushID, m)
    BY <1>v DEF Shared, smtp
<1>c. \A m \in cut' : session'[m] \in Done /\ Shared(flushID', m)
    BY <1>0, <1>s, <1>v DEF Parts, smtp
<1>q. ASSUME UNCHANGED <<used, worker>>, \A k \in 1..Len(ipc') : Owned(session, flushID, ipc'[k]),
             loader'.pc \in LoaderIds => Owned(session, flushID, loader'.id),
             Reopened', loader'.pc = "used" /\ ~loader'.file.full => Shared(flushID, loader'.file.mail)
      PROVE  Mixed'
    <2>1. /\ \A i \in 1..Len(used') : used'[i].whole \/ Shared(flushID', used'[i].mail)
          /\ \A w \in Workers : worker'[w].pc \in WorkStates =>
                 worker'[w].msg.whole \/ Shared(flushID', worker'[w].msg.mail)
        BY <1>0, <1>q, <1>s DEF Parts
    <2>2. Looked'
        BY <1>q, <1>o DEF Looked
    <2>3. Parts'
        BY <1>c, <1>q, <1>s, <2>1 DEF Parts
    <2> QED BY <1>q, <2>2, <2>3 DEF Mixed
<1>i. UNCHANGED ipc => \A k \in 1..Len(ipc') : Owned(session, flushID, ipc'[k])
    BY <1>0 DEF Looked
\* It opens nothing.
<1>e. ASSUME UNCHANGED <<used, worker>>, \A k \in 1..Len(ipc') : Owned(session, flushID, ipc'[k]),
             loader'.pc \in {"receive", "gate", "scan", "lookup", "open", "emplace"},
             loader'.pc \in LoaderIds => Owned(session, flushID, loader'.id)
      PROVE  Mixed'
    BY <1>e, <1>q DEF Reopened
<1>r. LoaderReturns => loader'.pc \in {"receive", "scan"} /\ loader'.pc \notin LoaderIds
    BY <1>0, LoaderMoves DEF LoaderIds, LoaderHas
<1>g. \A pc : LoaderGoes(pc) => loader'.pc = pc /\ loader'.id = loader.id /\ loader'.file = loader.file
    BY <1>0, LoaderMoves
<1>l. loader.pc \in LoaderIds => Owned(session, flushID, loader.id) /\ loader.id \in Ids
    BY <1>0 DEF Looked, Typed
<1>n. {"receive", "gate", "scan"} \cap LoaderIds = {} /\ (LoaderOnly => LoaderReads)
    BY DEF LoaderIds, LoaderHas, LoaderOnly
<1>1. CASE Receive
    <2>1. CASE ipc = <<>>
        BY <1>1, <1>e, <1>g, <1>i, <1>n, <2>1 DEF Receive, LoaderReads
    <2>2. CASE ipc # <<>>
        <3>1. ipc' = Tail(ipc) /\ loader'.pc = "lookup" /\ loader'.id = Head(ipc) /\ ipc \in Seq(Ids)
            BY <1>0, <1>1, <2>2 DEF Receive, Typed, LoaderIdle
        <3>2. /\ 1 \in 1..Len(ipc) /\ Head(ipc) = ipc[1]
              /\ \A k \in 1..Len(ipc') : k + 1 \in 1..Len(ipc) /\ ipc'[k] = ipc[k + 1]
            BY <2>2, <3>1
        <3>3. \A k \in 1..Len(ipc') : Owned(session, flushID, ipc'[k])
            BY <1>0, <3>2 DEF Looked
        <3>4. Owned(session, flushID, loader'.id)
            BY <1>0, <3>1, <3>2 DEF Looked
        <3> QED BY <1>1, <1>e, <1>n, <3>1, <3>3, <3>4 DEF Receive, LoaderReads
    <2> QED BY <2>1, <2>2
<1>2. CASE Gate
    <2>1. loader'.pc \in {"receive", "scan"} /\ loader'.pc \notin LoaderIds
        BY <1>2, <1>g, <1>n DEF Gate
    <2> QED BY <1>2, <1>e, <1>i, <1>n, <2>1 DEF Gate, LoaderReads
<1>3. CASE ScanEntry
    <2>0. PICK i \in todo :
              IF mess[i].full
                THEN loader' = [LoaderIdle EXCEPT !.pc = "lookup", !.id = i, !.back = "scan"]
                ELSE UNCHANGED loader
        BY <1>3 DEF ScanEntry
    <2>1. CASE mess[i].full
        <3>1. loader'.pc = "lookup" /\ loader'.id = i /\ i \in Ids
            BY <1>0, <2>0, <2>1 DEF LoaderIdle, Typed
        <3>2. mess[i].mail \in Mails /\ mess[i] # NoFile
            BY <1>0, <2>1, <3>1, FileFacts DEF Typed
        <3>3. Owned(session, flushID, i)
            BY <1>0, <2>1, <3>1, <3>2 DEF Drawn, Owned
        <3> QED BY <1>3, <1>e, <1>i, <1>n, <3>1, <3>3 DEF ScanEntry, LoaderReads
    <2>2. CASE ~mess[i].full
        BY <1>3, <1>e, <1>i, <1>n, <2>0, <2>2 DEF ScanEntry, LoaderReads
    <2> QED BY <2>1, <2>2
<1>4. CASE ScanEnds
    <2>1. loader'.pc = "receive"
        BY <1>4 DEF ScanEnds, LoaderIdle
    <2> QED BY <1>4, <1>e, <1>i, <1>n, <2>1 DEF ScanEnds, LoaderReads
<1>5. CASE Lookup
    <2>1. loader'.pc \in {"receive", "scan", "open"} /\ (loader'.pc \in LoaderIds => Owned(session, flushID, loader'.id))
        BY <1>5, <1>g, <1>l, <1>r DEF Lookup, LoaderIds
    <2> QED BY <1>5, <1>e, <1>i, <1>n, <2>1 DEF Lookup, LoaderReads
<1>6. CASE Reserve
    <2>0. LoaderReads /\ UNCHANGED ipc /\ loader.pc = "open"
        BY <1>6 DEF Reserve
    <2>1. CASE LoaderReturns
        BY <1>e, <1>i, <1>r, <2>0, <2>1 DEF LoaderReads
    <2>2. ASSUME NEW size \in 1..Units,
                 loader' = [loader EXCEPT !.pc = "node", !.file = mess[loader.id], !.size = size]
          PROVE  Mixed'
        <3>1. loader'.pc = "node" /\ loader'.id = loader.id /\ loader'.file = mess[loader.id]
            BY <1>0, <2>2 DEF Typed
        <3>2. Owned(session, flushID, loader.id)
            BY <1>l, <2>0 DEF LoaderIds
        <3>3. Reopened'
            <4> SUFFICES ASSUME ~mess[loader.id].full
                         PROVE  \E d \in Mails : /\ session'[d] \in Done /\ flushID'[d] = loader.id
                                                 /\ mess'[loader.id] # Whole(d)
                BY <3>1 DEF Reopened, Whole
            <4>1. PICK d \in Mails : session[d] \in Done /\ flushID[d] = loader.id
                BY <3>2 DEF Owned
            <4>2. mess[loader.id] # Whole(d)
                BY DEF Whole
            <4> QED BY <1>v, <4>1, <4>2 DEF smtp
        <3> QED BY <1>i, <1>q, <2>0, <3>1, <3>2, <3>3 DEF LoaderReads
    <2> QED BY <1>0, <1>6, <2>1, <2>2, ReserveSize
<1>7. CASE TakeNode
    <2>0. LoaderReads /\ UNCHANGED ipc /\ loader.pc = "node"
        BY <1>7, <1>n DEF TakeNode
    <2>1. CASE LoaderReturns
        BY <1>e, <1>i, <1>r, <2>0, <2>1 DEF LoaderReads
    <2>2. CASE LoaderGoes("read")
        <3>1. loader'.pc = "read" /\ loader'.id = loader.id /\ loader'.file = loader.file
            BY <1>g, <2>2
        <3>2. Owned(session, flushID, loader.id)
            BY <1>l, <2>0 DEF LoaderIds, LoaderHas
        <3>3. Reopened'
            BY <1>0, <1>v, <2>0, <3>1 DEF Reopened, smtp, Whole
        <3> QED BY <1>i, <1>q, <2>0, <3>1, <3>2, <3>3 DEF LoaderReads
    <2> QED BY <1>7, <2>1, <2>2 DEF TakeNode
<1>8. CASE ReadMess
    <2>0. LoaderReads /\ UNCHANGED ipc /\ loader.pc = "read" /\ HeaderNow
          /\ loader' = [loader EXCEPT !.pc = "used", !.file.mail = Opened.mail]
        BY <1>8, <1>n DEF ReadMess
    <2>1. /\ loader'.pc = "used" /\ loader'.id = loader.id /\ loader'.file.mail = Opened.mail
          /\ loader'.file.full = loader.file.full
        BY <1>0, <2>0 DEF Typed, Files, NoFile
    <2>2. loader.id \in Ids /\ Owned(session, flushID, loader.id)
        BY <1>l, <2>0 DEF LoaderIds, LoaderHas
    <2>3. ~left.full /\ Opened = mess[loader.id] /\ mess[loader.id].full
        BY <1>0, <2>0 DEF LoaderSound, HeaderNow, Opened
    <2>4. ASSUME ~loader.file.full PROVE Shared(flushID, Opened.mail)
        <3>1. PICK d \in Mails : /\ session[d] \in Done /\ flushID[d] = loader.id
                                 /\ mess[loader.id] # Whole(d)
            BY <1>0, <2>0, <2>4 DEF Reopened
        <3>2. mess[loader.id] \in Files
            BY <1>0, <2>2 DEF Typed
        <3>3. mess[loader.id].mail # d /\ mess[loader.id] # NoFile
            BY <2>3, <3>1, <3>2, FileFacts
        <3>4. flushID[mess[loader.id].mail] = loader.id
            BY <1>0, <2>2, <3>3 DEF Drawn
        <3> QED BY <2>3, <3>1, <3>3, <3>4 DEF Shared
    <2>5. Reopened'
        BY <2>1 DEF Reopened
    <2> QED BY <1>i, <1>q, <2>0, <2>1, <2>2, <2>4, <2>5 DEF LoaderReads
<1>9. CASE GiveUp
    BY <1>9, <1>e, <1>i, <1>n, <1>r DEF GiveUp, LoaderReads
<1>10. CASE PutToUsed
    <2>0. /\ used' = Append(used, [id |-> loader.id, mail |-> loader.file.mail,
                                   size |-> loader.size, whole |-> loader.file.full])
          /\ loader.pc = "used" /\ LoaderGoes("emplace") /\ UNCHANGED ipc /\ WakeOne
        BY <1>10 DEF PutToUsed
    <2>1. loader'.pc = "emplace" /\ Owned(session, flushID, loader'.id)
        BY <1>g, <1>l, <2>0 DEF LoaderIds, LoaderHas
    <2>2. Looked' /\ Reopened'
        BY <1>i, <1>o, <2>0, <2>1 DEF Looked, Reopened
    <2>3. \A i \in 1..Len(used') : used'[i].whole \/ Shared(flushID', used'[i].mail)
        <3> SUFFICES ASSUME NEW i \in 1..Len(used') PROVE used'[i].whole \/ Shared(flushID', used'[i].mail)
            OBVIOUS
        <3>1. CASE i \in 1..Len(used)
            <4>1. used'[i] = used[i]
                BY <1>0, <2>0, <3>1 DEF Typed
            <4>2. used[i].whole \/ Shared(flushID', used[i].mail)
                BY <1>0, <1>s, <3>1 DEF Parts
            <4> QED BY <4>1, <4>2 DEF Shared
        <3>2. CASE i \notin 1..Len(used)
            <4>1. used'[i].whole = loader.file.full /\ used'[i].mail = loader.file.mail
                <5>1. i = Len(used) + 1 /\ used \in Seq(Messages)
                    BY <1>0, <2>0, <3>2 DEF Typed
                <5> QED BY <2>0, <5>1
            <4>2. loader.file.full \/ Shared(flushID', loader.file.mail)
                BY <1>0, <1>s, <2>0 DEF Parts
            <4> QED BY <4>1, <4>2 DEF Shared
        <3> QED BY <3>1, <3>2
    <2>4. ASSUME NEW w \in Workers, worker'[w].pc \in WorkStates
          PROVE  worker'[w].msg.whole \/ Shared(flushID', worker'[w].msg.mail)
        <3>1. worker'[w] = worker[w]
            BY <1>0, <2>0, <2>4 DEF WakeOne, Typed, Idle, WorkStates
        <3>2. worker[w].msg.whole \/ Shared(flushID', worker[w].msg.mail)
            BY <1>0, <1>s, <2>4, <3>1 DEF Parts
        <3> QED BY <3>1, <3>2 DEF Shared
    <2>5. Parts'
        BY <1>c, <2>1, <2>3, <2>4 DEF Parts
    <2> QED BY <2>2, <2>5 DEF Mixed
<1>11. CASE Emplace
    BY <1>11, <1>e, <1>i, <1>n, <1>r DEF Emplace, LoaderReads
<1> QED
    BY <1>1, <1>2, <1>3, <1>4, <1>5, <1>6, <1>7, <1>8, <1>9, <1>10, <1>11 DEF Loader

LEMMA NextMixed == IndInv /\ Mixed /\ [Next]_vars => Mixed'
<1> SUFFICES ASSUME IndInv, Mixed, [Next]_vars PROVE Mixed'
    OBVIOUS
<1> USE DEF history
<1>0. Typed /\ Drawn /\ LoaderSound /\ Known /\ Looked /\ Reopened /\ Parts
    BY DEF IndInv, Mixed
<1>k. StepKeeps /\ \A m \in Mails : session[m] # "new" => flushID'[m] = flushID[m]
    BY EveryStepKeeps
<1>o. \A i : Owned(session, flushID, i) => Owned(session', flushID', i)
    BY <1>k DEF Owned, StepKeeps
<1>s. ASSUME NEW m \in Mails, session[m] \in Done, Shared(flushID, m) PROVE Shared(flushID', m) /\ session'[m] \in Done
    <2>1. PICK d \in Mails \ {m} : flushID[d] = flushID[m]
        BY <1>s DEF Shared
    <2>2. session[m] # "new" /\ session[d] # "new"
        BY <1>0, <1>s, <2>1, QueueFacts DEF Drawn, Done
    <2>3. flushID'[d] = flushID'[m]
        BY <1>k, <2>1, <2>2
    <2> QED BY <1>k, <1>s, <2>3 DEF Shared, StepKeeps
<1>l. /\ \A i \in 1..Len(used) : used[i].mail \in Mails /\ session[used[i].mail] \in Done
      /\ \A w \in Workers : worker[w].pc \in WorkStates =>
             worker[w].msg.mail \in Mails /\ session[worker[w].msg.mail] \in Done
      /\ loader.pc = "used" => loader.file.mail \in Mails /\ session[loader.file.mail] \in Done
    <2>1. loader.pc = "used" => loader.file.mail \in Mails /\ session[loader.file.mail] \in Done
        BY <1>0, FileFacts DEF LoaderSound, LoaderHas, Typed
    <2> QED BY <1>0, <2>1, LoadedTypes DEF Known
\* What holds of the places that stay as they are.
<1>p. ASSUME UNCHANGED used PROVE \A i \in 1..Len(used') : used'[i].whole \/ Shared(flushID', used'[i].mail)
    BY <1>0, <1>l, <1>p, <1>s DEF Parts
<1>w. ASSUME \A v \in Workers : worker'[v].pc \in WorkStates =>
                 worker[v].pc \in WorkStates /\ worker'[v].msg = worker[v].msg
      PROVE  \A v \in Workers : worker'[v].pc \in WorkStates =>
                 worker'[v].msg.whole \/ Shared(flushID', worker'[v].msg.mail)
    BY <1>0, <1>l, <1>w, <1>s DEF Parts
<1>c. ASSUME UNCHANGED cut PROVE \A m \in cut' : session'[m] \in Done /\ Shared(flushID', m)
    BY <1>0, <1>c, <1>s DEF Parts, Typed
<1>i. ASSUME UNCHANGED ipc PROVE \A k \in 1..Len(ipc') : Owned(session', flushID', ipc'[k])
    BY <1>0, <1>i, <1>o DEF Looked
<1>d. ASSUME loader'.id = loader.id, loader.pc \in LoaderIds PROVE Owned(session', flushID', loader'.id)
    BY <1>0, <1>d, <1>o DEF Looked
\* The loader stays where it is.
<1>u. ASSUME UNCHANGED loader
      PROVE  /\ loader'.pc \in LoaderIds => Owned(session', flushID', loader'.id)
             /\ Reopened' /\ (loader'.pc = "used" /\ ~loader'.file.full => Shared(flushID', loader'.file.mail))
    <2>1. loader'.pc \in LoaderIds => Owned(session', flushID', loader'.id)
        BY <1>u, <1>d
    <2>2. Reopened'
        <3> SUFFICES ASSUME loader.pc \in {"node", "read"}, ~loader.file.full
                     PROVE  \E d \in Mails : /\ session'[d] \in Done /\ flushID'[d] = loader.id
                                             /\ mess'[loader.id] # Whole(d)
            BY <1>u DEF Reopened, Whole
        <3>1. PICK d \in Mails : session[d] \in Done /\ flushID[d] = loader.id /\ mess[loader.id] # Whole(d)
            BY <1>0 DEF Reopened
        <3>2. loader.id \in Ids
            BY <1>0 DEF Typed, LoaderIds, LoaderHas
        <3> QED BY <1>k, <3>1, <3>2 DEF StepKeeps
    <2>3. loader'.pc = "used" /\ ~loader'.file.full => Shared(flushID', loader'.file.mail)
        BY <1>0, <1>l, <1>s, <1>u DEF Parts
    <2> QED BY <2>1, <2>2, <2>3
\* The frontend's steps, and those that leave the loader and what is loaded alone.
<1>f. ASSUME UNCHANGED <<loader, used, worker, cut>>,
             \A k \in 1..Len(ipc') : Owned(session', flushID', ipc'[k])
      PROVE  Mixed'
    BY <1>f, <1>p, <1>w, <1>c, <1>u DEF Mixed, Looked, Parts
<1>1. ASSUME NEW m \in Mails, Smtp(m) PROVE Mixed'
    <2>1. UNCHANGED <<loader, used, worker, cut>>
        BY <1>1 DEF Smtp, BeginMess, Cancel, FlushFails, RemoveMess, SaveMess, Acknowledge, memory
    <2>2. CASE UNCHANGED ipc
        BY <1>f, <1>i, <2>1, <2>2
    <2>3. CASE Acknowledge(m) /\ ipc' # ipc
        <3>1. ipc' = Append(ipc, flushID[m]) /\ session[m] = "saved" /\ ipc \in Seq(Ids)
            BY <1>0, <2>3 DEF Acknowledge, Typed
        <3>2. Owned(session', flushID', flushID[m])
            BY <1>o, <3>1 DEF Owned, Done
        <3>3. flushID[m] \in Ids
            BY <1>0, <3>1 DEF Drawn
        <3>4. \A k \in 1..Len(ipc') : ipc'[k] = flushID[m] \/ (k \in 1..Len(ipc) /\ ipc'[k] = ipc[k])
            BY <3>1, <3>3
        <3>5. \A k \in 1..Len(ipc') : Owned(session', flushID', ipc'[k])
            <4> SUFFICES ASSUME NEW k \in 1..Len(ipc') PROVE Owned(session', flushID', ipc'[k])
                OBVIOUS
            <4>1. CASE ipc'[k] = flushID[m]
                BY <3>2, <4>1, Zenon DEF Owned
            <4>2. CASE k \in 1..Len(ipc) /\ ipc'[k] = ipc[k]
                <5>1. Owned(session', flushID', ipc[k])
                    BY <1>0, <1>o, <4>2 DEF Looked
                <5> QED BY <4>2, <5>1 DEF Owned
            <4> QED BY <3>4, <4>1, <4>2
        <3> QED BY <1>f, <2>1, <3>5
    <2> QED BY <1>1, <2>2, <2>3 DEF Smtp, BeginMess, Cancel, FlushFails, RemoveMess, SaveMess
<1>2. CASE SmtpRestart
    BY <1>2, <1>f, <1>i DEF SmtpRestart, memory
<1>3. CASE Loader
    BY <1>3, LoaderMixed, <1>k, <1>o, <1>s
<1>4. ASSUME NEW w \in Workers, Worker(w) PROVE Mixed'
    <2>0. UNCHANGED <<loader, ipc>>
        BY <1>4 DEF Worker, Get, NotServed, Rest, Accepted, SaveForLater, SaveFailsKept, SaveFailsIgnored,
                    PutRemove, PutErase, PutMemory, PutNode, WorkerOnly, WorkerSpares
    <2>1. CASE Get(w)
        <3>1. /\ used # <<>> /\ used' = Tail(used) /\ UNCHANGED cut
              /\ worker' = [worker EXCEPT ![w] = [pc |-> "process", msg |-> Head(used)]]
            BY <2>1 DEF Get, WorkerOnly
        <3>2. \A i \in 1..Len(used) : used[i].whole \/ Shared(flushID', used[i].mail)
            BY <1>0, <1>l, <1>s DEF Parts
        <3>3. /\ 1 \in 1..Len(used) /\ Head(used) = used[1]
              /\ \A i \in 1..Len(used') : i + 1 \in 1..Len(used) /\ used'[i] = used[i + 1]
            BY <1>0, <3>1 DEF Typed
        <3>4. \A i \in 1..Len(used') : used'[i].whole \/ Shared(flushID', used'[i].mail)
            <4> SUFFICES ASSUME NEW i \in 1..Len(used') PROVE used'[i].whole \/ Shared(flushID', used'[i].mail)
                OBVIOUS
            <4>1. used[i + 1].whole \/ Shared(flushID', used[i + 1].mail)
                BY <3>2, <3>3
            <4>2. used'[i] = used[i + 1]
                BY <3>3
            <4> QED BY <4>1, <4>2 DEF Shared
        <3>5. ASSUME NEW v \in Workers, worker'[v].pc \in WorkStates
              PROVE  worker'[v].msg.whole \/ Shared(flushID', worker'[v].msg.mail)
            <4>1. CASE v = w
                <5>1. worker'[v].msg = used[1]
                    BY <1>0, <3>1, <3>3, <4>1 DEF Typed
                <5>2. used[1].whole \/ Shared(flushID', used[1].mail)
                    BY <3>2, <3>3
                <5> QED BY <5>1, <5>2 DEF Shared
            <4>2. CASE v # w
                <5>1. worker'[v] = worker[v]
                    BY <1>0, <3>1, <4>2 DEF Typed
                <5>2. worker[v].msg.whole \/ Shared(flushID', worker[v].msg.mail)
                    BY <1>0, <1>l, <1>s, <3>5, <5>1 DEF Parts
                <5> QED BY <5>1, <5>2 DEF Shared
            <4> QED BY <4>1, <4>2
        <3> QED BY <1>c, <1>i, <1>u, <2>0, <3>1, <3>4, <3>5 DEF Mixed, Looked, Parts
    <2>2. ASSUME UNCHANGED used,
                 \A v \in Workers : worker'[v].pc \in WorkStates =>
                     worker[v].pc \in WorkStates /\ worker'[v].msg = worker[v].msg,
                 \A m \in cut' : session'[m] \in Done /\ Shared(flushID', m)
          PROVE  Mixed'
        BY <1>i, <1>p, <1>u, <1>w, <2>0, <2>2 DEF Mixed, Looked, Parts
    <2>m. ASSUME NEW pc \in WorkStates \cup {"tired"}, WorkerGoes(w, pc), worker[w].pc \in WorkStates \/ pc = "tired"
          PROVE  \A v \in Workers : worker'[v].pc \in WorkStates =>
                     worker[v].pc \in WorkStates /\ worker'[v].msg = worker[v].msg
        BY <1>0, <2>m, WorkerMoves DEF WorkStates
    <2>e. ASSUME NEW new \in {Idle, Parked, Off}, worker' = [worker EXCEPT ![w] = new]
          PROVE  \A v \in Workers : worker'[v].pc \in WorkStates =>
                     worker[v].pc \in WorkStates /\ worker'[v].msg = worker[v].msg
        <3>1. new.pc \notin WorkStates
            BY DEF Idle, Parked, Off, WorkStates
        <3> QED BY <1>0, <2>e, <3>1 DEF Typed
    <2>3. CASE NotServed(w)
        BY <1>c, <2>2, <2>m, <2>3 DEF NotServed, WorkerOnly
    <2>4. CASE Rest(w)
        BY <1>c, <2>2, <2>e, <2>4 DEF Rest, WorkerOnly
    <2>5. CASE Accepted(w)
        <3>1. /\ worker[w].pc \in WorkStates /\ WorkerGoes(w, "remove") /\ "remove" \in WorkStates
              /\ UNCHANGED used
              /\ cut' = IF worker[w].msg.whole THEN cut ELSE cut \cup {worker[w].msg.mail}
            BY <2>5 DEF Accepted, WorkStates
        <3>2. \A m \in cut : session'[m] \in Done /\ Shared(flushID', m)
            BY <1>0, <1>s DEF Parts, Typed
        <3>3. ~worker[w].msg.whole =>
                  session'[worker[w].msg.mail] \in Done /\ Shared(flushID', worker[w].msg.mail)
            BY <1>0, <1>l, <1>s, <3>1 DEF Parts
        <3>4. \A m \in cut' : session'[m] \in Done /\ Shared(flushID', m)
            <4> SUFFICES ASSUME NEW m \in cut', m \notin cut PROVE session'[m] \in Done /\ Shared(flushID', m)
                BY <3>2
            <4>1. m = worker[w].msg.mail /\ ~worker[w].msg.whole
                BY <3>1
            <4> QED BY <3>3, <4>1 DEF Shared
        <3> QED BY <2>2, <2>m, <3>1, <3>4
    <2>6. CASE SaveForLater(w)
        BY <1>c, <2>2, <2>m, <2>6 DEF SaveForLater, WorkerOnly, WorkStates
    <2>7. CASE SaveFailsKept(w)
        BY <1>c, <2>2, <2>e, <2>7 DEF SaveFailsKept, WorkerOnly
    <2>8. CASE SaveFailsIgnored(w)
        BY <1>c, <2>2, <2>m, <2>8 DEF SaveFailsIgnored, WorkStates
    <2>9. CASE PutRemove(w)
        BY <1>c, <2>2, <2>m, <2>9 DEF PutRemove, WorkStates
    <2>10. CASE PutErase(w)
        BY <1>c, <2>2, <2>m, <2>10 DEF PutErase, WorkerOnly, WorkStates
    <2>11. CASE PutMemory(w)
        BY <1>c, <2>2, <2>m, <2>11 DEF PutMemory, WorkerOnly, WorkStates
    <2>12. CASE PutNode(w)
        BY <1>c, <2>2, <2>e, <2>12 DEF PutNode, WorkerOnly
    <2> QED
        BY <1>4, <2>1, <2>3, <2>4, <2>5, <2>6, <2>7, <2>8, <2>9, <2>10, <2>11, <2>12 DEF Worker
<1>5. CASE AddThread
    <2>1. UNCHANGED <<loader, ipc, used, cut>>
        BY <1>5 DEF AddThread, WorkerOnly, WorkerSpares
    <2>2. \A v \in Workers : worker'[v].pc \in WorkStates => worker'[v] = worker[v]
        BY <1>0, <1>5 DEF AddThread, Typed, Parked, Idle, WorkStates
    <2> QED BY <1>c, <1>i, <1>p, <1>u, <1>w, <2>1, <2>2 DEF Mixed, Looked, Parts
<1>6. CASE DeliveryRestart
    <2>1. /\ used' = <<>> /\ loader'.pc = "receive" /\ UNCHANGED <<ipc, cut>>
          /\ \E awake \in SUBSET MinWorkers : worker' = Started(awake)
        BY <1>6 DEF DeliveryRestart, EmptyMemory, LoaderIdle
    <2>2. \A w \in Workers : worker'[w].pc \notin WorkStates
        <3>1. \A w \in Workers : worker'[w].pc \in {"idle", "parked", "off"}
            BY <2>1, StartedType
        <3> QED BY <3>1 DEF WorkStates
    <2> QED BY <1>c, <1>i, <2>1, <2>2 DEF Mixed, Looked, Reopened, Parts, LoaderIds, LoaderHas
<1>7. CASE UNCHANGED vars
    BY <1>7, <1>f, <1>i DEF vars, memory
<1> QED
    BY <1>1, <1>2, <1>3, <1>4, <1>5, <1>6, <1>7 DEF Next

LEMMA MixedCorrect == ASSUME Scope PROVE Spec => []Mixed
<1>1. Init => Mixed
    <2> SUFFICES ASSUME Init PROVE Mixed
        OBVIOUS
    <2>1. /\ used = <<>> /\ ipc = <<>> /\ cut = {} /\ loader.pc = "receive"
          /\ \E awake \in SUBSET MinWorkers : worker = Started(awake)
        BY DEF Init, LoaderIdle
    <2>2. \A w \in Workers : worker[w].pc \notin WorkStates
        <3>1. \A w \in Workers : worker[w].pc \in {"idle", "parked", "off"}
            BY <2>1, StartedType
        <3> QED BY <3>1 DEF WorkStates
    <2> QED BY <2>1, <2>2 DEF Mixed, Looked, Reopened, Parts, LoaderIds, LoaderHas
<1> QED
    BY <1>1, NextMixed, IndInvCorrect, PTL DEF Spec

-----------------------------------------------------------------------------
\* No mail for which the client was told 250 is lost, whatever either process was doing when
\* it crashed and however often it did, unless one of the two results nobody looks at says
\* failure (fclose in message_enqueue_try_save_mess, link after proc_error in dxp_thrwork).
THEOREM AckedNotLostCorrect == ASSUME Scope PROVE Spec => []AckedNotLost
<1>1. IndInv => AckedNotLost
    BY DEF IndInv, Safe, AckedNotLost, Settled, Done, Whole
<1> QED
    BY <1>1, IndInvCorrect, PTL

\* The hooks accept a mail once, and once more at most for every crash of gromox-delivery:
\* notices and directory scans never load a file that is already loaded.
THEOREM AtMostOnceCorrect == ASSUME Scope PROVE Spec => []AtMostOnce
<1>1. IndInv => AtMostOnce
    <2> SUFFICES ASSUME IndInv, NEW m \in Mails PROVE handled[m] <= 1 + restarts.delivery
        BY DEF AtMostOnce
    <2>1. handled[m] \in Nat /\ restarts.delivery \in Nat
        BY DEF IndInv, Typed
    <2>2. handled[m] <= restarts.delivery \/ handled[m] = restarts.delivery + 1
        BY DEF IndInv, Counts
    <2> QED BY <2>1, <2>2
<1> QED
    BY <1>1, IndInvCorrect, PTL

\* What a client broke off, or the frontend could not write, is never handled or saved; and a
\* truncated copy is handled only of a mail whose ID another mail had before, when the file
\* was opened for that one.
THEOREM PartialNeverHandledCorrect == ASSUME Scope PROVE Spec => []PartialNeverHandled
<1>1. IndInv /\ Mixed => PartialNeverHandled
    BY DEF IndInv, Safe, Broken, Mixed, Parts, Shared, PartialNeverHandled
<1> QED
    BY <1>1, IndInvCorrect, MixedCorrect, PTL

-----------------------------------------------------------------------------
(***************************************************************************)
(* Nodes and memory                                                        *)
(***************************************************************************)

\* The blocks of holders that need n[h] each.
BlocksOf(n) == UNION {{h} \X (1..n[h]) : h \in DOMAIN n}

LEMMA BlockIn ==
    ASSUME NEW n
    PROVE  /\ \A b \in BlocksOf(n) : b[1] \in DOMAIN n /\ b[2] \in 1..n[b[1]] /\ b = <<b[1], b[2]>>
           /\ \A h \in DOMAIN n : \A k \in 1..n[h] : <<h, k>> \in BlocksOf(n)
<1>1. ASSUME NEW b \in BlocksOf(n)
      PROVE  b[1] \in DOMAIN n /\ b[2] \in 1..n[b[1]] /\ b = <<b[1], b[2]>>
    <2>1. PICK h \in DOMAIN n : b \in {h} \X (1..n[h])
        BY <1>1 DEF BlocksOf
    <2> QED BY <2>1
<1>2. ASSUME NEW h \in DOMAIN n, NEW k \in 1..n[h] PROVE <<h, k>> \in BlocksOf(n)
    <2>1. <<h, k>> \in {h} \X (1..n[h])
        BY <1>2
    <2> QED BY <2>1 DEF BlocksOf
<1> QED BY <1>1, <1>2

\* Holders that hand on what they hold, or give it up, need no more than before.
LEMMA BlocksMoved ==
    ASSUME NEW n, NEW N, NEW f \in [DOMAIN N -> DOMAIN n],
           \A g, h \in DOMAIN N : f[g] = f[h] => g = h,
           \A h \in DOMAIN N : N[h] = n[f[h]],
           IsFiniteSet(BlocksOf(n))
    PROVE  /\ IsFiniteSet(BlocksOf(N))
           /\ Cardinality(BlocksOf(N)) \in Nat /\ Cardinality(BlocksOf(n)) \in Nat
           /\ Cardinality(BlocksOf(N)) <= Cardinality(BlocksOf(n))
<1> DEFINE g == [b \in BlocksOf(N) |-> <<f[b[1]], b[2]>>]
<1>1. ASSUME NEW b \in BlocksOf(N) PROVE g[b] \in BlocksOf(n)
    <2>1. b[1] \in DOMAIN N /\ b[2] \in 1..N[b[1]]
        BY BlockIn
    <2>2. f[b[1]] \in DOMAIN n /\ b[2] \in 1..n[f[b[1]]]
        BY <2>1
    <2>3. <<f[b[1]], b[2]>> \in BlocksOf(n)
        BY <2>2, BlockIn
    <2> QED BY <2>3
<1>2. ASSUME NEW a \in BlocksOf(N), NEW b \in BlocksOf(N), g[a] = g[b] PROVE a = b
    <2>1. /\ a[1] \in DOMAIN N /\ b[1] \in DOMAIN N
          /\ a = <<a[1], a[2]>> /\ b = <<b[1], b[2]>>
        BY BlockIn
    <2>2. <<f[a[1]], a[2]>> = <<f[b[1]], b[2]>>
        BY <1>2
    <2>3. f[a[1]] = f[b[1]] /\ a[2] = b[2]
        BY <2>2
    <2> QED BY <2>1, <2>3
<1>3. g \in Injection(BlocksOf(N), BlocksOf(n))
    BY <1>1, <1>2 DEF Injection, IsInjective
<1> QED
    BY <1>3, FS_Injection, FS_CardinalityType

\* One more holder needs what it needs on top of the others.
LEMMA BlocksAdded ==
    ASSUME NEW n, NEW N, NEW h, h \notin DOMAIN n, DOMAIN N = DOMAIN n \cup {h},
           \A g \in DOMAIN n : N[g] = n[g], N[h] \in Nat,
           IsFiniteSet(BlocksOf(n)) \/ IsFiniteSet(BlocksOf(N))
    PROVE  /\ IsFiniteSet(BlocksOf(N)) /\ IsFiniteSet(BlocksOf(n))
           /\ Cardinality(BlocksOf(N)) \in Nat /\ Cardinality(BlocksOf(n)) \in Nat
           /\ Cardinality(BlocksOf(N)) = Cardinality(BlocksOf(n)) + N[h]
<1> DEFINE B == {h} \X (1..N[h])
<1>1. ASSUME NEW b \in BlocksOf(N) PROVE b \in BlocksOf(n) \cup B
    <2>1. b[1] \in DOMAIN N /\ b[2] \in 1..N[b[1]] /\ b = <<b[1], b[2]>>
        BY BlockIn
    <2>2. CASE b[1] = h
        BY <2>1, <2>2
    <2>3. CASE b[1] # h
        <3>1. b[1] \in DOMAIN n /\ b[2] \in 1..n[b[1]]
            BY <2>1, <2>3
        <3> QED BY <2>1, <3>1, BlockIn
    <2> QED BY <2>2, <2>3
<1>2. ASSUME NEW b \in BlocksOf(n) PROVE b \in BlocksOf(N) /\ b \notin B
    <2>1. b[1] \in DOMAIN n /\ b[2] \in 1..n[b[1]] /\ b = <<b[1], b[2]>>
        BY BlockIn
    <2>2. b[1] \in DOMAIN N /\ b[2] \in 1..N[b[1]]
        BY <2>1
    <2> QED BY <2>1, <2>2, BlockIn
<1>3. ASSUME NEW b \in B PROVE b \in BlocksOf(N)
    <2>1. b = <<h, b[2]>> /\ b[2] \in 1..N[h] /\ h \in DOMAIN N
        OBVIOUS
    <2> QED BY <2>1, BlockIn
<1>4. BlocksOf(N) = BlocksOf(n) \cup B /\ BlocksOf(n) \cap B = {}
    BY <1>1, <1>2, <1>3
<1>5. IsFiniteSet(1..N[h]) /\ Cardinality(1..N[h]) = N[h]
    BY FS_Interval
<1>6. IsFiniteSet({h}) /\ Cardinality({h}) = 1
    BY FS_Singleton
<1>7. IsFiniteSet(B) /\ Cardinality(B) = N[h]
    BY <1>5, <1>6, FS_Product
<1> HIDE DEF B
<1>8. BlocksOf(n) \in SUBSET BlocksOf(N)
    BY <1>4
<1>9. IsFiniteSet(BlocksOf(n))
    BY <1>8, FS_Subset
<1>10. /\ IsFiniteSet(BlocksOf(n) \cup B)
       /\ Cardinality(BlocksOf(n) \cup B)
              = Cardinality(BlocksOf(n)) + Cardinality(B) - Cardinality(BlocksOf(n) \cap B)
    BY <1>7, <1>9, FS_Union
<1>11. Cardinality(BlocksOf(n)) \in Nat /\ Cardinality(BlocksOf(n) \cap B) = 0
    BY <1>4, <1>9, FS_CardinalityType, FS_EmptySet
<1> QED
    BY <1>4, <1>7, <1>9, <1>10, <1>11

\* The places that hold a message while the loader l is in a state of LP, or the thread
\* in a state of WP; u is the used list and k the threads.
Places(l, u, k, LP, WP) ==
    (IF l.pc \in LP THEN {<<"loader", 0>>} ELSE {})
    \cup {<<"used", i>> : i \in DOMAIN u}
    \cup {<<"worker", w>> : w \in {v \in Workers : k[v].pc \in WP}}

SizeAt(l, u, k, h) ==
    CASE h[1] = "loader" -> l.size
      [] h[1] = "used"   -> u[h[2]].size
      [] OTHER           -> k[h[2]].msg.size

MemoryL == {"node", "read", "used"}
MemoryW == {"process", "remove", "erase", "memory"}
NodeL == {"read", "used"}
NodeHolders == Places(loader, used, worker, NodeL, WorkStates)

\* g_current_mem covers what is held and stays within dequeue_maximum_mem.
MemoryKept ==
    /\ mem \in Nat /\ mem <= Units
    /\ IsFiniteSet(HeldBlocks) /\ HeldMemory <= mem

\* No node is on the free list while somebody uses it.
NodesKept ==
    /\ free \in Nat
    /\ IsFiniteSet(NodeHolders) /\ Cardinality(NodeHolders) + free <= Units

\* Every message that is held after the step was held before it, by one place.
Moved(LP, WP) ==
    LET H == Places(loader, used, worker, LP, WP)
        N == Places(loader', used', worker', LP, WP)
    IN  \E f \in [N -> H] :
            /\ \A g, h \in N : f[g] = f[h] => g = h
            /\ \A h \in N : SizeAt(loader', used', worker', h) = SizeAt(loader, used, worker, f[h])

\* What every place needs.
Needs(l, u, k) == [h \in Places(l, u, k, MemoryL, MemoryW) |-> SizeAt(l, u, k, h)]

LEMMA PlaceIn ==
    ASSUME NEW l, NEW u, NEW k, NEW LP, NEW WP, DOMAIN u = 1..Len(u)
    PROVE  /\ <<"loader", 0>> \in Places(l, u, k, LP, WP) <=> l.pc \in LP
           /\ \A i : <<"used", i>> \in Places(l, u, k, LP, WP) <=> i \in 1..Len(u)
           /\ \A w : <<"worker", w>> \in Places(l, u, k, LP, WP) <=> w \in Workers /\ k[w].pc \in WP
           /\ \A h \in Places(l, u, k, LP, WP) :
                  \/ h = <<"loader", 0>>
                  \/ \E i \in 1..Len(u) : h = <<"used", i>>
                  \/ \E w \in Workers : k[w].pc \in WP /\ h = <<"worker", w>>
<1> DEFINE L == IF l.pc \in LP THEN {<<"loader", 0>>} ELSE {}
           U == {<<"used", i>> : i \in DOMAIN u}
           W == {<<"worker", w>> : w \in {v \in Workers : k[v].pc \in WP}}
           P == Places(l, u, k, LP, WP)
<1>1. P = L \cup U \cup W
    BY DEF Places
<1>2. \A h \in L : h = <<"loader", 0>>
    OBVIOUS
<1>3. \A h \in U : \E i \in 1..Len(u) : h = <<"used", i>>
    OBVIOUS
<1>4. \A h \in W : \E w \in Workers : k[w].pc \in WP /\ h = <<"worker", w>>
    OBVIOUS
<1>5. <<"loader", 0>> \in L <=> l.pc \in LP
    OBVIOUS
<1>6. \A i : <<"used", i>> \in U <=> i \in 1..Len(u)
    OBVIOUS
<1>7. \A w : <<"worker", w>> \in W <=> w \in Workers /\ k[w].pc \in WP
    OBVIOUS
<1>8. \A i, w : <<"loader", 0>> # <<"used", i>> /\ <<"used", i>> # <<"worker", w>>
                /\ <<"loader", 0>> # <<"worker", w>>
    OBVIOUS
<1> HIDE DEF L, U, W, P
<1>14. <<"loader", 0>> \in P <=> l.pc \in LP
    BY <1>1, <1>3, <1>4, <1>5, <1>8, Zenon
<1>15. \A i : <<"used", i>> \in P <=> i \in 1..Len(u)
    BY <1>1, <1>2, <1>4, <1>6, <1>8, Zenon
<1>16. \A w : <<"worker", w>> \in P <=> w \in Workers /\ k[w].pc \in WP
    BY <1>1, <1>2, <1>3, <1>7, <1>8, Zenon
<1>17. \A h \in P :
                  \/ h = <<"loader", 0>>
                  \/ \E i \in 1..Len(u) : h = <<"used", i>>
                  \/ \E w \in Workers : k[w].pc \in WP /\ h = <<"worker", w>>
    BY <1>1, <1>2, <1>3, <1>4, Zenon
<1> USE DEF P
<1> QED
    BY <1>14, <1>15, <1>16, <1>17, Zenon

LEMMA HeldIsBlocks ==
    HeldBlocks = BlocksOf(Needs(loader, used, worker))
<1> DEFINE P == Places(loader, used, worker, MemoryL, MemoryW)
           n == Needs(loader, used, worker)
<1>1. MemoryHolders = P
    BY DEF MemoryHolders, Places, MemoryL, MemoryW
<1>2. DOMAIN n = P /\ \A h \in P : n[h] = SizeOf(h)
    BY DEF Needs, SizeOf, SizeAt
<1> HIDE DEF P, n
<1>3. HeldBlocks = BlocksOf(n)
    BY <1>1, <1>2 DEF HeldBlocks, BlocksOf
<1> QED
    BY <1>3 DEF n

\* The places are the same, or some hold nothing any more.
LEMMA StayMoves ==
    ASSUME NEW LP, NEW WP, used \in Seq(Messages), UNCHANGED used,
           loader'.pc \in LP => loader.pc \in LP /\ loader'.size = loader.size,
           \A v \in Workers : worker'[v].pc \in WP =>
                worker[v].pc \in WP /\ worker'[v].msg = worker[v].msg
    PROVE  Moved(LP, WP)
<1> DEFINE H == Places(loader, used, worker, LP, WP)
           N == Places(loader', used', worker', LP, WP)
           f == [h \in N |-> h]
<1>0. DOMAIN used = 1..Len(used) /\ DOMAIN used' = 1..Len(used')
    OBVIOUS
<1>m. /\ \A i : SizeAt(loader, used, worker, <<"used", i>>) = used[i].size
      /\ \A w : SizeAt(loader, used, worker, <<"worker", w>>) = worker[w].msg.size
    BY DEF SizeAt
<1>n. /\ \A i : SizeAt(loader', used', worker', <<"used", i>>) = used'[i].size
      /\ \A w : SizeAt(loader', used', worker', <<"worker", w>>) = worker'[w].msg.size
    BY DEF SizeAt
<1>p. \A h \in N :
          \/ h = <<"loader", 0>>
          \/ \E i \in 1..Len(used') : h = <<"used", i>>
          \/ \E w \in Workers : worker'[w].pc \in WP /\ h = <<"worker", w>>
    BY <1>0, PlaceIn
<1>1. ASSUME NEW h \in N
      PROVE  h \in H /\ SizeAt(loader', used', worker', h) = SizeAt(loader, used, worker, h)
    <2>1. CASE h = <<"loader", 0>>
        <3>1. loader'.pc \in LP
            BY <1>0, <2>1, PlaceIn, Zenon
        <3>2. h \in H
            BY <1>0, <2>1, <3>1, PlaceIn, Zenon
        <3> QED BY <2>1, <3>1, <3>2 DEF SizeAt
    <2>2. ASSUME NEW i \in 1..Len(used'), h = <<"used", i>>
          PROVE  h \in H /\ SizeAt(loader', used', worker', h) = SizeAt(loader, used, worker, h)
        <3>1. h \in H
            BY <1>0, <2>2, PlaceIn, Zenon
        <3> QED BY <1>m, <1>n, <2>2, <3>1, Zenon
    <2>3. ASSUME NEW w \in Workers, worker'[w].pc \in WP, h = <<"worker", w>>
          PROVE  h \in H /\ SizeAt(loader', used', worker', h) = SizeAt(loader, used, worker, h)
        <3>1. h \in H
            BY <1>0, <2>3, PlaceIn, Zenon
        <3> QED BY <1>m, <1>n, <2>3, <3>1, Zenon
    <2> QED BY <2>1, <2>2, <2>3, <1>p, Zenon
<1> HIDE DEF H, N
<1>2. f \in [N -> H] /\ (\A h \in N : f[h] = h)
    BY <1>1
<1>3. \E g \in [N -> H] :
            /\ \A a, h \in N : g[a] = g[h] => a = h
            /\ \A h \in N : SizeAt(loader', used', worker', h) = SizeAt(loader, used, worker, g[h])
    BY <1>1, <1>2
<1> QED
    BY <1>3 DEF Moved, H, N

\* The loader hands its message to the end of the used list.
LEMMA PutMoves ==
    ASSUME NEW LP, NEW WP, "used" \in LP, "emplace" \notin LP, "idle" \notin WP,
           Typed, PutToUsed,
           [id |-> loader.id, mail |-> loader.file.mail, size |-> loader.size,
            whole |-> loader.file.full] \in Messages
    PROVE  Moved(LP, WP)
<1> DEFINE H == Places(loader, used, worker, LP, WP)
           N == Places(loader', used', worker', LP, WP)
           new == Len(used) + 1
           f == [h \in N |-> IF h = <<"used", new>> THEN <<"loader", 0>> ELSE h]
<1>0. /\ used' \in Seq(Messages) /\ Len(used') = Len(used) + 1 /\ Len(used) \in Nat
      /\ \A i \in 1..Len(used) : used'[i] = used[i]
      /\ used'[Len(used) + 1].size = loader.size
    BY DEF PutToUsed, Typed, history
<1>u. DOMAIN used = 1..Len(used) /\ DOMAIN used' = 1..Len(used')
    BY <1>0 DEF Typed
<1>l. loader.pc = "used" /\ loader'.pc = "emplace"
    BY DEF PutToUsed, LoaderGoes, Typed, history
<1>w. \A w \in Workers : worker'[w].pc \in WP => worker'[w] = worker[w]
    BY DEF PutToUsed, WakeOne, Idle, Typed, history
<1>m. /\ SizeAt(loader, used, worker, <<"loader", 0>>) = loader.size
      /\ \A i : SizeAt(loader, used, worker, <<"used", i>>) = used[i].size
      /\ \A w : SizeAt(loader, used, worker, <<"worker", w>>) = worker[w].msg.size
    BY DEF SizeAt
<1>n. /\ \A i : SizeAt(loader', used', worker', <<"used", i>>) = used'[i].size
      /\ \A w : SizeAt(loader', used', worker', <<"worker", w>>) = worker'[w].msg.size
    BY DEF SizeAt
<1>p. \A h \in N :
          \/ h = <<"loader", 0>> /\ loader'.pc \in LP
          \/ \E i \in 1..Len(used') : h = <<"used", i>>
          \/ \E w \in Workers : worker'[w].pc \in WP /\ h = <<"worker", w>>
    BY <1>u, PlaceIn
<1>h. /\ <<"loader", 0>> \in H
      /\ \A i \in 1..Len(used) : <<"used", i>> \in H
      /\ \A w \in Workers : worker[w].pc \in WP => <<"worker", w>> \in H
    <2>0. loader.pc \in LP
        BY <1>l
    <2>1. <<"loader", 0>> \in H
        BY <1>u, <2>0, PlaceIn, Zenon
    <2>2. \A i \in 1..Len(used) : <<"used", i>> \in H
        BY <1>u, PlaceIn, Zenon
    <2>3. \A w \in Workers : worker[w].pc \in WP => <<"worker", w>> \in H
        BY <1>u, PlaceIn, Zenon
    <2> QED BY <2>1, <2>2, <2>3
<1>e. \A i, w : <<"loader", 0>> # <<"used", i>> /\ <<"used", i>> # <<"worker", w>>
                /\ <<"loader", 0>> # <<"worker", w>>
    OBVIOUS
<1>1. ASSUME NEW h \in N
      PROVE  /\ h # <<"loader", 0>> /\ f[h] \in H
             /\ SizeAt(loader', used', worker', h) = SizeAt(loader, used, worker, f[h])
    <2>0. h # <<"loader", 0>>
        BY <1>l, <1>p, <1>e
    <2>1. CASE h = <<"used", new>>
        <3>1. f[h] = <<"loader", 0>>
            BY <2>1
        <3>2. SizeAt(loader', used', worker', h) = used'[new].size
            BY <1>n, <2>1, Zenon
        <3> HIDE DEF H, N, f
        <3> QED BY <1>0, <1>h, <1>m, <2>0, <3>1, <3>2
    <2>2. ASSUME NEW i \in 1..Len(used'), h = <<"used", i>>, h # <<"used", new>>
          PROVE  f[h] \in H /\ SizeAt(loader', used', worker', h) = SizeAt(loader, used, worker, f[h])
        <3>1. f[h] = <<"used", i>>
            BY <2>2
        <3>2. i \in 1..Len(used)
            BY <2>2, <1>0
        <3> HIDE DEF H, N, f
        <3>3. /\ SizeAt(loader', used', worker', h) = used'[i].size
              /\ SizeAt(loader, used, worker, f[h]) = used[i].size
            BY <1>m, <1>n, <2>2, <3>1, Zenon
        <3>4. f[h] \in H
            BY <1>h, <3>1, <3>2, Zenon
        <3> QED BY <1>0, <3>2, <3>3, <3>4
    <2>3. ASSUME NEW w \in Workers, worker'[w].pc \in WP, h = <<"worker", w>>
          PROVE  f[h] \in H /\ SizeAt(loader', used', worker', h) = SizeAt(loader, used, worker, f[h])
        <3>1. f[h] = h
            BY <2>3
        <3>2. worker'[w] = worker[w]
            BY <1>w, <2>3
        <3> HIDE DEF H, N, f
        <3>3. /\ SizeAt(loader', used', worker', h) = worker'[w].msg.size
              /\ SizeAt(loader, used, worker, f[h]) = worker[w].msg.size
            BY <1>m, <1>n, <2>3, <3>1, Zenon
        <3>4. f[h] \in H
            BY <1>h, <2>3, <3>1, <3>2, Zenon
        <3> QED BY <3>2, <3>3, <3>4
    <2> QED BY <2>0, <2>1, <2>2, <2>3, <1>p, Zenon
<1>2. ASSUME NEW g \in N, NEW h \in N, f[g] = f[h] PROVE g = h
    <2>1. g # <<"loader", 0>> /\ h # <<"loader", 0>>
        BY <1>1
    <2> QED BY <1>2, <2>1
<1> HIDE DEF H, N
<1>3. f \in [N -> H]
    BY <1>1
<1>4. \E g \in [N -> H] :
            /\ \A a, h \in N : g[a] = g[h] => a = h
            /\ \A h \in N : SizeAt(loader', used', worker', h) = SizeAt(loader, used, worker, g[h])
    <2> HIDE DEF f
    <2> QED BY <1>1, <1>2, <1>3
<1> QED
    BY <1>4 DEF Moved, H, N

\* A thread takes the head of the used list.
LEMMA GetMoves ==
    ASSUME NEW LP, NEW WP, "process" \in WP, "idle" \notin WP, NEW w \in Workers,
           Typed, Get(w)
    PROVE  Moved(LP, WP)
<1> DEFINE H == Places(loader, used, worker, LP, WP)
           N == Places(loader', used', worker', LP, WP)
           f == [h \in N |-> IF h = <<"worker", w>> THEN <<"used", 1>>
                             ELSE IF h[1] = "used" THEN <<"used", h[2] + 1>> ELSE h]
<1>0. /\ used' \in Seq(Messages) /\ Len(used) \in Nat /\ Len(used) >= 1 /\ Len(used') = Len(used) - 1
      /\ \A i \in 1..Len(used') : i + 1 \in 1..Len(used) /\ used'[i] = used[i + 1]
    BY DEF Get, Typed
<1>u. DOMAIN used = 1..Len(used) /\ DOMAIN used' = 1..Len(used')
    BY <1>0 DEF Typed
<1>l. loader' = loader
    BY DEF Get, WorkerOnly, WorkerSpares, history
<1>w. /\ worker'[w].pc \in WP /\ worker'[w].msg = used[1] /\ worker[w].pc \notin WP
      /\ \A v \in Workers : v # w => worker'[v] = worker[v]
    BY DEF Get, Typed
<1>m. /\ SizeAt(loader, used, worker, <<"loader", 0>>) = loader.size
      /\ \A i : SizeAt(loader, used, worker, <<"used", i>>) = used[i].size
      /\ \A v : SizeAt(loader, used, worker, <<"worker", v>>) = worker[v].msg.size
    BY DEF SizeAt
<1>n. /\ SizeAt(loader', used', worker', <<"loader", 0>>) = loader'.size
      /\ \A i : SizeAt(loader', used', worker', <<"used", i>>) = used'[i].size
      /\ \A v : SizeAt(loader', used', worker', <<"worker", v>>) = worker'[v].msg.size
    BY DEF SizeAt
<1>p. \A h \in N :
          \/ h = <<"loader", 0>> /\ loader'.pc \in LP
          \/ \E i \in 1..Len(used') : h = <<"used", i>>
          \/ \E v \in Workers : worker'[v].pc \in WP /\ h = <<"worker", v>>
    BY <1>u, PlaceIn
<1>h. /\ loader.pc \in LP => <<"loader", 0>> \in H
      /\ \A i \in 1..Len(used) : <<"used", i>> \in H
      /\ \A v \in Workers : worker[v].pc \in WP => <<"worker", v>> \in H
    BY <1>u, PlaceIn
\* Where everything comes from.
<1>f. /\ \A h \in N : h = <<"loader", 0>> => f[h] = <<"loader", 0>>
      /\ \A h \in N : h = <<"worker", w>> => f[h] = <<"used", 1>>
      /\ \A h \in N, i \in 1..Len(used') : h = <<"used", i>> => f[h] = <<"used", i + 1>>
      /\ \A h \in N, v \in Workers : h = <<"worker", v>> /\ v # w => f[h] = <<"worker", v>>
    OBVIOUS
<1> HIDE DEF H, N, f
<1>1. ASSUME NEW h \in N
      PROVE  f[h] \in H /\ SizeAt(loader', used', worker', h) = SizeAt(loader, used, worker, f[h])
    <2>1. CASE h = <<"loader", 0>> /\ loader'.pc \in LP
        <3>1. f[h] = h
            BY <1>f, <2>1
        <3> QED BY <1>h, <1>l, <1>m, <1>n, <2>1, <3>1, Zenon
    <2>2. CASE h = <<"worker", w>>
        <3>0. 1 \in 1..Len(used)
            BY <1>0
        <3>1. f[h] = <<"used", 1>> /\ 1 \in 1..Len(used)
            BY <1>f, <2>2, <3>0, Zenon
        <3>2. f[h] \in H
            BY <1>h, <3>1, Zenon
        <3>3. /\ SizeAt(loader', used', worker', h) = worker'[w].msg.size
              /\ SizeAt(loader, used, worker, f[h]) = used[1].size
            BY <1>m, <1>n, <2>2, <3>1, Zenon
        <3> QED BY <1>w, <3>2, <3>3, Zenon
    <2>3. ASSUME NEW i \in 1..Len(used'), h = <<"used", i>>
          PROVE  f[h] \in H /\ SizeAt(loader', used', worker', h) = SizeAt(loader, used, worker, f[h])
        <3>1. f[h] = <<"used", i + 1>> /\ i + 1 \in 1..Len(used) /\ used'[i] = used[i + 1]
            BY <1>f, <1>0, <2>3
        <3>2. f[h] \in H
            BY <1>h, <3>1, Zenon
        <3>3. /\ SizeAt(loader', used', worker', h) = used'[i].size
              /\ SizeAt(loader, used, worker, f[h]) = used[i + 1].size
            BY <1>m, <1>n, <2>3, <3>1, Zenon
        <3> QED BY <3>1, <3>2, <3>3, Zenon
    <2>4. ASSUME NEW v \in Workers, v # w, worker'[v].pc \in WP, h = <<"worker", v>>
          PROVE  f[h] \in H /\ SizeAt(loader', used', worker', h) = SizeAt(loader, used, worker, f[h])
        <3>1. f[h] = h /\ worker'[v] = worker[v]
            BY <1>f, <1>w, <2>4
        <3>2. f[h] \in H
            BY <1>h, <2>4, <3>1, Zenon
        <3>3. /\ SizeAt(loader', used', worker', h) = worker'[v].msg.size
              /\ SizeAt(loader, used, worker, f[h]) = worker[v].msg.size
            BY <1>m, <1>n, <2>4, <3>1, Zenon
        <3> QED BY <3>1, <3>2, <3>3, Zenon
    <2> QED BY <2>1, <2>2, <2>3, <2>4, <1>p, Zenon
<1>2. ASSUME NEW g \in N, NEW h \in N, f[g] = f[h] PROVE g = h
    <2> DEFINE Z(x) == \/ x = <<"loader", 0>> /\ f[x] = <<"loader", 0>>
                       \/ \E i \in 1..Len(used') : x = <<"used", i>> /\ f[x] = <<"used", i + 1>>
                       \/ x = <<"worker", w>> /\ f[x] = <<"used", 1>>
                       \/ \E v \in Workers : x = <<"worker", v>> /\ f[x] = <<"worker", v>>
    <2>1. \A x \in N : Z(x)
        BY <1>f, <1>p
    <2>2. Z(g) /\ Z(h)
        BY <2>1
    <2>3. \A i, v : /\ <<"loader", 0>> # <<"used", i>> /\ <<"used", i>> # <<"worker", v>>
                    /\ <<"loader", 0>> # <<"worker", v>>
        OBVIOUS
    <2>4. CASE g = <<"loader", 0>> /\ f[g] = <<"loader", 0>>
        BY <1>2, <2>2, <2>3, <2>4
    <2>5. ASSUME NEW i \in 1..Len(used'), g = <<"used", i>>, f[g] = <<"used", i + 1>>
          PROVE  g = h
        <3>1. f[h] # <<"used", 1>>
            BY <1>2, <2>5
        <3>2. PICK j \in 1..Len(used') : h = <<"used", j>> /\ f[h] = <<"used", j + 1>>
            BY <1>2, <2>2, <2>3, <2>5, <3>1
        <3>3. <<"used", i + 1>> = <<"used", j + 1>>
            BY <1>2, <2>5, <3>2, Zenon
        <3>4. i + 1 = j + 1
            BY <3>3
        <3>5. i = j
            BY <1>0, <3>4
        <3> QED BY <2>5, <3>2, <3>5
    <2>6. CASE g = <<"worker", w>> /\ f[g] = <<"used", 1>>
        <3>1. \A i \in 1..Len(used') : <<"used", i + 1>> # <<"used", 1>>
            OBVIOUS
        <3> QED BY <1>2, <2>2, <2>3, <2>6, <3>1
    <2>7. ASSUME NEW v \in Workers, g = <<"worker", v>>, f[g] = <<"worker", v>>
          PROVE  g = h
        BY <1>2, <2>2, <2>3, <2>7
    <2> QED BY <2>2, <2>4, <2>5, <2>6, <2>7
<1>3. f \in [N -> H]
    BY <1>1 DEF f
<1>4. \E g \in [N -> H] :
            /\ \A a, h \in N : g[a] = g[h] => a = h
            /\ \A h \in N : SizeAt(loader', used', worker', h) = SizeAt(loader, used, worker, g[h])
    BY <1>1, <1>2, <1>3
<1> QED
    BY <1>4 DEF Moved, H, N

LEMMA NextHeldIsBlocks ==
    HeldBlocks' = BlocksOf(Needs(loader', used', worker'))
<1>1. (HeldBlocks = BlocksOf(Needs(loader, used, worker)))'
    BY HeldIsBlocks, PTL
<1> QED
    BY <1>1

\* Nothing new is held: memory and nodes go on as they are.
LEMMA MovedKeepsMemory ==
    ASSUME MemoryKept, Moved(MemoryL, MemoryW), UNCHANGED mem
    PROVE  MemoryKept'
<1> DEFINE n == Needs(loader, used, worker)
           N == Needs(loader', used', worker')
<1>1. PICK f \in [DOMAIN N -> DOMAIN n] :
            /\ \A g, h \in DOMAIN N : f[g] = f[h] => g = h
            /\ \A h \in DOMAIN N : SizeAt(loader', used', worker', h) = SizeAt(loader, used, worker, f[h])
    BY DEF Moved, Needs
<1>2. \A h \in DOMAIN N : N[h] = n[f[h]]
    BY <1>1 DEF Needs
<1>3. IsFiniteSet(BlocksOf(n)) /\ Cardinality(BlocksOf(n)) <= mem
    BY HeldIsBlocks DEF MemoryKept, HeldMemory
<1> HIDE DEF n, N
<1>4. /\ IsFiniteSet(BlocksOf(N))
      /\ Cardinality(BlocksOf(N)) \in Nat /\ Cardinality(BlocksOf(n)) \in Nat
      /\ Cardinality(BlocksOf(N)) <= Cardinality(BlocksOf(n))
    BY <1>1, <1>2, <1>3, BlocksMoved
<1>5. HeldBlocks' = BlocksOf(N) /\ HeldMemory' = Cardinality(BlocksOf(N))
    BY NextHeldIsBlocks DEF N, HeldMemory
<1>6. mem \in Nat /\ mem <= Units /\ mem' = mem
    BY DEF MemoryKept
<1>7. Cardinality(BlocksOf(N)) <= mem'
    BY <1>3, <1>4, <1>6
<1> QED
    BY <1>4, <1>5, <1>6, <1>7 DEF MemoryKept

LEMMA MovedKeepsNodes ==
    ASSUME NodesKept, Moved(NodeL, WorkStates), UNCHANGED free
    PROVE  NodesKept'
<1> DEFINE H == NodeHolders
           N == Places(loader', used', worker', NodeL, WorkStates)
<1>1. PICK f \in [N -> H] : \A g, h \in N : f[g] = f[h] => g = h
    BY DEF Moved, NodeHolders
<1>2. f \in Injection(N, H)
    BY <1>1 DEF Injection, IsInjective
<1>3. IsFiniteSet(N) /\ Cardinality(N) <= Cardinality(H)
    BY <1>2, FS_Injection DEF NodesKept
<1>4. Cardinality(N) \in Nat /\ Cardinality(H) \in Nat
    BY <1>3, FS_CardinalityType DEF NodesKept
<1>5. NodeHolders' = N
    BY DEF NodeHolders
<1> HIDE DEF H, N
<1>6. free \in Nat /\ Cardinality(H) + free <= Units /\ free' = free
    BY DEF NodesKept, H
<1>7. Cardinality(N) + free' <= Units
    BY <1>3, <1>4, <1>6, QueueFacts
<1> QED
    BY <1>3, <1>5, <1>6, <1>7 DEF NodesKept

\* The place p more, and nothing else, holds a message.
OneMore(l, u, k, L, U, K, LP, WP, p) ==
    /\ Places(L, U, K, LP, WP) = Places(l, u, k, LP, WP) \cup {p}
    /\ p \notin Places(l, u, k, LP, WP)
    /\ \A h \in Places(l, u, k, LP, WP) : SizeAt(L, U, K, h) = SizeAt(l, u, k, h)

\* Only the loader comes to hold a message, or lets it go when read backwards.
LEMMA LoaderPlace ==
    ASSUME NEW l, NEW L, NEW u, NEW k, NEW LP, NEW WP, DOMAIN u = 1..Len(u),
           l.pc \notin LP, L.pc \in LP
    PROVE  OneMore(l, u, k, L, u, k, LP, WP, <<"loader", 0>>)
<1>1. Places(L, u, k, LP, WP) = Places(l, u, k, LP, WP) \cup {<<"loader", 0>>}
    BY DEF Places
<1>2. <<"loader", 0>> \notin Places(l, u, k, LP, WP)
    BY PlaceIn
<1>3. ASSUME NEW h \in Places(l, u, k, LP, WP) PROVE SizeAt(L, u, k, h) = SizeAt(l, u, k, h)
    <2>1. \/ \E i \in 1..Len(u) : h = <<"used", i>>
          \/ \E w \in Workers : k[w].pc \in WP /\ h = <<"worker", w>>
        BY <1>2, PlaceIn
    <2>2. h[1] # "loader"
        BY <2>1
    <2> QED BY <2>2 DEF SizeAt
<1> QED
    BY <1>1, <1>2, <1>3 DEF OneMore

\* Only the thread w does.
LEMMA WorkerPlace ==
    ASSUME NEW l, NEW u, NEW k, NEW K, NEW LP, NEW WP, DOMAIN u = 1..Len(u),
           NEW w \in Workers, k[w].pc \notin WP, K[w].pc \in WP,
           \A v \in Workers : v # w => K[v] = k[v]
    PROVE  OneMore(l, u, k, l, u, K, LP, WP, <<"worker", w>>)
<1> DEFINE A == {v \in Workers : K[v].pc \in WP}
           B == {v \in Workers : k[v].pc \in WP}
<1>1. A = B \cup {w}
    OBVIOUS
<1>2. {<<"worker", v>> : v \in A} = {<<"worker", v>> : v \in B} \cup {<<"worker", w>>}
    BY <1>1
<1>3. Places(l, u, K, LP, WP) = Places(l, u, k, LP, WP) \cup {<<"worker", w>>}
    BY <1>2 DEF Places
<1>4. <<"worker", w>> \notin Places(l, u, k, LP, WP)
    BY PlaceIn
<1>5. ASSUME NEW h \in Places(l, u, k, LP, WP) PROVE SizeAt(l, u, K, h) = SizeAt(l, u, k, h)
    <2>1. \/ h = <<"loader", 0>>
          \/ \E i \in 1..Len(u) : h = <<"used", i>>
          \/ \E v \in Workers : k[v].pc \in WP /\ h = <<"worker", v>>
        BY PlaceIn
    <2>2. CASE h[1] \in {"loader", "used"}
        BY <2>2 DEF SizeAt
    <2>3. ASSUME NEW v \in Workers, k[v].pc \in WP, h = <<"worker", v>>
          PROVE  SizeAt(l, u, K, h) = SizeAt(l, u, k, h)
        <3>1. K[v] = k[v] /\ h[1] = "worker" /\ h[2] = v
            BY <2>3
        <3> QED BY <3>1 DEF SizeAt
    <2> QED BY <2>1, <2>2, <2>3
<1> QED
    BY <1>3, <1>4, <1>5 DEF OneMore

\* What a place more or less does to the memory that is needed.
LEMMA NeedsAdded ==
    ASSUME NEW l, NEW u, NEW k, NEW L, NEW U, NEW K, NEW p, NEW s \in Nat,
           OneMore(l, u, k, L, U, K, MemoryL, MemoryW, p),
           s = SizeAt(L, U, K, p),
           IsFiniteSet(BlocksOf(Needs(l, u, k))) \/ IsFiniteSet(BlocksOf(Needs(L, U, K)))
    PROVE  /\ IsFiniteSet(BlocksOf(Needs(l, u, k))) /\ IsFiniteSet(BlocksOf(Needs(L, U, K)))
           /\ Cardinality(BlocksOf(Needs(l, u, k))) \in Nat
           /\ Cardinality(BlocksOf(Needs(L, U, K))) = Cardinality(BlocksOf(Needs(l, u, k))) + s
<1> DEFINE n == Needs(l, u, k)
           N == Needs(L, U, K)
<1>1. p \notin DOMAIN n /\ DOMAIN N = DOMAIN n \cup {p}
    BY DEF Needs, OneMore
<1>2. \A h \in DOMAIN n : N[h] = n[h]
    BY <1>1 DEF Needs, OneMore
<1>3. N[p] = s
    BY <1>1 DEF Needs
<1>4. IsFiniteSet(BlocksOf(n)) \/ IsFiniteSet(BlocksOf(N))
    OBVIOUS
<1> HIDE DEF n, N
<1>5. /\ IsFiniteSet(BlocksOf(N)) /\ IsFiniteSet(BlocksOf(n))
      /\ Cardinality(BlocksOf(N)) \in Nat /\ Cardinality(BlocksOf(n)) \in Nat
      /\ Cardinality(BlocksOf(N)) = Cardinality(BlocksOf(n)) + N[p]
    BY <1>1, <1>2, <1>3, <1>4, BlocksAdded
<1> QED
    BY <1>3, <1>5 DEF n, N

\* Nobody takes or gives back memory or a node.
LEMMA QuietAccounts ==
    ASSUME Typed, MemoryKept, NodesKept, UNCHANGED <<mem, free, used>>,
           loader'.pc \in MemoryL => loader.pc \in MemoryL /\ loader'.size = loader.size,
           loader'.pc \in NodeL => loader.pc \in NodeL,
           \A v \in Workers :
               /\ worker'[v].pc \in MemoryW => worker[v].pc \in MemoryW /\ worker'[v].msg = worker[v].msg
               /\ worker'[v].pc \in WorkStates =>
                      worker[v].pc \in WorkStates /\ worker'[v].msg = worker[v].msg
    PROVE  MemoryKept' /\ NodesKept'
<1>1. used \in Seq(Messages) /\ used' = used
    BY DEF Typed
<1>2. loader'.pc \in NodeL => loader'.size = loader.size
    BY DEF NodeL, MemoryL
<1>3. Moved(MemoryL, MemoryW)
    BY <1>1, StayMoves
<1>4. Moved(NodeL, WorkStates)
    BY <1>1, <1>2, StayMoves
<1> QED
    BY <1>3, <1>4, MovedKeepsMemory, MovedKeepsNodes

\* The loader reserves memory for the file it has opened.
LEMMA ReserveAccounts ==
    ASSUME IndInv, MemoryKept, NodesKept, Reserve
    PROVE  MemoryKept' /\ NodesKept'
<1>0. /\ Typed /\ LoaderReads /\ free' = free /\ loader.pc = "open"
      /\ used \in Seq(Messages) /\ used' = used /\ worker' = worker
    BY DEF IndInv, Reserve, Typed, LoaderReads, history
<1>1. CASE LoaderReturns /\ UNCHANGED mem
    <2>1. loader'.pc \notin MemoryL /\ loader'.pc \notin NodeL
        BY <1>0, <1>1, LoaderMoves DEF MemoryL, NodeL
    <2> QED BY <1>0, <1>1, <2>1, QuietAccounts
<1>2. ASSUME NEW size \in 1..Units, ~(mem + size > Units), mem' = mem + size,
             loader' = [loader EXCEPT !.pc = "node", !.file = mess[loader.id], !.size = size]
      PROVE  MemoryKept' /\ NodesKept'
    <2>3. size \in Nat
        BY <1>2, QueueAssumption
    <2>4. loader'.pc = "node" /\ loader'.size = size
        BY <1>0, <1>2 DEF Typed
    <2>5. Moved(NodeL, WorkStates)
        BY <1>0, <2>4, StayMoves DEF NodeL
    <2>6. NodesKept'
        BY <1>0, <2>5, MovedKeepsNodes
    <2>7. DOMAIN used = 1..Len(used) /\ loader.pc \notin MemoryL /\ loader'.pc \in MemoryL
        BY <1>0, <2>4 DEF MemoryL
    <2> DEFINE n == BlocksOf(Needs(loader, used, worker))
               m == BlocksOf(Needs(loader', used, worker))
    <2>8. OneMore(loader, used, worker, loader', used, worker, MemoryL, MemoryW, <<"loader", 0>>)
        BY <2>7, LoaderPlace
    <2>9. SizeAt(loader', used, worker, <<"loader", 0>>) = size
        BY <2>4 DEF SizeAt
    <2>10. IsFiniteSet(n) /\ Cardinality(n) <= mem /\ mem \in Nat
        BY HeldIsBlocks DEF MemoryKept, HeldMemory
    <2>11. IsFiniteSet(m) /\ Cardinality(n) \in Nat /\ Cardinality(m) = Cardinality(n) + size
        BY <2>3, <2>8, <2>9, <2>10, NeedsAdded
    <2>12. HeldBlocks' = m /\ HeldMemory' = Cardinality(m)
        BY <1>0, NextHeldIsBlocks DEF HeldMemory
    <2> HIDE DEF n, m
    <2>13. mem' \in Nat /\ mem' <= Units /\ Cardinality(m) <= mem'
        BY <1>2, <2>3, <2>10, <2>11, QueueFacts
    <2>14. MemoryKept'
        BY <2>11, <2>12, <2>13 DEF MemoryKept
    <2> QED BY <2>6, <2>14
<1> QED
    BY <1>0, <1>1, <1>2, ReserveSize

\* The loader takes a node.
LEMMA TakeNodeAccounts ==
    ASSUME IndInv, MemoryKept, NodesKept, TakeNode
    PROVE  MemoryKept' /\ NodesKept'
<1>0. /\ Typed /\ LoaderReads /\ mem' = mem /\ loader.pc = "node"
      /\ used \in Seq(Messages) /\ used' = used /\ worker' = worker
    BY DEF IndInv, TakeNode, Typed, LoaderReads, LoaderOnly, history
<1>1. CASE LoaderReturns /\ UNCHANGED free
    <2>1. loader'.pc \notin MemoryL /\ loader'.pc \notin NodeL
        BY <1>0, <1>1, LoaderMoves DEF MemoryL, NodeL
    <2> QED BY <1>0, <1>1, <2>1, QuietAccounts
<1>2. CASE LoaderGoes("read") /\ free # 0 /\ free' = free - 1
    <2>1. loader'.pc = "read" /\ loader'.size = loader.size
        BY <1>0, <1>2, LoaderMoves
    <2>2. Moved(MemoryL, MemoryW)
        BY <1>0, <2>1, StayMoves DEF MemoryL
    <2>3. MemoryKept'
        BY <1>0, <2>2, MovedKeepsMemory
    <2>4. DOMAIN used = 1..Len(used) /\ loader.pc \notin NodeL /\ loader'.pc \in NodeL
        BY <1>0, <2>1 DEF NodeL
    <2>l. OneMore(loader, used, worker, loader', used, worker, NodeL, WorkStates, <<"loader", 0>>)
        BY <2>4, LoaderPlace
    <2>5. /\ NodeHolders' = NodeHolders \cup {<<"loader", 0>>}
          /\ <<"loader", 0>> \notin NodeHolders
        BY <1>0, <2>l DEF NodeHolders, OneMore
    <2>6. IsFiniteSet(NodeHolders') /\ Cardinality(NodeHolders') = Cardinality(NodeHolders) + 1
        BY <2>5, FS_AddElement DEF NodesKept
    <2>7. Cardinality(NodeHolders) \in Nat
        BY FS_CardinalityType DEF NodesKept
    <2>8. free' \in Nat /\ Cardinality(NodeHolders') + free' <= Units
        BY <1>2, <2>6, <2>7, QueueFacts DEF NodesKept
    <2> QED BY <2>3, <2>6, <2>8 DEF NodesKept
<1> QED
    BY <1>1, <1>2 DEF TakeNode

\* A file that is not whole is given up, and memory and node with it.
LEMMA GiveUpAccounts ==
    ASSUME IndInv, MemoryKept, NodesKept, GiveUp
    PROVE  MemoryKept' /\ NodesKept'
<1>0. /\ Typed /\ LoaderReads /\ loader.pc = "read" /\ LoaderReturns
      /\ used \in Seq(Messages) /\ used' = used /\ worker' = worker
      /\ free' = free + 1 /\ mem' = mem - loader.size
    BY DEF IndInv, GiveUp, Typed, LoaderReads, LoaderOnly, history
<1>1. loader'.pc \notin MemoryL /\ loader'.pc \notin NodeL
    BY <1>0, LoaderMoves DEF MemoryL, NodeL
<1>2. DOMAIN used = 1..Len(used) /\ loader.pc \in MemoryL /\ loader.pc \in NodeL
    BY <1>0 DEF MemoryL, NodeL
<1>3. loader.size \in Nat
    BY <1>0, QueueAssumption DEF Typed
<1>4. MemoryKept'
    <2> DEFINE n == BlocksOf(Needs(loader', used, worker))
               m == BlocksOf(Needs(loader, used, worker))
    <2>1. OneMore(loader', used, worker, loader, used, worker, MemoryL, MemoryW, <<"loader", 0>>)
        BY <1>1, <1>2, LoaderPlace
    <2>2. SizeAt(loader, used, worker, <<"loader", 0>>) = loader.size
        BY DEF SizeAt
    <2>3. IsFiniteSet(m) /\ Cardinality(m) <= mem /\ mem \in Nat /\ mem <= Units
        BY HeldIsBlocks DEF MemoryKept, HeldMemory
    <2>s. PICK s \in Nat : s = loader.size
        BY <1>3
    <2>t. s = SizeAt(loader, used, worker, <<"loader", 0>>)
        BY <2>2, <2>s
    <2>u. IsFiniteSet(n) \/ IsFiniteSet(m)
        BY <2>3
    <2>v. IsFiniteSet(n) /\ Cardinality(n) \in Nat /\ Cardinality(m) = Cardinality(n) + s
        BY <2>1, <2>t, <2>u, NeedsAdded
    <2>4. IsFiniteSet(n) /\ Cardinality(n) \in Nat /\ Cardinality(m) = Cardinality(n) + loader.size
        BY <2>s, <2>v
    <2>5. HeldBlocks' = n /\ HeldMemory' = Cardinality(n)
        BY <1>0, NextHeldIsBlocks DEF HeldMemory
    <2> HIDE DEF n, m
    <2>6. mem' \in Nat /\ mem' <= Units /\ Cardinality(n) <= mem'
        BY <1>0, <1>3, <2>3, <2>4, QueueFacts, SMTT(30)
    <2> QED BY <2>4, <2>5, <2>6 DEF MemoryKept
<1>5. NodesKept'
    <2>l. OneMore(loader', used, worker, loader, used, worker, NodeL, WorkStates, <<"loader", 0>>)
        BY <1>1, <1>2, LoaderPlace
    <2>1. /\ NodeHolders = NodeHolders' \cup {<<"loader", 0>>}
          /\ <<"loader", 0>> \notin NodeHolders'
        BY <1>0, <2>l DEF NodeHolders, OneMore
    <2>2. NodeHolders' = NodeHolders \ {<<"loader", 0>>} /\ <<"loader", 0>> \in NodeHolders
        BY <2>1
    <2>3. IsFiniteSet(NodeHolders') /\ Cardinality(NodeHolders') = Cardinality(NodeHolders) - 1
        BY <2>2, FS_RemoveElement DEF NodesKept
    <2>4. Cardinality(NodeHolders) \in Nat
        BY FS_CardinalityType DEF NodesKept
    <2>5. free' \in Nat /\ Cardinality(NodeHolders') + free' <= Units
        BY <1>0, <2>3, <2>4, QueueFacts DEF NodesKept
    <2> QED BY <2>3, <2>5 DEF NodesKept
<1> QED
    BY <1>4, <1>5

\* A thread gives back the memory of its message.
LEMMA PutMemoryAccounts ==
    ASSUME IndInv, MemoryKept, NodesKept, NEW w \in Workers, PutMemory(w)
    PROVE  MemoryKept' /\ NodesKept'
<1>0. /\ Typed /\ worker[w].pc = "memory" /\ WorkerGoes(w, "node")
      /\ used \in Seq(Messages) /\ used' = used /\ loader' = loader
      /\ free' = free /\ mem' = mem - worker[w].msg.size
    BY DEF IndInv, PutMemory, Typed, WorkerOnly, WorkerSpares, history
<1>1. /\ worker'[w].pc = "node" /\ worker'[w].msg = worker[w].msg
      /\ \A v \in Workers : v # w => worker'[v] = worker[v]
    BY <1>0, WorkerMoves
<1>2. DOMAIN used = 1..Len(used) /\ worker[w].pc \in MemoryW /\ worker'[w].pc \notin MemoryW
    BY <1>0, <1>1 DEF MemoryW
<1>3. worker[w].msg.size \in Nat
    <2>1. worker[w].msg \in Messages
        BY <1>0 DEF Typed, WorkStates
    <2> QED BY <2>1, QueueAssumption DEF Messages
<1>4. MemoryKept'
    <2> DEFINE n == BlocksOf(Needs(loader, used, worker'))
               m == BlocksOf(Needs(loader, used, worker))
    <2>0. \A v \in Workers : v # w => worker[v] = worker'[v]
        BY <1>1
    <2>1. OneMore(loader, used, worker', loader, used, worker, MemoryL, MemoryW, <<"worker", w>>)
        BY <1>2, <2>0, WorkerPlace
    <2>2. SizeAt(loader, used, worker, <<"worker", w>>) = worker[w].msg.size
        BY DEF SizeAt
    <2>3. IsFiniteSet(m) /\ Cardinality(m) <= mem /\ mem \in Nat /\ mem <= Units
        BY HeldIsBlocks DEF MemoryKept, HeldMemory
    <2>s. PICK s \in Nat : s = worker[w].msg.size
        BY <1>3
    <2>t. s = SizeAt(loader, used, worker, <<"worker", w>>)
        BY <2>2, <2>s
    <2>u. IsFiniteSet(n) \/ IsFiniteSet(m)
        BY <2>3
    <2>v. IsFiniteSet(n) /\ Cardinality(n) \in Nat /\ Cardinality(m) = Cardinality(n) + s
        BY <2>1, <2>t, <2>u, NeedsAdded
    <2>5. HeldBlocks' = n /\ HeldMemory' = Cardinality(n)
        BY <1>0, NextHeldIsBlocks DEF HeldMemory
    <2> HIDE DEF n, m
    <2>6. mem' \in Nat /\ mem' <= Units /\ Cardinality(n) <= mem'
        BY <1>0, <2>s, <2>v, <2>3, QueueFacts, SMTT(30)
    <2> QED BY <2>v, <2>5, <2>6 DEF MemoryKept
<1>5. Moved(NodeL, WorkStates)
    BY <1>0, <1>1, StayMoves DEF WorkStates
<1> QED
    BY <1>0, <1>4, <1>5, MovedKeepsNodes

\* A thread gives back the node of its message.
LEMMA PutNodeAccounts ==
    ASSUME IndInv, MemoryKept, NodesKept, NEW w \in Workers, PutNode(w)
    PROVE  MemoryKept' /\ NodesKept'
<1>0. /\ Typed /\ worker[w].pc = "node" /\ worker' = [worker EXCEPT ![w] = Idle]
      /\ used \in Seq(Messages) /\ used' = used /\ loader' = loader
      /\ free' = free + 1 /\ mem' = mem
    BY DEF IndInv, PutNode, Typed, WorkerOnly, WorkerSpares, history
<1>1. worker'[w].pc = "idle" /\ \A v \in Workers : v # w => worker'[v] = worker[v]
    BY <1>0 DEF Idle, Typed
<1>2. DOMAIN used = 1..Len(used) /\ worker[w].pc \in WorkStates /\ worker'[w].pc \notin WorkStates
    BY <1>0, <1>1 DEF WorkStates
<1>3. Moved(MemoryL, MemoryW)
    BY <1>0, <1>1, StayMoves DEF MemoryW
<1>4. \A v \in Workers : v # w => worker[v] = worker'[v]
    BY <1>1
<1>5. OneMore(loader, used, worker', loader, used, worker, NodeL, WorkStates, <<"worker", w>>)
    BY <1>2, <1>4, WorkerPlace
<1>6. NodeHolders' = NodeHolders \ {<<"worker", w>>} /\ <<"worker", w>> \in NodeHolders
    <2>1. NodeHolders = NodeHolders' \cup {<<"worker", w>>} /\ <<"worker", w>> \notin NodeHolders'
        BY <1>0, <1>5 DEF NodeHolders, OneMore
    <2> QED BY <2>1
<1>7. IsFiniteSet(NodeHolders') /\ Cardinality(NodeHolders') = Cardinality(NodeHolders) - 1
    BY <1>6, FS_RemoveElement DEF NodesKept
<1>8. Cardinality(NodeHolders) \in Nat
    BY FS_CardinalityType DEF NodesKept
<1>9. free' \in Nat /\ Cardinality(NodeHolders') + free' <= Units
    BY <1>0, <1>7, <1>8, QueueFacts DEF NodesKept
<1>10. NodesKept'
    BY <1>7, <1>9 DEF NodesKept
<1> QED
    BY <1>0, <1>3, <1>10, MovedKeepsMemory

\* Nothing is held after a start.
LEMMA NothingHeld ==
    ASSUME NEW l, NEW k, l.pc = "receive",
           \A w \in Workers : k[w].pc \in {"idle", "parked", "off"}
    PROVE  /\ Places(l, <<>>, k, NodeL, WorkStates) = {}
           /\ BlocksOf(Needs(l, <<>>, k)) = {}
<1>1. DOMAIN <<>> = {}
    OBVIOUS
<1>2. /\ {v \in Workers : k[v].pc \in MemoryW} = {} /\ {v \in Workers : k[v].pc \in WorkStates} = {}
    BY DEF MemoryW, WorkStates
<1>3. l.pc \notin MemoryL /\ l.pc \notin NodeL
    BY DEF MemoryL, NodeL
<1>4. Places(l, <<>>, k, NodeL, WorkStates) = {}
    BY <1>1, <1>2, <1>3 DEF Places
<1>5. Places(l, <<>>, k, MemoryL, MemoryW) = {}
    BY <1>1, <1>2, <1>3 DEF Places
<1>6. DOMAIN Needs(l, <<>>, k) = {}
    BY <1>5 DEF Needs
<1> QED
    BY <1>4, <1>6 DEF BlocksOf

\* Message queue and restarts within their bounds.
Limits ==
    /\ Len(ipc) <= QueueLimit
    /\ restarts.smtp <= MaxSmtpRestarts /\ restarts.delivery <= MaxRestarts

Accounts == MemoryKept /\ NodesKept /\ Limits

LEMMA InitAccounts == Init => Accounts
<1> SUFFICES ASSUME Init PROVE Accounts
    OBVIOUS
<1>1. PICK awake : worker = Started(awake)
    BY DEF Init
<1>2. loader.pc = "receive" /\ used = <<>> /\ mem = 0 /\ free = Units /\ ipc = <<>>
      /\ restarts.smtp = 0 /\ restarts.delivery = 0
    BY DEF Init, LoaderIdle
<1>3. \A w \in Workers : worker[w].pc \in {"idle", "parked", "off"}
    BY <1>1, StartedType
<1>4. /\ Places(loader, <<>>, worker, NodeL, WorkStates) = {}
      /\ BlocksOf(Needs(loader, <<>>, worker)) = {}
    BY <1>2, <1>3, NothingHeld
<1>5. NodeHolders = {} /\ HeldBlocks = {}
    BY <1>2, <1>4, HeldIsBlocks DEF NodeHolders
<1>6. MemoryKept
    BY <1>2, <1>5, FS_EmptySet, QueueFacts DEF MemoryKept, HeldMemory
<1>7. NodesKept
    BY <1>2, <1>5, FS_EmptySet, QueueFacts DEF NodesKept
<1>8. Limits
    BY <1>2, QueueAssumption DEF Limits
<1> QED
    BY <1>6, <1>7, <1>8 DEF Accounts

LEMMA RestartAccounts ==
    ASSUME EmptyMemory
    PROVE  MemoryKept' /\ NodesKept'
<1>1. PICK awake : worker' = Started(awake)
    BY DEF EmptyMemory
<1>2. loader'.pc = "receive" /\ used' = <<>> /\ mem' = 0 /\ free' = Units
    BY DEF EmptyMemory, LoaderIdle
<1>3. \A w \in Workers : worker'[w].pc \in {"idle", "parked", "off"}
    BY <1>1, StartedType
<1>4. /\ Places(loader', <<>>, worker', NodeL, WorkStates) = {}
      /\ BlocksOf(Needs(loader', <<>>, worker')) = {}
    BY <1>2, <1>3, NothingHeld
<1>5. NodeHolders' = {} /\ HeldBlocks' = {}
    BY <1>2, <1>4, NextHeldIsBlocks DEF NodeHolders
<1>6. MemoryKept'
    BY <1>2, <1>5, FS_EmptySet, QueueFacts DEF MemoryKept, HeldMemory
<1>7. NodesKept'
    BY <1>2, <1>5, FS_EmptySet, QueueFacts DEF NodesKept
<1> QED
    BY <1>6, <1>7

LEMMA LoaderAccounts ==
    ASSUME IndInv, MemoryKept, NodesKept, Loader
    PROVE  MemoryKept' /\ NodesKept'
<1>0. Typed
    BY DEF IndInv
<1>q. ASSUME LoaderReads, UNCHANGED <<mem, free>>,
             loader'.pc \in MemoryL => loader.pc \in NodeL /\ loader'.size = loader.size
      PROVE  MemoryKept' /\ NodesKept'
    <2>1. loader'.pc \in NodeL => loader.pc \in NodeL
        BY <1>q DEF NodeL, MemoryL
    <2>2. loader'.pc \in MemoryL => loader.pc \in MemoryL /\ loader'.size = loader.size
        BY <1>q DEF NodeL, MemoryL
    <2>3. UNCHANGED <<mem, free, used, worker>>
        BY <1>q DEF LoaderReads, history
    <2> QED BY <1>0, <2>1, <2>2, <2>3, QuietAccounts
<1>r. LoaderReturns => loader'.pc \notin MemoryL
    BY <1>0, LoaderMoves DEF MemoryL
<1>g. \A pc : LoaderGoes(pc) => loader'.pc = pc /\ loader'.size = loader.size
    BY <1>0, LoaderMoves
<1>1. CASE Receive
    <2>1. loader'.pc \in {"gate", "lookup"}
        BY <1>1, <1>g DEF Receive, LoaderIdle
    <2> QED BY <1>1, <1>q, <2>1 DEF Receive, MemoryL, LoaderOnly
<1>2. CASE Gate
    <2>1. loader'.pc \in {"receive", "scan"}
        BY <1>2, <1>g DEF Gate
    <2> QED BY <1>2, <1>q, <2>1 DEF Gate, MemoryL, LoaderOnly
<1>3. CASE ScanEntry
    <2>1. loader'.pc \in {"scan", "lookup"}
        BY <1>3 DEF ScanEntry, LoaderIdle
    <2> QED BY <1>3, <1>q, <2>1 DEF ScanEntry, MemoryL, LoaderOnly
<1>4. CASE ScanEnds
    BY <1>4, <1>q DEF ScanEnds, LoaderIdle, MemoryL, LoaderOnly
<1>5. CASE Lookup
    <2>1. loader'.pc \notin MemoryL
        BY <1>5, <1>g, <1>r DEF Lookup, MemoryL
    <2> QED BY <1>5, <1>q, <2>1 DEF Lookup, LoaderOnly
<1>6. CASE Reserve
    BY <1>6, ReserveAccounts
<1>7. CASE TakeNode
    BY <1>7, TakeNodeAccounts
<1>8. CASE ReadMess
    <2>1. loader.pc = "read" /\ loader'.size = loader.size
        BY <1>8, <1>g DEF ReadMess
    <2> QED BY <1>8, <1>q, <2>1 DEF ReadMess, NodeL, LoaderOnly
<1>9. CASE GiveUp
    BY <1>9, GiveUpAccounts
<1>10. CASE PutToUsed
    <2>2. loader.file \in Files /\ loader.file # NoFile /\ loader.id \in Ids
        BY <1>10 DEF IndInv, Typed, LoaderSound, LoaderHas, LoaderIds, PutToUsed, history
    <2>3. [id |-> loader.id, mail |-> loader.file.mail, size |-> loader.size,
          whole |-> loader.file.full] \in Messages
        <3>1. loader.size \in 1..Units /\ loader.file.full \in BOOLEAN /\ loader.file.mail \in Mails
            BY <1>0, <1>10, <2>2, FileFacts DEF PutToUsed, Typed
        <3> QED BY <2>2, <3>1 DEF Messages
    <2>4. Moved(MemoryL, MemoryW)
        <3>1. "used" \in MemoryL /\ "emplace" \notin MemoryL /\ "idle" \notin MemoryW
            BY DEF MemoryL, MemoryW
        <3> QED BY <1>0, <1>10, <2>3, <3>1, PutMoves
    <2>5. Moved(NodeL, WorkStates)
        <3>1. "used" \in NodeL /\ "emplace" \notin NodeL /\ "idle" \notin WorkStates
            BY DEF NodeL, WorkStates
        <3> QED BY <1>0, <1>10, <2>3, <3>1, PutMoves
    <2> QED BY <1>10, <2>4, <2>5, MovedKeepsMemory, MovedKeepsNodes DEF PutToUsed, history
<1>11. CASE Emplace
    BY <1>11, <1>q, <1>r DEF Emplace, LoaderOnly
<1> QED
    BY <1>1, <1>2, <1>3, <1>4, <1>5, <1>6, <1>7, <1>8, <1>9, <1>10, <1>11 DEF Loader

LEMMA WorkerAccounts ==
    ASSUME IndInv, MemoryKept, NodesKept, NEW w \in Workers, Worker(w)
    PROVE  MemoryKept' /\ NodesKept'
<1>0. Typed
    BY DEF IndInv
<1>q. ASSUME UNCHANGED <<mem, free, used, loader>>,
             \A v \in Workers : v # w => worker'[v] = worker[v],
             worker'[w].pc \in MemoryW => worker[w].pc \in MemoryW /\ worker'[w].msg = worker[w].msg,
             worker'[w].pc # "node"
      PROVE  MemoryKept' /\ NodesKept'
    <2>1. \A v \in Workers :
               /\ worker'[v].pc \in MemoryW => worker[v].pc \in MemoryW /\ worker'[v].msg = worker[v].msg
               /\ worker'[v].pc \in WorkStates =>
                      worker[v].pc \in WorkStates /\ worker'[v].msg = worker[v].msg
        BY <1>q DEF MemoryW, WorkStates
    <2> QED BY <1>0, <1>q, <2>1, QuietAccounts
\* The thread lets go of its message.
<1>o. ASSUME worker'[w].pc \in {"idle", "off", "parked"},
             \A v \in Workers : v # w => worker'[v] = worker[v],
             UNCHANGED <<mem, free, used, loader>>
      PROVE  MemoryKept' /\ NodesKept'
    BY <1>o, <1>q DEF MemoryW
\* The thread goes on with its message.
<1>g. ASSUME NEW pc \in {"tired", "remove", "erase", "memory"}, WorkerGoes(w, pc),
             UNCHANGED <<mem, free, used, loader>>,
             pc # "tired" => worker[w].pc \in MemoryW
      PROVE  MemoryKept' /\ NodesKept'
    <2>1. /\ worker'[w].pc = pc /\ worker'[w].msg = worker[w].msg
          /\ \A v \in Workers : v # w => worker'[v] = worker[v]
        BY <1>0, <1>g, WorkerMoves
    <2> QED BY <1>g, <1>q, <2>1 DEF MemoryW
<1>1. CASE Get(w)
    <2>2. Moved(MemoryL, MemoryW)
        <3>1. "process" \in MemoryW /\ "idle" \notin MemoryW
            BY DEF MemoryW
        <3> QED BY <1>0, <1>1, <3>1, GetMoves
    <2>3. Moved(NodeL, WorkStates)
        <3>1. "process" \in WorkStates /\ "idle" \notin WorkStates
            BY DEF WorkStates
        <3> QED BY <1>0, <1>1, <3>1, GetMoves
    <2> QED BY <1>1, <2>2, <2>3, MovedKeepsMemory, MovedKeepsNodes DEF Get
<1>2. CASE NotServed(w)
    BY <1>2, <1>g DEF NotServed, WorkerOnly, WorkerSpares, history
<1>3. CASE Rest(w)
    <2>1. /\ worker'[w].pc \in {"idle", "off", "parked"}
          /\ \A v \in Workers : v # w => worker'[v] = worker[v]
        BY <1>0, <1>3 DEF Rest, Typed, Off, Parked
    <2>2. UNCHANGED <<mem, free, used, loader>>
        BY <1>3 DEF Rest, WorkerOnly, WorkerSpares, history
    <2> QED BY <1>o, <2>1, <2>2
<1>4. CASE Accepted(w)
    BY <1>4, <1>g DEF Accepted, WorkerOnly, MemoryW, WorkerSpares, history
<1>5. CASE SaveForLater(w)
    BY <1>5, <1>g DEF SaveForLater, WorkerOnly, MemoryW, WorkerSpares, history
<1>6. CASE SaveFailsKept(w)
    <2>1. /\ worker'[w].pc \in {"idle", "off", "parked"}
          /\ \A v \in Workers : v # w => worker'[v] = worker[v]
        BY <1>0, <1>6 DEF SaveFailsKept, Typed, Idle
    <2>2. UNCHANGED <<mem, free, used, loader>>
        BY <1>6 DEF SaveFailsKept, WorkerOnly, WorkerSpares, history
    <2> QED BY <1>o, <2>1, <2>2
<1>7. CASE SaveFailsIgnored(w)
    BY <1>7, <1>g DEF SaveFailsIgnored, MemoryW, history
<1>8. CASE PutRemove(w)
    BY <1>8, <1>g DEF PutRemove, WorkerOnly, MemoryW, WorkerSpares, history
<1>9. CASE PutErase(w)
    BY <1>9, <1>g DEF PutErase, WorkerOnly, MemoryW, WorkerSpares, history
<1>10. CASE PutMemory(w)
    BY <1>10, PutMemoryAccounts
<1>11. CASE PutNode(w)
    BY <1>11, PutNodeAccounts
<1> QED
    BY <1>1, <1>2, <1>3, <1>4, <1>5, <1>6, <1>7, <1>8, <1>9, <1>10, <1>11 DEF Worker

LEMMA NextAccounts == IndInv /\ Accounts /\ [Next]_vars => Accounts'
<1> SUFFICES ASSUME IndInv, Accounts, [Next]_vars PROVE Accounts'
    OBVIOUS
<1> USE DEF smtp, memory, history
<1>0. Typed /\ MemoryKept /\ NodesKept /\ Limits
    BY DEF IndInv, Accounts
<1>k. ASSUME UNCHANGED <<ipc, restarts>> PROVE Limits'
    BY <1>0, <1>k DEF Limits
<1>q. ASSUME UNCHANGED memory PROVE MemoryKept' /\ NodesKept'
    BY <1>0, <1>q, QuietAccounts
<1>1. CASE UNCHANGED vars
    BY <1>1, <1>k, <1>q DEF vars, Accounts
<1>2. ASSUME NEW m \in Mails, Smtp(m) PROVE Accounts'
    <2>1. UNCHANGED <<memory, restarts>>
        BY <1>2 DEF Smtp, BeginMess, Cancel, FlushFails, RemoveMess, SaveMess, Acknowledge, history
    <2>2. Len(ipc') <= QueueLimit
        <3>1. CASE Acknowledge(m)
            <4>1. CASE Len(ipc) < QueueLimit
                <5>1. flushID[m] \in Ids
                    BY <3>1 DEF Acknowledge, IndInv, Drawn, history
                <5>2. ipc \in Seq(Ids) /\ ipc' = Append(ipc, flushID[m])
                    BY <1>0, <3>1, <4>1 DEF Acknowledge, Typed, history
                <5>3. Len(ipc') = Len(ipc) + 1 /\ Len(ipc) \in Nat
                    BY <5>1, <5>2
                <5> QED BY <4>1, <5>3, QueueAssumption
            <4>2. CASE ~(Len(ipc) < QueueLimit)
                BY <1>0, <3>1, <4>2 DEF Acknowledge, Limits, history
            <4> QED BY <4>1, <4>2
        <3>2. CASE UNCHANGED ipc
            BY <1>0, <3>2 DEF Limits
        <3> QED BY <1>2, <3>1, <3>2 DEF Smtp, BeginMess, Cancel, FlushFails, RemoveMess, SaveMess, history
    <2>3. Limits'
        BY <1>0, <2>1, <2>2 DEF Limits
    <2> QED BY <1>q, <2>1, <2>3 DEF Accounts
<1>3. CASE SmtpRestart
    <2>1. UNCHANGED <<memory, ipc>> /\ restarts' = [restarts EXCEPT !.smtp = @ + 1]
          /\ restarts.smtp < MaxSmtpRestarts
        BY <1>3 DEF SmtpRestart, history
    <2>2. restarts'.smtp = restarts.smtp + 1 /\ restarts'.delivery = restarts.delivery
          /\ restarts.smtp \in Nat
        BY <1>0, <2>1 DEF Typed
    <2>3. Limits'
        BY <1>0, <2>1, <2>2, QueueAssumption DEF Limits
    <2> QED BY <1>q, <2>1, <2>3 DEF Accounts
<1>4. CASE Loader
    <2>1. restarts' = restarts
        BY <1>4 DEF Loader, Receive, Gate, ScanEntry, ScanEnds, Lookup, Reserve, TakeNode,
                    ReadMess, GiveUp, PutToUsed, Emplace, LoaderReads, LoaderOnly, history
    <2>2. Len(ipc') <= QueueLimit
        <3>1. CASE ipc' = Tail(ipc) /\ ipc # <<>>
            <4>1. Len(ipc') = Len(ipc) - 1 /\ Len(ipc) \in Nat
                BY <1>0, <3>1 DEF Typed
            <4> QED BY <1>0, <4>1, QueueAssumption DEF Limits
        <3>2. CASE UNCHANGED ipc
            BY <1>0, <3>2 DEF Limits
        <3> QED BY <1>4, <3>1, <3>2
                DEF Loader, Receive, Gate, ScanEntry, ScanEnds, Lookup, Reserve, TakeNode,
                    ReadMess, GiveUp, PutToUsed, Emplace, history, LoaderReads
    <2>3. Limits'
        BY <1>0, <2>1, <2>2 DEF Limits
    <2> QED BY <1>0, <1>4, <2>3, LoaderAccounts DEF Accounts
<1>5. ASSUME NEW w \in Workers, Worker(w) PROVE Accounts'
    <2>1. UNCHANGED <<ipc, restarts>>
        BY <1>5 DEF Worker, Get, NotServed, Rest, Accepted, SaveForLater, SaveFailsKept,
                    SaveFailsIgnored, PutRemove, PutErase, PutMemory, PutNode, WorkerOnly, WorkerSpares, history
    <2> QED BY <1>0, <1>5, <1>k, <2>1, WorkerAccounts DEF Accounts
<1>6. CASE AddThread
    <2>1. UNCHANGED <<ipc, restarts, mem, free, used, loader>>
        BY <1>6 DEF AddThread, WorkerOnly, WorkerSpares, history
    <2>2. \A v \in Workers : worker'[v].pc \in WorkStates \cup MemoryW => worker'[v] = worker[v]
        BY <1>0, <1>6 DEF AddThread, Typed, Parked, Idle, WorkStates, MemoryW
    <2>3. MemoryKept' /\ NodesKept'
        BY <1>0, <2>1, <2>2, QuietAccounts
    <2> QED BY <1>k, <2>1, <2>3 DEF Accounts
<1>7. CASE DeliveryRestart
    <2>1. EmptyMemory /\ UNCHANGED ipc /\ restarts' = [restarts EXCEPT !.delivery = @ + 1]
          /\ restarts.delivery < MaxRestarts
        BY <1>7 DEF DeliveryRestart, history
    <2>2. restarts'.delivery = restarts.delivery + 1 /\ restarts'.smtp = restarts.smtp
          /\ restarts.delivery \in Nat
        BY <1>0, <2>1 DEF Typed
    <2>3. Limits'
        BY <1>0, <2>1, <2>2, QueueAssumption DEF Limits
    <2> QED BY <2>1, <2>3, RestartAccounts DEF Accounts
<1> QED
    BY <1>1, <1>2, <1>3, <1>4, <1>5, <1>6, <1>7 DEF Next

\* The invariant says that every variable has its type and that the memory held is
\* accounted for.
LEMMA AccountsBound == IndInv /\ Accounts => MemoryBounded
<1> SUFFICES ASSUME IndInv, Accounts PROVE MemoryBounded
    OBVIOUS
<1>0. Typed /\ MemoryKept /\ NodesKept /\ Limits
    BY DEF IndInv, Accounts
<1>1. mem \in 0..Units
    BY <1>0, QueueFacts DEF MemoryKept
<1>2. free \in 0..Units
    <2>1. Cardinality(NodeHolders) \in Nat
        BY <1>0, FS_CardinalityType DEF NodesKept
    <2> QED BY <1>0, <2>1, QueueFacts DEF NodesKept
<1>3. restarts \in [smtp : 0..MaxSmtpRestarts, delivery : 0..MaxRestarts]
    <2>1. restarts \in [smtp : Nat, delivery : Nat]
        BY <1>0 DEF Typed
    <2>2. restarts.smtp \in 0..MaxSmtpRestarts /\ restarts.delivery \in 0..MaxRestarts
        BY <1>0, <2>1, QueueAssumption DEF Limits
    <2> QED BY <2>1, <2>2
<1>4. loader \in [pc : {"receive", "gate", "scan", "lookup", "open", "node", "read", "used", "emplace"},
                   id : 0..MaxId, file : Files, size : 0..Units, back : {"receive", "scan"}]
    BY <1>0 DEF Typed, LoaderIds, LoaderHas
<1>5. worker \in [Workers -> [pc : {"idle", "tired", "parked", "off", "process", "remove", "erase", "memory", "node"},
                               msg : {NoMsg} \cup Messages]]
    BY <1>0 DEF Typed, WorkStates
<1>6. session \in [Mails -> {"new", "open", "saved", "acked", "failed", "unanswered"}]
    BY <1>0 DEF Typed, Done
<1>7. TypeOK
    BY <1>0, <1>1, <1>2, <1>3, <1>4, <1>5, <1>6 DEF TypeOK, Typed, Limits
<1> QED
    BY <1>0, <1>7 DEF MemoryBounded, MemoryCoversHeld, MemoryKept

\* message_dequeue.cpp: memory is reserved by the loader and released by the transport
\* threads under a lock that neither holds while a message changes hands; yet g_current_mem
\* always covers the messages that are loaded and stays within dequeue_maximum_mem, and
\* there are never more free nodes than were made, for any sizes of mails, failures of
\* system calls and crashes.
THEOREM MemoryBoundedCorrect == ASSUME Scope PROVE Spec => []MemoryBounded
<1>1. Init => IndInv /\ Accounts
    BY InitHolds, InitAccounts
<1>2. IndInv /\ Accounts /\ [Next]_vars => (IndInv /\ Accounts)'
    BY NextHolds, NextAccounts
<1>3. IndInv /\ Accounts => MemoryBounded
    BY AccountsBound
<1> QED
    BY <1>1, <1>2, <1>3, PTL DEF Spec

=============================================================================
