------------------------- MODULE ContextsPoolProofs -------------------------
(***************************************************************************)
(* Proofs about the scheduler of lib/contexts_pool.cpp for any number of   *)
(* contexts, listeners, pool threads and notifiers.                        *)
(***************************************************************************)
EXTENDS ContextsPool, FiniteSetTheorems, TLAPS

\* An order of a finite set of contexts is a sequence of contexts.
LEMMA OrdersAreSeqs ==
    ASSUME NEW S \in SUBSET Ctx, NEW s \in Orders(S)
    PROVE  /\ s \in Seq(Ctx)
           /\ Len(s) = Cardinality(S)
<1>1. Cardinality(S) \in Nat
    BY CtxAssumption, FS_Subset, FS_CardinalityType
<1>2. s \in [1..Cardinality(S) -> S]
    BY DEF Orders, Bijection, Injection, Surjection
<1>3. s \in Seq(S)
    BY <1>1, <1>2
<1> QED
    BY <1>1, <1>2, <1>3

\* The members and the distinctness of a sequence of contexts with one more at its end.
LEMMA AppendRange ==
    ASSUME NEW q \in Seq(Ctx), NEW c \in Ctx
    PROVE  /\ Range(Append(q, c)) = Range(q) \cup {c}
           /\ IsInjective(q) /\ c \notin Range(q) => IsInjective(Append(q, c))
<1>1. /\ Len(Append(q, c)) = Len(q) + 1
      /\ \A i \in 1..Len(q) : Append(q, c)[i] = q[i]
      /\ Append(q, c)[Len(q) + 1] = c
      /\ DOMAIN Append(q, c) = 1..(Len(q) + 1)
      /\ DOMAIN q = 1..Len(q)
      /\ Len(q) \in Nat
    OBVIOUS
<1>2. Range(Append(q, c)) = Range(q) \cup {c}
    BY <1>1 DEF Range
<1>3. IsInjective(q) /\ c \notin Range(q) => IsInjective(Append(q, c))
    BY <1>1 DEF Range, IsInjective
<1> QED
    BY <1>2, <1>3

\* The first member of a sequence and the rest.
LEMMA TailRange ==
    ASSUME NEW q \in Seq(Ctx), q # <<>>, IsInjective(q)
    PROVE  /\ Head(q) \in Range(q)
           /\ Range(Tail(q)) = Range(q) \ {Head(q)}
           /\ IsInjective(Tail(q))
<1>1. /\ Len(q) \in Nat \ {0}
      /\ DOMAIN q = 1..Len(q)
      /\ Head(q) = q[1]
      /\ Len(Tail(q)) = Len(q) - 1
      /\ DOMAIN Tail(q) = 1..(Len(q) - 1)
      /\ \A i \in 1..(Len(q) - 1) : Tail(q)[i] = q[i + 1]
    OBVIOUS
<1>2. Head(q) \in Range(q)
    BY <1>1 DEF Range
<1>3. Range(Tail(q)) \subseteq Range(q) \ {Head(q)}
    BY <1>1 DEF Range, IsInjective
<1>4. ASSUME NEW x \in Range(q) \ {Head(q)} PROVE x \in Range(Tail(q))
    <2>1. PICK i \in 1..Len(q) : x = q[i]
        BY <1>1 DEF Range
    <2>2. i - 1 \in 1..(Len(q) - 1) /\ Tail(q)[i - 1] = x
        BY <1>1, <2>1
    <2> QED BY <1>1, <2>2 DEF Range
<1>5. IsInjective(Tail(q))
    <2> SUFFICES ASSUME NEW i \in 1..(Len(q) - 1), NEW j \in 1..(Len(q) - 1),
                        Tail(q)[i] = Tail(q)[j]
                 PROVE  i = j
        BY <1>1 DEF IsInjective
    <2>1. q[i + 1] = q[j + 1] /\ i + 1 \in DOMAIN q /\ j + 1 \in DOMAIN q
        BY <1>1
    <2> QED BY <2>1 DEF IsInjective
<1> QED
    BY <1>2, <1>3, <1>4, <1>5

\* Two sequences of different contexts, one after the other.
LEMMA ConcatRange ==
    ASSUME NEW q \in Seq(Ctx), NEW r \in Seq(Ctx)
    PROVE  /\ Range(q \o r) = Range(q) \cup Range(r)
           /\ IsInjective(q) /\ IsInjective(r) /\ Range(q) \cap Range(r) = {}
                  => IsInjective(q \o r)
<1>1. /\ Len(q) \in Nat /\ Len(r) \in Nat
      /\ DOMAIN q = 1..Len(q) /\ DOMAIN r = 1..Len(r)
      /\ DOMAIN (q \o r) = 1..(Len(q) + Len(r))
      /\ \A i \in 1..(Len(q) + Len(r)) :
            (q \o r)[i] = IF i <= Len(q) THEN q[i] ELSE r[i - Len(q)]
    OBVIOUS
<1>2. Range(q \o r) \subseteq Range(q) \cup Range(r)
    <2> SUFFICES ASSUME NEW i \in 1..(Len(q) + Len(r))
                 PROVE  (q \o r)[i] \in Range(q) \cup Range(r)
        BY <1>1 DEF Range
    <2>1. CASE i <= Len(q)
        BY <1>1, <2>1 DEF Range
    <2>2. CASE ~(i <= Len(q))
        <3>1. i - Len(q) \in 1..Len(r) /\ (q \o r)[i] = r[i - Len(q)]
            BY <1>1, <2>2
        <3> QED BY <1>1, <3>1 DEF Range
    <2> QED BY <2>1, <2>2
<1>3. Range(q) \subseteq Range(q \o r)
    <2> SUFFICES ASSUME NEW i \in 1..Len(q) PROVE q[i] \in Range(q \o r)
        BY <1>1 DEF Range
    <2>1. i \in 1..(Len(q) + Len(r)) /\ (q \o r)[i] = q[i]
        BY <1>1
    <2> QED BY <1>1, <2>1 DEF Range
<1>4. Range(r) \subseteq Range(q \o r)
    <2> SUFFICES ASSUME NEW i \in 1..Len(r) PROVE r[i] \in Range(q \o r)
        BY <1>1 DEF Range
    <2>1. i + Len(q) \in 1..(Len(q) + Len(r)) /\ (q \o r)[i + Len(q)] = r[i]
        BY <1>1
    <2> QED BY <1>1, <2>1 DEF Range
<1>5. ASSUME IsInjective(q), IsInjective(r), Range(q) \cap Range(r) = {}
      PROVE  IsInjective(q \o r)
    <2> SUFFICES ASSUME NEW i \in 1..(Len(q) + Len(r)), NEW j \in 1..(Len(q) + Len(r)),
                        (q \o r)[i] = (q \o r)[j]
                 PROVE  i = j
        BY <1>1 DEF IsInjective
    <2>1. \A k \in 1..Len(q) : q[k] \in Range(q)
        BY <1>1 DEF Range
    <2>2. \A k \in 1..Len(r) : r[k] \in Range(r)
        BY <1>1 DEF Range
    <2>3. \A k, l \in 1..Len(q) : q[k] = q[l] => k = l
        BY <1>1, <1>5 DEF IsInjective
    <2>4. \A k, l \in 1..Len(r) : r[k] = r[l] => k = l
        BY <1>1, <1>5 DEF IsInjective
    <2>5. CASE i <= Len(q) /\ j <= Len(q)
        BY <1>1, <2>3, <2>5
    <2>6. CASE i > Len(q) /\ j > Len(q)
        <3>1. i - Len(q) \in 1..Len(r) /\ j - Len(q) \in 1..Len(r)
              /\ r[i - Len(q)] = r[j - Len(q)]
            BY <1>1, <2>6
        <3>2. i - Len(q) = j - Len(q)
            BY <2>4, <3>1
        <3> QED BY <1>1, <3>2
    <2>7. CASE i <= Len(q) /\ j > Len(q)
        <3>1. i \in 1..Len(q) /\ j - Len(q) \in 1..Len(r) /\ q[i] = r[j - Len(q)]
            BY <1>1, <2>7
        <3> QED BY <1>5, <2>1, <2>2, <3>1
    <2>8. CASE i > Len(q) /\ j <= Len(q)
        <3>1. j \in 1..Len(q) /\ i - Len(q) \in 1..Len(r) /\ q[j] = r[i - Len(q)]
            BY <1>1, <2>8
        <3> QED BY <1>5, <2>1, <2>2, <3>1
    <2> QED BY <1>1, <2>5, <2>6, <2>7, <2>8
<1> QED
    BY <1>2, <1>3, <1>4, <1>5

\* An order of a set has exactly its members, each once.
LEMMA OrdersRange ==
    ASSUME NEW S \in SUBSET Ctx, NEW s \in Orders(S)
    PROVE  Range(s) = S /\ IsInjective(s)
    BY DEF Orders, Bijection, Injection, Surjection, Range, IsInjective

\* contexts_pool_insert keeps the variables it writes well typed.
LEMMA InsertType ==
    ASSUME TypeOK, NEW c \in Ctx, NEW t \in SetLists \cup {"turning"}, Insert(c, t)
    PROVE  /\ type' \in [Ctx -> Statuses]
           /\ b_waiting' \in [Ctx -> BOOLEAN]
           /\ sock' \in [Ctx -> {"none", "open", "shut"}]
           /\ reg' \in [Ctx -> {"none", "armed", "disarmed"}]
           /\ list' \in [SetLists -> SUBSET Ctx]
           /\ turning' \in Seq(Ctx)
<1>1. type' \in [Ctx -> Statuses]
    BY DEF TypeOK, Insert, Statuses
<1>2. b_waiting' \in [Ctx -> BOOLEAN] /\ reg' \in [Ctx -> {"none", "armed", "disarmed"}]
      /\ sock' \in [Ctx -> {"none", "open", "shut"}]
    <2>1. CASE t = "polling" /\ type[c] = "constructing"
        BY <2>1 DEF TypeOK, Insert, RegisterNew, AddOutcomes
    <2>2. CASE t = "polling" /\ type[c] # "constructing"
        BY <2>2, ZenonT(60) DEF TypeOK, Insert, Rearm, Readd, AddOutcomes
    <2>3. CASE t = "free"
        BY <2>3 DEF TypeOK, Insert, ForgetWaiting
    <2>4. CASE t # "polling" /\ t # "free"
        BY <2>4 DEF TypeOK, Insert
    <2> QED
        BY <2>1, <2>2, <2>3, <2>4
<1>3. list' \in [SetLists -> SUBSET Ctx] /\ turning' \in Seq(Ctx)
    <2>1. AppendTo(t, c)
        BY DEF Insert
    <2>2. turning \in Seq(Ctx) /\ list \in [SetLists -> SUBSET Ctx]
        BY DEF TypeOK
    <2>3. CASE t = "turning"
        BY <2>1, <2>2, <2>3 DEF AppendTo
    <2>4. CASE t # "turning"
        BY <2>1, <2>2, <2>4 DEF AppendTo
    <2> QED
        BY <2>3, <2>4
<1> QED
    BY <1>1, <1>2, <1>3

\* The same for a thread that puts down the context it holds.
LEMMA PutDownType ==
    ASSUME TypeOK, NEW a \in Agents, NEW t \in SetLists \cup {"turning"}, PutDown(a, t),
           UNCHANGED <<age, temp, scan, evq, slist, wake>>,
           dest' \in [Workers -> SetLists \cup {"turning", "none"}]
    PROVE  TypeOK'
<1>1. hand[a] \in Ctx /\ Insert(hand[a], t)
    BY DEF TypeOK, PutDown
<1>2. hand' \in [Agents -> Ctx \cup {NoCtx}]
    BY DEF TypeOK, PutDown
<1> QED
    BY <1>1, <1>2, InsertType DEF TypeOK

\* The pool starts well typed.
LEMMA InitType == Init => TypeOK
<1> SUFFICES ASSUME Init PROVE TypeOK
    OBVIOUS
<1>1. list \in [SetLists -> SUBSET Ctx]
    BY DEF Init
<1>2. turning \in Seq(Ctx) /\ slist \in Seq(Ctx)
    BY DEF Init
<1> QED
    BY <1>1, <1>2 DEF Init, TypeOK, Statuses, SetLists, MaxAge

\* Every step keeps the types.
LEMMA NextType == TypeOK /\ [Next]_vars => TypeOK'
<1> SUFFICES ASSUME TypeOK, [Next]_vars PROVE TypeOK'
    OBVIOUS
<1> USE DEF connection, scanner, sleepers
<1>1. ASSUME NEW l \in Listeners, Listener(l) PROVE TypeOK'
    <2>1. l \in Agents
        BY DEF Agents
    <2>2. CASE GetFree(l)
        BY <2>1, <2>2 DEF GetFree, RemoveFrom, TypeOK, SetLists
    <2>3. CASE Construct(l)
        BY <2>1, <2>3 DEF Construct, TypeOK, Statuses
    <2>4. CASE Refuse(l)
        <3>1. dest' \in [Workers -> SetLists \cup {"turning", "none"}]
            BY <2>4 DEF Refuse, TypeOK
        <3> QED BY <2>1, <2>4, <3>1, PutDownType DEF Refuse, SetLists
    <2>5. CASE Attach(l)
        BY <2>1, <2>5 DEF Attach, TypeOK
    <2>6. CASE StartPolling(l)
        <3>1. dest' \in [Workers -> SetLists \cup {"turning", "none"}]
            BY <2>6 DEF StartPolling, TypeOK
        <3> QED BY <2>1, <2>6, <3>1, PutDownType DEF StartPolling, SetLists
    <2> QED BY <1>1, <2>2, <2>3, <2>4, <2>5, <2>6 DEF Listener
<1>2. ASSUME NEW w \in Workers, Worker(w) PROVE TypeOK'
    <2>1. w \in Agents
        BY DEF Agents
    <2>2. CASE GetTurning(w)
        <3>1. Head(turning) \in Ctx /\ Tail(turning) \in Seq(Ctx)
            BY <2>2 DEF GetTurning, TypeOK
        <3> QED BY <2>1, <2>2, <3>1 DEF GetTurning, TypeOK
    <2>3. CASE Process(w)
        <3>1. hand[w] \in Ctx
            BY <2>1, <2>3 DEF Process, TypeOK
        <3> QED BY <2>3, <3>1 DEF Process, ParserResults, TypeOK, SetLists, MaxAge
    <2>4. CASE PutResult(w)
        <3>1. dest[w] \in SetLists \cup {"turning"}
            BY <2>4 DEF PutResult, TypeOK
        <3>2. dest' \in [Workers -> SetLists \cup {"turning", "none"}]
            BY <2>4 DEF PutResult, TypeOK
        <3> QED BY <2>1, <2>4, <3>1, <3>2, PutDownType DEF PutResult
    <2> QED BY <1>2, <2>2, <2>3, <2>4 DEF Worker
<1>3. CASE EpollThread
    <2>1. Epoll \in Agents
        BY DEF Agents
    <2>2. CASE EpollWait
        BY <2>2 DEF EpollWait, Armed, TypeOK
    <2>3. CASE EpollTake
        BY <2>1, <2>3 DEF EpollTake, TakeOff, RemoveFrom, TypeOK, SetLists, Statuses
    <2>4. CASE EpollSkip
        BY <2>4 DEF EpollSkip, TypeOK
    <2>5. CASE EpollPut
        <3>1. dest' \in [Workers -> SetLists \cup {"turning", "none"}]
            BY <2>5 DEF EpollPut, TypeOK
        <3> QED BY <2>1, <2>5, <3>1, PutDownType DEF EpollPut
    <2> QED BY <1>3, <2>2, <2>3, <2>4, <2>5 DEF EpollThread
<1>4. CASE ScanThread
    <2>1. CASE ScanPolling
        BY <2>1 DEF ScanPolling, NotWaiting, TimedOut, TypeOK, SetLists, Statuses
    <2>2. CASE ScanIdling
        BY <2>2 DEF ScanIdling, TypeOK, SetLists, Statuses
    <2>3. CASE ScanTurning
        <3>1. PICK s \in Orders(temp) : turning' = turning \o s
            BY <2>3 DEF ScanTurning
        <3>2. turning' \in Seq(Ctx)
            <4>1. temp \in SUBSET Ctx /\ turning \in Seq(Ctx)
                BY DEF TypeOK
            <4>2. s \in Seq(Ctx)
                BY <3>1, <4>1, OrdersAreSeqs
            <4> QED BY <3>1, <4>1, <4>2
        <3> QED BY <2>3, <3>2 DEF ScanTurning, TypeOK, Statuses
    <2> QED BY <1>4, <2>1, <2>2, <2>3 DEF ScanThread
<1>5. ASSUME NEW n \in Notifiers, Notifier(n) PROVE TypeOK'
    <2>1. n \in Agents
        BY DEF Agents
    <2>2. CASE Signal(n)
        BY <2>1, <2>2 DEF Signal, TakeOff, RemoveFrom, TypeOK, SetLists, Statuses
    <2>3. CASE Activate(n)
        BY <2>1, <2>3 DEF Activate, TakeOff, RemoveFrom, TypeOK, SetLists, Statuses
    <2>4. CASE NotifierPut(n)
        <3>1. dest' \in [Workers -> SetLists \cup {"turning", "none"}]
            BY <2>4 DEF NotifierPut, TypeOK
        <3> QED BY <2>1, <2>4, <3>1, PutDownType DEF NotifierPut
    <2> QED BY <1>5, <2>2, <2>3, <2>4 DEF Notifier
<1>6. CASE WakerThread
    <2>1. Waker \in Agents
        BY DEF Agents
    <2>2. CASE WakeFirst
        <3>1. Head(slist) \in Ctx /\ Tail(slist) \in Seq(Ctx)
            BY <2>2 DEF WakeFirst, TypeOK
        <3> QED BY <2>2, <3>1 DEF WakeFirst, TypeOK
    <2>3. CASE KeepAsleep
        <3>1. Head(slist) \in Ctx /\ Tail(slist) \in Seq(Ctx)
            BY <2>3 DEF KeepAsleep, TypeOK
        <3> QED BY <2>3, <3>1 DEF KeepAsleep, TypeOK
    <2>4. CASE WakeTake
        BY <2>1, <2>4 DEF WakeTake, RemoveFrom, TypeOK, SetLists
    <2>5. CASE WakePut
        <3>1. dest' \in [Workers -> SetLists \cup {"turning", "none"}]
            BY <2>5 DEF WakePut, TypeOK
        <3> QED BY <2>1, <2>5, <3>1, PutDownType DEF WakePut
    <2> QED BY <1>6, <2>2, <2>3, <2>4, <2>5 DEF WakerThread
<1>7. ASSUME NEW c \in Ctx, Tick(c) PROVE TypeOK'
    <2>1. age' \in [Ctx -> 0..MaxAge]
        <3>1. age \in [Ctx -> 0..2] /\ age[c] < 2 /\ age' = [age EXCEPT ![c] = @ + 1]
            BY <1>7 DEF Tick, TypeOK, MaxAge
        <3>2. age[c] + 1 \in 0..2
            BY <3>1
        <3> QED BY <3>1, <3>2 DEF MaxAge
    <2> QED BY <1>7, <2>1 DEF Tick, TypeOK
<1>8. CASE UNCHANGED vars
    BY <1>8 DEF vars, TypeOK
<1> QED
    BY <1>1, <1>2, <1>3, <1>4, <1>5, <1>6, <1>7, <1>8 DEF Next

\* Every variable keeps its type, whatever the interleaving of the pool's threads.
THEOREM TypeCorrect == Spec => []TypeOK
    BY InitType, NextType, PTL DEF Spec

-----------------------------------------------------------------------------
(* Every context is at one place                                           *)

\* The inductive form of OnePlace: the type of a context names the list it is on or the
\* kind of thread that holds it, and where the type leaves a choice the two exclude
\* each other.
ResidenceOf(c) ==
    /\ type[c] \in {"free", "constructing"} <=>
           c \in list["free"] \/ \E l \in Listeners : hand[l] = c
    /\ type[c] = "turning" <=> c \in Range(turning) \/ \E w \in Workers : hand[w] = c
    /\ type[c] = "switching" <=>
           c \in temp \/ \E a \in Notifiers \cup {Epoll} : hand[a] = c
    /\ type[c] = "sleeping" <=> c \in list["sleeping"] \/ hand[Waker] = c
    /\ type[c] = "idling" <=> c \in list["idling"]
    /\ type[c] = "polling" <=> c \in list["polling"]

Residence ==
    /\ \A c \in list["free"] : type[c] = "free"
    /\ \A c \in Ctx : ResidenceOf(c)

\* What a thread holds is on no list and in no other thread's hands.
HandsApart ==
    /\ \A a, b \in Agents : a # b /\ hand[a] # NoCtx => hand[a] # hand[b]
    /\ \A l \in Listeners : hand[l] \notin list["free"]
    /\ \A w \in Workers : hand[w] \notin Range(turning)
    /\ \A a \in Notifiers \cup {Epoll} : hand[a] \notin temp
    /\ hand[Waker] \notin list["sleeping"]
    /\ wake = NoCtx \/ hand[Waker] = NoCtx

IndInv == TypeOK /\ IsInjective(turning) /\ Residence /\ HandsApart

\* A context in the hands of a thread is nowhere else.
LEMMA HeldNowhereElse ==
    ASSUME IndInv, NEW a \in Agents, hand[a] # NoCtx
    PROVE  /\ hand[a] \in Ctx
           /\ \A p \in SetLists : hand[a] \notin list[p]
           /\ hand[a] \notin Range(turning)
           /\ hand[a] \notin temp
           /\ \A b \in Agents : b # a => hand[b] # hand[a]
<1> USE DEF IndInv
<1>1. hand[a] \in Ctx
    BY DEF TypeOK
<1>2. \A b \in Agents : b # a => hand[b] # hand[a]
    BY DEF HandsApart
<1>3. CASE a \in Listeners
    BY <1>1, <1>3 DEF Residence, ResidenceOf, HandsApart, SetLists
<1>4. CASE a \in Workers
    BY <1>1, <1>4 DEF Residence, ResidenceOf, HandsApart, SetLists
<1>5. CASE a \in Notifiers \cup {Epoll}
    BY <1>1, <1>5 DEF Residence, ResidenceOf, HandsApart, SetLists
<1>6. CASE a = Waker
    BY <1>1, <1>6 DEF Residence, ResidenceOf, HandsApart, SetLists
<1> QED
    BY <1>1, <1>2, <1>3, <1>4, <1>5, <1>6 DEF Agents

\* Putting a held context on a list keeps every context at one place.
LEMMA PutDownInd ==
    ASSUME IndInv, NEW a \in Agents, NEW t \in SetLists \cup {"turning"}, PutDown(a, t),
           UNCHANGED <<temp, wake>>
    PROVE  IsInjective(turning') /\ Residence' /\ HandsApart'
<1> PICK c \in Ctx : c = hand[a]
    BY HeldNowhereElse DEF PutDown
<1>1. /\ \A p \in SetLists : c \notin list[p]
      /\ c \notin Range(turning)
      /\ c \notin temp
      /\ \A b \in Agents : b # a => hand[b] # c
    BY HeldNowhereElse DEF PutDown
<1>2. /\ type' = [type EXCEPT ![c] = t]
      /\ hand' = [hand EXCEPT ![a] = NoCtx]
      /\ AppendTo(t, c)
      /\ c # NoCtx
    BY DEF PutDown, Insert
<1>3. /\ type \in [Ctx -> Statuses] /\ list \in [SetLists -> SUBSET Ctx]
      /\ hand \in [Agents -> Ctx \cup {NoCtx}] /\ turning \in Seq(Ctx)
      /\ IsInjective(turning) /\ temp \in SUBSET Ctx
    BY DEF IndInv, TypeOK
<1>0. Residence /\ HandsApart /\ NoCtx \notin Ctx
    BY CtxAssumption DEF IndInv
<1>4. /\ \A b \in Agents : hand'[b] = IF b = a THEN NoCtx ELSE hand[b]
      /\ \A d \in Ctx : type'[d] = IF d = c THEN t ELSE type[d]
      /\ \A d \in Ctx \ {c}, b \in Agents : hand'[b] = d <=> hand[b] = d
      /\ \A b \in Agents : hand'[b] # c
    <2>1. \A b \in Agents : hand'[b] = IF b = a THEN NoCtx ELSE hand[b]
        BY <1>2, <1>3
    <2>2. \A d \in Ctx : type'[d] = IF d = c THEN t ELSE type[d]
        BY <1>1, <1>2, <1>3
    <2>3. hand[a] = c /\ NoCtx \notin Ctx
        BY CtxAssumption
    <2> QED BY <1>1, <1>2, <2>1, <2>2, <2>3
<1>5. CASE t = "turning"
    <2>1. /\ turning' = Append(turning, c) /\ list' = list
          /\ Range(turning') = Range(turning) \cup {c} /\ IsInjective(turning')
        BY <1>1, <1>2, <1>3, <1>5, AppendRange DEF AppendTo
    <2>2. Residence'
        <3>1. \A d \in list'["free"] : type'[d] = "free"
            BY <1>0, <1>1, <1>3, <1>4, <2>1 DEF Residence, ResidenceOf, SetLists
        <3>2. ResidenceOf(c)'
            BY <1>0, <1>1, <1>4, <1>5, <2>1 DEF ResidenceOf, SetLists, Agents
        <3>3. ASSUME NEW d \in Ctx, d # c PROVE ResidenceOf(d)'
            BY <1>0, <1>4, <2>1, <3>3 DEF Residence, ResidenceOf, Agents
        <3> QED BY <1>1, <3>1, <3>2, <3>3 DEF Residence
    <2>3. HandsApart'
        <3>1. \A x \in Agents : hand'[x] = NoCtx \/ (hand'[x] = hand[x] /\ hand'[x] # c)
            BY <1>4
        <3>2. \A x, y \in Agents : x # y /\ hand'[x] # NoCtx => hand'[x] # hand'[y]
            BY <1>0, <3>1 DEF HandsApart
        <3>3. NoCtx \notin list'["free"] /\ NoCtx \notin list'["sleeping"]
              /\ NoCtx \notin Range(turning') /\ NoCtx \notin temp'
            BY <1>0, <1>3, <2>1 DEF SetLists, Range
        <3>4. /\ list'["free"] \subseteq list["free"] \cup {c}
              /\ list'["sleeping"] \subseteq list["sleeping"] \cup {c}
              /\ Range(turning') \subseteq Range(turning) \cup {c}
            BY <2>1 DEF SetLists
        <3> QED BY <1>0, <3>1, <3>2, <3>3, <3>4 DEF HandsApart, Agents
    <2> QED BY <2>1, <2>2, <2>3
<1>6. CASE t \in SetLists
    <2>1. /\ turning' = turning
          /\ \A p \in SetLists : list'[p] = IF p = t THEN list[p] \cup {c} ELSE list[p]
        BY <1>2, <1>3, <1>6 DEF AppendTo, SetLists
    <2>2. Residence'
        <3>1. \A d \in list'["free"] : type'[d] = "free"
            BY <1>0, <1>1, <1>3, <1>4, <2>1 DEF Residence, ResidenceOf, SetLists
        <3>2. ResidenceOf(c)'
            BY <1>0, <1>1, <1>4, <1>6, <2>1 DEF ResidenceOf, SetLists, Agents
        <3>3. ASSUME NEW d \in Ctx, d # c PROVE ResidenceOf(d)'
            BY <1>0, <1>4, <2>1, <3>3 DEF Residence, ResidenceOf, SetLists, Agents
        <3> QED BY <1>1, <3>1, <3>2, <3>3 DEF Residence
    <2>3. HandsApart'
        <3>1. \A x \in Agents : hand'[x] = NoCtx \/ (hand'[x] = hand[x] /\ hand'[x] # c)
            BY <1>4
        <3>2. \A x, y \in Agents : x # y /\ hand'[x] # NoCtx => hand'[x] # hand'[y]
            BY <1>0, <3>1 DEF HandsApart
        <3>3. NoCtx \notin list'["free"] /\ NoCtx \notin list'["sleeping"]
              /\ NoCtx \notin Range(turning') /\ NoCtx \notin temp'
            BY <1>0, <1>3, <2>1 DEF SetLists, Range
        <3>4. /\ list'["free"] \subseteq list["free"] \cup {c}
              /\ list'["sleeping"] \subseteq list["sleeping"] \cup {c}
              /\ Range(turning') \subseteq Range(turning) \cup {c}
            BY <2>1 DEF SetLists
        <3> QED BY <1>0, <3>1, <3>2, <3>3, <3>4 DEF HandsApart, Agents
    <2> QED BY <1>3, <2>1, <2>2, <2>3
<1> QED
    BY <1>5, <1>6

\* Taking a context off a list, into hands that are empty, keeps every context at one place.
LEMMA PickUpInd ==
    ASSUME IndInv
    PROVE  /\ \A l \in Listeners : GetFree(l) => Residence' /\ HandsApart'
           /\ \A w \in Workers : GetTurning(w) =>
                  IsInjective(turning') /\ Residence' /\ HandsApart'
           /\ \A a \in Notifiers \cup {Epoll}, p \in {"idling", "polling"}, c \in Ctx :
                  hand[a] = NoCtx /\ type[c] = p /\ TakeOff(a, p, c)
                      /\ UNCHANGED <<turning, temp, wake>> => Residence' /\ HandsApart'
           /\ WakeTake => Residence' /\ HandsApart'
<1>0. /\ type \in [Ctx -> Statuses] /\ list \in [SetLists -> SUBSET Ctx]
      /\ hand \in [Agents -> Ctx \cup {NoCtx}] /\ turning \in Seq(Ctx)
      /\ IsInjective(turning) /\ temp \in SUBSET Ctx /\ NoCtx \notin Ctx
      /\ Residence /\ HandsApart
    BY CtxAssumption DEF IndInv, TypeOK
<1>d. /\ Listeners \cap Workers = {} /\ Listeners \cap Notifiers = {}
      /\ Workers \cap Notifiers = {} /\ Epoll # Waker
      /\ Epoll \notin Listeners \cup Workers \cup Notifiers
      /\ Waker \notin Listeners \cup Workers \cup Notifiers
    BY AgentsAssumption
<1>1. ASSUME NEW l \in Listeners, GetFree(l) PROVE Residence' /\ HandsApart'
    <2>1. PICK c \in list["free"] :
            /\ list' = [list EXCEPT !["free"] = @ \ {c}]
            /\ hand' = [hand EXCEPT ![l] = c]
        BY <1>1 DEF GetFree, RemoveFrom
    <2>2. /\ type' = type /\ turning' = turning /\ temp' = temp /\ wake' = wake
          /\ hand[l] = NoCtx /\ l \in Agents /\ c \in Ctx
        BY <1>0, <1>1 DEF GetFree, scanner, sleepers, Agents, SetLists
    <2>3. /\ \A b \in Agents : hand'[b] = IF b = l THEN c ELSE hand[b]
          /\ \A p \in SetLists : list'[p] = IF p = "free" THEN list[p] \ {c} ELSE list[p]
        BY <1>0, <2>1, <2>2
    <2>4. \A b \in Agents : hand[b] # c
        BY <1>0, <2>1, <2>2 DEF Residence, ResidenceOf, HandsApart, Agents
    <2>5. Residence'
        BY <1>0, <1>d, <2>1, <2>2, <2>3, <2>4 DEF Residence, ResidenceOf, SetLists, Agents
    <2>6. HandsApart'
        BY <1>0, <1>d, <2>1, <2>2, <2>3, <2>4 DEF HandsApart, SetLists, Agents
    <2> QED BY <2>5, <2>6
<1>2. ASSUME NEW w \in Workers, GetTurning(w)
      PROVE  IsInjective(turning') /\ Residence' /\ HandsApart'
    <2> DEFINE c == Head(turning)
    <2>1. /\ type' = type /\ list' = list /\ temp' = temp /\ wake' = wake
          /\ hand[w] = NoCtx /\ w \in Agents /\ hand' = [hand EXCEPT ![w] = c]
        BY <1>2 DEF GetTurning, scanner, sleepers, Agents
    <2>2. /\ c \in Range(turning) /\ Range(turning') = Range(turning) \ {c}
          /\ IsInjective(turning') /\ c \in Ctx
        BY <1>0, <1>2, TailRange DEF GetTurning
    <2> HIDE DEF c
    <2>3. \A b \in Agents : hand'[b] = IF b = w THEN c ELSE hand[b]
        BY <1>0, <2>1
    <2>4. \A b \in Agents : hand[b] # c
        BY <1>0, <2>2 DEF Residence, ResidenceOf, HandsApart, Agents
    <2>5. Residence'
        BY <1>0, <1>d, <2>1, <2>2, <2>3, <2>4 DEF Residence, ResidenceOf, SetLists, Agents
    <2>6. HandsApart'
        BY <1>0, <1>d, <2>1, <2>2, <2>3, <2>4 DEF HandsApart, SetLists, Agents
    <2> QED BY <2>2, <2>5, <2>6
<1>3. ASSUME NEW a \in Notifiers \cup {Epoll}, NEW p \in {"idling", "polling"}, NEW c \in Ctx,
             hand[a] = NoCtx, type[c] = p, TakeOff(a, p, c), UNCHANGED <<turning, temp, wake>>
      PROVE  Residence' /\ HandsApart'
    <2>1. /\ list' = [list EXCEPT ![p] = @ \ {c}] /\ type' = [type EXCEPT ![c] = "switching"]
          /\ hand' = [hand EXCEPT ![a] = c] /\ a \in Agents
        BY <1>3 DEF TakeOff, RemoveFrom, Agents
    <2>2. /\ \A b \in Agents : hand'[b] = IF b = a THEN c ELSE hand[b]
          /\ \A q \in SetLists : list'[q] = IF q = p THEN list[q] \ {c} ELSE list[q]
          /\ \A d \in Ctx : type'[d] = IF d = c THEN "switching" ELSE type[d]
        BY <1>0, <2>1
    <2>3. /\ \A b \in Agents : hand[b] # c
          /\ \A q \in SetLists : q # p => c \notin list[q]
          /\ c \notin temp /\ c \notin Range(turning)
        BY <1>0, <1>3 DEF Residence, ResidenceOf, HandsApart, Agents, SetLists
    <2>4. Residence'
        BY <1>0, <1>3, <1>d, <2>2, <2>3 DEF Residence, ResidenceOf, SetLists, Agents
    <2>5. HandsApart'
        <3>1. \A x, y \in Agents : x # y /\ hand'[x] # NoCtx => hand'[x] # hand'[y]
            BY <1>0, <2>2, <2>3 DEF HandsApart
        <3>2. \A x \in Listeners \cup Workers \cup {Waker} : hand'[x] = hand[x]
            BY <1>d, <2>2 DEF Agents
        <3>3. list'["free"] = list["free"] /\ list'["sleeping"] = list["sleeping"]
            BY <2>2 DEF SetLists
        <3>4. \A x \in Notifiers \cup {Epoll} : hand'[x] \notin temp'
            BY <1>0, <1>3, <2>2, <2>3 DEF HandsApart, Agents
        <3> QED BY <1>0, <1>3, <3>1, <3>2, <3>3, <3>4 DEF HandsApart
    <2> QED BY <2>4, <2>5
<1>4. ASSUME WakeTake PROVE Residence' /\ HandsApart'
    <2> DEFINE c == wake
    <2>1. /\ list' = [list EXCEPT !["sleeping"] = @ \ {c}] /\ hand' = [hand EXCEPT ![Waker] = c]
          /\ wake' = NoCtx /\ type' = type /\ turning' = turning /\ temp' = temp
          /\ Waker \in Agents /\ c \in Ctx /\ type[c] = "sleeping" /\ hand[Waker] = NoCtx
        BY <1>0, <1>4 DEF WakeTake, RemoveFrom, Agents, IndInv, TypeOK, HandsApart, scanner
    <2> HIDE DEF c
    <2>2. /\ \A b \in Agents : hand'[b] = IF b = Waker THEN c ELSE hand[b]
          /\ \A q \in SetLists : list'[q] = IF q = "sleeping" THEN list[q] \ {c} ELSE list[q]
        BY <1>0, <2>1
    <2>3. /\ c \in list["sleeping"]
          /\ \A b \in Agents : hand[b] # c
        BY <1>0, <2>1 DEF Residence, ResidenceOf, HandsApart, Agents
    <2>4. Residence'
        BY <1>0, <1>d, <2>1, <2>2, <2>3 DEF Residence, ResidenceOf, SetLists, Agents
    <2>5. HandsApart'
        BY <1>0, <1>d, <2>1, <2>2, <2>3 DEF HandsApart, SetLists, Agents
    <2> QED BY <2>4, <2>5
<1> QED
    BY <1>1, <1>2, <1>3, <1>4

\* The three passes of the scan thread keep every context at one place.
LEMMA ScanInd ==
    ASSUME IndInv, ScanThread
    PROVE  IsInjective(turning') /\ Residence' /\ HandsApart'
<1>0. /\ type \in [Ctx -> Statuses] /\ list \in [SetLists -> SUBSET Ctx]
      /\ hand \in [Agents -> Ctx \cup {NoCtx}] /\ turning \in Seq(Ctx)
      /\ IsInjective(turning) /\ temp \in SUBSET Ctx /\ NoCtx \notin Ctx
      /\ Residence /\ HandsApart
    BY CtxAssumption DEF IndInv, TypeOK
<1>1. ASSUME NEW p \in {"idling", "polling"}, NEW moved \in SUBSET list[p],
             temp' = temp \cup moved, list' = [list EXCEPT ![p] = @ \ moved],
             type' = [c \in Ctx |-> IF c \in moved THEN "switching" ELSE type[c]],
             UNCHANGED <<turning, hand, wake>>
      PROVE  Residence' /\ HandsApart'
    <2>1. /\ \A q \in SetLists : list'[q] = IF q = p THEN list[q] \ moved ELSE list[q]
          /\ moved \subseteq Ctx
        BY <1>0, <1>1 DEF SetLists
    <2>2. \A c \in moved :
            /\ type[c] = p
            /\ \A b \in Agents : hand[b] # c
            /\ c \notin temp /\ c \notin Range(turning)
            /\ \A q \in SetLists : q # p => c \notin list[q]
        BY <1>0, <1>1, <2>1 DEF Residence, ResidenceOf, HandsApart, Agents, SetLists
    <2>3. Residence'
        BY <1>0, <1>1, <2>1, <2>2 DEF Residence, ResidenceOf, SetLists, Agents
    <2>4. HandsApart'
        BY <1>0, <1>1, <2>1, <2>2 DEF HandsApart, SetLists, Agents
    <2> QED BY <2>3, <2>4
<1>2. CASE ScanPolling
    <2> DEFINE moved == NotWaiting \cup TimedOut
    <2>1. moved \in SUBSET list["polling"]
        BY DEF NotWaiting, TimedOut
    <2>2. /\ temp' = temp \cup moved /\ list' = [list EXCEPT !["polling"] = @ \ moved]
          /\ type' = [c \in Ctx |-> IF c \in moved THEN "switching" ELSE type[c]]
          /\ UNCHANGED <<turning, hand, wake>>
        BY <1>2 DEF ScanPolling, sleepers
    <2> HIDE DEF moved
    <2> QED BY <1>0, <1>1, <2>1, <2>2
<1>3. CASE ScanIdling
    <2> DEFINE moved == list["idling"]
    <2>1. /\ temp' = temp \cup moved /\ list' = [list EXCEPT !["idling"] = @ \ moved]
          /\ type' = [c \in Ctx |-> IF c \in moved THEN "switching" ELSE type[c]]
          /\ UNCHANGED <<turning, hand, wake>>
        BY <1>0, <1>3 DEF ScanIdling, sleepers, SetLists
    <2>2. moved \in SUBSET list["idling"]
        OBVIOUS
    <2> HIDE DEF moved
    <2> QED BY <1>0, <1>1, <2>1, <2>2
<1>4. CASE ScanTurning
    <2>1. PICK s \in Orders(temp) : turning' = turning \o s
        BY <1>4 DEF ScanTurning
    <2>2. /\ temp' = {} /\ list' = list /\ hand' = hand /\ wake' = wake
          /\ type' = [c \in Ctx |-> IF c \in temp THEN "turning" ELSE type[c]]
        BY <1>4 DEF ScanTurning, sleepers
    <2>3. s \in Seq(Ctx) /\ Range(s) = temp /\ IsInjective(s)
        BY <1>0, <2>1, OrdersAreSeqs, OrdersRange
    <2>4. \A c \in temp : /\ type[c] = "switching" /\ c \notin Range(turning)
                         /\ \A b \in Agents : hand[b] # c
        BY <1>0 DEF Residence, ResidenceOf, HandsApart, Agents
    <2>5. Range(turning') = Range(turning) \cup temp /\ IsInjective(turning')
        BY <1>0, <2>1, <2>3, <2>4, ConcatRange
    <2>6. Residence'
        BY <1>0, <2>2, <2>4, <2>5 DEF Residence, ResidenceOf, SetLists, Agents
    <2>7. HandsApart'
        BY <1>0, <2>2, <2>4, <2>5 DEF HandsApart, SetLists, Agents
    <2> QED BY <2>5, <2>6, <2>7
<1> QED
    BY <1>0, <1>2, <1>3, <1>4 DEF ScanThread, ScanPolling, ScanIdling

\* IndInv is inductive.
LEMMA NextInd == IndInv /\ [Next]_vars => IndInv'
<1> SUFFICES ASSUME IndInv, [Next]_vars PROVE IsInjective(turning') /\ Residence' /\ HandsApart'
    BY NextType DEF IndInv
<1> USE DEF connection, scanner, sleepers
<1>0. IsInjective(turning) /\ Residence /\ HandsApart
    BY DEF IndInv
<1>1. ASSUME UNCHANGED <<type, list, turning, temp, hand, wake>>
      PROVE  IsInjective(turning') /\ Residence' /\ HandsApart'
    BY <1>0, <1>1 DEF Residence, ResidenceOf, HandsApart
<1>2. ASSUME NEW l \in Listeners, Listener(l)
      PROVE  IsInjective(turning') /\ Residence' /\ HandsApart'
    <2>1. CASE GetFree(l)
        BY <1>0, <2>1, PickUpInd DEF GetFree
    <2>2. CASE Construct(l)
        <3>1. /\ hand[l] \in Ctx /\ type[hand[l]] = "free" /\ l \in Agents
              /\ type' = [type EXCEPT ![hand[l]] = "constructing"]
              /\ UNCHANGED <<list, turning, temp, hand, wake>>
            BY <2>2 DEF Construct, IndInv, TypeOK, Agents
        <3>2. \A d \in Ctx : type'[d] = IF d = hand[l] THEN "constructing" ELSE type[d]
            BY <3>1 DEF IndInv, TypeOK
        <3>3. list \in [SetLists -> SUBSET Ctx] /\ hand[l] \notin list["free"]
            BY <1>0 DEF IndInv, TypeOK, HandsApart
        <3>4. Residence'
            BY <1>0, <3>1, <3>2, <3>3 DEF Residence, ResidenceOf, SetLists
        <3>5. HandsApart'
            BY <1>0, <3>1 DEF HandsApart
        <3> QED BY <1>0, <3>1, <3>4, <3>5
    <2>3. CASE Refuse(l)
        BY <2>3, PutDownInd DEF Refuse, SetLists, Agents
    <2>4. CASE Attach(l)
        BY <1>1, <2>4 DEF Attach
    <2>5. CASE StartPolling(l)
        BY <2>5, PutDownInd DEF StartPolling, SetLists, Agents
    <2> QED BY <1>2, <2>1, <2>2, <2>3, <2>4, <2>5 DEF Listener
<1>3. ASSUME NEW w \in Workers, Worker(w)
      PROVE  IsInjective(turning') /\ Residence' /\ HandsApart'
    <2>1. CASE GetTurning(w)
        BY <2>1, PickUpInd
    <2>2. CASE Process(w)
        BY <1>1, <2>2 DEF Process
    <2>3. CASE PutResult(w)
        <3>1. dest[w] \in SetLists \cup {"turning"}
            BY <2>3 DEF PutResult, IndInv, TypeOK
        <3> QED BY <2>3, <3>1, PutDownInd DEF PutResult, Agents
    <2> QED BY <1>3, <2>1, <2>2, <2>3 DEF Worker
<1>4. CASE EpollThread
    <2>1. CASE EpollWait
        BY <1>1, <2>1 DEF EpollWait
    <2>2. CASE EpollTake
        <3>1. PICK c \in evq : EventTakes(c) /\ TakeOff(Epoll, "polling", c)
            BY <2>2 DEF EpollTake
        <3>2. c \in Ctx /\ type[c] = "polling" /\ hand[Epoll] = NoCtx
            BY <2>2, <3>1 DEF EpollTake, EventTakes, IndInv, TypeOK
        <3>3. UNCHANGED <<turning, temp, wake>>
            BY <2>2 DEF EpollTake
        <3> QED BY <1>0, <3>1, <3>2, <3>3, PickUpInd
    <2>3. CASE EpollSkip
        BY <1>1, <2>3 DEF EpollSkip
    <2>4. CASE EpollPut
        BY <2>4, PutDownInd DEF EpollPut, Agents
    <2> QED BY <1>4, <2>1, <2>2, <2>3, <2>4 DEF EpollThread
<1>5. CASE ScanThread
    BY <1>5, ScanInd
<1>6. ASSUME NEW n \in Notifiers, Notifier(n)
      PROVE  IsInjective(turning') /\ Residence' /\ HandsApart'
    <2>1. CASE Signal(n)
        <3>1. PICK c \in Ctx : type[c] = "idling" /\ TakeOff(n, "idling", c)
            BY <2>1 DEF Signal
        <3>2. hand[n] = NoCtx /\ UNCHANGED <<turning, temp, wake>>
            BY <2>1 DEF Signal
        <3> QED BY <1>0, <3>1, <3>2, PickUpInd
    <2>2. CASE Activate(n)
        <3>1. PICK c \in Ctx : type[c] = "polling" /\ TakeOff(n, "polling", c)
            BY <2>2 DEF Activate
        <3>2. hand[n] = NoCtx /\ UNCHANGED <<turning, temp, wake>>
            BY <2>2 DEF Activate
        <3> QED BY <1>0, <3>1, <3>2, PickUpInd
    <2>3. CASE NotifierPut(n)
        BY <2>3, PutDownInd DEF NotifierPut, Agents
    <2> QED BY <1>6, <2>1, <2>2, <2>3 DEF Notifier
<1>7. CASE WakerThread
    <2>1. CASE WakeFirst
        <3>1. hand[Waker] = NoCtx /\ UNCHANGED <<type, list, turning, temp, hand>>
            BY <2>1 DEF WakeFirst
        <3> QED BY <1>0, <3>1 DEF Residence, ResidenceOf, HandsApart
    <2>2. CASE KeepAsleep
        BY <1>1, <2>2 DEF KeepAsleep
    <2>3. CASE WakeTake
        BY <1>0, <2>3, PickUpInd DEF WakeTake
    <2>4. CASE WakePut
        BY <2>4, PutDownInd DEF WakePut, Agents
    <2> QED BY <1>7, <2>1, <2>2, <2>3, <2>4 DEF WakerThread
<1>8. ASSUME NEW c \in Ctx, Tick(c)
      PROVE  IsInjective(turning') /\ Residence' /\ HandsApart'
    BY <1>1, <1>8 DEF Tick
<1>9. CASE UNCHANGED vars
    BY <1>1, <1>9 DEF vars
<1> QED
    BY <1>2, <1>3, <1>4, <1>5, <1>6, <1>7, <1>8, <1>9 DEF Next

\* The pool starts with every context on the free list.
LEMMA InitInd == Init => IndInv
<1> SUFFICES ASSUME Init PROVE IsInjective(turning) /\ Residence /\ HandsApart
    BY InitType DEF IndInv
<1>1. Range(turning) = {} /\ IsInjective(turning)
    BY DEF Init, Range, IsInjective
<1>2. /\ \A c \in Ctx : type[c] = "free" /\ c \in list["free"]
      /\ \A a \in Agents : hand[a] = NoCtx
      /\ list["idling"] = {} /\ list["polling"] = {} /\ list["sleeping"] = {}
      /\ list["free"] = Ctx /\ temp = {} /\ wake = NoCtx
    BY DEF Init, SetLists
<1>3. Residence
    BY <1>1, <1>2, CtxAssumption DEF Residence, ResidenceOf, Agents
<1>4. HandsApart
    BY <1>1, <1>2, CtxAssumption DEF HandsApart, Agents
<1> QED
    BY <1>1, <1>3, <1>4

\* What the type of a context tells about its place is enough for OnePlace.
LEMMA IndImpliesOnePlace == IndInv => OnePlace
<1> SUFFICES ASSUME IndInv PROVE OnePlace
    OBVIOUS
<1>0. /\ Residence /\ HandsApart /\ IsInjective(turning)
      /\ type \in [Ctx -> Statuses] /\ list \in [SetLists -> SUBSET Ctx]
      /\ hand \in [Agents -> Ctx \cup {NoCtx}] /\ temp \in SUBSET Ctx /\ NoCtx \notin Ctx
      /\ turning \in Seq(Ctx)
    BY CtxAssumption DEF IndInv, TypeOK
<1>1. /\ At("free") = list["free"] /\ At("idling") = list["idling"]
      /\ At("polling") = list["polling"] /\ At("sleeping") = list["sleeping"]
      /\ At("turning") = Range(turning) /\ At("temp") = temp
    BY DEF At, SetLists
<1>2. Range(turning) \subseteq Ctx
    BY <1>0 DEF Range
<1>3. ASSUME NEW p \in Places, NEW q \in Places, p # q PROVE At(p) \cap At(q) = {}
    <2>1. \A r \in Places : At(r) \subseteq Ctx
        BY <1>0, <1>1, <1>2 DEF Places, SetLists
    <2>2. ASSUME NEW c \in Ctx, NEW r \in Places, c \in At(r)
          PROVE  type[c] = (IF r = "temp" THEN "switching" ELSE r)
        BY <1>0, <1>1, <2>2 DEF Places, SetLists, Residence, ResidenceOf
    <2> SUFFICES ASSUME NEW c \in At(p) \cap At(q) PROVE FALSE
        OBVIOUS
    <2>3. type[c] = (IF p = "temp" THEN "switching" ELSE p)
        BY <2>1, <2>2
    <2>4. type[c] = (IF q = "temp" THEN "switching" ELSE q)
        BY <2>1, <2>2
    <2> QED BY <1>3, <2>3, <2>4 DEF Places, SetLists
<1>4. \A a, b \in Agents : a # b /\ hand[a] # NoCtx => hand[a] # hand[b]
    BY <1>0 DEF HandsApart
<1>5. ASSUME NEW a \in Agents, NEW p \in Places PROVE hand[a] \notin At(p)
    <2>1. CASE hand[a] = NoCtx
        BY <1>0, <1>1, <1>2, <2>1 DEF Places, SetLists
    <2>2. CASE hand[a] # NoCtx
        BY <1>1, <2>2, HeldNowhereElse DEF Places, SetLists
    <2> QED BY <2>1, <2>2
<1>6. ASSUME NEW c \in Ctx
      PROVE  (\E p \in Places : c \in At(p)) \/ (\E a \in Agents : hand[a] = c)
    BY <1>0, <1>1 DEF Residence, ResidenceOf, Statuses, SetLists, Places, Agents
<1> QED
    BY <1>0, <1>3, <1>4, <1>5, <1>6 DEF OnePlace

\* Every context is at exactly one place in every reachable state, for any number of
\* contexts and threads: a hand-over between two list locks neither loses nor duplicates
\* a connection.
THEOREM OnePlaceCorrect == Spec => []OnePlace
<1>1. Spec => []IndInv
    BY InitInd, NextInd, PTL DEF Spec
<1> QED
    BY <1>1, IndImpliesOnePlace, PTL

\* In every reachable state the type field tells under which lock a context can be
\* unlinked, for any number of contexts and threads.
THEOREM TypeTellsListCorrect == Spec => []TypeTellsList
<1>1. Spec => []IndInv
    BY InitInd, NextInd, PTL DEF Spec
<1>2. IndInv => TypeTellsList
    BY CtxAssumption DEF IndInv, Residence, ResidenceOf, TypeTellsList
<1> QED
    BY <1>1, <1>2, PTL

-----------------------------------------------------------------------------
(* Clean contexts and the epoll set                                        *)

\* The inductive form of FreeIsClean: a context is clean from the moment the parser has
\* closed its connection, but for b_waiting, which PutResult clears, until its listener
\* has put it on the polling list; and dest belongs to the context in hand.
HandsClean ==
    /\ FreeIsClean
    /\ \A l \in Listeners : hand[l] # NoCtx =>
           reg[hand[l]] = "none" /\ ~b_waiting[hand[l]]
    /\ \A w \in Workers : hand[w] = NoCtx => dest[w] = "none"
    /\ \A w \in Workers : dest[w] = "free" =>
           sock[hand[w]] = "none" /\ reg[hand[w]] = "none"

EpollInv == HandsClean /\ NoLostEvent

\* Who is where, as far as the epoll set is concerned.
LEMMA HandsAndLists ==
    ASSUME IndInv
    PROVE  /\ \A a \in Agents, p \in SetLists : hand[a] \notin list[p]
           /\ \A a, b \in Agents : a # b /\ hand[a] # NoCtx => hand[a] # hand[b]
           /\ \A c \in list["free"] : c \notin list["polling"]
           /\ \A l \in Listeners : hand[l] # NoCtx =>
                  hand[l] \in Ctx /\ type[hand[l]] \in {"free", "constructing"}
           /\ \A w \in Workers : hand[w] # NoCtx =>
                  hand[w] \in Ctx /\ type[hand[w]] = "turning"
<1>0. /\ list \in [SetLists -> SUBSET Ctx] /\ hand \in [Agents -> Ctx \cup {NoCtx}]
      /\ NoCtx \notin Ctx /\ Residence /\ HandsApart
    BY CtxAssumption DEF IndInv, TypeOK
<1>1. \A a \in Agents, p \in SetLists : hand[a] \notin list[p]
    BY <1>0, HeldNowhereElse
<1>2. \A c \in list["free"] : c \notin list["polling"]
    BY <1>0 DEF Residence, ResidenceOf, SetLists
<1>3. Listeners \subseteq Agents /\ Workers \subseteq Agents
    BY DEF Agents
<1> QED
    BY <1>0, <1>1, <1>2, <1>3 DEF HandsApart, Residence, ResidenceOf

\* contexts_pool_insert by a thread that holds the context.
LEMMA PutDownEpoll ==
    ASSUME IndInv, EpollInv, NEW a \in Agents, NEW t \in SetLists \cup {"turning"},
           PutDown(a, t), evq' = evq,
           a \in Workers => dest[a] = t /\ dest' = [dest EXCEPT ![a] = "none"],
           a \notin Workers => UNCHANGED dest,
           t = "free" => \/ a \in Workers
                         \/ a \in Listeners /\ sock[hand[a]] = "none",
           t = "polling" /\ a \notin Workers => type[hand[a]] = "constructing"
    PROVE  EpollInv'
<1> PICK c \in Ctx : c = hand[a] /\ c # NoCtx
    BY CtxAssumption, HeldNowhereElse DEF PutDown
<1>0. /\ type \in [Ctx -> Statuses] /\ list \in [SetLists -> SUBSET Ctx]
      /\ hand \in [Agents -> Ctx \cup {NoCtx}] /\ NoCtx \notin Ctx
      /\ b_waiting \in [Ctx -> BOOLEAN] /\ dest \in [Workers -> SetLists \cup {"turning", "none"}]
      /\ reg \in [Ctx -> {"none", "armed", "disarmed"}]
      /\ sock \in [Ctx -> {"none", "open", "shut"}] /\ evq \in SUBSET Ctx
      /\ Listeners \subseteq Agents /\ Workers \subseteq Agents
      /\ Listeners \cap Workers = {}
    BY CtxAssumption, AgentsAssumption DEF IndInv, TypeOK, Agents
<1>1. /\ hand' = [hand EXCEPT ![a] = NoCtx]
      /\ \A b \in Agents : b # a => hand[b] # c
      /\ \A p \in SetLists : c \notin list[p]
    BY HeldNowhereElse DEF PutDown
<1>2. \A p \in SetLists : list'[p] = IF p = t THEN list[p] \cup {c} ELSE list[p]
    <2>1. AppendTo(t, c)
        BY DEF PutDown, Insert
    <2>2. CASE t = "turning"
        BY <2>1, <2>2 DEF AppendTo, SetLists
    <2>3. CASE t \in SetLists
        <3>1. list \in [SetLists -> SUBSET Ctx] /\ t # "turning"
            BY <1>0, <2>3 DEF SetLists
        <3>2. list' = [list EXCEPT ![t] = @ \cup {c}]
            BY <2>1, <3>1 DEF AppendTo
        <3> QED BY <2>3, <3>1, <3>2
    <2> QED BY <2>2, <2>3
<1>i. Insert(c, t)
    BY DEF PutDown
<1>3. \A d \in Ctx : d # c =>
          b_waiting'[d] = b_waiting[d] /\ reg'[d] = reg[d] /\ sock'[d] = sock[d]
    <2>1. CASE t = "polling"
        <3>1. CASE type[c] = "constructing"
            BY <1>0, <1>i, <2>1, <3>1 DEF Insert, RegisterNew
        <3>2. CASE Rearm(c)
            BY <1>0, <3>2 DEF Rearm
        <3>3. CASE Readd(c)
            BY <1>0, <3>3 DEF Readd
        <3> QED BY <1>i, <2>1, <3>1, <3>2, <3>3 DEF Insert
    <2>2. CASE t = "free"
        BY <1>0, <2>2 DEF PutDown, Insert, ForgetWaiting
    <2>3. CASE t # "polling" /\ t # "free"
        BY <1>0, <2>3 DEF PutDown, Insert
    <2> QED BY <2>1, <2>2, <2>3
<1>4. CASE t = "polling"
    <2>1. b_waiting'[c] => reg'[c] = "armed" \/ (AddMayFail /\ reg'[c] = "none")
        <3>1. CASE type[c] = "constructing"
            BY <1>0, <1>4, <1>i, <3>1 DEF Insert, RegisterNew
        <3>2. CASE type[c] # "constructing" /\ Rearm(c)
            BY <1>0, <3>2 DEF Rearm
        <3>3. CASE type[c] # "constructing" /\ Readd(c)
            BY <1>0, <3>3, AddAssumption DEF Readd, AddOutcomes
        <3> QED BY <1>4, <1>i, <3>1, <3>2, <3>3 DEF Insert
    <2>2. NoLostEvent'
        BY <1>0, <1>2, <1>3, <1>4, <2>1 DEF EpollInv, NoLostEvent, SetLists
    <2>3. HandsClean'
        BY <1>0, <1>1, <1>2, <1>3, <1>4 DEF EpollInv, HandsClean, FreeIsClean, SetLists
    <2> QED BY <2>2, <2>3 DEF EpollInv
<1>5. CASE t = "free"
    <2>1. sock'[c] = "none" /\ reg'[c] = "none" /\ ~b_waiting'[c]
        <3>1. UNCHANGED <<reg, sock>>
              /\ b_waiting' = [b_waiting EXCEPT ![c] = IF type[c] = "turning" THEN FALSE ELSE @]
            BY <1>5 DEF PutDown, Insert, ForgetWaiting
        <3>2. CASE a \in Workers
            BY <1>0, <1>5, <3>1, <3>2, HandsAndLists DEF EpollInv, HandsClean
        <3>3. CASE a \in Listeners /\ sock[hand[a]] = "none"
            BY <1>0, <3>1, <3>3 DEF EpollInv, HandsClean
        <3> QED BY <1>5, <3>2, <3>3
    <2>2. NoLostEvent'
        BY <1>0, <1>1, <1>2, <1>3, <1>5 DEF EpollInv, NoLostEvent, SetLists
    <2>3. HandsClean'
        BY <1>0, <1>1, <1>2, <1>3, <1>5, <2>1 DEF EpollInv, HandsClean, FreeIsClean, SetLists
    <2> QED BY <2>2, <2>3 DEF EpollInv
<1>6. CASE t # "polling" /\ t # "free"
    <2>1. NoLostEvent'
        BY <1>0, <1>1, <1>2, <1>3, <1>6 DEF EpollInv, NoLostEvent, SetLists
    <2>2. HandsClean'
        BY <1>0, <1>1, <1>2, <1>3, <1>6 DEF EpollInv, HandsClean, FreeIsClean, SetLists
    <2> QED BY <2>1, <2>2 DEF EpollInv
<1> QED BY <1>4, <1>5, <1>6

\* EpollInv is inductive relative to IndInv.
LEMMA NextEpoll == IndInv /\ EpollInv /\ [Next]_vars => EpollInv'
<1> SUFFICES ASSUME IndInv, EpollInv, [Next]_vars PROVE EpollInv'
    OBVIOUS
<1> USE DEF connection, scanner, sleepers
<1>0. /\ type \in [Ctx -> Statuses] /\ list \in [SetLists -> SUBSET Ctx]
      /\ hand \in [Agents -> Ctx \cup {NoCtx}] /\ NoCtx \notin Ctx
      /\ b_waiting \in [Ctx -> BOOLEAN] /\ dest \in [Workers -> SetLists \cup {"turning", "none"}]
      /\ reg \in [Ctx -> {"none", "armed", "disarmed"}]
      /\ sock \in [Ctx -> {"none", "open", "shut"}] /\ evq \in SUBSET Ctx
      /\ Residence
    BY CtxAssumption DEF IndInv, TypeOK
<1>a. /\ Listeners \subseteq Agents /\ Workers \subseteq Agents /\ Notifiers \subseteq Agents
      /\ Epoll \in Agents /\ Waker \in Agents
      /\ Listeners \cap Workers = {} /\ Listeners \cap Notifiers = {}
      /\ Workers \cap Notifiers = {} /\ Epoll # Waker
      /\ Epoll \notin Listeners \cup Workers /\ Waker \notin Listeners \cup Workers
    BY AgentsAssumption DEF Agents
<1>b. /\ \A a \in Agents, p \in SetLists : hand[a] \notin list[p]
      /\ \A a, b \in Agents : a # b /\ hand[a] # NoCtx => hand[a] # hand[b]
      /\ \A l \in Listeners : hand[l] # NoCtx =>
                  hand[l] \in Ctx /\ type[hand[l]] \in {"free", "constructing"}
      /\ \A w \in Workers : hand[w] # NoCtx =>
                  hand[w] \in Ctx /\ type[hand[w]] = "turning"
    BY HandsAndLists
<1>1. ASSUME NEW l \in Listeners, Listener(l) PROVE EpollInv'
    <2>1. CASE GetFree(l)
        BY <1>0, <1>a, <1>b, <2>1
        DEF GetFree, RemoveFrom, EpollInv, HandsClean, FreeIsClean, NoLostEvent, SetLists
    <2>2. CASE Construct(l)
        BY <2>2 DEF Construct, EpollInv, HandsClean, FreeIsClean, NoLostEvent
    <2>3. CASE Refuse(l)
        BY <1>a, <2>3, PutDownEpoll DEF Refuse, SetLists
    <2>4. CASE Attach(l)
        <3>1. \A d \in Ctx : d # hand[l] => sock'[d] = sock[d]
            BY <1>0, <2>4 DEF Attach
        <3>2. \A w \in Workers : dest[w] = "free" => hand[w] # hand[l] /\ hand[w] # NoCtx
            BY <1>a, <1>b, <2>4 DEF Attach, EpollInv, HandsClean
        <3> QED BY <1>0, <1>a, <1>b, <2>4, <3>1, <3>2
                DEF Attach, EpollInv, HandsClean, FreeIsClean, NoLostEvent, SetLists
    <2>5. CASE StartPolling(l)
        BY <1>a, <2>5, PutDownEpoll DEF StartPolling, SetLists
    <2> QED BY <1>1, <2>1, <2>2, <2>3, <2>4, <2>5 DEF Listener
<1>2. ASSUME NEW w \in Workers, Worker(w) PROVE EpollInv'
    <2>1. CASE GetTurning(w)
        BY <1>0, <1>a, <2>1 DEF GetTurning, EpollInv, HandsClean, FreeIsClean, NoLostEvent
    <2>2. CASE Process(w)
        <3>1. PICK t \in SetLists \cup {"turning"} :
                /\ dest' = [dest EXCEPT ![w] = t]
                /\ sock' = [sock EXCEPT ![hand[w]] = IF t = "free" THEN "none" ELSE @]
                /\ reg' = [reg EXCEPT ![hand[w]] = IF t = "free" THEN "none" ELSE @]
            BY <2>2 DEF Process, ParserResults, SetLists
        <3>2. /\ hand[w] \in Ctx /\ hand[w] # NoCtx
              /\ UNCHANGED <<type, b_waiting, list, evq, hand>>
            BY <1>b, <2>2 DEF Process
        <3>3. /\ \A d \in Ctx : d # hand[w] => reg'[d] = reg[d] /\ sock'[d] = sock[d]
              /\ \A v \in Workers : v # w => hand[v] # hand[w] /\ dest'[v] = dest[v]
              /\ \A l \in Listeners : hand[l] # hand[w]
              /\ dest'[w] = t
              /\ t = "free" => sock'[hand[w]] = "none" /\ reg'[hand[w]] = "none"
            BY <1>0, <1>a, <1>b, <3>1, <3>2
        <3>4. NoLostEvent'
            BY <1>0, <1>a, <1>b, <3>2, <3>3 DEF EpollInv, NoLostEvent, SetLists
        <3>5. HandsClean'
            BY <1>0, <1>a, <1>b, <3>2, <3>3 DEF EpollInv, HandsClean, FreeIsClean, SetLists
        <3> QED BY <3>4, <3>5 DEF EpollInv
    <2>3. CASE PutResult(w)
        <3>1. dest[w] \in SetLists \cup {"turning"}
            BY <1>0, <2>3 DEF PutResult
        <3> QED BY <1>a, <2>3, <3>1, PutDownEpoll DEF PutResult
    <2> QED BY <1>2, <2>1, <2>2, <2>3 DEF Worker
<1>3. CASE EpollThread
    <2>1. CASE EpollWait
        <3>1. PICK S \in SUBSET Armed : evq' = S
                 /\ reg' = [c \in Ctx |-> IF c \in S THEN "disarmed" ELSE reg[c]]
            BY <2>1 DEF EpollWait
        <3>2. UNCHANGED <<type, b_waiting, sock, list, hand, dest>> /\ evq = {}
            BY <2>1 DEF EpollWait
        <3>3. NoLostEvent'
            BY <1>0, <3>1, <3>2 DEF EpollInv, NoLostEvent, SetLists
        <3>4. HandsClean'
            BY <1>0, <1>a, <1>b, <3>1, <3>2, HeldNowhereElse
            DEF EpollInv, HandsClean, FreeIsClean, SetLists, Armed
        <3> QED BY <3>3, <3>4 DEF EpollInv
    <2>2. CASE EpollTake
        BY <1>0, <1>a, <2>2
        DEF EpollTake, TakeOff, RemoveFrom, EpollInv, HandsClean, FreeIsClean, NoLostEvent, SetLists
    <2>3. CASE EpollSkip
        BY <1>0, <2>3 DEF EpollSkip, EventTakes, EpollInv, HandsClean, FreeIsClean, NoLostEvent,
                          Residence, ResidenceOf, SetLists
    <2>4. CASE EpollPut
        BY <1>a, <2>4, PutDownEpoll DEF EpollPut, SetLists
    <2> QED BY <1>3, <2>1, <2>2, <2>3, <2>4 DEF EpollThread
<1>4. CASE ScanThread
    <2>1. CASE ScanPolling
        <3>1. /\ \A p \in SetLists : p # "polling" => list'[p] = list[p]
              /\ list'["polling"] = list["polling"] \ (NotWaiting \cup TimedOut)
              /\ \A c \in Ctx : b_waiting'[c] = IF c \in TimedOut THEN FALSE ELSE b_waiting[c]
              /\ \A c \in Ctx : reg'[c] = IF c \in TimedOut THEN "none" ELSE reg[c]
              /\ UNCHANGED <<sock, evq, hand, dest>>
            BY <1>0, <2>1 DEF ScanPolling, SetLists
        <3>2. TimedOut \subseteq list["polling"]
            BY DEF TimedOut
        <3>3. NoLostEvent'
            BY <1>0, <3>1, <3>2 DEF EpollInv, NoLostEvent, SetLists
        <3>4. HandsClean'
            <4>1. \A c \in Ctx : c \notin list["polling"] =>
                    b_waiting'[c] = b_waiting[c] /\ reg'[c] = reg[c] /\ sock'[c] = sock[c]
                BY <3>1, <3>2
            <4>2. \A c \in list["free"] : c \in Ctx /\ c \notin list["polling"]
                BY <1>0, HandsAndLists DEF SetLists
            <4>3. \A a \in Agents : hand[a] # NoCtx =>
                    hand[a] \in Ctx /\ hand[a] \notin list["polling"]
                BY <1>0, <1>b DEF SetLists
            <4>4. list'["free"] = list["free"] /\ hand' = hand /\ dest' = dest
                BY <3>1 DEF SetLists
            <4>5. \A w \in Workers : dest[w] = "free" => hand[w] # NoCtx
                BY DEF EpollInv, HandsClean
            <4> QED BY <1>a, <4>1, <4>2, <4>3, <4>4, <4>5 DEF EpollInv, HandsClean, FreeIsClean
        <3> QED BY <3>3, <3>4 DEF EpollInv
    <2>2. CASE ScanIdling
        BY <1>0, <2>2
        DEF ScanIdling, EpollInv, HandsClean, FreeIsClean, NoLostEvent, SetLists
    <2>3. CASE ScanTurning
        BY <2>3 DEF ScanTurning, EpollInv, HandsClean, FreeIsClean, NoLostEvent
    <2> QED BY <1>4, <2>1, <2>2, <2>3 DEF ScanThread
<1>5. ASSUME NEW n \in Notifiers, Notifier(n) PROVE EpollInv'
    <2>1. CASE Signal(n)
        BY <1>0, <1>a, <2>1
        DEF Signal, TakeOff, RemoveFrom, EpollInv, HandsClean, FreeIsClean, NoLostEvent, SetLists
    <2>2. CASE Activate(n)
        BY <1>0, <1>a, <2>2
        DEF Activate, TakeOff, RemoveFrom, EpollInv, HandsClean, FreeIsClean, NoLostEvent, SetLists
    <2>3. CASE NotifierPut(n)
        BY <1>a, <2>3, PutDownEpoll DEF NotifierPut, SetLists
    <2> QED BY <1>5, <2>1, <2>2, <2>3 DEF Notifier
<1>6. CASE WakerThread
    <2>1. CASE WakeFirst
        BY <2>1 DEF WakeFirst, EpollInv, HandsClean, FreeIsClean, NoLostEvent
    <2>2. CASE KeepAsleep
        BY <2>2 DEF KeepAsleep, EpollInv, HandsClean, FreeIsClean, NoLostEvent
    <2>3. CASE WakeTake
        BY <1>0, <1>a, <2>3
        DEF WakeTake, RemoveFrom, EpollInv, HandsClean, FreeIsClean, NoLostEvent, SetLists
    <2>4. CASE WakePut
        BY <1>a, <2>4, PutDownEpoll DEF WakePut, SetLists
    <2> QED BY <1>6, <2>1, <2>2, <2>3, <2>4 DEF WakerThread
<1>7. ASSUME NEW c \in Ctx, Tick(c) PROVE EpollInv'
    BY <1>7 DEF Tick, EpollInv, HandsClean, FreeIsClean, NoLostEvent
<1>8. CASE UNCHANGED vars
    BY <1>8 DEF vars, EpollInv, HandsClean, FreeIsClean, NoLostEvent
<1> QED
    BY <1>1, <1>2, <1>3, <1>4, <1>5, <1>6, <1>7, <1>8 DEF Next


\* A free context is clean for the next connection, whatever events and timeouts it met,
\* for any number of contexts and threads.
THEOREM FreeIsCleanCorrect == Spec => []FreeIsClean
<1>1. Init => EpollInv
    BY DEF Init, EpollInv, HandsClean, FreeIsClean, NoLostEvent, SetLists, Agents
<1>2. EpollInv => FreeIsClean
    BY DEF EpollInv, HandsClean
<1> QED
    BY <1>1, <1>2, InitInd, NextInd, NextEpoll, PTL DEF Spec

\* No socket event is lost, for any number of contexts and threads: a context that waits
\* on the polling list is armed or its event is still to be looked at, but for one whose
\* socket could not be added again.
THEOREM NoLostEventCorrect == Spec => []NoLostEvent
<1>1. Init => EpollInv
    BY DEF Init, EpollInv, HandsClean, FreeIsClean, NoLostEvent, SetLists, Agents
<1>2. EpollInv => NoLostEvent
    BY DEF EpollInv
<1> QED
    BY <1>1, <1>2, InitInd, NextInd, NextEpoll, PTL DEF Spec

-----------------------------------------------------------------------------
(* The sleeping list                                                       *)

\* The inductive form of SleepersKnown: the parser has told the waker before the pool
\* thread puts the context to sleep.
SleepInv ==
    /\ SleepersKnown
    /\ \A w \in Workers : dest[w] = "sleeping" => hand[w] \in Range(slist) \cup {wake}

\* A step that leaves the waker's list and the sleeping list alone and takes no context
\* that goes to sleep out of a worker's hand.
LEMMA SleepersFrame ==
    ASSUME SleepInv, UNCHANGED <<slist, wake>>,
           list'["sleeping"] = list["sleeping"],
           \A w \in Workers : dest[w] = "sleeping" => hand'[w] = hand[w] /\ dest'[w] = dest[w],
           \A w \in Workers : dest'[w] = "sleeping" => dest[w] = "sleeping"
    PROVE  SleepInv'
    BY DEF SleepInv, SleepersKnown

\* A context that is put down.
LEMMA PutDownSleepers ==
    ASSUME IndInv, SleepInv, NEW a \in Agents, NEW t \in SetLists \cup {"turning"},
           PutDown(a, t), UNCHANGED <<slist, wake>>,
           a \in Workers => dest[a] = t /\ dest' = [dest EXCEPT ![a] = "none"],
           a \notin Workers => UNCHANGED dest /\ t # "sleeping"
    PROVE  SleepInv'
<1> PICK c \in Ctx : c = hand[a] /\ c # NoCtx
    BY CtxAssumption, HeldNowhereElse DEF PutDown
<1>0. /\ list \in [SetLists -> SUBSET Ctx] /\ hand \in [Agents -> Ctx \cup {NoCtx}]
      /\ dest \in [Workers -> SetLists \cup {"turning", "none"}] /\ Workers \subseteq Agents
    BY DEF IndInv, TypeOK, Agents
<1>1. hand' = [hand EXCEPT ![a] = NoCtx] /\ AppendTo(t, c)
    BY DEF PutDown, Insert
<1>2. CASE t = "sleeping"
    <2>1. a \in Workers /\ dest[a] = "sleeping"
        BY <1>2
    <2>2. list'["sleeping"] = list["sleeping"] \cup {c}
        BY <1>0, <1>1, <1>2 DEF AppendTo, SetLists
    <2>3. /\ \A w \in Workers : w # a => hand'[w] = hand[w] /\ dest'[w] = dest[w]
          /\ dest'[a] = "none"
        BY <1>0, <1>1, <2>1
    <2>4. c \in Range(slist) \cup {wake}
        BY <2>1 DEF SleepInv
    <2> QED BY <1>0, <2>1, <2>2, <2>3, <2>4 DEF SleepInv, SleepersKnown
<1>3. CASE t # "sleeping"
    <2>1. list'["sleeping"] = list["sleeping"]
        <3>1. CASE t = "turning"
            BY <1>1, <3>1 DEF AppendTo
        <3>2. CASE t # "turning"
            BY <1>0, <1>1, <1>3, <3>2 DEF AppendTo, SetLists
        <3> QED BY <3>1, <3>2
    <2>2. \A w \in Workers :
            /\ dest[w] = "sleeping" => hand'[w] = hand[w] /\ dest'[w] = dest[w]
            /\ dest'[w] = "sleeping" => dest[w] = "sleeping"
        BY <1>0, <1>1, <1>3
    <2> QED BY <2>1, <2>2, SleepersFrame
<1> QED BY <1>2, <1>3

\* SleepInv is inductive relative to the invariants before.
LEMMA NextSleepers == IndInv /\ EpollInv /\ SleepInv /\ [Next]_vars => SleepInv'
<1> SUFFICES ASSUME IndInv, EpollInv, SleepInv, [Next]_vars PROVE SleepInv'
    OBVIOUS
<1> USE DEF connection, scanner, sleepers
<1>0. /\ list \in [SetLists -> SUBSET Ctx] /\ slist \in Seq(Ctx) /\ wake \in Ctx \cup {NoCtx}
      /\ hand \in [Agents -> Ctx \cup {NoCtx}] /\ NoCtx \notin Ctx
      /\ dest \in [Workers -> SetLists \cup {"turning", "none"}]
      /\ \A w \in Workers : hand[w] = NoCtx => dest[w] = "none"
    BY CtxAssumption DEF IndInv, TypeOK, EpollInv, HandsClean
<1>a. /\ Listeners \subseteq Agents /\ Workers \subseteq Agents /\ Notifiers \subseteq Agents
      /\ Epoll \in Agents /\ Waker \in Agents
      /\ Listeners \cap Workers = {} /\ Workers \cap Notifiers = {}
      /\ Epoll \notin Workers /\ Waker \notin Workers
    BY AgentsAssumption DEF Agents
<1>1. ASSUME NEW l \in Listeners, Listener(l) PROVE SleepInv'
    <2>1. CASE GetFree(l)
        <3>1. /\ list'["sleeping"] = list["sleeping"] /\ UNCHANGED <<slist, wake, dest>>
              /\ \A w \in Workers : hand'[w] = hand[w]
            BY <1>0, <1>a, <2>1 DEF GetFree, RemoveFrom, SetLists
        <3> QED BY <3>1, SleepersFrame
    <2>2. CASE Construct(l)
        BY <2>2, SleepersFrame DEF Construct
    <2>3. CASE Refuse(l)
        BY <1>a, <2>3, PutDownSleepers DEF Refuse, SetLists
    <2>4. CASE Attach(l)
        BY <2>4, SleepersFrame DEF Attach
    <2>5. CASE StartPolling(l)
        BY <1>a, <2>5, PutDownSleepers DEF StartPolling, SetLists
    <2> QED BY <1>1, <2>1, <2>2, <2>3, <2>4, <2>5 DEF Listener
<1>2. ASSUME NEW w \in Workers, Worker(w) PROVE SleepInv'
    <2>1. CASE GetTurning(w)
        <3>1. \A v \in Workers : dest[v] = "sleeping" => hand'[v] = hand[v]
            BY <1>0, <1>a, <2>1 DEF GetTurning
        <3> QED BY <2>1, <3>1, SleepersFrame DEF GetTurning
    <2>2. CASE Process(w)
        <3>1. PICK t \in SetLists \cup {"turning"} :
                /\ dest' = [dest EXCEPT ![w] = t]
                /\ slist' = IF t = "sleeping" THEN Append(slist, hand[w]) ELSE slist
            BY <2>2 DEF Process, ParserResults, SetLists
        <3>2. /\ UNCHANGED <<list, hand, wake>> /\ dest[w] = "none" /\ hand[w] \in Ctx
              /\ \A v \in Workers : v # w => dest'[v] = dest[v]
              /\ dest'[w] = t
            BY <1>0, <1>a, <2>2, <3>1 DEF Process
        <3>3. CASE t = "sleeping"
            <4>1. hand[w] \notin Range(slist) /\ hand[w] # wake
                <5>1. hand[w] \notin list["sleeping"]
                    BY <1>a, <3>2, HandsAndLists DEF SetLists
                <5>2. \A v \in Workers : hand[v] = hand[w] => v = w
                    BY <1>0, <1>a, <3>2, HandsAndLists
                <5> QED BY <1>0, <3>2, <5>1, <5>2 DEF SleepInv, SleepersKnown
            <4>2. Range(slist') = Range(slist) \cup {hand[w]} /\ IsInjective(slist')
                BY <1>0, <3>1, <3>2, <3>3, <4>1, AppendRange DEF SleepInv, SleepersKnown
            <4> QED BY <1>0, <3>2, <3>3, <4>1, <4>2 DEF SleepInv, SleepersKnown
        <3>4. CASE t # "sleeping"
            BY <3>1, <3>2, <3>4, SleepersFrame
        <3> QED BY <3>3, <3>4
    <2>3. CASE PutResult(w)
        <3>1. dest[w] \in SetLists \cup {"turning"}
            BY <1>0, <2>3 DEF PutResult
        <3> QED BY <1>a, <2>3, <3>1, PutDownSleepers DEF PutResult
    <2> QED BY <1>2, <2>1, <2>2, <2>3 DEF Worker
<1>3. CASE EpollThread
    <2>1. CASE EpollWait
        BY <2>1, SleepersFrame DEF EpollWait
    <2>2. CASE EpollTake
        <3>1. /\ list'["sleeping"] = list["sleeping"] /\ UNCHANGED <<slist, wake, dest>>
              /\ \A w \in Workers : hand'[w] = hand[w]
            BY <1>0, <1>a, <2>2 DEF EpollTake, TakeOff, RemoveFrom, SetLists
        <3> QED BY <3>1, SleepersFrame
    <2>3. CASE EpollSkip
        BY <2>3, SleepersFrame DEF EpollSkip
    <2>4. CASE EpollPut
        BY <1>a, <2>4, PutDownSleepers DEF EpollPut
    <2> QED BY <1>3, <2>1, <2>2, <2>3, <2>4 DEF EpollThread
<1>4. CASE ScanThread
    <2>1. list'["sleeping"] = list["sleeping"] /\ UNCHANGED <<slist, wake, dest, hand>>
        BY <1>0, <1>4 DEF ScanThread, ScanPolling, ScanIdling, ScanTurning, SetLists
    <2> QED BY <2>1, SleepersFrame
<1>5. ASSUME NEW n \in Notifiers, Notifier(n) PROVE SleepInv'
    <2>1. CASE Signal(n) \/ Activate(n)
        <3>1. /\ list'["sleeping"] = list["sleeping"] /\ UNCHANGED <<slist, wake, dest>>
              /\ \A w \in Workers : hand'[w] = hand[w]
            BY <1>0, <1>a, <2>1 DEF Signal, Activate, TakeOff, RemoveFrom, SetLists
        <3> QED BY <3>1, SleepersFrame
    <2>2. CASE NotifierPut(n)
        BY <1>a, <2>2, PutDownSleepers DEF NotifierPut
    <2> QED BY <1>5, <2>1, <2>2 DEF Notifier
<1>6. CASE WakerThread
    <2>1. CASE WakeFirst
        <3>1. /\ wake = NoCtx /\ wake' = Head(slist) /\ slist' = Tail(slist)
              /\ slist # <<>> /\ UNCHANGED <<list, hand, dest>>
            BY <2>1 DEF WakeFirst
        <3>2. /\ Head(slist) \in Range(slist) /\ Range(slist') = Range(slist) \ {wake'}
              /\ IsInjective(slist')
            BY <1>0, <3>1, TailRange DEF SleepInv, SleepersKnown
        <3>n. NoCtx \notin Range(slist)
            BY <1>0 DEF Range
        <3>3. Range(slist') \cup {wake'} = Range(slist)
            BY <3>1, <3>2
        <3>4. list["sleeping"] \subseteq Range(slist)
            BY <1>0, <3>1 DEF SleepInv, SleepersKnown, SetLists
        <3>5. \A w \in Workers : dest[w] = "sleeping" => hand[w] \in Range(slist)
            BY <1>0, <1>a, <3>1 DEF SleepInv
        <3> QED BY <3>1, <3>2, <3>3, <3>4, <3>5, <3>n DEF SleepInv, SleepersKnown
    <2>2. CASE KeepAsleep
        <3>1. /\ slist' = Append(Tail(slist), Head(slist))
              /\ slist # <<>> /\ UNCHANGED <<list, hand, dest, wake>>
            BY <2>2 DEF KeepAsleep
        <3>2. /\ Head(slist) \in Range(slist) /\ Range(Tail(slist)) = Range(slist) \ {Head(slist)}
              /\ IsInjective(Tail(slist))
            BY <1>0, <3>1, TailRange DEF SleepInv, SleepersKnown
        <3>3. Tail(slist) \in Seq(Ctx) /\ Head(slist) \in Ctx
            BY <1>0, <3>1
        <3>4. Range(slist') = Range(slist) /\ IsInjective(slist')
            <4>1. Range(slist') = Range(Tail(slist)) \cup {Head(slist)}
                BY <3>1, <3>3, AppendRange
            <4>2. Head(slist) \notin Range(Tail(slist))
                BY <3>2
            <4>3. IsInjective(slist')
                BY <3>1, <3>2, <3>3, <4>2, AppendRange
            <4> QED BY <3>2, <4>1, <4>3
        <3> QED BY <3>1, <3>4 DEF SleepInv, SleepersKnown
    <2>3. CASE WakeTake
        <3>1. /\ wake \in Ctx /\ list'["sleeping"] = list["sleeping"] \ {wake}
              /\ wake' = NoCtx /\ UNCHANGED <<slist, dest>>
              /\ \A w \in Workers : hand'[w] = hand[w]
            BY <1>0, <1>a, <2>3 DEF WakeTake, RemoveFrom, SetLists
        <3>2. wake \in list["sleeping"]
            BY <1>0, <2>3, <3>1 DEF WakeTake, IndInv, Residence, ResidenceOf, HandsApart
        <3>3. \A w \in Workers : hand[w] # wake
            BY <1>a, <3>2, HandsAndLists DEF SetLists
        <3>4. NoCtx \notin Range(slist)
            BY <1>0 DEF Range
        <3> QED BY <1>0, <3>1, <3>2, <3>3, <3>4 DEF SleepInv, SleepersKnown
    <2>4. CASE WakePut
        BY <1>a, <2>4, PutDownSleepers DEF WakePut
    <2> QED BY <1>6, <2>1, <2>2, <2>3, <2>4 DEF WakerThread
<1>7. ASSUME NEW c \in Ctx, Tick(c) PROVE SleepInv'
    BY <1>7, SleepersFrame DEF Tick
<1>8. CASE UNCHANGED vars
    BY <1>8, SleepersFrame DEF vars
<1> QED
    BY <1>1, <1>2, <1>3, <1>4, <1>5, <1>6, <1>7, <1>8 DEF Next

\* Nobody oversleeps, for any number of contexts and threads: the waker knows exactly the
\* contexts that are asleep or on their way to the sleeping list, each once.
THEOREM SleepersKnownCorrect == Spec => []SleepersKnown
<1>1. Init => EpollInv
    BY DEF Init, EpollInv, HandsClean, FreeIsClean, NoLostEvent, SetLists, Agents
<1>2. Init => SleepInv
    BY CtxAssumption DEF Init, SleepInv, SleepersKnown, SetLists, Range, IsInjective
<1>3. SleepInv => SleepersKnown
    BY DEF SleepInv
<1> QED
    BY <1>1, <1>2, <1>3, InitInd, NextInd, NextEpoll, NextSleepers, PTL DEF Spec

-----------------------------------------------------------------------------
(* The pool implements ConnectionLife                                      *)

\* The stages of ConnectionLife, read off the lists and the hands.
LEMMA StageValues ==
    ASSUME IndInv, NEW c \in Ctx
    PROVE  /\ c \in list["free"] => StageOf(c) = "free"
           /\ \A l \in Listeners : hand[l] = c => StageOf(c) = "setup"
           /\ \A p \in {"idling", "polling", "sleeping"} :
                  c \in list[p] => StageOf(c) = "waiting"
           /\ \A w \in Workers : hand[w] = c => StageOf(c) = "served"
           /\ \A a \in Notifiers \cup {Epoll, Waker} : hand[a] = c => StageOf(c) = "ready"
           /\ c \in temp \cup Range(turning) => StageOf(c) = "ready"
<1>0. /\ Residence /\ HandsApart /\ list \in [SetLists -> SUBSET Ctx]
      /\ hand \in [Agents -> Ctx \cup {NoCtx}] /\ NoCtx \notin Ctx
    BY CtxAssumption DEF IndInv, TypeOK
<1>1. ResidenceOf(c) /\ (c \in list["free"] => type[c] = "free")
    BY <1>0 DEF Residence
<1>2. /\ Listeners \cap Workers = {} /\ Listeners \cap Notifiers = {}
      /\ Workers \cap Notifiers = {} /\ Epoll # Waker
      /\ Epoll \notin Listeners \cup Workers \cup Notifiers
      /\ Waker \notin Listeners \cup Workers \cup Notifiers
    BY AgentsAssumption
<1>3. \A l \in Listeners : hand[l] = c => c \notin list["free"]
    BY <1>0 DEF HandsApart
<1>4. \A w \in Workers : hand[w] = c => c \notin Range(turning)
    BY <1>0 DEF HandsApart
<1>5. hand[Waker] = c => c \notin list["sleeping"]
    BY <1>0 DEF HandsApart
<1> QED
    BY <1>1, <1>2, <1>3, <1>4, <1>5 DEF StageOf, ResidenceOf

\* A context that no step has touched is at the same stage, and has the same server.
LEMMA StageFrame ==
    ASSUME NEW d \in Ctx,
           \A p \in SetLists : d \in list'[p] <=> d \in list[p],
           \A a \in Listeners \cup Workers : hand'[a] = d <=> hand[a] = d
    PROVE  /\ StageOf(d)' = StageOf(d)
           /\ {w \in Workers : hand'[w] = d} = {w \in Workers : hand[w] = d}
    BY DEF StageOf, SetLists

\* The state of ConnectionLife.
Stage == [c \in Ctx |-> StageOf(c)]
Server == [c \in Ctx |-> {w \in Workers : hand[w] = c}]

\* A step after which only c can be at another stage or have another server.
LEMMA StageMove ==
    ASSUME NEW c \in Ctx,
           \A d \in Ctx \ {c}, p \in SetLists : d \in list'[p] <=> d \in list[p],
           \A d \in Ctx \ {c}, a \in Listeners \cup Workers : hand'[a] = d <=> hand[a] = d
    PROVE  /\ Stage' = [Stage EXCEPT ![c] = StageOf(c)']
           /\ Server' = [Server EXCEPT ![c] = {w \in Workers : hand'[w] = c}]
<1>1. \A d \in Ctx \ {c} : StageOf(d)' = StageOf(d)
    BY StageFrame
<1>2. \A d \in Ctx \ {c} : {w \in Workers : hand'[w] = d} = {w \in Workers : hand[w] = d}
    BY StageFrame
<1>3. Stage' = [Stage EXCEPT ![c] = StageOf(c)']
    BY <1>1 DEF Stage
<1>4. Server' = [Server EXCEPT ![c] = {w \in Workers : hand'[w] = c}]
    BY <1>2, ZenonT(60) DEF Server
<1> QED BY <1>3, <1>4

\* Putting down a context moves it, and nothing else, to the stage of the list.
LEMMA PutDownStage ==
    ASSUME IndInv, NEW a \in Agents, NEW t \in SetLists \cup {"turning"}, PutDown(a, t)
    PROVE  LET to == IF t = "free" THEN "free" ELSE IF t = "turning" THEN "ready"
                     ELSE "waiting" IN
           /\ hand[a] \in Ctx
           /\ Stage' = [Stage EXCEPT ![hand[a]] = to]
           /\ Server' = [Server EXCEPT ![hand[a]] = {}]
<1> PICK c \in Ctx : c = hand[a] /\ c # NoCtx
    BY CtxAssumption, HeldNowhereElse DEF PutDown
<1>0. /\ list \in [SetLists -> SUBSET Ctx] /\ hand \in [Agents -> Ctx \cup {NoCtx}]
      /\ NoCtx \notin Ctx /\ Listeners \subseteq Agents /\ Workers \subseteq Agents
    BY CtxAssumption DEF IndInv, TypeOK, Agents
<1>1. /\ \A p \in SetLists : c \notin list[p]
      /\ \A b \in Agents : b # a => hand[b] # c
      /\ hand' = [hand EXCEPT ![a] = NoCtx] /\ AppendTo(t, c)
    BY HeldNowhereElse DEF PutDown, Insert
<1>2. \A p \in SetLists : list'[p] = IF p = t THEN list[p] \cup {c} ELSE list[p]
    <2>1. CASE t = "turning"
        BY <1>1, <2>1 DEF AppendTo, SetLists
    <2>2. CASE t \in SetLists
        <3>1. t # "turning"
            BY <2>2 DEF SetLists
        <3> QED BY <1>0, <1>1, <2>2, <3>1 DEF AppendTo
    <2> QED BY <2>1, <2>2
<1>3. \A b \in Agents : hand'[b] = IF b = a THEN NoCtx ELSE hand[b]
    BY <1>0, <1>1
<1>4. \A b \in Agents : hand'[b] # c
    BY <1>0, <1>1, <1>3
<1>5. /\ Stage' = [Stage EXCEPT ![c] = StageOf(c)']
      /\ Server' = [Server EXCEPT ![c] = {w \in Workers : hand'[w] = c}]
    <2>1. \A d \in Ctx \ {c}, p \in SetLists : d \in list'[p] <=> d \in list[p]
        BY <1>2
    <2>2. \A d \in Ctx \ {c}, b \in Listeners \cup Workers : hand'[b] = d <=> hand[b] = d
        BY <1>0, <1>3
    <2> QED BY <2>1, <2>2, StageMove
<1>6. StageOf(c)' = IF t = "free" THEN "free" ELSE IF t = "turning" THEN "ready"
                    ELSE "waiting"
    BY <1>0, <1>1, <1>2, <1>4 DEF StageOf, SetLists
<1>7. {w \in Workers : hand'[w] = c} = {}
    BY <1>0, <1>4
<1> QED BY <1>5, <1>6, <1>7

\* Taking contexts off the idling, polling or sleeping list makes them ready.
LEMMA TakeStage ==
    ASSUME IndInv, NEW p \in {"idling", "polling", "sleeping"}, NEW S \in SUBSET list[p],
           list' = [list EXCEPT ![p] = @ \ S],
           \A a \in Listeners \cup Workers : hand'[a] = hand[a]
    PROVE  Life!MakeReady
<1>0. /\ list \in [SetLists -> SUBSET Ctx] /\ hand \in [Agents -> Ctx \cup {NoCtx}]
      /\ Listeners \subseteq Agents /\ Workers \subseteq Agents /\ p \in SetLists
      /\ S \subseteq Ctx
    BY DEF IndInv, TypeOK, Agents, SetLists
<1>1. \A q \in SetLists : list'[q] = IF q = p THEN list[q] \ S ELSE list[q]
    BY <1>0
<1>2. \A d \in Ctx \ S : StageOf(d)' = StageOf(d)
    BY <1>1, StageFrame
<1>3. \A d \in S : StageOf(d) = "waiting"
    BY <1>0, StageValues
<1>4. ASSUME NEW d \in S PROVE StageOf(d)' = "ready"
    <2>1. \A q \in SetLists : d \notin list'[q]
        BY <1>0, <1>1 DEF IndInv, Residence, ResidenceOf, SetLists
    <2>2. \A a \in Listeners \cup Workers : hand'[a] # d
        BY <1>0, HandsAndLists
    <2> QED BY <2>1, <2>2 DEF StageOf, SetLists
<1>5. Stage' = [d \in Ctx |-> IF d \in S THEN "ready" ELSE Stage[d]]
    BY <1>0, <1>2, <1>4 DEF Stage
<1>6. Server' = Server
    BY DEF Server
<1>7. S \in SUBSET {d \in Ctx : Stage[d] = "waiting"}
    BY <1>0, <1>3 DEF Stage
<1> QED BY <1>5, <1>6, <1>7 DEF Life!MakeReady, Stage, Server

\* Every step of the pool is a step of ConnectionLife or leaves its state alone.
LEMMA LifeStep == IndInv /\ [Next]_vars => [Life!Next]_(Life!vars)
<1> SUFFICES ASSUME IndInv, [Next]_vars PROVE Life!Next \/ UNCHANGED Life!vars
    OBVIOUS
<1> USE DEF connection, scanner, sleepers
<1>0. /\ list \in [SetLists -> SUBSET Ctx] /\ hand \in [Agents -> Ctx \cup {NoCtx}]
      /\ NoCtx \notin Ctx /\ turning \in Seq(Ctx) /\ temp \in SUBSET Ctx
      /\ evq \in SUBSET Ctx /\ Residence /\ HandsApart
      /\ dest \in [Workers -> SetLists \cup {"turning", "none"}]
    BY CtxAssumption DEF IndInv, TypeOK
<1>a. /\ Listeners \subseteq Agents /\ Workers \subseteq Agents /\ Notifiers \subseteq Agents
      /\ Epoll \in Agents /\ Waker \in Agents
      /\ Listeners \cap Workers = {} /\ Listeners \cap Notifiers = {}
      /\ Workers \cap Notifiers = {} /\ Epoll # Waker
      /\ Epoll \notin Listeners \cup Workers /\ Waker \notin Listeners \cup Workers
    BY AgentsAssumption DEF Agents
<1>s. ASSUME Stage' = Stage, Server' = Server PROVE UNCHANGED Life!vars
    BY <1>s DEF Life!vars, Stage, Server
<1>u. ASSUME UNCHANGED <<list, hand>> PROVE UNCHANGED Life!vars
    BY <1>s, <1>u DEF Stage, Server, StageOf
<1>r. ASSUME NEW a \in Notifiers \cup {Epoll, Waker}, PutDown(a, "turning")
      PROVE  UNCHANGED Life!vars
    <2>1. /\ hand[a] \in Ctx /\ Stage' = [Stage EXCEPT ![hand[a]] = "ready"]
          /\ Server' = [Server EXCEPT ![hand[a]] = {}]
        BY <1>a, <1>r, PutDownStage
    <2>2. Stage[hand[a]] = "ready"
        BY <2>1, StageValues DEF Stage
    <2>3. Server[hand[a]] = {}
        BY <1>0, <1>a, <1>r, <2>1, HandsAndLists, AgentsAssumption DEF Server, PutDown
    <2>4. Stage' = Stage /\ Server' = Server
        BY <2>1, <2>2, <2>3 DEF Stage, Server
    <2> QED BY <1>s, <2>4
<1>1. ASSUME NEW l \in Listeners, Listener(l) PROVE Life!Next \/ UNCHANGED Life!vars
    <2>0. /\ hand[l] # NoCtx => hand[l] \in Ctx /\ Stage[hand[l]] = "setup"
                                /\ Server[hand[l]] = {}
          /\ l \in Agents
        BY <1>0, <1>a, StageValues, HandsAndLists DEF Stage, Server
    <2>1. CASE GetFree(l)
        <3>1. PICK c \in list["free"] :
                list' = [list EXCEPT !["free"] = @ \ {c}] /\ hand' = [hand EXCEPT ![l] = c]
            BY <2>1 DEF GetFree, RemoveFrom
        <3>2. c \in Ctx /\ hand[l] = NoCtx /\ StageOf(c) = "free"
            BY <1>0, <2>1, StageValues DEF GetFree, SetLists
        <3>3. /\ \A q \in SetLists : list'[q] = IF q = "free" THEN list[q] \ {c} ELSE list[q]
              /\ \A b \in Agents : hand'[b] = IF b = l THEN c ELSE hand[b]
            BY <1>0, <3>1, <2>0
        <3>4. /\ \A d \in Ctx \ {c}, p \in SetLists : d \in list'[p] <=> d \in list[p]
              /\ \A d \in Ctx \ {c}, b \in Listeners \cup Workers : hand'[b] = d <=> hand[b] = d
            <4>1. \A d \in Ctx \ {c}, p \in SetLists : d \in list'[p] <=> d \in list[p]
                BY <3>3
            <4>2. \A d \in Ctx \ {c}, b \in Agents : hand'[b] = d <=> hand[b] = d
                BY <1>0, <3>2, <3>3
            <4> QED BY <1>a, <4>1, <4>2
        <3>5. \A w \in Workers : hand'[w] # c /\ hand[w] # c
            BY <1>a, <3>3, HandsAndLists DEF SetLists
        <3>6. StageOf(c)' = "setup"
            <4>1. c \notin list'["free"] /\ hand'[l] = c
                BY <3>3, <2>0 DEF SetLists
            <4>2. c \notin list'["idling"] \cup list'["polling"] \cup list'["sleeping"]
                BY <1>0, <3>2, <3>3 DEF Residence, ResidenceOf, SetLists
            <4> QED BY <3>5, <4>1, <4>2 DEF StageOf
        <3>7. Stage' = [Stage EXCEPT ![c] = "setup"]
              /\ Server' = [Server EXCEPT ![c] = {w \in Workers : hand'[w] = c}]
            BY <3>2, <3>4, <3>6, StageMove
        <3>8. Server' = Server /\ Stage[c] = "free"
            <4>1. {v \in Workers : hand'[v] = c} = {} /\ {v \in Workers : hand[v] = c} = {}
                BY <3>5
            <4>2. Server[c] = {} /\ Server = [d \in Ctx |-> Server[d]]
                BY <3>2, <4>1 DEF Server
            <4>3. Server' = Server
                BY <3>2, <3>7, <4>1, <4>2
            <4>4. Stage[c] = "free"
                BY <3>2 DEF Stage
            <4> QED BY <4>3, <4>4
        <3>9. Life!SetUp(c)
            BY <3>7, <3>8 DEF Life!SetUp, Life!Move, Stage, Server
        <3> QED BY <3>2, <3>9 DEF Life!Next
    <2>2. CASE Construct(l)
        BY <1>u, <2>2 DEF Construct
    <2>3. CASE Refuse(l)
        <3>1. /\ Stage' = [Stage EXCEPT ![hand[l]] = "free"]
              /\ Server' = [Server EXCEPT ![hand[l]] = {}]
            BY <2>0, <2>3, PutDownStage DEF Refuse, SetLists
        <3>2. Server' = Server
            BY <2>0, <2>3, <3>1 DEF Refuse, Server
        <3>3. Life!Refuse(hand[l])
            BY <2>0, <2>3, <3>1, <3>2 DEF Refuse, Life!Refuse, Life!Move, Stage, Server
        <3> QED BY <2>0, <2>3, <3>3 DEF Refuse, Life!Next
    <2>4. CASE Attach(l)
        BY <1>u, <2>4 DEF Attach
    <2>5. CASE StartPolling(l)
        <3>1. /\ Stage' = [Stage EXCEPT ![hand[l]] = "waiting"]
              /\ Server' = [Server EXCEPT ![hand[l]] = {}]
            BY <2>0, <2>5, PutDownStage DEF StartPolling, SetLists
        <3>2. Server' = Server
            BY <2>0, <2>5, <3>1 DEF StartPolling, Server
        <3>3. Life!Start(hand[l])
            BY <2>0, <2>5, <3>1, <3>2 DEF StartPolling, Life!Start, Life!Move, Stage, Server
        <3> QED BY <2>0, <2>5, <3>3 DEF StartPolling, Life!Next
    <2> QED BY <1>1, <2>1, <2>2, <2>3, <2>4, <2>5 DEF Listener
<1>2. ASSUME NEW w \in Workers, Worker(w) PROVE Life!Next \/ UNCHANGED Life!vars
    <2>1. CASE GetTurning(w)
        <3>2. PICK c \in Ctx : c = Head(turning) /\ c \in Range(turning)
            BY <1>0, <2>1, TailRange DEF GetTurning, IndInv
        <3>1. hand[w] = NoCtx /\ hand' = [hand EXCEPT ![w] = c] /\ list' = list
              /\ w \in Agents
            BY <1>a, <2>1, <3>2 DEF GetTurning
        <3>3. \A b \in Agents : hand'[b] = IF b = w THEN c ELSE hand[b]
            BY <1>0, <3>1
        <3>4. /\ \A d \in Ctx \ {c}, p \in SetLists : d \in list'[p] <=> d \in list[p]
              /\ \A d \in Ctx \ {c}, b \in Listeners \cup Workers : hand'[b] = d <=> hand[b] = d
            BY <1>0, <1>a, <3>1, <3>3
        <3>5. \A b \in Agents : hand[b] # c
            BY <1>0, <3>2 DEF Residence, ResidenceOf, HandsApart, Agents
        <3>6. \A p \in SetLists : c \notin list[p]
            BY <1>0, <3>2 DEF Residence, ResidenceOf, SetLists
        <3>7. StageOf(c)' = "served"
            <4>1. hand'[w] = c /\ \A l \in Listeners : hand'[l] # c
                BY <1>a, <3>1, <3>3, <3>5
            <4> QED BY <3>1, <3>6, <4>1 DEF StageOf, SetLists
        <3>8. Stage' = [Stage EXCEPT ![c] = "served"]
              /\ Server' = [Server EXCEPT ![c] = {v \in Workers : hand'[v] = c}]
            BY <3>2, <3>4, <3>7, StageMove
        <3>9. {v \in Workers : hand'[v] = c} = {w}
            BY <1>a, <3>3, <3>5
        <3>10. Stage[c] = "ready"
            BY <3>2, StageValues DEF Stage
        <3>11. \A d \in Ctx : w \notin Server[d]
            BY <1>0, <3>1 DEF Server
        <3>12. Life!Serve(c, w)
            BY <3>8, <3>9, <3>10, <3>11 DEF Life!Serve, Life!Move, Stage, Server
        <3> QED BY <3>2, <3>12 DEF Life!Next
    <2>2. CASE Process(w)
        BY <1>u, <2>2 DEF Process
    <2>3. CASE PutResult(w)
        <3>1. dest[w] \in SetLists \cup {"turning"}
            BY <1>0, <2>3 DEF PutResult
        <3>2. PICK c \in Ctx, to \in {"ready", "waiting", "free"} :
                /\ c = hand[w] /\ Stage' = [Stage EXCEPT ![c] = to]
                /\ Server' = [Server EXCEPT ![c] = {}]
            BY <1>a, <2>3, <3>1, PutDownStage DEF PutResult
        <3>3. Stage[c] = "served"
            BY <3>2, StageValues DEF Stage
        <3>4. Life!Leave(c, to)
            BY <3>2, <3>3 DEF Life!Leave, Life!Move, Stage, Server
        <3> QED BY <3>4 DEF Life!Next
    <2> QED BY <1>2, <2>1, <2>2, <2>3 DEF Worker
<1>3. CASE EpollThread
    <2>1. CASE EpollWait
        BY <1>u, <2>1 DEF EpollWait
    <2>2. CASE EpollTake
        <3>1. PICK c \in evq : EventTakes(c) /\ TakeOff(Epoll, "polling", c)
            BY <2>2 DEF EpollTake
        <3>2. c \in list["polling"]
            BY <1>0, <3>1 DEF EventTakes, Residence, ResidenceOf
        <3>3. \A b \in Listeners \cup Workers : hand'[b] = hand[b]
            BY <1>0, <1>a, <3>1 DEF TakeOff
        <3>4. list' = [list EXCEPT !["polling"] = @ \ {c}]
            BY <3>1 DEF TakeOff, RemoveFrom
        <3>5. Life!MakeReady
            <4>1. {c} \in SUBSET list["polling"]
                BY <3>2
            <4> QED BY <3>3, <3>4, <4>1, TakeStage
        <3> QED BY <3>5 DEF Life!Next
    <2>3. CASE EpollSkip
        BY <1>u, <2>3 DEF EpollSkip
    <2>4. CASE EpollPut
        BY <1>r, <2>4 DEF EpollPut
    <2> QED BY <1>3, <2>1, <2>2, <2>3, <2>4 DEF EpollThread
<1>4. CASE ScanThread
    <2>1. CASE ScanPolling
        <3>1. NotWaiting \cup TimedOut \in SUBSET list["polling"]
            BY DEF NotWaiting, TimedOut
        <3>2. /\ list' = [list EXCEPT !["polling"] = @ \ (NotWaiting \cup TimedOut)]
              /\ hand' = hand
            BY <2>1 DEF ScanPolling
        <3> QED BY <3>1, <3>2, TakeStage DEF Life!Next
    <2>2. CASE ScanIdling
        <3>1. list' = [list EXCEPT !["idling"] = @ \ list["idling"]] /\ hand' = hand
            BY <1>0, <2>2 DEF ScanIdling, SetLists
        <3> QED BY <3>1, TakeStage DEF Life!Next
    <2>3. CASE ScanTurning
        BY <1>u, <2>3 DEF ScanTurning
    <2> QED BY <1>4, <2>1, <2>2, <2>3 DEF ScanThread
<1>5. ASSUME NEW n \in Notifiers, Notifier(n) PROVE Life!Next \/ UNCHANGED Life!vars
    <2>1. ASSUME NEW p \in {"idling", "polling"}, NEW c \in Ctx, type[c] = p, TakeOff(n, p, c)
          PROVE  Life!MakeReady
        <3>1. {c} \in SUBSET list[p]
            BY <1>0, <2>1 DEF Residence, ResidenceOf
        <3>2. \A b \in Listeners \cup Workers : hand'[b] = hand[b]
            BY <1>0, <1>a, <2>1 DEF TakeOff
        <3>3. list' = [list EXCEPT ![p] = @ \ {c}]
            BY <2>1 DEF TakeOff, RemoveFrom
        <3> QED BY <3>1, <3>2, <3>3, TakeStage
    <2>2. CASE Signal(n)
        BY <2>1, <2>2 DEF Signal, Life!Next
    <2>3. CASE Activate(n)
        BY <2>1, <2>3 DEF Activate, Life!Next
    <2>4. CASE NotifierPut(n)
        BY <1>r, <2>4 DEF NotifierPut
    <2> QED BY <1>5, <2>2, <2>3, <2>4 DEF Notifier
<1>6. CASE WakerThread
    <2>1. CASE WakeFirst
        BY <1>u, <2>1 DEF WakeFirst
    <2>2. CASE KeepAsleep
        BY <1>u, <2>2 DEF KeepAsleep
    <2>3. CASE WakeTake
        <3>1. {wake} \in SUBSET list["sleeping"]
            BY <1>0, <2>3 DEF WakeTake, Residence, ResidenceOf, HandsApart, IndInv, TypeOK
        <3>2. \A b \in Listeners \cup Workers : hand'[b] = hand[b]
            BY <1>0, <1>a, <2>3 DEF WakeTake
        <3>3. list' = [list EXCEPT !["sleeping"] = @ \ {wake}]
            BY <2>3 DEF WakeTake, RemoveFrom
        <3> QED BY <3>1, <3>2, <3>3, TakeStage DEF Life!Next
    <2>4. CASE WakePut
        BY <1>r, <2>4 DEF WakePut
    <2> QED BY <1>6, <2>1, <2>2, <2>3, <2>4 DEF WakerThread
<1>7. ASSUME NEW c \in Ctx, Tick(c) PROVE UNCHANGED Life!vars
    BY <1>u, <1>7 DEF Tick
<1>8. CASE UNCHANGED vars
    BY <1>u, <1>8 DEF vars
<1> QED
    BY <1>1, <1>2, <1>3, <1>4, <1>5, <1>6, <1>7, <1>8 DEF Next

\* With its lists, locks, events and timeouts the pool implements the life of a
\* connection, for any number of contexts and threads.
THEOREM LifeCorrect == Spec => LifeSpec
<1>1. Init => Life!Init
    BY CtxAssumption DEF Init, Life!Init, StageOf, SetLists, Agents
<1> QED
    BY <1>1, InitInd, NextInd, LifeStep, PTL DEF Spec, LifeSpec, Life!Spec

=============================================================================
