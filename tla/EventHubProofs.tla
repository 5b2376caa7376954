--------------------------- MODULE EventHubProofs ---------------------------
(***************************************************************************)
(* Proofs about the event daemon, for any number of hosts, connections,    *)
(* folders, events and threads.                                            *)
(***************************************************************************)
EXTENDS EventHub, SequenceTheorems, FiniteSetTheorems, TLAPS

Injective(q) == \A i, j \in 1..Len(q) : q[i] = q[j] => i = j

\* The DEQUEUE_NODEs that have a thread or wait for one.
Nodes == served \cup Rng(g_dequeue_list1)

\* The threads of each pool are no more than there are.
Counted ==
    /\ IsFiniteSet(g_enqueue_list) /\ IsFiniteSet(served)
    /\ enq \in [wait : Nat, awake : Nat] /\ deq \in [wait : Nat, awake : Nat]
    /\ EnqFree >= 0 /\ DeqFree >= 0

\* A connection is in one stage at a time, accepted, in service or a node, but
\* for one whose LISTEN is being answered; and the lists of the hosts hold the
\* nodes, each once.
Placed ==
    /\ g_enqueue_list1 \in Seq(Socks) /\ Injective(g_enqueue_list1)
    /\ g_dequeue_list1 \in Seq(Socks) /\ Injective(g_dequeue_list1)
    /\ g_enqueue_list \subseteq Socks /\ answering \subseteq g_enqueue_list
    /\ served \subseteq Socks /\ g_host_list \subseteq Hosts
    /\ list \in [Hosts -> Seq(Socks)] /\ \A h \in Hosts : Injective(list[h])
    /\ Rng(g_enqueue_list1) \cap g_enqueue_list = {}
    /\ served \cap Rng(g_dequeue_list1) = {}
    /\ (Rng(g_enqueue_list1) \cup (g_enqueue_list \ answering)) \cap Nodes = {}
    /\ \A k \in Nodes : k[1] \in Stubs
    /\ HostAlive /\ NodeServed

\* An event is to come, or waits in one queue of a host, or has reached it.
Flow ==
    /\ fifo \in [Socks -> Seq(Events)]
    /\ \A k \in Socks : Len(fifo[k]) <= FifoMax /\ Injective(fifo[k])
    /\ unsent \subseteq Events /\ got \in [Hosts -> SUBSET Events]
    /\ \A k \in Socks : Rng(fifo[k]) \cap unsent = {}
    /\ \A h \in Hosts : got[h] \cap unsent = {}
    /\ \A k \in Socks : Rng(fifo[k]) \cap got[Host(k)] = {}
    /\ \A k, l \in Socks :
           Host(k) = Host(l) /\ k # l => Rng(fifo[k]) \cap Rng(fifo[l]) = {}

\* The clients' side.
Clientele ==
    /\ hash \in [Hosts -> SUBSET Folders] /\ wants \in [Hosts -> SUBSET Folders]
    /\ cur \in [Clients -> Nat]
    /\ \A c \in Clients : cur[c] \in 0..Generations[c]
    /\ ready \subseteq {c \in Clients : cur[c] # 0} /\ ended \subseteq Stubs

IndInv == Counted /\ Placed /\ Flow /\ Clientele

-----------------------------------------------------------------------------
(* Sequences without repetitions.                                          *)

LEMMA RemoveAtFacts ==
    ASSUME NEW S, NEW q \in Seq(S), Injective(q), NEW i \in 1..Len(q)
    PROVE  /\ RemoveAt(q, i) \in Seq(S)
           /\ Injective(RemoveAt(q, i))
           /\ Rng(RemoveAt(q, i)) = Rng(q) \ {q[i]}
<1> DEFINE r == RemoveAt(q, i)
<1>1. /\ r \in Seq(S) /\ Len(r) = Len(q) - 1
      /\ \A j \in 1..Len(q)-1 : r[j] = IF j < i THEN q[j] ELSE q[j+1]
  <2> DEFINE a == SubSeq(q, 1, i - 1)
             b == SubSeq(q, i + 1, Len(q))
  <2>1. /\ a \in Seq(S) /\ Len(a) = i - 1
        /\ \A j \in 1..i-1 : a[j] = q[j]
    BY SubSeqProperties
  <2>2. /\ b \in Seq(S) /\ Len(b) = Len(q) - i
        /\ \A j \in 1..Len(q)-i : b[j] = q[i + j]
    OBVIOUS
  <2> HIDE DEF a, b
  <2>3. /\ a \o b \in Seq(S) /\ Len(a \o b) = Len(a) + Len(b)
        /\ \A j \in 1 .. Len(a) + Len(b) :
               (a \o b)[j] = IF j <= Len(a) THEN a[j] ELSE b[j - Len(a)]
    BY <2>1, <2>2, ConcatProperties
  <2>4. ASSUME NEW j \in 1..Len(q)-1
        PROVE  (a \o b)[j] = IF j < i THEN q[j] ELSE q[j+1]
    <3>1. CASE j < i
        BY <2>1, <2>2, <2>3, <3>1
    <3>2. CASE ~(j < i)
      <4>1. j - Len(a) \in 1..Len(q)-i /\ i + (j - Len(a)) = j + 1
        BY <2>1, <2>2, <3>2
      <4>2. (a \o b)[j] = b[j - Len(a)]
        BY <2>1, <2>2, <2>3, <3>2
      <4>3. b[j - Len(a)] = q[j+1]
        BY <2>2, <4>1
      <4> QED
        BY <3>2, <4>2, <4>3
    <3> QED
        BY <3>1, <3>2
  <2>5. r = a \o b
    BY DEF RemoveAt, a, b
  <2>6. Len(a \o b) = Len(q) - 1
    BY <2>1, <2>2, <2>3
  <2> HIDE DEF r
  <2> QED
    BY <2>3, <2>4, <2>5, <2>6
<1> HIDE DEF r
<1>2. Injective(r)
  <2> SUFFICES ASSUME NEW j \in 1..Len(r), NEW l \in 1..Len(r), r[j] = r[l]
               PROVE  j = l
    BY DEF Injective
  <2>1. PICK a \in 1..Len(q) : a = IF j < i THEN j ELSE j + 1
    BY <1>1
  <2>2. PICK b \in 1..Len(q) : b = IF l < i THEN l ELSE l + 1
    BY <1>1
  <2>3. r[j] = q[a] /\ r[l] = q[b]
    BY <1>1, <2>1, <2>2
  <2>4. a = b
    BY <2>3 DEF Injective
  <2> QED
    BY <2>1, <2>2, <2>4
<1>3. ASSUME NEW x \in Rng(r) PROVE x \in Rng(q) \ {q[i]}
  <2>1. PICK j \in 1..Len(r) : x = r[j]
    BY <1>3 DEF Rng
  <2>2. PICK a \in 1..Len(q) : a = IF j < i THEN j ELSE j + 1
    BY <1>1
  <2>3. x = q[a] /\ a # i
    BY <1>1, <2>1, <2>2
  <2>4. q[a] # q[i]
    BY <2>3 DEF Injective
  <2> QED
    BY <2>3, <2>4 DEF Rng
<1>4. ASSUME NEW x \in Rng(q) \ {q[i]} PROVE x \in Rng(r)
  <2>1. PICK j \in 1..Len(q) : q[j] = x /\ j # i
    BY DEF Rng
  <2>2. CASE j < i
    BY <1>1, <2>1, <2>2 DEF Rng
  <2>3. CASE j > i
    <3>1. j - 1 \in 1..Len(r) /\ r[j-1] = x
        BY <1>1, <2>1, <2>3
    <3> QED BY <3>1 DEF Rng
  <2> QED BY <2>1, <2>2, <2>3
<1> QED
    BY <1>1, <1>2, <1>3, <1>4 DEF r

LEMMA EraseFacts ==
    ASSUME NEW S, NEW q \in Seq(S), Injective(q), NEW k
    PROVE  /\ RemoveFirst(q, k) \in Seq(S)
           /\ Injective(RemoveFirst(q, k))
           /\ Rng(RemoveFirst(q, k)) = Rng(q) \ {k}
<1>1. CASE k \in Rng(q)
  <2>1. PICK i \in 1..Len(q) : q[i] = k
    BY <1>1 DEF Rng
  <2>2. {j \in 1..Len(q) : q[j] = k} = {i}
    BY <2>1 DEF Injective
  <2>3. Min({i}) = i
    BY DEF Min
  <2>4. RemoveFirst(q, k) = RemoveAt(q, Min({j \in 1..Len(q) : q[j] = k}))
    BY <2>1, <2>2 DEF RemoveFirst, SelectInSeq
  <2>5. RemoveFirst(q, k) = RemoveAt(q, i)
    BY <2>2, <2>3, <2>4
  <2>6. /\ RemoveAt(q, i) \in Seq(S) /\ Injective(RemoveAt(q, i))
        /\ Rng(RemoveAt(q, i)) = Rng(q) \ {q[i]}
    BY RemoveAtFacts
  <2> QED
    BY <2>1, <2>5, <2>6
<1>2. CASE k \notin Rng(q)
    BY <1>2 DEF RemoveFirst, Rng
<1> QED
    BY <1>1, <1>2

LEMMA AppendFacts ==
    ASSUME NEW S, NEW q \in Seq(S), NEW x \in S
    PROVE  /\ Append(q, x) \in Seq(S) /\ Len(Append(q, x)) = Len(q) + 1
           /\ Rng(Append(q, x)) = Rng(q) \cup {x}
           /\ Injective(q) /\ x \notin Rng(q) => Injective(Append(q, x))
<1> DEFINE r == Append(q, x)
<1>1. /\ r \in Seq(S) /\ Len(r) = Len(q) + 1
      /\ \A i \in 1..Len(q) : r[i] = q[i]
      /\ r[Len(q) + 1] = x
    OBVIOUS
<1> HIDE DEF r
<1>2. Rng(r) = Rng(q) \cup {x}
  <2>1. \A i \in 1..Len(r) : i \in 1..Len(q) \/ i = Len(q) + 1
    BY <1>1
  <2>2. Len(q) + 1 \in 1..Len(r) /\ \A i \in 1..Len(q) : i \in 1..Len(r)
    BY <1>1
  <2> QED
    BY <1>1, <2>1, <2>2 DEF Rng
<1>3. Injective(q) /\ x \notin Rng(q) => Injective(r)
    BY <1>1 DEF Injective, Rng
<1> QED
    BY <1>1, <1>2, <1>3 DEF r

LEMMA TailFacts ==
    ASSUME NEW S, NEW q \in Seq(S), q # <<>>, Injective(q)
    PROVE  /\ Head(q) \in S /\ Head(q) \in Rng(q)
           /\ Tail(q) \in Seq(S) /\ Len(Tail(q)) = Len(q) - 1
           /\ Rng(Tail(q)) = Rng(q) \ {Head(q)}
           /\ Injective(Tail(q))
<1> DEFINE r == Tail(q)
           x == Head(q)
<1>1. /\ r \in Seq(S) /\ Len(r) = Len(q) - 1 /\ Len(q) \in Nat /\ Len(q) > 0
      /\ \A i \in 1..Len(r) : r[i] = q[i + 1]
      /\ x = q[1] /\ x \in S
    BY HeadTailProperties
<1> HIDE DEF r, x
<1>2. x \in Rng(q)
    BY <1>1 DEF Rng
<1>3. Injective(r)
    BY <1>1 DEF Injective
<1>4. ASSUME NEW y \in Rng(r) PROVE y \in Rng(q) \ {x}
  <2>1. PICK i \in 1..Len(r) : y = r[i]
    BY <1>4 DEF Rng
  <2>2. i + 1 \in 1..Len(q) /\ 1 \in 1..Len(q) /\ i + 1 # 1 /\ y = q[i + 1]
    BY <1>1, <2>1
  <2>3. q[i + 1] # q[1]
    BY <2>2 DEF Injective
  <2> QED
    BY <1>1, <2>2, <2>3 DEF Rng
<1>5. ASSUME NEW y \in Rng(q) \ {x} PROVE y \in Rng(r)
  <2>1. PICK i \in 1..Len(q) : q[i] = y /\ i # 1
    BY <1>1 DEF Rng
  <2>2. i - 1 \in 1..Len(r) /\ r[i - 1] = y
    BY <1>1, <2>1
  <2> QED
    BY <2>2 DEF Rng
<1>6. Rng(r) = Rng(q) \ {x}
    BY <1>4, <1>5
<1> QED
    BY <1>1, <1>2, <1>3, <1>6 DEF r, x

\* The front node goes to the end: q_else.
LEMMA RotateFacts ==
    ASSUME NEW S, NEW q \in Seq(S), q # <<>>, Injective(q)
    PROVE  /\ Rotated(q) \in Seq(S) /\ Injective(Rotated(q))
           /\ Rng(Rotated(q)) = Rng(q)
<1> DEFINE r == Tail(q)
           x == Head(q)
<1>1. /\ x \in S /\ x \in Rng(q) /\ r \in Seq(S)
      /\ Rng(r) = Rng(q) \ {x} /\ Injective(r)
    BY TailFacts
<1>2. Rotated(q) = Append(r, x)
    BY DEF Rotated
<1> HIDE DEF r, x
<1>3. /\ Append(r, x) \in Seq(S) /\ Rng(Append(r, x)) = Rng(r) \cup {x}
      /\ Injective(r) /\ x \notin Rng(r) => Injective(Append(r, x))
    BY <1>1, AppendFacts
<1> QED
    BY <1>1, <1>2, <1>3

LEMMA EmptyFacts ==
    ASSUME NEW S
    PROVE  <<>> \in Seq(S) /\ Rng(<<>>) = {} /\ Injective(<<>>) /\ Len(<<>>) = 0
BY DEF Rng, Injective

-----------------------------------------------------------------------------
(* Connections.                                                            *)

LEMMA SockFacts ==
    ASSUME NEW k \in Socks
    PROVE  /\ k[1] \in Clients /\ k[2] \in 1..Generations[k[1]]
           /\ Host(k) \in Hosts
<1>1. PICK c \in Clients : k \in {c} \X (1..Generations[c])
    BY DEF Socks
<1> QED
    BY <1>1, HubAssumption DEF Host

LEMMA InRng ==
    ASSUME NEW S, NEW q \in Seq(S)
    PROVE  Rng(q) \subseteq S
BY DEF Rng

-----------------------------------------------------------------------------
(* The pools of threads.                                                   *)

LEMMA AddOne ==
    ASSUME NEW S, IsFiniteSet(S), NEW x
    PROVE  /\ IsFiniteSet(S \cup {x}) /\ Cardinality(S) \in Nat
           /\ Cardinality(S \cup {x}) \in Nat
           /\ Cardinality(S \cup {x}) <= Cardinality(S) + 1
<1>1. /\ IsFiniteSet(S \cup {x})
      /\ Cardinality(S \cup {x}) = IF x \in S THEN Cardinality(S) ELSE Cardinality(S) + 1
    BY FS_AddElement
<1>2. Cardinality(S) \in Nat
    BY FS_CardinalityType
<1> QED
    BY <1>1, <1>2

LEMMA RemoveOne ==
    ASSUME NEW S, IsFiniteSet(S), NEW x
    PROVE  /\ IsFiniteSet(S \ {x}) /\ Cardinality(S) \in Nat
           /\ Cardinality(S \ {x}) \in Nat
           /\ Cardinality(S \ {x}) <= Cardinality(S)
<1>1. /\ IsFiniteSet(S \ {x})
      /\ Cardinality(S \ {x}) = IF x \in S THEN Cardinality(S) - 1 ELSE Cardinality(S)
    BY FS_RemoveElement
<1>2. Cardinality(S) \in Nat /\ Cardinality(S \ {x}) \in Nat
    BY <1>1, FS_CardinalityType
<1> QED
    BY <1>1, <1>2

\* notify_one changes nothing about the number of threads that wait or run.
LEMMA NotifiedFacts ==
    ASSUME NEW p \in [wait : Nat, awake : Nat]
    PROVE  /\ Notified(p) \in [wait : Nat, awake : Nat]
           /\ Notified(p).wait + Notified(p).awake = p.wait + p.awake
<1>1. CASE p.wait > 0
  <2>1. Notified(p) = [wait |-> p.wait - 1, awake |-> p.awake + 1]
    BY <1>1 DEF Notified
  <2> QED
    BY <1>1, <2>1
<1>2. CASE ~(p.wait > 0)
    BY <1>2 DEF Notified
<1> QED
    BY <1>1, <1>2

LEMMA CountedStep ==
    ASSUME Counted, [Next]_vars
    PROVE  Counted'
<1> USE HubAssumption
<1>0. /\ Cardinality(g_enqueue_list) \in Nat /\ Cardinality(served) \in Nat
      /\ enq.wait \in Nat /\ enq.awake \in Nat /\ deq.wait \in Nat /\ deq.awake \in Nat
    BY FS_CardinalityType DEF Counted
<1>1. CASE UNCHANGED <<enq, deq, g_enqueue_list, served>>
    BY <1>1 DEF Counted, EnqFree, DeqFree
<1>2. CASE EnqWait
  <2>1. enq' = [enq EXCEPT !.wait = @ + 1] /\ UNCHANGED <<deq, g_enqueue_list, served>>
    BY <1>2 DEF EnqWait, nodes
  <2>2. /\ enq' \in [wait : Nat, awake : Nat]
        /\ enq'.wait = enq.wait + 1 /\ enq'.awake = enq.awake
    BY <2>1 DEF Counted
  <2> QED
    BY <1>0, <1>2, <2>1, <2>2 DEF EnqWait, Counted, EnqFree, DeqFree
<1>3. CASE DeqWait
  <2>1. deq' = [deq EXCEPT !.wait = @ + 1] /\ UNCHANGED <<enq, g_enqueue_list, served>>
    BY <1>3 DEF DeqWait, conns
  <2>2. /\ deq' \in [wait : Nat, awake : Nat]
        /\ deq'.wait = deq.wait + 1 /\ deq'.awake = deq.awake
    BY <2>1 DEF Counted
  <2> QED
    BY <1>0, <1>3, <2>1, <2>2 DEF DeqWait, Counted, EnqFree, DeqFree
<1>4. CASE EnqTake
  <2>1. /\ enq.awake > 0 /\ enq' = [enq EXCEPT !.awake = @ - 1]
        /\ UNCHANGED <<deq, served>>
        /\ g_enqueue_list' = g_enqueue_list
              \/ \E x : g_enqueue_list' = g_enqueue_list \cup {x}
    BY <1>4 DEF EnqTake, nodes
  <2>2. /\ enq' \in [wait : Nat, awake : Nat]
        /\ enq'.wait = enq.wait /\ enq'.awake = enq.awake - 1
    BY <1>0, <2>1 DEF Counted
  <2>3. IsFiniteSet(g_enqueue_list) /\ IsFiniteSet(served)
    BY DEF Counted
  <2>4. /\ IsFiniteSet(g_enqueue_list') /\ Cardinality(g_enqueue_list') \in Nat
        /\ Cardinality(g_enqueue_list') <= Cardinality(g_enqueue_list) + 1
    <3>1. CASE g_enqueue_list' = g_enqueue_list
        BY <1>0, <2>3, <3>1
    <3>2. ASSUME NEW x, g_enqueue_list' = g_enqueue_list \cup {x}
          PROVE  /\ IsFiniteSet(g_enqueue_list') /\ Cardinality(g_enqueue_list') \in Nat
                 /\ Cardinality(g_enqueue_list') <= Cardinality(g_enqueue_list) + 1
        BY <2>3, <3>2, AddOne
    <3> QED
        BY <2>1, <3>1, <3>2
  <2> QED
    BY <1>0, <2>1, <2>2, <2>3, <2>4 DEF Counted, EnqFree, DeqFree
<1>5. CASE DeqTake
  <2>1. /\ deq.awake > 0 /\ deq' = [deq EXCEPT !.awake = @ - 1]
        /\ UNCHANGED <<enq, g_enqueue_list>>
        /\ served' = served \/ \E x : served' = served \cup {x}
    BY <1>5 DEF DeqTake, conns
  <2>2. /\ deq' \in [wait : Nat, awake : Nat]
        /\ deq'.wait = deq.wait /\ deq'.awake = deq.awake - 1
    BY <1>0, <2>1 DEF Counted
  <2>3. IsFiniteSet(g_enqueue_list) /\ IsFiniteSet(served)
    BY DEF Counted
  <2>4. /\ IsFiniteSet(served') /\ Cardinality(served') \in Nat
        /\ Cardinality(served') <= Cardinality(served) + 1
    <3>1. CASE served' = served
        BY <1>0, <2>3, <3>1
    <3>2. ASSUME NEW x, served' = served \cup {x}
          PROVE  /\ IsFiniteSet(served') /\ Cardinality(served') \in Nat
                 /\ Cardinality(served') <= Cardinality(served) + 1
        BY <2>3, <3>2, AddOne
    <3> QED
        BY <2>1, <3>1, <3>2
  <2> QED
    BY <1>0, <2>1, <2>2, <2>3, <2>4 DEF Counted, EnqFree, DeqFree
<1>6. CASE \E c \in Clients : Connect(c)
  <2>1. enq' = Notified(enq) /\ UNCHANGED <<deq, g_enqueue_list, served>>
    BY <1>6 DEF Connect, nodes
  <2>2. /\ enq' \in [wait : Nat, awake : Nat]
        /\ enq'.wait + enq'.awake = enq.wait + enq.awake
    BY <2>1, NotifiedFacts DEF Counted
  <2> QED
    BY <1>0, <2>1, <2>2 DEF Counted, EnqFree, DeqFree
<1>7. CASE \E k \in Socks : EnqHangup(k)
  <2>1. PICK k : g_enqueue_list' = g_enqueue_list \ {k} /\ UNCHANGED <<enq, deq, served>>
    BY <1>7 DEF EnqHangup, nodes
  <2>2. /\ IsFiniteSet(g_enqueue_list') /\ Cardinality(g_enqueue_list') \in Nat
        /\ Cardinality(g_enqueue_list') <= Cardinality(g_enqueue_list)
    BY <2>1, RemoveOne DEF Counted
  <2> QED
    BY <1>0, <2>1, <2>2 DEF Counted, EnqFree, DeqFree
<1>8. CASE \E k \in Socks : ListenDone(k)
  <2>1. PICK k : /\ g_enqueue_list' = g_enqueue_list \ {k} /\ deq' = Notified(deq)
                 /\ UNCHANGED <<enq, served>>
    BY <1>8 DEF ListenDone
  <2>2. /\ IsFiniteSet(g_enqueue_list') /\ Cardinality(g_enqueue_list') \in Nat
        /\ Cardinality(g_enqueue_list') <= Cardinality(g_enqueue_list)
    BY <2>1, RemoveOne DEF Counted
  <2>3. /\ deq' \in [wait : Nat, awake : Nat]
        /\ deq'.wait + deq'.awake = deq.wait + deq.awake
    BY <2>1, NotifiedFacts DEF Counted
  <2> QED
    BY <1>0, <2>1, <2>2, <2>3 DEF Counted, EnqFree, DeqFree
<1>9. CASE \E k : served' = served \ {k} /\ UNCHANGED <<enq, deq, g_enqueue_list>>
  <2>1. PICK k : served' = served \ {k} /\ UNCHANGED <<enq, deq, g_enqueue_list>>
    BY <1>9
  <2>2. /\ IsFiniteSet(served') /\ Cardinality(served') \in Nat
        /\ Cardinality(served') <= Cardinality(served)
    BY <2>1, RemoveOne DEF Counted
  <2> QED
    BY <1>0, <2>1, <2>2 DEF Counted, EnqFree, DeqFree
<1>10. CASE Restart
  <2>1. /\ enq' = NoThreads /\ deq' = NoThreads
        /\ g_enqueue_list' = {} /\ served' = {}
    BY <1>10 DEF Restart
  <2> QED
    BY <2>1, FS_EmptySet DEF Counted, EnqFree, DeqFree, NoThreads
<1>11. \A c : Break(c) => UNCHANGED <<enq, deq, g_enqueue_list, served>>
    BY DEF Break, conns, nodes
<1>12. Scan => UNCHANGED <<enq, deq, g_enqueue_list, served>>
    BY DEF Scan, HostExpires, SelectionExpires, conns, nodes
<1>13. \A h : Process(h) => UNCHANGED <<enq, deq, g_enqueue_list, served>>
    BY DEF Process, Select, Reselect, Unselect, SendEvent, conns, nodes
<1>14. \A k : Identify(k) \/ Listen(k) \/ Deliver(k)
              => UNCHANGED <<enq, deq, g_enqueue_list, served>>
    BY DEF Identify, Listen, Deliver, conns, nodes
<1>15. \A k : DeliverTooEarly(k) \/ DeliverBreaks(k) \/ NodeLost(k)
              => served' = served \ {k} /\ UNCHANGED <<enq, deq, g_enqueue_list>>
    BY DEF DeliverTooEarly, DeliverBreaks, NodeLost, DropNode, conns
<1>16. UNCHANGED vars => UNCHANGED <<enq, deq, g_enqueue_list, served>>
    BY DEF vars, conns, nodes
<1> QED
    BY <1>1, <1>2, <1>3, <1>4, <1>5, <1>6, <1>7, <1>8, <1>9, <1>10, <1>11, <1>12,
       <1>13, <1>14, <1>15, <1>16 DEF Next, Threads, Connection

-----------------------------------------------------------------------------
(* The stages of a connection and the lists of nodes.                      *)

\* A step that leaves the lists alone.
LEMMA PlacedStutter ==
    ASSUME Placed,
           UNCHANGED <<g_enqueue_list1, g_enqueue_list, answering, g_dequeue_list1, served,
                       list, g_host_list>>
    PROVE  Placed'
<1>1. UNCHANGED <<Nodes, Rng(g_enqueue_list1), Rng(g_dequeue_list1)>>
    BY DEF Nodes
<1>2. HostAlive' /\ NodeServed'
    BY DEF Placed, HostAlive, NodeServed, Host
<1>3. /\ Injective(g_enqueue_list1') /\ Injective(g_dequeue_list1')
      /\ \A h \in Hosts : Injective(list'[h])
    BY DEF Placed
<1> QED
    BY <1>1, <1>2, <1>3 DEF Placed

LEMMA EnqTakePlaced ==
    ASSUME Placed, EnqTake
    PROVE  Placed'
<1>1. CASE g_enqueue_list1 = <<>>
    BY <1>1, PlacedStutter DEF EnqTake, nodes, hosts
<1>2. CASE g_enqueue_list1 # <<>>
  <2> SUFFICES ASSUME NEW q, q = g_enqueue_list1, NEW x, x = Head(q), NEW r, r = Tail(q)
               PROVE  Placed'
    OBVIOUS
  <2>1. /\ g_enqueue_list' = g_enqueue_list \cup {x} /\ g_enqueue_list1' = r
        /\ UNCHANGED <<answering, g_dequeue_list1, served, list, g_host_list>>
    BY <1>2 DEF EnqTake, nodes, hosts
  <2>2. /\ x \in Socks /\ x \in Rng(q) /\ r \in Seq(Socks)
        /\ Rng(r) = Rng(q) \ {x} /\ Injective(r)
    BY <1>2, TailFacts DEF Placed
  <2>3. UNCHANGED Nodes /\ HostAlive' /\ NodeServed'
    BY <2>1 DEF Placed, HostAlive, NodeServed, Nodes, Host
  <2>4. Rng(g_enqueue_list1') = Rng(r) /\ Injective(g_enqueue_list1')
    BY <2>1, <2>2
  <2>5. UNCHANGED Rng(g_dequeue_list1) /\ Injective(g_dequeue_list1')
        /\ \A h \in Hosts : Injective(list'[h])
    BY <2>1 DEF Placed
  <2>6. /\ Rng(q) \cap g_enqueue_list = {}
        /\ (Rng(q) \cup (g_enqueue_list \ answering)) \cap Nodes = {}
        /\ answering \subseteq g_enqueue_list
    BY DEF Placed
  <2>7. (Rng(r) \cup ((g_enqueue_list \cup {x}) \ answering)) \cap Nodes = {}
    BY <2>2, <2>6
  <2>8. Rng(r) \cap (g_enqueue_list \cup {x}) = {}
    BY <2>2, <2>6
  <2> HIDE DEF Nodes
  <2> QED
    BY <2>1, <2>2, <2>3, <2>4, <2>5, <2>7, <2>8 DEF Placed
<1> QED
    BY <1>1, <1>2

LEMMA DeqTakePlaced ==
    ASSUME Placed, DeqTake
    PROVE  Placed'
<1>1. CASE g_dequeue_list1 = <<>>
    BY <1>1, PlacedStutter DEF DeqTake, conns, hosts
<1>2. CASE g_dequeue_list1 # <<>>
  <2> SUFFICES ASSUME NEW q, q = g_dequeue_list1, NEW x, x = Head(q), NEW r, r = Tail(q)
               PROVE  Placed'
    OBVIOUS
  <2>1. /\ g_dequeue_list1' = r /\ served' = served \cup {k \in {x} : Host(k) \in g_host_list}
        /\ UNCHANGED <<answering, g_enqueue_list1, g_enqueue_list, list, g_host_list>>
    BY <1>2 DEF DeqTake, conns, hosts
  <2>2. /\ x \in Socks /\ x \in Rng(q) /\ r \in Seq(Socks)
        /\ Rng(r) = Rng(q) \ {x} /\ Injective(r)
    BY <1>2, TailFacts DEF Placed
  <2>3. Host(x) \in g_host_list
    BY <2>2 DEF Placed, HostAlive
  <2>4. served' = served \cup {x}
    BY <2>1, <2>3
  <2>5. Rng(g_dequeue_list1') = Rng(r) /\ Injective(g_dequeue_list1')
    BY <2>1, <2>2
  <2>6. UNCHANGED Nodes
    BY <2>2, <2>4, <2>5 DEF Nodes
  <2>7. HostAlive' /\ NodeServed'
    BY <2>1, <2>6 DEF Placed, HostAlive, NodeServed, Nodes, Host
  <2>8. served' \cap Rng(r) = {}
    BY <2>2, <2>4 DEF Placed
  <2>9. (\A h \in Hosts : Injective(list'[h])) /\ Injective(g_enqueue_list1')
        /\ UNCHANGED Rng(g_enqueue_list1)
    BY <2>1 DEF Placed
  <2> QED
    BY <2>1, <2>2, <2>4, <2>5, <2>6, <2>7, <2>8, <2>9 DEF Placed
<1> QED
    BY <1>1, <1>2

LEMMA ConnectPlaced ==
    ASSUME Placed, NEW c \in Clients, Connect(c)
    PROVE  Placed'
<1>1. PICK g \in 1..Generations[c] :
          /\ <<c, g>> \notin Held /\ g_enqueue_list1' = Append(g_enqueue_list1, <<c, g>>)
    BY DEF Connect
<1>2. PICK q : q = g_enqueue_list1
    OBVIOUS
<1>3. PICK k : k = <<c, g>>
    OBVIOUS
<1>4. k \in Socks
    BY <1>3 DEF Socks
<1>5. /\ k \notin Rng(q) /\ k \notin g_enqueue_list /\ k \notin Nodes
    BY <1>1, <1>2, <1>3 DEF Held, Nodes
<1>6. UNCHANGED <<g_enqueue_list, answering, g_dequeue_list1, served, list, g_host_list>>
    BY DEF Connect, hosts, nodes
<1>7. q \in Seq(Socks) /\ Injective(q)
    BY <1>2 DEF Placed
<1>8. PICK r : r = Append(q, k)
    OBVIOUS
<1>9. r \in Seq(Socks) /\ Rng(r) = Rng(q) \cup {k} /\ Injective(r)
    BY <1>4, <1>5, <1>7, <1>8, AppendFacts
<1>10. g_enqueue_list1' = r
    BY <1>1, <1>2, <1>3, <1>8
<1>11. /\ Rng(g_enqueue_list1') = Rng(r) /\ Injective(g_enqueue_list1')
       /\ Injective(g_dequeue_list1') /\ \A h \in Hosts : Injective(list'[h])
    BY <1>6, <1>9, <1>10 DEF Placed
<1>12. UNCHANGED <<Nodes, Rng(g_dequeue_list1)>> /\ HostAlive' /\ NodeServed'
    BY <1>6 DEF Placed, HostAlive, NodeServed, Nodes, Host
<1>13. /\ Rng(q) \cap g_enqueue_list = {}
       /\ (Rng(q) \cup (g_enqueue_list \ answering)) \cap Nodes = {}
    BY <1>2 DEF Placed
<1>14. /\ Rng(r) \cap g_enqueue_list = {}
       /\ (Rng(r) \cup (g_enqueue_list \ answering)) \cap Nodes = {}
    BY <1>5, <1>9, <1>13
<1> QED
    BY <1>6, <1>9, <1>10, <1>11, <1>12, <1>14 DEF Placed

LEMMA EnqLeavesPlaced ==
    ASSUME Placed, NEW k,
           g_enqueue_list' = g_enqueue_list \ {k}, answering' = answering \ {k},
           k \notin answering \/ k \notin g_enqueue_list',
           UNCHANGED <<g_enqueue_list1, g_dequeue_list1, served, list, g_host_list>>
    PROVE  Placed'
<1>1. UNCHANGED <<Nodes, Rng(g_enqueue_list1), Rng(g_dequeue_list1)>>
    BY DEF Nodes
<1>2. HostAlive' /\ NodeServed'
    BY DEF Placed, HostAlive, NodeServed, Host
<1>3. /\ Injective(g_enqueue_list1') /\ Injective(g_dequeue_list1')
      /\ \A h \in Hosts : Injective(list'[h])
    BY DEF Placed
<1>4. /\ g_enqueue_list' \ answering' \subseteq g_enqueue_list \ answering
      /\ answering' \subseteq g_enqueue_list'
    BY DEF Placed
<1>5. /\ Rng(g_enqueue_list1') \cap g_enqueue_list' = {}
      /\ (Rng(g_enqueue_list1') \cup (g_enqueue_list' \ answering')) \cap Nodes' = {}
    BY <1>1, <1>4 DEF Placed
<1> QED
    BY <1>1, <1>2, <1>3, <1>4, <1>5 DEF Placed

LEMMA ListenPlaced ==
    ASSUME Placed, NEW k \in Socks, Listen(k)
    PROVE  Placed'
<1>1. PICK h \in Hosts : h = Host(k)
    BY SockFacts
<1>2. /\ k \in g_enqueue_list \ answering /\ k[1] \in Stubs
      /\ g_host_list' = g_host_list \cup {h} /\ answering' = answering \cup {k}
      /\ list' = [list EXCEPT ![h] = Append(@, k)]
      /\ g_dequeue_list1' = Append(g_dequeue_list1, k)
      /\ UNCHANGED <<g_enqueue_list1, g_enqueue_list, served>>
    BY <1>1 DEF Listen, conns
<1>3. k \notin Nodes
    BY <1>2 DEF Placed
<1>4. PICK q : q = g_dequeue_list1
    OBVIOUS
<1>5. PICK l : l = list[h]
    OBVIOUS
<1>6. q \in Seq(Socks) /\ Injective(q) /\ k \notin Rng(q)
    BY <1>3, <1>4 DEF Placed, Nodes
<1>7. l \in Seq(Socks) /\ Injective(l) /\ k \notin Rng(l)
    BY <1>1, <1>3, <1>5 DEF Placed, NodeServed, Nodes
<1>8. PICK qq : qq = Append(q, k)
    OBVIOUS
<1>9. PICK ll : ll = Append(l, k)
    OBVIOUS
<1>10. qq \in Seq(Socks) /\ Rng(qq) = Rng(q) \cup {k} /\ Injective(qq)
    BY <1>6, <1>8, AppendFacts
<1>11. ll \in Seq(Socks) /\ Rng(ll) = Rng(l) \cup {k} /\ Injective(ll)
    BY <1>7, <1>9, AppendFacts
<1>12. /\ g_dequeue_list1' = qq /\ list' \in [Hosts -> Seq(Socks)] /\ list'[h] = ll
       /\ \A o \in Hosts : o # h => list'[o] = list[o]
    BY <1>1, <1>2, <1>4, <1>5, <1>8, <1>9, <1>11 DEF Placed
<1>13. Rng(g_dequeue_list1') = Rng(q) \cup {k} /\ Injective(g_dequeue_list1')
    BY <1>10, <1>12
<1>14. ASSUME NEW o \in Hosts
       PROVE  /\ Injective(list'[o])
              /\ Rng(list'[o]) = IF o = h THEN Rng(list[o]) \cup {k} ELSE Rng(list[o])
    BY <1>5, <1>11, <1>12 DEF Placed
<1>15. Nodes' = Nodes \cup {k}
    BY <1>2, <1>4, <1>13 DEF Nodes
<1>16. NodeServed'
  <2>1. \A o \in Hosts : Rng(list[o]) = {n \in Nodes : Host(n) = o}
    BY DEF Placed, NodeServed, Nodes
  <2>2. \A o \in Hosts : Rng(list'[o]) = {n \in Nodes' : Host(n) = o}
    BY <1>1, <1>14, <1>15, <2>1
  <2> QED
    BY <2>2 DEF NodeServed, Nodes, Host
<1>17. HostAlive'
  <2>1. \A n \in Nodes : Host(n) \in g_host_list /\ n \in Rng(list[Host(n)])
    BY DEF Placed, HostAlive, Nodes
  <2>2. \A n \in Nodes' : Host(n) \in g_host_list' /\ n \in Rng(list'[Host(n)])
    BY <1>1, <1>2, <1>14, <1>15, <2>1 DEF Placed
  <2> QED
    BY <2>2 DEF HostAlive, Nodes, Host
<1>18. /\ answering' \subseteq g_enqueue_list' /\ g_host_list' \subseteq Hosts
       /\ Rng(g_enqueue_list1') \cap g_enqueue_list' = {}
       /\ Injective(g_enqueue_list1')
    BY <1>1, <1>2 DEF Placed
<1>19. /\ served' \cap Rng(g_dequeue_list1') = {}
       /\ (Rng(g_enqueue_list1') \cup (g_enqueue_list' \ answering')) \cap Nodes' = {}
    BY <1>2, <1>3, <1>4, <1>13, <1>15 DEF Placed, Nodes
<1>20. \A n \in Nodes' : n[1] \in Stubs
    BY <1>2, <1>15 DEF Placed
<1> QED
    BY <1>2, <1>10, <1>12, <1>13, <1>14, <1>16, <1>17, <1>18, <1>19, <1>20 DEF Placed

LEMMA SendEventPlaced ==
    ASSUME Placed, NEW h \in Hosts, NEW f \in Folders, NEW e \in Events, SendEvent(h, f, e)
    PROVE  Placed'
<1>1. UNCHANGED <<g_enqueue_list1, g_enqueue_list, answering, g_dequeue_list1, served,
                  g_host_list>>
    BY DEF SendEvent, conns
<1>2. CASE ~Connected(h)
  <2>1. UNCHANGED list
    BY <1>2 DEF SendEvent
  <2> QED
    BY <1>1, <2>1, PlacedStutter
<1>3. CASE Connected(h)
  <2>1. PICK T : T = Targets(h, f)
    OBVIOUS
  <2>2. list' = [o \in Hosts |-> IF o \in T THEN Rotated(list[o]) ELSE list[o]]
    BY <1>3, <2>1 DEF SendEvent
  <2>3. \A o \in T : list[o] # <<>>
    BY <2>1 DEF Targets
  <2>4. ASSUME NEW o \in Hosts
        PROVE  /\ list'[o] \in Seq(Socks) /\ Injective(list'[o])
               /\ Rng(list'[o]) = Rng(list[o])
    <3>1. list[o] \in Seq(Socks) /\ Injective(list[o])
        BY DEF Placed
    <3>2. CASE o \in T
        BY <2>2, <2>3, <3>1, <3>2, RotateFacts
    <3>3. CASE o \notin T
        BY <2>2, <3>1, <3>3
    <3> QED
        BY <3>2, <3>3
  <2>5. list' \in [Hosts -> Seq(Socks)]
    BY <2>2, <2>4
  <2>6. UNCHANGED <<Nodes, Rng(g_enqueue_list1), Rng(g_dequeue_list1)>>
    BY <1>1 DEF Nodes
  <2>7. NodeServed'
    BY <1>1, <2>4, <2>6 DEF Placed, NodeServed, Host
  <2>8. HostAlive'
    <3>1. \A k \in Nodes : Host(k) \in g_host_list /\ k \in Rng(list[Host(k)])
        BY DEF Placed, HostAlive, Nodes
    <3>2. \A k \in Nodes' : Host(k) \in g_host_list' /\ k \in Rng(list'[Host(k)])
        BY <1>1, <2>4, <2>6, <3>1 DEF Placed
    <3> QED
        BY <3>2 DEF HostAlive, Nodes, Host
  <2>9. Injective(g_enqueue_list1') /\ Injective(g_dequeue_list1')
    BY <1>1 DEF Placed
  <2> QED
    BY <1>1, <2>4, <2>5, <2>6, <2>7, <2>8, <2>9 DEF Placed
<1> QED
    BY <1>2, <1>3

LEMMA DropPlaced ==
    ASSUME Placed, NEW k \in Socks, k \in served, DropNode(k),
           UNCHANGED <<g_enqueue_list1, g_enqueue_list, answering, g_dequeue_list1,
                       g_host_list>>
    PROVE  Placed'
<1>1. PICK h \in Hosts : h = Host(k)
    BY SockFacts
<1>2. PICK l : l = list[h]
    OBVIOUS
<1>3. PICK ll : ll = RemoveFirst(l, k)
    OBVIOUS
<1>4. l \in Seq(Socks) /\ Injective(l)
    BY <1>1, <1>2 DEF Placed
<1>5. ll \in Seq(Socks) /\ Injective(ll) /\ Rng(ll) = Rng(l) \ {k}
    BY <1>3, <1>4, EraseFacts
<1>6. list' = [list EXCEPT ![h] = RemoveFirst(@, k)] /\ served' = served \ {k}
    BY <1>1 DEF DropNode
<1>7. /\ list' \in [Hosts -> Seq(Socks)] /\ list'[h] = ll
      /\ \A o \in Hosts : o # h => list'[o] = list[o]
    BY <1>2, <1>3, <1>5, <1>6 DEF Placed
<1>8. ASSUME NEW o \in Hosts
      PROVE  /\ Injective(list'[o])
             /\ Rng(list'[o]) = IF o = h THEN Rng(list[o]) \ {k} ELSE Rng(list[o])
    BY <1>2, <1>5, <1>7 DEF Placed
<1>9. Nodes' = Nodes \ {k}
    BY <1>6 DEF Placed, Nodes
<1>10. NodeServed'
  <2>1. \A o \in Hosts : Rng(list[o]) = {n \in Nodes : Host(n) = o}
    BY DEF Placed, NodeServed, Nodes
  <2>2. \A o \in Hosts : Rng(list'[o]) = {n \in Nodes' : Host(n) = o}
    BY <1>1, <1>8, <1>9, <2>1
  <2> QED
    BY <2>2 DEF NodeServed, Nodes, Host
<1>11. HostAlive'
  <2>1. \A n \in Nodes : Host(n) \in g_host_list /\ n \in Rng(list[Host(n)])
    BY DEF Placed, HostAlive, Nodes
  <2>2. \A n \in Nodes' : Host(n) \in g_host_list' /\ n \in Rng(list'[Host(n)])
    BY <1>1, <1>8, <1>9, <2>1 DEF Placed
  <2> QED
    BY <2>2 DEF HostAlive, Nodes, Host
<1>12. /\ Injective(g_enqueue_list1') /\ Injective(g_dequeue_list1')
       /\ UNCHANGED <<Rng(g_enqueue_list1), Rng(g_dequeue_list1)>>
    BY DEF Placed
<1>13. /\ served' \cap Rng(g_dequeue_list1') = {} /\ served' \subseteq Socks
       /\ (Rng(g_enqueue_list1') \cup (g_enqueue_list' \ answering')) \cap Nodes' = {}
       /\ \A n \in Nodes' : n[1] \in Stubs
    BY <1>6, <1>9, <1>12 DEF Placed
<1> QED
    BY <1>7, <1>8, <1>10, <1>11, <1>12, <1>13 DEF Placed

\* ev_scanwork takes a host only when its list is empty.
LEMMA HostExpiresPlaced ==
    ASSUME Placed, NEW h \in Hosts, HostExpires(h)
    PROVE  Placed'
<1>1. /\ list[h] = <<>> /\ g_host_list' = g_host_list \ {h}
      /\ UNCHANGED <<g_enqueue_list1, g_enqueue_list, answering, g_dequeue_list1, served,
                     list>>
    BY DEF HostExpires, conns, nodes
<1>2. UNCHANGED <<Nodes, Rng(g_enqueue_list1), Rng(g_dequeue_list1)>>
    BY <1>1 DEF Nodes
<1>3. Rng(list[h]) = {}
    BY <1>1 DEF Rng
<1>4. NodeServed'
    BY <1>1 DEF Placed, NodeServed, Host
<1>5. HostAlive'
    BY <1>1, <1>3 DEF Placed, HostAlive, Host
<1>6. /\ Injective(g_enqueue_list1') /\ Injective(g_dequeue_list1')
      /\ \A o \in Hosts : Injective(list'[o])
    BY <1>1 DEF Placed
<1> QED
    BY <1>1, <1>2, <1>4, <1>5, <1>6 DEF Placed

\* The daemon starts with nothing.
LEMMA EmptyPlaced ==
    ASSUME g_enqueue_list1 = <<>>, g_enqueue_list = {}, g_host_list = {},
           list = [h \in Hosts |-> <<>>], g_dequeue_list1 = <<>>, served = {},
           answering = {}
    PROVE  Placed
<1>1. <<>> \in Seq(Socks) /\ Rng(<<>>) = {} /\ Injective(<<>>)
    BY EmptyFacts
<1>2. Nodes = {} /\ \A h \in Hosts : Rng(list[h]) = {}
    BY <1>1 DEF Nodes
<1>3. HostAlive /\ NodeServed
    BY <1>2 DEF HostAlive, NodeServed, Nodes
<1> QED
    BY <1>1, <1>2, <1>3 DEF Placed

LEMMA PlacedStep ==
    ASSUME Placed, [Next]_vars
    PROVE  Placed'
<1> DEFINE lists == <<g_enqueue_list1, g_enqueue_list, answering, g_dequeue_list1, served,
                      list, g_host_list>>
<1>1. CASE UNCHANGED lists
    BY <1>1, PlacedStutter
<1>2. ASSUME NEW k \in Socks, EnqHangup(k) PROVE Placed'
  <2>1. /\ k \in g_enqueue_list \ answering /\ g_enqueue_list' = g_enqueue_list \ {k}
        /\ UNCHANGED <<g_enqueue_list1, g_dequeue_list1, served, list, g_host_list,
                       answering>>
    BY <1>2 DEF EnqHangup, hosts, nodes
  <2>2. answering' = answering \ {k}
    BY <2>1
  <2> QED
    BY <2>1, <2>2, EnqLeavesPlaced
<1>3. ASSUME NEW k \in Socks, ListenDone(k) PROVE Placed'
  <2>1. /\ g_enqueue_list' = g_enqueue_list \ {k} /\ answering' = answering \ {k}
        /\ UNCHANGED <<g_enqueue_list1, g_dequeue_list1, served, list, g_host_list>>
    BY <1>3 DEF ListenDone, hosts
  <2> QED
    BY <2>1, EnqLeavesPlaced
<1>4. ASSUME NEW k \in Socks, DeliverTooEarly(k) \/ DeliverBreaks(k) \/ NodeLost(k)
      PROVE  Placed'
  <2>1. /\ k \in served /\ DropNode(k)
        /\ UNCHANGED <<g_enqueue_list1, g_enqueue_list, answering, g_dequeue_list1,
                       g_host_list>>
    BY <1>4 DEF DeliverTooEarly, DeliverBreaks, NodeLost, conns
  <2> QED
    BY <2>1, DropPlaced
<1>5. CASE Restart
  <2>1. /\ g_enqueue_list1' = <<>> /\ g_enqueue_list' = {} /\ g_host_list' = {}
        /\ list' = [h \in Hosts |-> <<>>] /\ g_dequeue_list1' = <<>> /\ served' = {}
        /\ answering' = {}
    BY <1>5 DEF Restart
  <2>2. <<>> \in Seq(Socks) /\ Rng(<<>>) = {} /\ Injective(<<>>)
    BY EmptyFacts
  <2>3. Nodes' = {} /\ \A h \in Hosts : Rng(list'[h]) = {}
    BY <2>1, <2>2 DEF Nodes
  <2>4. HostAlive' /\ NodeServed'
    BY <2>3 DEF HostAlive, NodeServed, Nodes
  <2> QED
    BY <2>1, <2>2, <2>3, <2>4 DEF Placed
<1>6. \A c : Break(c) => UNCHANGED lists
    BY DEF Break, conns, nodes, hosts
<1>7. \A h, f : SelectionExpires(h, f) => UNCHANGED lists
    BY DEF SelectionExpires, conns, nodes
<1>8. \A h, f : Select(h, f) \/ Reselect(h, f) \/ Unselect(h, f) => UNCHANGED lists
    BY DEF Select, Reselect, Unselect, conns, nodes
<1>9. \A k : Identify(k) \/ Deliver(k) => UNCHANGED lists
    BY DEF Identify, Deliver, conns, nodes, hosts
<1>10. EnqWait \/ DeqWait => UNCHANGED lists
    BY DEF EnqWait, DeqWait, conns, nodes, hosts
<1>11. UNCHANGED vars => UNCHANGED lists
    BY DEF vars, conns, nodes, hosts
<1> HIDE DEF lists
<1>12. CASE Threads
    BY <1>1, <1>10, <1>12, EnqTakePlaced, DeqTakePlaced DEF Threads
<1>13. CASE Scan
    BY <1>1, <1>7, <1>13, HostExpiresPlaced DEF Scan
<1>14. CASE \E c \in Clients : Connect(c) \/ Break(c)
    BY <1>1, <1>6, <1>14, ConnectPlaced
<1>15. CASE \E k \in Socks : Connection(k)
    BY <1>1, <1>2, <1>3, <1>4, <1>9, <1>15, ListenPlaced DEF Connection
<1>16. CASE \E h \in Hosts : Process(h)
    BY <1>1, <1>8, <1>16, SendEventPlaced DEF Process
<1> QED
    BY <1>1, <1>5, <1>11, <1>12, <1>13, <1>14, <1>15, <1>16 DEF Next

-----------------------------------------------------------------------------
(* The way of an event.                                                    *)

LEMMA FlowStutter ==
    ASSUME Flow, UNCHANGED <<fifo, unsent, got>>
    PROVE  Flow'
BY DEF Flow, Host

\* Each host gets an event over the first of its nodes, if that has room.
LEMMA SendEventFlow ==
    ASSUME Placed, Flow, NEW h \in Hosts, NEW f \in Folders, NEW e \in Events,
           SendEvent(h, f, e)
    PROVE  Flow'
<1>1. e \in unsent /\ unsent' = unsent \ {e} /\ UNCHANGED got
    BY DEF SendEvent
<1>2. CASE ~Connected(h)
  <2>1. UNCHANGED fifo
    BY <1>2 DEF SendEvent
  <2> QED
    BY <1>1, <2>1 DEF Flow, Host
<1>3. CASE Connected(h)
  <2>1. PICK T : T = Targets(h, f)
    OBVIOUS
  <2>2. PICK lost \in SUBSET ({FirstNode(o) : o \in T} \cap served) :
           fifo' = [k \in Socks |-> IF k \in {FirstNode(o) : o \in T} \ lost
                                          /\ Len(fifo[k]) < FifoMax
                                    THEN Append(fifo[k], e) ELSE fifo[k]]
    BY <1>3, <2>1 DEF SendEvent
  <2>3. PICK R : R = {k \in Socks : k \in {FirstNode(o) : o \in T} \ lost
                                     /\ Len(fifo[k]) < FifoMax}
    OBVIOUS
  <2>4. \A k \in R : (\E o \in T : k = FirstNode(o)) /\ Len(fifo[k]) < FifoMax
    BY <2>3
  <2>5. \A k \in Socks : fifo'[k] = IF k \in R THEN Append(fifo[k], e) ELSE fifo[k]
    BY <2>2, <2>3
  <2>6. \A o \in T : Host(FirstNode(o)) = o
    <3> SUFFICES ASSUME NEW o \in T PROVE Host(FirstNode(o)) = o
        OBVIOUS
    <3>1. o \in Hosts /\ list[o] # <<>>
        BY <2>1 DEF Targets, Placed
    <3>2. list[o] \in Seq(Socks) /\ Injective(list[o])
        BY <3>1 DEF Placed
    <3>3. FirstNode(o) \in Rng(list[o])
        BY <3>1, <3>2, TailFacts DEF FirstNode
    <3> QED
        BY <3>1, <3>3 DEF Placed, NodeServed
  <2>7. \A k, l \in R : Host(k) = Host(l) => k = l
    BY <2>4, <2>6
  <2>8. ASSUME NEW k \in Socks
        PROVE  /\ fifo'[k] \in Seq(Events) /\ Len(fifo'[k]) <= FifoMax /\ Injective(fifo'[k])
               /\ Rng(fifo'[k]) = IF k \in R THEN Rng(fifo[k]) \cup {e} ELSE Rng(fifo[k])
    <3>1. /\ fifo[k] \in Seq(Events) /\ Injective(fifo[k]) /\ e \notin Rng(fifo[k])
          /\ Len(fifo[k]) \in Nat /\ Len(fifo[k]) <= FifoMax
        BY <1>1 DEF Flow
    <3>2. CASE k \in R
      <4>1. Len(fifo[k]) < FifoMax /\ fifo'[k] = Append(fifo[k], e)
        BY <2>4, <2>5, <3>2
      <4>2. /\ Append(fifo[k], e) \in Seq(Events)
            /\ Len(Append(fifo[k], e)) = Len(fifo[k]) + 1
            /\ Rng(Append(fifo[k], e)) = Rng(fifo[k]) \cup {e}
            /\ Injective(Append(fifo[k], e))
        BY <3>1, AppendFacts
      <4>3. Len(fifo[k]) + 1 <= FifoMax
        BY <3>1, <4>1, HubAssumption
      <4> QED
        BY <3>2, <4>1, <4>2, <4>3
    <3>3. CASE k \notin R
        BY <2>5, <3>1, <3>3
    <3> QED
        BY <3>2, <3>3
  <2>9. fifo' \in [Socks -> Seq(Events)]
    BY <2>2, <2>8
  <2>10. \A k \in Socks : Rng(fifo'[k]) \cap unsent' = {}
    BY <1>1, <2>8 DEF Flow
  <2>11. \A k \in Socks : Rng(fifo'[k]) \cap got'[Host(k)] = {}
    BY <1>1, <2>8, SockFacts DEF Flow
  <2>12. ASSUME NEW k \in Socks, NEW l \in Socks, Host(k) = Host(l), k # l
         PROVE  Rng(fifo'[k]) \cap Rng(fifo'[l]) = {}
    <3>1. e \notin Rng(fifo[k]) /\ e \notin Rng(fifo[l])
          /\ Rng(fifo[k]) \cap Rng(fifo[l]) = {}
        BY <1>1, <2>12 DEF Flow
    <3>2. ~(k \in R /\ l \in R)
        BY <2>7, <2>12
    <3> QED
        BY <2>8, <3>1, <3>2
  <2>13. unsent' \subseteq Events /\ \A o \in Hosts : got'[o] \cap unsent' = {}
    BY <1>1 DEF Flow
  <2> QED
    BY <1>1, <2>8, <2>9, <2>10, <2>11, <2>12, <2>13 DEF Flow, Host
<1> QED
    BY <1>2, <1>3

\* An event leaves the queue of a connection for its host, with the rest of the
\* queue or without.
LEMMA DeliverFlow ==
    ASSUME Flow, NEW k \in Socks, fifo[k] # <<>>, NEW r \in Seq(Events),
           r = Tail(fifo[k]) \/ r = <<>>,
           fifo' = [fifo EXCEPT ![k] = r],
           got' = [got EXCEPT ![Host(k)] = @ \cup {Head(fifo[k])}],
           UNCHANGED unsent
    PROVE  Flow'
<1>1. PICK q : q = fifo[k]
    OBVIOUS
<1>2. PICK e : e = Head(q)
    OBVIOUS
<1>3. PICK h \in Hosts : h = Host(k)
    BY SockFacts
<1>4. q \in Seq(Events) /\ q # <<>> /\ Injective(q) /\ Len(q) \in Nat /\ Len(q) <= FifoMax
    BY <1>1 DEF Flow
<1>5. /\ e \in Events /\ e \in Rng(q) /\ Len(Tail(q)) = Len(q) - 1
      /\ Rng(Tail(q)) = Rng(q) \ {e} /\ Injective(Tail(q))
    BY <1>2, <1>4, TailFacts
<1>6. Rng(<<>>) = {} /\ Injective(<<>>) /\ Len(<<>>) = 0
    BY EmptyFacts
<1>7. Injective(r) /\ Rng(r) \subseteq Rng(q) \ {e}
    BY <1>1, <1>5, <1>6
<1>8. Len(r) <= FifoMax
    BY <1>1, <1>4, <1>5, <1>6, HubAssumption
<1>9. /\ fifo' \in [Socks -> Seq(Events)] /\ fifo'[k] = r
      /\ \A l \in Socks : l # k => fifo'[l] = fifo[l]
    BY DEF Flow
<1>10. /\ got' \in [Hosts -> SUBSET Events] /\ got'[h] = got[h] \cup {e}
       /\ \A o \in Hosts : o # h => got'[o] = got[o]
    BY <1>1, <1>2, <1>3, <1>5 DEF Flow
<1>11. ASSUME NEW l \in Socks
       PROVE  /\ Len(fifo'[l]) <= FifoMax /\ Injective(fifo'[l])
              /\ Rng(fifo'[l]) \subseteq Rng(fifo[l])
              /\ Rng(fifo'[l]) \cap got'[Host(l)] = {}
  <2>1. CASE l = k
    <3>1. Rng(q) \cap got[h] = {}
        BY <1>1, <1>3 DEF Flow
    <3> QED
        BY <1>1, <1>3, <1>7, <1>8, <1>9, <1>10, <2>1, <3>1
  <2>2. CASE l # k
    <3>1. /\ fifo'[l] = fifo[l] /\ Len(fifo[l]) <= FifoMax /\ Injective(fifo[l])
          /\ Rng(fifo[l]) \cap got[Host(l)] = {}
        BY <1>9, <2>2 DEF Flow
    <3>2. Host(l) \in Hosts
        BY SockFacts
    <3>3. Host(l) = h => e \notin Rng(fifo[l])
        BY <1>1, <1>3, <1>5, <2>2 DEF Flow
    <3> QED
        BY <1>10, <3>1, <3>2, <3>3
  <2> QED
    BY <2>1, <2>2
<1>12. \A o \in Hosts : got'[o] \cap unsent' = {}
  <2>1. e \notin unsent
    BY <1>1, <1>5 DEF Flow
  <2> QED
    BY <1>10, <2>1 DEF Flow
<1>13. \A l, m \in Socks : Host(l) = Host(m) /\ l # m => Rng(fifo'[l]) \cap Rng(fifo'[m]) = {}
    BY <1>11 DEF Flow
<1>14. \A l \in Socks : Rng(fifo'[l]) \cap unsent' = {}
    BY <1>11 DEF Flow
<1>15. unsent' \subseteq Events
    BY DEF Flow
<1> QED
    BY <1>9, <1>10, <1>11, <1>12, <1>13, <1>14, <1>15 DEF Flow, Host

\* A queue is dropped.
LEMMA DropFlow ==
    ASSUME Flow, NEW k \in Socks, fifo' = [fifo EXCEPT ![k] = <<>>], UNCHANGED <<unsent, got>>
    PROVE  Flow'
<1>1. <<>> \in Seq(Events) /\ Rng(<<>>) = {} /\ Injective(<<>>) /\ Len(<<>>) = 0
    BY EmptyFacts
<1>2. /\ fifo' \in [Socks -> Seq(Events)]
      /\ \A l \in Socks : fifo'[l] = IF l = k THEN <<>> ELSE fifo[l]
    BY <1>1 DEF Flow
<1>3. ASSUME NEW l \in Socks
      PROVE  /\ Len(fifo'[l]) <= FifoMax /\ Injective(fifo'[l])
             /\ Rng(fifo'[l]) \subseteq Rng(fifo[l])
    BY <1>1, <1>2, HubAssumption DEF Flow
<1>4. /\ \A l \in Socks : Rng(fifo'[l]) \cap unsent = {} /\ Rng(fifo'[l]) \cap got[Host(l)] = {}
      /\ \A l, m \in Socks :
             Host(l) = Host(m) /\ l # m => Rng(fifo'[l]) \cap Rng(fifo'[m]) = {}
    BY <1>3 DEF Flow
<1> QED
    BY <1>2, <1>3, <1>4 DEF Flow, Host

LEMMA FlowStep ==
    ASSUME Placed, Flow, [Next]_vars
    PROVE  Flow'
<1> DEFINE flow == <<fifo, unsent, got>>
<1>1. CASE UNCHANGED flow
    BY <1>1, FlowStutter
<1>2. ASSUME NEW k \in Socks, Deliver(k) PROVE Flow'
  <2>1. /\ fifo[k] # <<>> /\ fifo' = [fifo EXCEPT ![k] = Tail(@)]
        /\ got' = [got EXCEPT ![Host(k)] = @ \cup {Head(fifo[k])}] /\ UNCHANGED unsent
    BY <1>2 DEF Deliver
  <2>2. PICK r : r = Tail(fifo[k])
    OBVIOUS
  <2>3. r \in Seq(Events)
    BY <2>1, <2>2, TailFacts DEF Flow
  <2>4. fifo' = [fifo EXCEPT ![k] = r]
    BY <2>1, <2>2
  <2> QED
    BY <2>1, <2>2, <2>3, <2>4, DeliverFlow
<1>3. ASSUME NEW k \in Socks, DeliverBreaks(k) PROVE Flow'
  <2>1. /\ fifo[k] # <<>> /\ fifo' = [fifo EXCEPT ![k] = <<>>]
        /\ got' = [got EXCEPT ![Host(k)] = @ \cup {Head(fifo[k])}] /\ UNCHANGED unsent
    BY <1>3 DEF DeliverBreaks, DropNode
  <2>2. <<>> \in Seq(Events)
    BY EmptyFacts
  <2> QED
    BY <2>1, <2>2, DeliverFlow
<1>4. ASSUME NEW k \in Socks, DeliverTooEarly(k) \/ NodeLost(k) PROVE Flow'
  <2>1. fifo' = [fifo EXCEPT ![k] = <<>>] /\ UNCHANGED <<unsent, got>>
    BY <1>4 DEF DeliverTooEarly, NodeLost, DropNode, clients
  <2> QED
    BY <2>1, DropFlow
<1>5. CASE Restart
  <2>1. fifo' = [k \in Socks |-> <<>>] /\ UNCHANGED <<unsent, got>>
    BY <1>5 DEF Restart
  <2>2. <<>> \in Seq(Events) /\ Rng(<<>>) = {} /\ Injective(<<>>) /\ Len(<<>>) = 0
    BY EmptyFacts
  <2>3. fifo' \in [Socks -> Seq(Events)] /\ \A k \in Socks : fifo'[k] = <<>>
    BY <2>1, <2>2
  <2> QED
    BY <2>1, <2>2, <2>3, HubAssumption DEF Flow, Host
<1>6. \A c : Connect(c) \/ Break(c) => UNCHANGED flow
    BY DEF Connect, Break, nodes
<1>7. Scan => UNCHANGED flow
    BY DEF Scan, HostExpires, SelectionExpires, nodes, clients
<1>8. \A h, f : Select(h, f) \/ Reselect(h, f) \/ Unselect(h, f) => UNCHANGED flow
    BY DEF Select, Reselect, Unselect, nodes, clients
<1>9. \A k : EnqHangup(k) \/ Identify(k) \/ Listen(k) \/ ListenDone(k) => UNCHANGED flow
    BY DEF EnqHangup, Identify, Listen, ListenDone, nodes, clients
<1>10. Threads => UNCHANGED flow
    BY DEF Threads, EnqWait, DeqWait, EnqTake, DeqTake, nodes, clients
<1>11. UNCHANGED vars => UNCHANGED flow
    BY DEF vars, nodes, clients
<1> HIDE DEF flow
<1>12. CASE \E k \in Socks : Connection(k)
    BY <1>1, <1>2, <1>3, <1>4, <1>9, <1>12 DEF Connection
<1>13. CASE \E h \in Hosts : Process(h)
    BY <1>1, <1>8, <1>13, SendEventFlow DEF Process
<1> QED
    BY <1>1, <1>5, <1>6, <1>7, <1>10, <1>11, <1>12, <1>13 DEF Next

-----------------------------------------------------------------------------
(* The clients.                                                            *)

LEMMA CloseFacts ==
    ASSUME Clientele, NEW c \in Clients, Close(c)
    PROVE  /\ cur' \in [Clients -> Nat]
           /\ \A b \in Clients : cur'[b] \in 0..Generations[b]
           /\ ready' \subseteq {b \in Clients : cur'[b] # 0}
<1>1. \A b \in Clients : Generations[b] \in Nat
    BY HubAssumption
<1>2. cur \in [Clients -> Nat] /\ cur' = [cur EXCEPT ![c] = 0] /\ ready' = ready \ {c}
    BY DEF Clientele, Close
<1>3. /\ cur' \in [Clients -> Nat]
      /\ \A b \in Clients : cur'[b] = IF b = c THEN 0 ELSE cur[b]
    BY <1>2
<1>4. \A b \in Clients : cur'[b] \in 0..Generations[b]
    BY <1>1, <1>3 DEF Clientele
<1>5. ready' \subseteq {b \in Clients : cur'[b] # 0}
    BY <1>2, <1>3 DEF Clientele
<1> QED
    BY <1>3, <1>4, <1>5

LEMMA ClienteleStep ==
    ASSUME Placed, Clientele, [Next]_vars
    PROVE  Clientele'
<1> DEFINE side == <<hash, wants, cur, ready, ended>>
<1>1. CASE UNCHANGED side
    BY <1>1 DEF Clientele
<1>2. ASSUME NEW c \in Clients, Connect(c) PROVE Clientele'
  <2>1. PICK g \in 1..Generations[c] : cur' = [cur EXCEPT ![c] = g]
    BY <1>2 DEF Connect
  <2>2. UNCHANGED <<hash, wants, ready, ended>>
    BY <1>2 DEF Connect, hosts
  <2>3. Generations[c] \in Nat /\ g \in Nat /\ g # 0
    BY <2>1, HubAssumption
  <2>4. /\ cur' \in [Clients -> Nat]
        /\ \A b \in Clients : cur'[b] = IF b = c THEN g ELSE cur[b]
    BY <2>1, <2>3 DEF Clientele
  <2> QED
    BY <2>1, <2>2, <2>3, <2>4 DEF Clientele
<1>3. ASSUME NEW c \in Clients, Break(c) PROVE Clientele'
  <2>1. UNCHANGED <<hash, wants, ended>> /\ Close(c)
    BY <1>3 DEF Break, hosts
  <2> QED
    BY <2>1, CloseFacts DEF Clientele
<1>4. ASSUME NEW k \in Socks, Identify(k) \/ ListenDone(k) PROVE Clientele'
  <2>1. UNCHANGED <<hash, wants, cur, ended>>
    BY <1>4 DEF Identify, ListenDone, hosts
  <2>2. ready' \subseteq ready \cup {c \in {k[1]} : Alive(k)}
    BY <1>4 DEF Identify, ListenDone
  <2>3. k[1] \in Clients /\ k[2] # 0
    BY SockFacts, HubAssumption
  <2>4. \A c \in {k[1]} : Alive(k) => cur[c] # 0
    BY <2>3 DEF Alive
  <2> QED
    BY <2>1, <2>2, <2>3, <2>4 DEF Clientele
<1>5. ASSUME NEW k \in Socks, DeliverTooEarly(k) PROVE Clientele'
  <2>1. UNCHANGED <<hash, wants, ended>> /\ Close(k[1])
    BY <1>5 DEF DeliverTooEarly
  <2>2. k[1] \in Clients
    BY SockFacts
  <2> QED
    BY <2>1, <2>2, CloseFacts DEF Clientele
<1>6. ASSUME NEW k \in Socks, DeliverBreaks(k) PROVE Clientele'
  <2>1. /\ UNCHANGED <<hash, wants>> /\ Close(k[1]) /\ ended' = ended \cup {k[1]}
        /\ k \in served
    BY <1>6 DEF DeliverBreaks
  <2>2. k[1] \in Clients /\ k[1] \in Stubs
    BY <2>1, SockFacts DEF Placed, Nodes
  <2> QED
    BY <2>1, <2>2, CloseFacts DEF Clientele
<1>7. ASSUME NEW h \in Hosts, NEW f \in Folders,
             Select(h, f) \/ Reselect(h, f) \/ Unselect(h, f) \/ SelectionExpires(h, f)
      PROVE  Clientele'
  <2>1. UNCHANGED <<cur, ready, ended>>
    BY <1>7 DEF Select, Reselect, Unselect, SelectionExpires, clients
  <2>2. wants' \in [Hosts -> SUBSET Folders]
    BY <1>7 DEF Select, Reselect, Unselect, SelectionExpires, clients, Clientele
  <2>3. hash' \in [Hosts -> SUBSET Folders]
    <3>1. AddSelection(h, f) => hash' \in [Hosts -> SUBSET Folders]
        BY DEF AddSelection, Clientele
    <3>2. Unselect(h, f) => hash' \in [Hosts -> SUBSET Folders]
        BY DEF Unselect, Clientele
    <3>3. SelectionExpires(h, f) => hash' \in [Hosts -> SUBSET Folders]
        BY DEF SelectionExpires, Clientele
    <3> QED
        BY <1>7, <3>1, <3>2, <3>3 DEF Select, Reselect
  <2> QED
    BY <2>1, <2>2, <2>3 DEF Clientele
<1>8. ASSUME NEW h \in Hosts, HostExpires(h) PROVE Clientele'
  <2>1. UNCHANGED <<wants, cur, ready, ended>> /\ hash' = [hash EXCEPT ![h] = {}]
    BY <1>8 DEF HostExpires, clients
  <2> QED
    BY <2>1 DEF Clientele
<1>9. CASE Restart
  <2>1. /\ hash' = [h \in Hosts |-> {}] /\ cur' = [c \in Clients |-> 0] /\ ready' = {}
        /\ UNCHANGED <<wants, ended>>
    BY <1>9 DEF Restart
  <2> QED
    BY <2>1, HubAssumption DEF Clientele
<1>10. \A h, f, e : SendEvent(h, f, e) => UNCHANGED side
    BY DEF SendEvent
<1>11. \A k : EnqHangup(k) \/ Listen(k) \/ Deliver(k) \/ NodeLost(k) => UNCHANGED side
    BY DEF EnqHangup, Listen, Deliver, NodeLost, hosts, clients
<1>12. Threads => UNCHANGED side
    BY DEF Threads, EnqWait, DeqWait, EnqTake, DeqTake, hosts, clients
<1>13. UNCHANGED vars => UNCHANGED side
    BY DEF vars, hosts, clients
<1> HIDE DEF side
<1>14. CASE \E k \in Socks : Connection(k)
    BY <1>1, <1>4, <1>5, <1>6, <1>11, <1>14 DEF Connection
<1>15. CASE \E h \in Hosts : Process(h)
    BY <1>1, <1>7, <1>10, <1>15 DEF Process
<1>16. CASE Scan
    BY <1>7, <1>8, <1>16 DEF Scan
<1> QED
    BY <1>1, <1>2, <1>3, <1>9, <1>12, <1>13, <1>14, <1>15, <1>16 DEF Next

-----------------------------------------------------------------------------
(* The inductive invariant and what follows from it.                       *)

LEMMA InitInv == Init => IndInv
<1> SUFFICES ASSUME Init PROVE IndInv
    OBVIOUS
<1>1. Counted
    BY FS_EmptySet, HubAssumption DEF Init, Counted, EnqFree, DeqFree, NoThreads
<1>2. Placed
    BY EmptyPlaced DEF Init
<1>3. Flow
  <2>1. <<>> \in Seq(Events) /\ Rng(<<>>) = {} /\ Injective(<<>>) /\ Len(<<>>) = 0
    BY EmptyFacts
  <2>2. fifo \in [Socks -> Seq(Events)] /\ \A k \in Socks : fifo[k] = <<>>
    BY <2>1 DEF Init
  <2>3. /\ unsent \subseteq Events /\ got \in [Hosts -> SUBSET Events]
        /\ \A h \in Hosts : got[h] = {}
    BY DEF Init
  <2> QED
    BY <2>1, <2>2, <2>3, HubAssumption DEF Flow
<1>4. Clientele
    BY HubAssumption DEF Init, Clientele
<1> QED
    BY <1>1, <1>2, <1>3, <1>4 DEF IndInv

LEMMA Inductive == Spec => []IndInv
<1>1. IndInv /\ [Next]_vars => IndInv'
    BY CountedStep, PlacedStep, FlowStep, ClienteleStep DEF IndInv
<1> QED
    BY InitInv, <1>1, PTL DEF Spec

\* Every node of the event daemon is in the list of a host that exists, and has a
\* dequeue thread or a place in the queue for one; the threads are accounted for.
THEOREM NodesSoundCorrect == Spec => []NodesSound
<1>1. IndInv => NodesSound
  <2> SUFFICES ASSUME IndInv PROVE NodesSound
    OBVIOUS
  <2>1. /\ Rng(g_enqueue_list1) \subseteq Socks /\ Rng(g_dequeue_list1) \subseteq Socks
        /\ \A k \in Socks : Rng(fifo[k]) \subseteq Events
    BY InRng DEF IndInv, Placed, Flow
  <2>2. \A h \in Hosts : Rng(list[h]) \subseteq {k \in Socks : Host(k) = h}
    BY <2>1 DEF IndInv, Placed, NodeServed
  <2> QED
    BY <2>1, <2>2 DEF IndInv, Counted, Placed, Flow, Clientele, NodesSound, TypeOK
<1> QED
    BY <1>1, Inductive, PTL

\* An event reaches a host at most once, over whichever of its connections, and waits
\* for it in at most one queue until then.
THEOREM EventOnceCorrect == Spec => []EventOnce
<1>1. IndInv => EventOnce
  <2> SUFFICES ASSUME IndInv, NEW h \in Hosts, NEW e \in Events
               PROVE  Cardinality({k \in Socks : Host(k) = h /\ e \in Rng(fifo[k])})
                          + (IF e \in got[h] THEN 1 ELSE 0) <= 1
    BY DEF EventOnce
  <2>1. PICK K : K = {k \in Socks : Host(k) = h /\ e \in Rng(fifo[k])}
    OBVIOUS
  <2>2. \A k, l \in K : k = l
    BY <2>1 DEF IndInv, Flow
  <2>3. e \in got[h] => K = {}
    BY <2>1 DEF IndInv, Flow
  <2>4. CASE K = {}
    BY <2>1, <2>4, FS_EmptySet
  <2>5. CASE K # {}
    <3>1. PICK k : K = {k}
        BY <2>2, <2>5
    <3>2. Cardinality(K) = 1
        BY <3>1, FS_Singleton
    <3> QED
        BY <2>1, <2>3, <2>5, <3>2
  <2> QED
    BY <2>4, <2>5
<1> QED
    BY <1>1, Inductive, PTL

=============================================================================
